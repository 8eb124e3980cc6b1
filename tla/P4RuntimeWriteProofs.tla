------------------------ MODULE P4RuntimeWriteProofs ------------------------
(***************************************************************************)
(* Proofs about P4RuntimeWrite and WarmRestart, for any keys, tables,      *)
(* entries, limits and lengths of requests.                                *)
(*                                                                         *)
(* The inductive invariant follows a Write in progress: what its checks    *)
(* have established of the updates that go on (AcceptedArePassable); that  *)
(* between two chunks the channels are empty and both databases are the    *)
(* cache plus the updates reported OK (BetweenChunks); that during one the *)
(* channels hold nothing but the chunk or the answer to it, and the        *)
(* hardware what was carried out of it (DuringChunk); and which statuses   *)
(* are not final yet (StatusesToCome).  Once the response path has broken  *)
(* only the types and AcceptedArePassable are left.                        *)
(***************************************************************************)
EXTENDS WarmRestart, CollectionTheorems

\* Updates that may be sent, and what comes back of each.
Sendable == {u \in RequestUpdates : u.value # Untranslatable}
Answers == [key : Keys, code : {"OK", "FAILED", "ABORTED"}]

\* The types of all variables.
TypeInv ==
  /\ entity_cache \in Contents /\ app_db \in Contents /\ app_state_db \in Contents
  /\ utilization \in [{"total_weight", "total_members"} -> Int]
  /\ pc \in {"idle", "perform", "wait"}
  /\ batch \in Seq(RequestUpdates) /\ Len(batch) <= MaxBatch
  /\ statuses \in Seq(Codes)
  /\ accepted \in 0..Len(batch) /\ done \in 0..accepted
  /\ pc = "idle" => batch = <<>>
  /\ pc # "idle" => Len(statuses) = Len(batch) /\ batch # <<>>
  /\ pc = "wait" => done < accepted
  /\ requests \in [Tables -> Seq(Seq(Sendable))]
  /\ responses \in [Tables -> Seq(Seq(Answers))]
  /\ critical \in BOOLEAN

\* What PiEntityUpdatesToIr has established: updates that go to the lower
\* layers are translatable and have different keys.
AcceptedArePassable ==
  /\ \A i \in 1..accepted : batch[i].value # Untranslatable
  /\ \A i, j \in 1..accepted : batch[i].key = batch[j].key => i = j

\* OrchAgent's answer to a chunk of which it carried out the first n.
AnswerTo(us, n) ==
  [i \in DOMAIN us |-> [key  |-> us[i].key,
                        code |-> IF i <= n THEN "OK" ELSE IF i = n + 1 THEN "FAILED" ELSE "ABORTED"]]

\* How many updates of the chunk OrchAgent has carried out: none before it
\* answers.
CarriedOut(n) ==
  \/ n = 0 /\ requests[ChunkTable] = <<ChunkUpdates>> /\ responses[ChunkTable] = <<>>
  \/ requests[ChunkTable] = <<>> /\ responses[ChunkTable] = <<AnswerTo(ChunkUpdates, n)>>

\* The first n updates of those performed so far succeeded, the next failed.
OkSoFar(n) ==
  /\ \A i \in 1..n : statuses[i] = "OK"
  /\ n < done => /\ done = accepted /\ statuses[n + 1] \notin {"OK", "ABORTED"}
                 /\ \A i \in (n + 2)..accepted : statuses[i] = "ABORTED"

\* contents is the cache with the first m updates of the batch made.
CacheWith(contents, m) ==
  /\ \A i \in 1..m : contents[batch[i].key] = batch[i].value
  /\ \A k \in Keys : (\A i \in 1..m : batch[i].key # k) => contents[k] = entity_cache[k]

\* Updates yet to be performed have no error, those that were not accepted do.
StatusesToCome ==
  /\ \A i \in (done + 1)..accepted : statuses[i] = "OK"
  /\ accepted < Len(batch) => statuses[accepted + 1] \notin {"OK", "ABORTED"}
  /\ \A i \in (accepted + 2)..Len(batch) : statuses[i] = "ABORTED"

\* Between two chunks, and between two requests: the channels are empty, and
\* both databases have the updates that were reported OK, and no others.
BetweenChunks ==
  /\ \A t \in Tables : requests[t] = <<>> /\ responses[t] = <<>>
  /\ app_db = app_state_db
  /\ \E n \in 0..done : OkSoFar(n) /\ CacheWith(app_state_db, n)

\* While a chunk is waited for: nothing but it or its answer is in a channel,
\* and the hardware has what was carried out of it; an entry of another table
\* than P4RT is in APPL_DB already.
DuringChunk ==
  /\ \A t \in Tables \ {ChunkTable} : requests[t] = <<>> /\ responses[t] = <<>>
  /\ app_db = IF ChunkTable = "P4RT" THEN app_state_db ELSE Applied(app_state_db, ChunkUpdates)
  /\ \A i \in 1..done : statuses[i] = "OK"
  /\ \E n \in 0..Cardinality(Chunk) : CarriedOut(n) /\ CacheWith(app_state_db, done + n)

InStep ==
  /\ pc # "wait" => BetweenChunks
  /\ pc = "wait" => DuringChunk
  /\ pc # "idle" => StatusesToCome
  /\ ReportsFirstFailure

IndInv == TypeInv /\ AcceptedArePassable /\ (~critical => InStep)

-----------------------------------------------------------------------------
(* Sequences and smallest numbers.                                         *)

\* Min gives the smallest member.
LEMMA MinOfSet ==
  ASSUME NEW S, S # {}, NEW n \in Nat, S \subseteq 0..n
  PROVE  Min(S) \in S /\ \A k \in S : Min(S) <= k
  BY LeastMember DEF Min

-----------------------------------------------------------------------------
(* The chunk.                                                              *)

\* A chunk is the next updates up to some e, one of them unless all are P4RT's.
LEMMA ChunkIs ==
  ASSUME TypeInv, done < accepted
  PROVE  \E e \in (done + 1)..accepted :
           /\ Chunk = (done + 1)..e
           /\ Cardinality(Chunk) = e - done
           /\ Max(Chunk) = e
           /\ ChunkTable # "P4RT" => e = done + 1
  <1>1. accepted \in Nat /\ done \in Nat /\ done + 1 \in Nat
    BY LenProperties DEF TypeInv
  <1>2. \E e \in (done + 1)..accepted : Chunk = (done + 1)..e /\ (ChunkTable # "P4RT" => e = done + 1)
    <2>1. CASE InTable(done + 1) # "P4RT"
      <3>1. Chunk = (done + 1)..(done + 1)
        BY <1>1, <2>1 DEF Chunk
      <3> QED BY <1>1, <3>1
    <2>2. CASE InTable(done + 1) = "P4RT"
      <3> DEFINE S == {j \in (done + 1)..accepted : InTable(j) # "P4RT"} \cup {accepted + 1}
      <3>1. S # {} /\ accepted + 1 \in Nat /\ S \subseteq 0..(accepted + 1)
        BY <1>1
      <3>2. PICK m \in S : \A k \in S : m <= k
        <4> HIDE DEF S
        <4> QED BY <3>1, LeastMember
      <3>3. m \in (done + 2)..(accepted + 1)
        BY <1>1, <2>2, <3>2
      <3>4. \A j \in (done + 1)..(m - 1) : j \notin S /\ j \in (done + 1)..accepted
        <4>1. \A j \in (done + 1)..(m - 1) : ~(m <= j)
          BY <1>1, <3>3
        <4> HIDE DEF S
        <4> QED BY <1>1, <3>2, <3>3, <4>1
      <3>5. \A j \in (done + 1)..(m - 1) : InTable(j) = "P4RT"
        BY <3>4
      <3>6. m <= accepted => InTable(m) # "P4RT"
        BY <1>1, <3>2
      <3>7. Chunk = (done + 1)..(m - 1)
        <4>1. Chunk = {i \in (done + 1)..accepted : \A j \in (done + 1)..i : InTable(j) = "P4RT"}
          BY <2>2 DEF Chunk
        <4>2. ASSUME NEW i \in (done + 1)..(m - 1)
              PROVE  i \in (done + 1)..accepted /\ \A j \in (done + 1)..i : InTable(j) = "P4RT"
          BY <1>1, <3>3, <3>5
        <4>3. ASSUME NEW i \in (done + 1)..accepted, \A j \in (done + 1)..i : InTable(j) = "P4RT"
              PROVE  i \in (done + 1)..(m - 1)
          <5>1. CASE i >= m
            <6>1. m \in (done + 1)..i /\ m <= accepted
              BY <1>1, <3>3, <5>1
            <6> QED BY <3>6, <4>3, <6>1
          <5>2. CASE ~(i >= m)
            BY <1>1, <3>3, <5>2
          <5> QED BY <5>1, <5>2
        <4> QED BY <4>1, <4>2, <4>3
      <3>8. m - 1 \in (done + 1)..accepted
        BY <1>1, <3>3
      <3> QED BY <2>2, <3>7, <3>8 DEF ChunkTable
    <2> QED BY <2>1, <2>2
  <1>3. PICK e \in (done + 1)..accepted : Chunk = (done + 1)..e /\ (ChunkTable # "P4RT" => e = done + 1)
    BY <1>2
  <1>4. Cardinality((done + 1)..e) = e - (done + 1) + 1
    <2>1. done + 1 \in Int /\ e \in Int /\ done + 1 <= e
      BY <1>1
    <2> QED BY <2>1, FS_Interval
  <1>5. Max((done + 1)..e) = e
    <2>1. e \in (done + 1)..e /\ \A y \in (done + 1)..e : e >= y
      BY <1>1
    <2>2. \A x \in (done + 1)..e : (\A y \in (done + 1)..e : x >= y) => x = e
      BY <1>1
    <2> QED BY <2>1, <2>2 DEF Max
  <1> QED BY <1>1, <1>3, <1>4, <1>5

\* A chunk is sent as it stands in the batch, and can be sent.
LEMMA ChunkUpdatesAre ==
  ASSUME TypeInv, AcceptedArePassable, done < accepted
  PROVE  /\ ChunkUpdates \in Seq(Sendable)
         /\ Len(ChunkUpdates) = Cardinality(Chunk)
         /\ Cardinality(Chunk) \in 1..(accepted - done)
         /\ Chunk = (done + 1)..(done + Cardinality(Chunk))
         /\ \A i \in 1..Cardinality(Chunk) : ChunkUpdates[i] = batch[done + i]
         /\ ChunkTable \in Tables
  <1>1. PICK e \in (done + 1)..accepted : Chunk = (done + 1)..e /\ Cardinality(Chunk) = e - done
    BY ChunkIs
  <1>2. accepted \in Nat /\ done \in Nat /\ accepted <= Len(batch) /\ Len(batch) \in Nat
    BY LenProperties DEF TypeInv
  <1>3. e - done \in 1..(accepted - done) /\ done + (e - done) = e /\ e - done \in Nat
    BY <1>2
  <1>4. \A i \in 1..(e - done) : batch[done + i] \in Sendable
    <2> SUFFICES ASSUME NEW i \in 1..(e - done) PROVE batch[done + i] \in Sendable
      OBVIOUS
    <2>1. done + i \in 1..accepted /\ done + i \in 1..Len(batch)
      BY <1>2, <1>3
    <2>2. batch[done + i] \in RequestUpdates
      BY <2>1, ElementOfSeq DEF TypeInv
    <2> QED BY <2>1, <2>2 DEF AcceptedArePassable, Sendable
  <1>5. ChunkUpdates = [i \in 1..(e - done) |-> batch[done + i]]
    BY <1>1 DEF ChunkUpdates
  <1>6. ChunkUpdates \in [1..(e - done) -> Sendable]
    BY <1>4, <1>5
  <1>7. ChunkUpdates \in Seq(Sendable) /\ Len(ChunkUpdates) = e - done
    BY <1>3, <1>6, FunctionIsSeq
  <1>8. ChunkTable \in Tables
    <2>1. done + 1 \in 1..Len(batch)
      BY <1>2
    <2>2. batch[done + 1] \in Updates
      BY <2>1, ElementOfSeq, WriteConstants DEF TypeInv
    <2>3. batch[done + 1].key \in Keys
      BY <2>2 DEF Updates
    <2> QED BY <2>3, WriteConstants DEF ChunkTable, InTable
  <1> QED BY <1>1, <1>3, <1>5, <1>7, <1>8
\* The chunk is a matter of the batch and how much of it is done.
LEMMA ChunkUnchanged ==
  ASSUME UNCHANGED <<batch, accepted, done>>
  PROVE  /\ Chunk' = Chunk /\ ChunkTable' = ChunkTable /\ ChunkUpdates' = ChunkUpdates
         /\ Cardinality(Chunk)' = Cardinality(Chunk)
  <1>1. Chunk' = Chunk
    BY DEF Chunk, InTable
  <1> QED BY <1>1 DEF ChunkTable, ChunkUpdates, InTable

-----------------------------------------------------------------------------
(* The contents of the databases.                                          *)

\* An update that can be sent writes an entry or deletes it.
LEMMA SendableIs ==
  ASSUME NEW u \in Sendable
  PROVE  u.key \in Keys /\ u.value \in Values \cup {Absent}
  BY WriteConstants DEF Sendable, Updates

\* Carrying out updates keeps the type of a database.
LEMMA AppliedType ==
  ASSUME NEW contents \in Contents, NEW us \in Seq(Sendable)
  PROVE  Applied(contents, us) \in Contents
  <1>1. \A i \in DOMAIN us : us[i].value \in Values \cup {Absent}
    BY SendableIs, ElementOfSeq, LenProperties
  <1> QED BY <1>1 DEF Applied, Contents

\* Carrying out updates of different keys makes each entry what its update
\* says and leaves the others alone.
LEMMA AppliedIs ==
  ASSUME NEW contents \in Contents, NEW us \in Seq(Sendable),
         \A i, j \in DOMAIN us : us[i].key = us[j].key => i = j
  PROVE  /\ \A i \in DOMAIN us : Applied(contents, us)[us[i].key] = us[i].value
         /\ \A k \in Keys : (\A i \in DOMAIN us : us[i].key # k)
                              => Applied(contents, us)[k] = contents[k]
  <1>1. \A i \in DOMAIN us : us[i].key \in Keys
    BY SendableIs, ElementOfSeq, LenProperties
  <1>2. ASSUME NEW i \in DOMAIN us
        PROVE  Applied(contents, us)[us[i].key] = us[i].value
    <2> DEFINE j == CHOOSE j \in DOMAIN us : us[j].key = us[i].key
    <2>1. j \in DOMAIN us /\ us[j].key = us[i].key
      OBVIOUS
    <2>2. j = i
      BY <2>1
    <2>3. Applied(contents, us)[us[i].key] = us[j].value
      BY <1>1 DEF Applied
    <2> QED BY <2>2, <2>3
  <1> QED BY <1>2 DEF Applied

-----------------------------------------------------------------------------
(* PiEntityUpdatesToIr.                                                    *)

\* A request is a sequence of updates, at least one.
LEMMA BatchIs ==
  ASSUME NEW b \in Batches
  PROVE  /\ b \in Seq(RequestUpdates) /\ Len(b) \in 1..MaxBatch /\ DOMAIN b = 1..Len(b) /\ b # <<>>
  <1>1. PICK n \in 1..MaxBatch : b \in [1..n -> RequestUpdates]
    BY DEF Batches
  <1>2. n \in Nat
    BY WriteConstants
  <1>3. b \in Seq(RequestUpdates) /\ Len(b) = n
    BY <1>1, <1>2, FunctionIsSeq
  <1> QED BY <1>1, <1>3, LenProperties

\* The checks give a code, and never ABORTED.
LEMMA CheckUpdateIs ==
  ASSUME NEW b, NEW i
  PROVE  /\ CheckUpdate(b, i) \in Codes \ {"ABORTED"}
         /\ CheckUpdate(b, i) = "OK" => Translates(b[i]) /\ ~DuplicateKey(b, i)
  BY DEF CheckUpdate, VerifyEntityCacheForExistence, VerifyCapacity, Codes

\* Every update before the first rejected one passes, and that one does not.
LEMMA FirstRejectedIs ==
  ASSUME NEW b \in Batches
  PROVE  /\ FirstRejected(b) \in 1..(Len(b) + 1)
         /\ \A i \in 1..(FirstRejected(b) - 1) : CheckUpdate(b, i) = "OK"
         /\ FirstRejected(b) <= Len(b) => CheckUpdate(b, FirstRejected(b)) # "OK"
  <1> DEFINE S == {i \in DOMAIN b : CheckUpdate(b, i) # "OK"} \cup {Len(b) + 1}
             f == FirstRejected(b)
  <1>1. Len(b) \in Nat /\ DOMAIN b = 1..Len(b)
    BY BatchIs, WriteConstants
  <1>2. S # {} /\ Len(b) + 1 \in Nat /\ S \subseteq 0..(Len(b) + 1)
    BY <1>1
  <1>3. f \in S /\ \A k \in S : f <= k
    <2>1. Min(S) \in S /\ \A k \in S : Min(S) <= k
      <3> HIDE DEF S
      <3> QED BY <1>2, MinOfSet
    <2> QED BY <2>1 DEF FirstRejected
  <1> HIDE DEF f
  <1>4. f \in 1..(Len(b) + 1)
    BY <1>1, <1>3
  <1>5. ASSUME NEW i \in 1..(f - 1) PROVE CheckUpdate(b, i) = "OK"
    <2>1. ~(f <= i) /\ i \in DOMAIN b
      BY <1>1, <1>4
    <2> QED BY <1>3, <2>1
  <1>6. f <= Len(b) => CheckUpdate(b, f) # "OK"
    BY <1>1, <1>3
  <1> QED BY <1>4, <1>5, <1>6 DEF f

\* What goes on to the lower layers, and the statuses so far.
LEMMA ChecksOfBatch ==
  ASSUME NEW b \in Batches
  PROVE  LET a == AcceptedUpdates(b)
             s == InitialStatuses(b)
         IN  /\ a \in 0..Len(b)
             /\ \A i \in 1..a : CheckUpdate(b, i) = "OK"
             /\ s \in Seq(Codes) /\ Len(s) = Len(b)
             /\ \A i \in 1..a : s[i] = "OK"
             /\ a < Len(b) => s[a + 1] \notin {"OK", "ABORTED"}
             /\ \A i \in (a + 2)..Len(b) : s[i] = "ABORTED"
  <1> DEFINE f == FirstRejected(b)
             n == Len(b)
             s == InitialStatuses(b)
             a == AcceptedUpdates(b)
  <1>1. n \in Nat /\ DOMAIN b = 1..n /\ n >= 1
    BY BatchIs, WriteConstants
  <1>2. /\ f \in 1..(n + 1)
        /\ \A i \in 1..(f - 1) : CheckUpdate(b, i) = "OK"
        /\ f <= n => CheckUpdate(b, f) # "OK"
    BY FirstRejectedIs
  <1>3. \A i : CheckUpdate(b, i) \in Codes \ {"ABORTED"}
    BY CheckUpdateIs
  <1>4. CASE HasDuplicates(b)
    <2>1. a = 0 /\ s = [i \in 1..n |-> IF i = 1 THEN "INVALID_ARGUMENT" ELSE "ABORTED"]
      BY <1>1, <1>4 DEF AcceptedUpdates, InitialStatuses
    <2>2. s \in [1..n -> Codes]
      BY <2>1 DEF Codes
    <2>3. s \in Seq(Codes) /\ Len(s) = n
      <3> HIDE DEF s
      <3> QED BY <1>1, <2>2, FunctionIsSeq
    <2> HIDE DEF f, n, s, a
    <2>4. a \in 0..n /\ 1..a = {} /\ s[a + 1] \notin {"OK", "ABORTED"} /\ \A i \in (a + 2)..n : s[i] = "ABORTED"
      BY <1>1, <2>1
    <2> QED BY <2>3, <2>4 DEF f, n, s, a
  <1>5. CASE ~HasDuplicates(b)
    <2>1. a = f - 1 /\ s = [i \in 1..n |-> IF i <= f THEN CheckUpdate(b, i) ELSE "ABORTED"]
      BY <1>1, <1>5 DEF AcceptedUpdates, InitialStatuses
    <2>2. s \in [1..n -> Codes]
      BY <1>3, <2>1 DEF Codes
    <2>3. s \in Seq(Codes) /\ Len(s) = n
      <3> HIDE DEF s
      <3> QED BY <1>1, <2>2, FunctionIsSeq
    <2> HIDE DEF f, n, s, a
    <2>4. a \in 0..n /\ a + 1 = f
      BY <1>1, <1>2, <2>1
    <2>5. \A i \in 1..a : CheckUpdate(b, i) = "OK" /\ s[i] = "OK"
      BY <1>1, <1>2, <2>1, <2>4
    <2>6. a < n => s[a + 1] \notin {"OK", "ABORTED"}
      BY <1>1, <1>2, <1>3, <2>1, <2>4
    <2>7. \A i \in (a + 2)..n : s[i] = "ABORTED"
      BY <1>1, <1>2, <2>1, <2>4
    <2> QED BY <2>3, <2>4, <2>5, <2>6, <2>7 DEF f, n, s, a
  <1> QED BY <1>4, <1>5
-----------------------------------------------------------------------------
(* The inductive invariant holds initially and is preserved.               *)

\* The process starts with an empty switch.
LEMMA InitInv == Init => IndInv
  <1> SUFFICES ASSUME Init PROVE IndInv
    OBVIOUS
  <1>1. TypeInv
    <2>1. entity_cache \in Contents /\ app_db \in Contents /\ app_state_db \in Contents
      BY DEF Init, Contents
    <2>2. utilization \in [{"total_weight", "total_members"} -> Int]
      BY DEF Init
    <2>3. batch \in Seq(RequestUpdates) /\ Len(batch) = 0 /\ statuses \in Seq(Codes) /\ batch = <<>>
      BY DEF Init
    <2>4. requests \in [Tables -> Seq(Seq(Sendable))] /\ responses \in [Tables -> Seq(Seq(Answers))]
      BY DEF Init
    <2>5. Len(batch) <= MaxBatch /\ accepted \in 0..Len(batch) /\ done \in 0..accepted
      BY <2>3, WriteConstants DEF Init
    <2>6. pc = "idle" /\ critical \in BOOLEAN
      BY DEF Init
    <2> QED BY <2>1, <2>2, <2>3, <2>4, <2>5, <2>6 DEF TypeInv
  <1>2. AcceptedArePassable
    BY DEF Init, AcceptedArePassable
  <1>3. InStep
    <2>1. BetweenChunks
      BY DEF Init, BetweenChunks, OkSoFar, CacheWith
    <2>2. ReportsFirstFailure
      BY DEF Init, ReportsFirstFailure
    <2> QED BY <2>1, <2>2 DEF Init, InStep
  <1> QED BY <1>1, <1>2, <1>3 DEF IndInv

\* Between requests nothing is left of the last one.
LEMMA IdleIs ==
  ASSUME TypeInv, pc = "idle"
  PROVE  batch = <<>> /\ accepted = 0 /\ done = 0
  BY DEF TypeInv

\* Between requests the databases are the cache.
LEMMA IdleContents ==
  ASSUME IndInv, pc = "idle", ~critical
  PROVE  app_db = app_state_db /\ entity_cache = app_state_db
  <1>1. app_db = app_state_db /\ CacheWith(app_state_db, 0)
    BY IdleIs DEF IndInv, InStep, BetweenChunks
  <1>2. \A k \in Keys : app_state_db[k] = entity_cache[k]
    BY <1>1 DEF CacheWith
  <1> QED BY <1>1, <1>2 DEF IndInv, TypeInv, Contents

\* A Write is checked.
LEMMA WriteInv ==
  ASSUME IndInv, NEW b \in Batches, Write(b)
  PROVE  IndInv'
  <1> DEFINE a == AcceptedUpdates(b)
             s == InitialStatuses(b)
  <1>0. UNCHANGED <<entity_cache, utilization, app_db, app_state_db, requests, responses, critical>>
    BY DEF Write
  <1>1. /\ pc = "idle" /\ pc' = "perform" /\ batch' = b /\ statuses' = s
        /\ accepted' = a /\ done' = 0
    BY DEF Write
  <1>2. /\ b \in Seq(RequestUpdates) /\ Len(b) \in Nat /\ Len(b) <= MaxBatch /\ b # <<>>
    BY BatchIs, WriteConstants
  <1>3. /\ a \in 0..Len(b)
        /\ \A i \in 1..a : CheckUpdate(b, i) = "OK"
        /\ s \in Seq(Codes) /\ Len(s) = Len(b)
        /\ \A i \in 1..a : s[i] = "OK"
        /\ a < Len(b) => s[a + 1] \notin {"OK", "ABORTED"}
        /\ \A i \in (a + 2)..Len(b) : s[i] = "ABORTED"
    BY ChecksOfBatch
  <1> HIDE DEF a, s
  <1>4. TypeInv'
    BY <1>0, <1>1, <1>2, <1>3 DEF IndInv, TypeInv
  <1>5. AcceptedArePassable'
    <2>1. \A i \in 1..a : Translates(b[i]) /\ ~DuplicateKey(b, i)
      BY <1>3, CheckUpdateIs
    <2>2. \A i \in 1..a : b[i].value # Untranslatable
      BY <2>1 DEF Translates
    <2>3. \A i, j \in 1..a : j < i => b[j].key # b[i].key
      BY <2>1 DEF DuplicateKey
    <2>4. \A i, j \in 1..a : b[i].key = b[j].key => i = j
      BY <1>2, <1>3, <2>3
    <2> QED BY <1>1, <2>2, <2>4 DEF AcceptedArePassable
  <1>6. ASSUME ~critical' PROVE InStep'
    <2>1. app_db = app_state_db /\ entity_cache = app_state_db
      BY <1>0, <1>1, <1>6, IdleContents
    <2>2. \A t \in Tables : requests[t] = <<>> /\ responses[t] = <<>>
      BY <1>0, <1>1, <1>6 DEF IndInv, InStep, BetweenChunks
    <2>3. OkSoFar(0)' /\ CacheWith(app_state_db, 0)'
      BY <1>0, <1>1, <2>1 DEF OkSoFar, CacheWith
    <2>4. BetweenChunks'
      BY <1>0, <1>1, <2>1, <2>2, <2>3 DEF BetweenChunks
    <2>5. StatusesToCome'
      BY <1>1, <1>2, <1>3 DEF StatusesToCome
    <2> QED BY <1>1, <2>4, <2>5 DEF InStep, ReportsFirstFailure
  <1> QED BY <1>4, <1>5, <1>6 DEF IndInv

\* A chunk is sent.
LEMMA SendChunkInv ==
  ASSUME IndInv, SendChunk
  PROVE  IndInv'
  <1>0. /\ UNCHANGED <<entity_cache, utilization, app_state_db, batch, statuses, accepted, done, critical>>
        /\ pc = "perform" /\ pc' = "wait" /\ done < accepted
        /\ requests' = [requests EXCEPT ![ChunkTable] = Append(@, ChunkUpdates)]
        /\ ChunkTable = "P4RT" => UNCHANGED <<responses, app_db>>
        /\ ChunkTable # "P4RT" => /\ responses' = [responses EXCEPT ![ChunkTable] = <<>>]
                                  /\ app_db' = Applied(app_db, ChunkUpdates)
    BY DEF SendChunk
  <1>1. /\ ChunkUpdates \in Seq(Sendable) /\ Cardinality(Chunk) \in Nat /\ ChunkTable \in Tables
        /\ Len(ChunkUpdates) = Cardinality(Chunk)
    BY <1>0, ChunkUpdatesAre, LenProperties DEF IndInv
  <1>2. /\ Chunk' = Chunk /\ ChunkTable' = ChunkTable /\ ChunkUpdates' = ChunkUpdates
        /\ Cardinality(Chunk)' = Cardinality(Chunk)
    BY <1>0, ChunkUnchanged
  <1>3. TypeInv'
    <2>1. requests' \in [Tables -> Seq(Seq(Sendable))]
      <3>1. requests \in [Tables -> Seq(Seq(Sendable))]
        BY DEF IndInv, TypeInv
      <3>2. Append(requests[ChunkTable], ChunkUpdates) \in Seq(Seq(Sendable))
        BY <1>1, <3>1, AppendProperties
      <3> QED BY <1>0, <1>1, <3>1, <3>2
    <2>2. responses' \in [Tables -> Seq(Seq(Answers))]
      <3>1. responses \in [Tables -> Seq(Seq(Answers))] /\ <<>> \in Seq(Seq(Answers))
        BY DEF IndInv, TypeInv
      <3> QED BY <1>0, <1>1, <3>1
    <2>3. app_db' \in Contents
      BY <1>0, <1>1, AppliedType DEF IndInv, TypeInv
    <2> QED BY <1>0, <2>1, <2>2, <2>3 DEF IndInv, TypeInv
  <1>4. AcceptedArePassable'
    BY <1>0 DEF IndInv, AcceptedArePassable
  <1>5. ASSUME ~critical' PROVE InStep'
    <2>1. BetweenChunks /\ StatusesToCome
      BY <1>0, <1>5 DEF IndInv, InStep
    <2>2. PICK n \in 0..done : OkSoFar(n) /\ CacheWith(app_state_db, n)
      BY <2>1 DEF BetweenChunks
    <2>3. n = done
      BY <1>0, <2>2 DEF OkSoFar, IndInv, TypeInv
    <2>4. requests[ChunkTable] = <<>> /\ responses[ChunkTable] = <<>>
      BY <1>1, <2>1 DEF BetweenChunks
    <2>5. requests'[ChunkTable] = <<ChunkUpdates>> /\ responses'[ChunkTable] = <<>>
      <3>1. Append(<<>>, ChunkUpdates) = <<ChunkUpdates>>
        OBVIOUS
      <3> QED BY <1>0, <1>1, <2>4, <3>1 DEF IndInv, TypeInv
    <2>6. CarriedOut(0)'
      BY <1>2, <2>5 DEF CarriedOut
    <2>7. CacheWith(app_state_db, done + 0)'
      BY <1>0, <2>2, <2>3 DEF CacheWith, IndInv, TypeInv
    <2>8. \A t \in Tables \ {ChunkTable} : requests'[t] = <<>> /\ responses'[t] = <<>>
      BY <1>0, <1>1, <2>1 DEF BetweenChunks, IndInv, TypeInv
    <2>9. app_db' = IF ChunkTable = "P4RT" THEN app_state_db ELSE Applied(app_state_db, ChunkUpdates)
      BY <1>0, <2>1 DEF BetweenChunks
    <2>10. DuringChunk'
      <3>1. \A i \in 1..done : statuses[i] = "OK"
        BY <2>2, <2>3 DEF OkSoFar
      <3>2. Applied(app_state_db, ChunkUpdates)' = Applied(app_state_db, ChunkUpdates)
        BY <1>0, <1>2 DEF Applied
      <3>3. 0 \in 0..Cardinality(Chunk)'
        BY <1>1, <1>2
      <3>4. \A t \in (Tables \ {ChunkTable})' : requests'[t] = <<>> /\ responses'[t] = <<>>
        BY <1>2, <2>8
      <3>5. app_db' = (IF ChunkTable = "P4RT" THEN app_state_db ELSE Applied(app_state_db, ChunkUpdates))'
        BY <1>0, <1>2, <2>9, <3>2
      <3> QED BY <1>0, <2>6, <2>7, <3>1, <3>3, <3>4, <3>5 DEF DuringChunk
    <2>11. StatusesToCome'
      BY <1>0, <2>1 DEF StatusesToCome
    <2> QED BY <1>0, <2>10, <2>11 DEF InStep, ReportsFirstFailure
  <1> QED BY <1>3, <1>4, <1>5 DEF IndInv
\* OrchAgent has carried out the first n updates of its request and answers.
LEMMA OrchAgentInv ==
  ASSUME IndInv, NEW t \in Tables, NEW n \in 0..MaxBatch, OrchAgent(t, n)
  PROVE  IndInv'
  <1> DEFINE us == Head(requests[t])
             ok == SubSeq(us, 1, n)
  <1>0. /\ UNCHANGED <<entity_cache, utilization, pc, batch, statuses, accepted, done, critical>>
        /\ requests[t] # <<>> /\ n <= Len(us)
        /\ app_state_db' = Applied(app_state_db, ok)
        /\ app_db' = IF t = "P4RT" THEN Applied(app_db, ok) ELSE app_db
        /\ responses' = [responses EXCEPT ![t] = Append(@, AnswerTo(us, n))]
        /\ requests' = [requests EXCEPT ![t] = Tail(@)]
    BY DEF OrchAgent, AnswerTo
  <1>1. n \in Nat
    BY WriteConstants
  <1>2. us \in Seq(Sendable) /\ Tail(requests[t]) \in Seq(Seq(Sendable)) /\ Len(us) \in Nat /\ DOMAIN us = 1..Len(us)
    <2>1. requests[t] \in Seq(Seq(Sendable))
      BY DEF IndInv, TypeInv
    <2>2. us \in Seq(Sendable) /\ Tail(requests[t]) \in Seq(Seq(Sendable))
      BY <1>0, <2>1, HeadTailProperties
    <2> QED BY <2>2, LenProperties
  <1> HIDE DEF us
  <1>3. ok \in Seq(Sendable) /\ Len(ok) = n /\ DOMAIN ok = 1..n /\ \A i \in 1..n : ok[i] = us[i]
    <2>1. \A i \in 1..n : us[i] \in Sendable
      BY <1>0, <1>1, <1>2, ElementOfSeq
    <2>2. /\ ok \in Seq(Sendable)
          /\ Len(ok) = IF 1 <= n THEN n - 1 + 1 ELSE 0
          /\ \A i \in 1..(n - 1 + 1) : ok[i] = us[1 + i - 1]
      BY <1>1, <2>1, SubSeqProperties
    <2> HIDE DEF ok
    <2>3. Len(ok) = n /\ \A i \in 1..n : ok[i] = us[i]
      BY <1>1, <2>2
    <2> QED BY <2>2, <2>3, LenProperties
  <1> HIDE DEF ok
  <1>4. TypeInv'
    <2>1. requests' \in [Tables -> Seq(Seq(Sendable))]
      <3>1. requests \in [Tables -> Seq(Seq(Sendable))]
        BY DEF IndInv, TypeInv
      <3> QED BY <1>0, <1>2, <3>1
    <2>2. responses' \in [Tables -> Seq(Seq(Answers))]
      <3>1. responses \in [Tables -> Seq(Seq(Answers))]
        BY DEF IndInv, TypeInv
      <3>2. \A i \in 1..Len(us) : us[i].key \in Keys
        BY <1>2, ElementOfSeq, SendableIs
      <3>3. AnswerTo(us, n) \in [1..Len(us) -> Answers]
        BY <1>2, <3>2 DEF AnswerTo, Answers
      <3>4. AnswerTo(us, n) \in Seq(Answers)
        BY <1>2, <3>3, FunctionIsSeq
      <3>5. Append(responses[t], AnswerTo(us, n)) \in Seq(Seq(Answers))
        BY <3>1, <3>4, AppendProperties
      <3> QED BY <1>0, <3>1, <3>5
    <2>3. app_db' \in Contents /\ app_state_db' \in Contents
      BY <1>0, <1>3, AppliedType DEF IndInv, TypeInv
    <2> QED BY <1>0, <2>1, <2>2, <2>3 DEF IndInv, TypeInv
  <1>5. AcceptedArePassable'
    BY <1>0 DEF IndInv, AcceptedArePassable
  <1>6. ASSUME ~critical' PROVE InStep'
    <2>1. InStep /\ AcceptedArePassable /\ TypeInv
      BY <1>0, <1>6 DEF IndInv
    <2>2. pc = "wait" /\ t = ChunkTable
      BY <1>0, <2>1 DEF InStep, BetweenChunks, DuringChunk
    <2>3. DuringChunk /\ StatusesToCome
      BY <2>1, <2>2 DEF InStep
    <2>4. done < accepted /\ done \in Nat /\ accepted \in Nat
      BY <2>1, <2>2, LenProperties DEF TypeInv
    <2>5. requests[t] = <<ChunkUpdates>> /\ responses[t] = <<>> /\ CacheWith(app_state_db, done)
      <3>1. PICK m \in 0..Cardinality(Chunk) : CarriedOut(m) /\ CacheWith(app_state_db, done + m)
        BY <2>3 DEF DuringChunk
      <3>2. m = 0 /\ requests[t] = <<ChunkUpdates>> /\ responses[t] = <<>>
        BY <1>0, <2>2, <3>1 DEF CarriedOut
      <3> QED BY <2>4, <3>1, <3>2
    <2>6. us = ChunkUpdates
      BY <2>5 DEF us
    <2> DEFINE c == Cardinality(Chunk)
    <2>7. /\ Len(us) = c /\ c \in 1..(accepted - done)
          /\ \A i \in 1..c : us[i] = batch[done + i]
      BY <2>1, <2>4, <2>6, ChunkUpdatesAre
    <2> HIDE DEF c
    <2>8. \A i, j \in DOMAIN us : us[i].key = us[j].key => i = j
      <3> SUFFICES ASSUME NEW i \in 1..c, NEW j \in 1..c, us[i].key = us[j].key PROVE i = j
        BY <1>2, <2>7
      <3>1. done + i \in 1..accepted /\ done + j \in 1..accepted
        BY <2>4, <2>7
      <3>2. batch[done + i].key = batch[done + j].key
        BY <2>7
      <3>3. done + i = done + j
        BY <2>1, <3>1, <3>2 DEF AcceptedArePassable
      <3> QED BY <2>4, <2>7, <3>3
    <2>9. \A i, j \in DOMAIN ok : ok[i].key = ok[j].key => i = j
      BY <1>0, <1>1, <1>2, <1>3, <2>8
    <2>10. /\ \A i \in 1..n : app_state_db'[ok[i].key] = ok[i].value
           /\ \A k \in Keys : (\A i \in 1..n : ok[i].key # k) => app_state_db'[k] = app_state_db[k]
      <3>1. app_state_db \in Contents
        BY <2>1 DEF TypeInv
      <3> QED BY <1>0, <1>3, <2>9, <3>1, AppliedIs
    <2>11. \A i \in 1..n : i \in 1..c /\ ok[i] = batch[done + i] /\ done + i \in 1..accepted
      BY <1>0, <1>1, <1>3, <2>4, <2>7
    <2>12. CacheWith(app_state_db, done + n)'
      <3>1. \A i \in 1..(done + n) : app_state_db'[batch[i].key] = batch[i].value
        <4> SUFFICES ASSUME NEW i \in 1..(done + n) PROVE app_state_db'[batch[i].key] = batch[i].value
          OBVIOUS
        <4>1. CASE i <= done
          <5>1. \A j \in 1..n : ok[j].key # batch[i].key
            <6>1. i \in 1..accepted /\ \A j \in 1..n : done + j # i
              BY <2>4, <4>1
            <6> QED BY <2>1, <2>11, <6>1 DEF AcceptedArePassable
          <5>2. batch[i].key \in Keys
            <6>1. i \in 1..Len(batch) /\ i \in 1..accepted
              BY <2>1, <2>4, <4>1, LenProperties DEF TypeInv
            <6>2. batch[i] \in Sendable
              BY <2>1, <6>1, ElementOfSeq DEF TypeInv, AcceptedArePassable, Sendable
            <6> QED BY <6>2, SendableIs
          <5>3. app_state_db[batch[i].key] = batch[i].value
            BY <2>4, <2>5, <4>1 DEF CacheWith
          <5> QED BY <2>10, <5>1, <5>2, <5>3
        <4>2. CASE i > done
          <5>1. i - done \in 1..n /\ done + (i - done) = i
            BY <1>1, <2>4, <4>2
          <5> QED BY <2>10, <2>11, <5>1
        <4> QED BY <1>1, <2>4, <4>1, <4>2
      <3>2. ASSUME NEW k \in Keys, \A i \in 1..(done + n) : batch[i].key # k
            PROVE  app_state_db'[k] = entity_cache[k]
        <4>1. \A i \in 1..n : ok[i].key # k
          <5>1. \A i \in 1..n : done + i \in 1..(done + n)
            BY <1>1, <2>4
          <5> QED BY <2>11, <3>2, <5>1
        <4>2. \A i \in 1..done : batch[i].key # k
          BY <1>1, <2>4, <3>2
        <4> QED BY <2>5, <2>10, <4>1, <4>2 DEF CacheWith
      <3> QED BY <1>0, <3>1, <3>2 DEF CacheWith
    <2>13. /\ Chunk' = Chunk /\ ChunkTable' = ChunkTable /\ ChunkUpdates' = ChunkUpdates
           /\ Cardinality(Chunk)' = Cardinality(Chunk)
      BY <1>0, ChunkUnchanged
    <2>14. CarriedOut(n)' /\ n \in 0..c
      <3>1. requests'[t] = <<>>
        <4>1. Tail(<<ChunkUpdates>>) = <<>>
          OBVIOUS
        <4> QED BY <1>0, <2>1, <2>5, <4>1 DEF TypeInv
      <3>2. responses'[t] = <<AnswerTo(ChunkUpdates, n)>>
        <4>1. Append(<<>>, AnswerTo(us, n)) = <<AnswerTo(us, n)>>
          OBVIOUS
        <4> QED BY <1>0, <2>1, <2>5, <2>6, <4>1 DEF TypeInv
      <3>3. AnswerTo(ChunkUpdates, n)' = AnswerTo(ChunkUpdates, n)
        BY <2>13 DEF AnswerTo
      <3>4. n \in 0..c
        BY <1>0, <1>1, <2>4, <2>7
      <3> QED BY <2>2, <2>13, <3>1, <3>2, <3>3, <3>4 DEF CarriedOut
    <2>15. \A s \in Tables \ {ChunkTable} : requests'[s] = <<>> /\ responses'[s] = <<>>
      BY <1>0, <2>1, <2>2, <2>3 DEF DuringChunk, TypeInv
    <2>16. app_db' = IF ChunkTable = "P4RT" THEN app_state_db' ELSE Applied(app_state_db', us)
      <3>1. CASE ChunkTable = "P4RT"
        BY <1>0, <2>2, <2>3, <3>1 DEF DuringChunk
      <3>2. CASE ChunkTable # "P4RT"
        <4>1. app_db' = Applied(app_state_db, us)
          BY <1>0, <2>2, <2>3, <2>6, <3>2 DEF DuringChunk
        <4>2. ASSUME NEW k \in Keys, \A i \in DOMAIN us : us[i].key # k
              PROVE  app_state_db'[k] = app_state_db[k]
          <5>1. \A i \in 1..n : ok[i].key # k
            BY <1>0, <1>1, <1>2, <1>3, <4>2
          <5> QED BY <2>10, <5>1
        <4>3. Applied(app_state_db', us) = Applied(app_state_db, us)
          BY <4>2 DEF Applied
        <4> QED BY <3>2, <4>1, <4>3
      <3> QED BY <3>1, <3>2
    <2>17. DuringChunk'
      <3>1. Applied(app_state_db, ChunkUpdates)' = Applied(app_state_db', us)
        BY <2>6, <2>13 DEF Applied
      <3>2. app_db' = (IF ChunkTable = "P4RT" THEN app_state_db ELSE Applied(app_state_db, ChunkUpdates))'
        BY <2>13, <2>16, <3>1
      <3>3. n \in (0..Cardinality(Chunk))'
        BY <2>13, <2>14 DEF c
      <3>4. \A s \in (Tables \ {ChunkTable})' : requests'[s] = <<>> /\ responses'[s] = <<>>
        BY <2>13, <2>15
      <3>5. \A i \in 1..done' : statuses'[i] = "OK"
        BY <1>0, <2>3 DEF DuringChunk
      <3> QED BY <2>12, <2>14, <3>2, <3>3, <3>4, <3>5 DEF DuringChunk
    <2>18. StatusesToCome'
      BY <1>0, <2>3 DEF StatusesToCome
    <2> QED BY <1>0, <2>2, <2>17, <2>18 DEF InStep, ReportsFirstFailure
  <1> QED BY <1>4, <1>5, <1>6 DEF IndInv
-----------------------------------------------------------------------------
(* The response path.                                                      *)

\* A broken response path: only types are left to keep.
LEMMA EnterCriticalStateInv ==
  ASSUME IndInv, EnterCriticalState, UNCHANGED <<app_db, app_state_db, requests>>,
         responses' \in [Tables -> Seq(Seq(Answers))]
  PROVE  IndInv'
  <1>0. /\ critical' = TRUE /\ pc' = "idle" /\ batch' = <<>> /\ statuses' = <<>>
        /\ accepted' = 0 /\ done' = 0 /\ UNCHANGED <<entity_cache, utilization>>
    BY DEF EnterCriticalState
  <1>1. TypeInv'
    <2>1. /\ <<>> \in Seq(RequestUpdates) /\ <<>> \in Seq(Codes) /\ Len(<<>>) = 0
      OBVIOUS
    <2>2. batch' \in Seq(RequestUpdates) /\ Len(batch') = 0 /\ statuses' \in Seq(Codes)
      BY <1>0, <2>1
    <2>3. Len(batch') <= MaxBatch /\ accepted' \in 0..Len(batch') /\ done' \in 0..accepted'
      BY <1>0, <2>2, WriteConstants
    <2> QED BY <1>0, <2>2, <2>3 DEF IndInv, TypeInv
  <1>2. AcceptedArePassable'
    BY <1>0 DEF AcceptedArePassable
  <1> QED BY <1>0, <1>1, <1>2 DEF IndInv

\* The code found for an update of the chunk is one of the response's.
LEMMA ResponseCodeIs ==
  ASSUME NEW response \in Seq(Answers), ResponseMatches(response), NEW i \in Chunk
  PROVE  \E j \in 1..Len(response) : /\ response[j].key = batch[i].key
                                     /\ ResponseCode(response, batch[i].key) = response[j].code
  <1>1. DOMAIN response = 1..Len(response)
    BY LenProperties
  <1>2. \E j \in DOMAIN response : response[j].key = batch[i].key
    BY DEF ResponseMatches
  <1> DEFINE m == CHOOSE j \in DOMAIN response : response[j].key = batch[i].key
  <1>3. m \in DOMAIN response /\ response[m].key = batch[i].key
    BY <1>2
  <1>4. ResponseCode(response, batch[i].key) = response[m].code
    BY DEF ResponseCode
  <1> QED BY <1>1, <1>3, <1>4

\* The statuses after a response have their type.
LEMMA UpdatedStatusesType ==
  ASSUME TypeInv, pc # "idle", NEW response \in Seq(Answers), ResponseMatches(response)
  PROVE  UpdatedStatuses(response) \in Seq(Codes) /\ Len(UpdatedStatuses(response)) = Len(batch)
  <1>1. Len(batch) \in Nat /\ DOMAIN batch = 1..Len(batch) /\ Len(statuses) = Len(batch)
    BY LenProperties DEF TypeInv
  <1>2. \A i \in 1..Len(batch) : statuses[i] \in Codes
    BY <1>1, ElementOfSeq DEF TypeInv
  <1>3. \A i \in Chunk : ResponseCode(response, batch[i].key) \in Codes
    <2> SUFFICES ASSUME NEW i \in Chunk PROVE ResponseCode(response, batch[i].key) \in Codes
      OBVIOUS
    <2>1. PICK j \in 1..Len(response) : ResponseCode(response, batch[i].key) = response[j].code
      BY ResponseCodeIs
    <2>2. response[j] \in Answers
      BY ElementOfSeq
    <2> QED BY <2>1, <2>2 DEF Answers, Codes
  <1>4. UpdatedStatuses(response) \in [1..Len(batch) -> Codes]
    BY <1>1, <1>2, <1>3 DEF UpdatedStatuses, Codes
  <1> QED BY <1>1, <1>4, FunctionIsSeq

\* The answer that is read in step is the chunk's: each of its updates finds
\* its own code.
LEMMA AnswerIs ==
  ASSUME TypeInv, AcceptedArePassable, done < accepted, NEW n \in 0..Cardinality(Chunk)
  PROVE  LET response == AnswerTo(ChunkUpdates, n)
             c == Cardinality(Chunk)
         IN  /\ \A i \in 1..c : ResponseCode(response, batch[done + i].key)
                                  = IF i <= n THEN "OK" ELSE IF i = n + 1 THEN "FAILED" ELSE "ABORTED"
             /\ ChunkFailed(response) <=> n < c
  <1> DEFINE response == AnswerTo(ChunkUpdates, n)
             c == Cardinality(Chunk)
  <1>1. /\ ChunkUpdates \in Seq(Sendable) /\ Len(ChunkUpdates) = c
        /\ c \in 1..(accepted - done)
        /\ \A i \in 1..c : ChunkUpdates[i] = batch[done + i]
    BY ChunkUpdatesAre
  <1>2. DOMAIN ChunkUpdates = 1..c /\ accepted \in Nat /\ done \in Nat
    BY <1>1, LenProperties DEF TypeInv
  <1>3. /\ DOMAIN response = 1..c
        /\ \A i \in 1..c : /\ response[i].key = batch[done + i].key
                           /\ response[i].code = IF i <= n THEN "OK" ELSE IF i = n + 1 THEN "FAILED" ELSE "ABORTED"
    BY <1>1, <1>2 DEF AnswerTo
  <1>4. \A i, j \in 1..c : batch[done + i].key = batch[done + j].key => i = j
    <2> SUFFICES ASSUME NEW i \in 1..c, NEW j \in 1..c, batch[done + i].key = batch[done + j].key PROVE i = j
      OBVIOUS
    <2>1. done + i \in 1..accepted /\ done + j \in 1..accepted
      BY <1>1, <1>2
    <2>2. done + i = done + j
      BY <2>1 DEF AcceptedArePassable
    <2> QED BY <1>1, <1>2, <2>2
  <1> HIDE DEF response, c
  <1>5. ASSUME NEW i \in 1..c
        PROVE  ResponseCode(response, batch[done + i].key) = response[i].code
    <2> DEFINE m == CHOOSE j \in DOMAIN response : response[j].key = batch[done + i].key
    <2>1. m \in 1..c /\ response[m].key = batch[done + i].key
      BY <1>3
    <2>2. m = i
      BY <1>3, <1>4, <2>1
    <2> QED BY <2>2 DEF ResponseCode
  <1>6. ChunkFailed(response) <=> n < c
    <2>1. ASSUME n < c PROVE ChunkFailed(response)
      <3>1. n + 1 \in 1..c /\ ~(n + 1 <= n)
        BY <1>1, <2>1 DEF c
      <3>2. response[n + 1].code = "FAILED"
        BY <1>3, <3>1
      <3> QED BY <1>3, <3>1, <3>2 DEF ChunkFailed
    <2>2. ASSUME ~(n < c) PROVE ~ChunkFailed(response)
      <3>1. \A i \in 1..c : i <= n
        BY <1>1, <2>2 DEF c
      <3> QED BY <1>3, <3>1 DEF ChunkFailed
    <2> QED BY <2>1, <2>2
  <1> QED BY <1>3, <1>5, <1>6 DEF response, c
\* A response is read.
LEMMA ReceiveResponseInv ==
  ASSUME IndInv, ReceiveResponse
  PROVE  IndInv'
  <1> DEFINE ct == ChunkTable
             response == Head(responses[ct])
             c == Cardinality(Chunk)
  <1>0. /\ pc = "wait" /\ responses[ct] # <<>>
        /\ UNCHANGED <<app_state_db, requests>>
        /\ responses' = [responses EXCEPT ![ct] = Tail(@)]
    BY DEF ReceiveResponse
  <1>1. TypeInv /\ AcceptedArePassable /\ done < accepted /\ done \in Nat /\ accepted \in Nat
    BY <1>0, LenProperties DEF IndInv, TypeInv
  <1>2. ct \in Tables /\ c \in 1..(accepted - done) /\ Chunk = (done + 1)..(done + c)
    BY <1>1, ChunkUpdatesAre
  <1>3. response \in Seq(Answers) /\ Tail(responses[ct]) \in Seq(Seq(Answers))
    <2>1. responses[ct] \in Seq(Seq(Answers))
      BY <1>1, <1>2 DEF TypeInv
    <2> QED BY <1>0, <2>1, HeadTailProperties
  <1>4. responses' \in [Tables -> Seq(Seq(Answers))]
    BY <1>0, <1>1, <1>2, <1>3 DEF TypeInv
  <1>5. CASE EnterCriticalState /\ UNCHANGED app_db
    BY <1>0, <1>4, <1>5, EnterCriticalStateInv
  <1>6. CASE /\ ResponseMatches(response)
             /\ pc' = "perform"
             /\ statuses' = UpdatedStatuses(response)
             /\ done' = IF ChunkFailed(response) THEN accepted ELSE Max(Chunk)
             /\ app_db' = IF ChunkFailed(response) /\ ct # "P4RT" THEN RestoreApplDb ELSE app_db
             /\ UNCHANGED <<entity_cache, utilization, batch, accepted, critical>>
    <2>1. Max(Chunk) = done + c /\ done + c \in 0..accepted /\ (ct # "P4RT" => c = 1)
      <3>1. PICK e \in (done + 1)..accepted :
              Cardinality(Chunk) = e - done /\ Max(Chunk) = e /\ (ChunkTable # "P4RT" => e = done + 1)
        BY <1>1, ChunkIs
      <3> QED BY <1>1, <3>1
    <2>2. TypeInv'
      <3>1. statuses' \in Seq(Codes) /\ Len(statuses') = Len(batch)
        BY <1>0, <1>1, <1>3, <1>6, UpdatedStatusesType
      <3>2. done' \in 0..accepted
        BY <1>1, <1>6, <2>1
      <3>3. app_db' \in Contents
        BY <1>1, <1>6 DEF TypeInv, RestoreApplDb, Contents
      <3> QED BY <1>0, <1>1, <1>4, <1>6, <3>1, <3>2, <3>3 DEF TypeInv
    <2>3. AcceptedArePassable'
      BY <1>1, <1>6 DEF AcceptedArePassable
    <2>4. ASSUME ~critical' PROVE InStep'
      <3>1. DuringChunk /\ StatusesToCome
        BY <1>0, <1>6, <2>4 DEF IndInv, InStep
      <3>2. PICK n \in 0..c : CarriedOut(n) /\ CacheWith(app_state_db, done + n)
        BY <3>1 DEF DuringChunk
      <3>3. requests[ct] = <<>> /\ responses[ct] = <<AnswerTo(ChunkUpdates, n)>>
        BY <1>0, <3>2 DEF CarriedOut
      <3>4. response = AnswerTo(ChunkUpdates, n)
        BY <3>3
      <3>5. /\ \A i \in 1..c : ResponseCode(response, batch[done + i].key)
                                = IF i <= n THEN "OK" ELSE IF i = n + 1 THEN "FAILED" ELSE "ABORTED"
            /\ ChunkFailed(response) <=> n < c
        BY <1>1, <3>4, AnswerIs
      <3> HIDE DEF response, c
      <3>6. n \in Nat /\ c \in Nat /\ n <= c /\ c >= 1 /\ done + c <= accepted
            /\ Len(batch) \in Nat /\ accepted <= Len(batch) /\ DOMAIN batch = 1..Len(batch)
        BY <1>1, <1>2, LenProperties DEF TypeInv
      <3>7. \A t \in Tables : requests'[t] = <<>> /\ responses'[t] = <<>>
        <4>1. Tail(<<AnswerTo(ChunkUpdates, n)>>) = <<>>
          OBVIOUS
        <4> QED BY <1>0, <1>1, <1>2, <3>1, <3>3, <4>1 DEF DuringChunk, TypeInv
      <3>8. ASSUME NEW i \in 1..c
            PROVE  statuses'[done + i] = IF i <= n THEN "OK" ELSE IF i = n + 1 THEN "FAILED" ELSE "ABORTED"
        <4>1. done + i \in 1..Len(batch) /\ done + i \in Chunk /\ done + i \in (done + 1)..accepted
          BY <1>1, <1>2, <3>6
        <4>2. statuses[done + i] = "OK"
          BY <3>1, <4>1 DEF StatusesToCome
        <4>3. statuses'[done + i] = IF ResponseCode(response, batch[done + i].key) # "OK"
                                    THEN ResponseCode(response, batch[done + i].key) ELSE statuses[done + i]
          BY <1>6, <3>6, <4>1 DEF UpdatedStatuses
        <4> QED BY <3>5, <4>2, <4>3
      <3>9. ASSUME NEW i \in 1..Len(batch), i <= done \/ i > accepted
            PROVE  statuses'[i] = statuses[i]
        <4>1. i \notin Chunk
          BY <1>1, <1>2, <3>6, <3>9
        <4> QED BY <1>1, <1>6, <3>6, <3>9, <4>1 DEF UpdatedStatuses
      <3>10. ASSUME NEW i \in (done + c + 1)..accepted
             PROVE  statuses'[i] = IF n < c THEN "ABORTED" ELSE statuses[i]
        <4>1. i \notin Chunk /\ i \in 1..Len(batch) /\ i > done /\ i <= accepted
          BY <1>1, <1>2, <3>6
        <4> QED BY <1>6, <3>5, <3>6, <4>1 DEF UpdatedStatuses
      <3>11. \A i \in 1..(done + n) : statuses'[i] = "OK"
        <4> SUFFICES ASSUME NEW i \in 1..(done + n) PROVE statuses'[i] = "OK"
          OBVIOUS
        <4>1. CASE i <= done
          <5>1. i \in 1..Len(batch) /\ i \in 1..done
            BY <1>1, <3>6, <4>1
          <5> QED BY <3>1, <3>9, <4>1, <5>1 DEF DuringChunk
        <4>2. CASE i > done
          <5>1. i - done \in 1..c /\ i - done <= n /\ done + (i - done) = i
            BY <1>1, <3>6, <4>2
          <5> QED BY <3>8, <5>1
        <4> QED BY <1>1, <3>6, <4>1, <4>2
      <3>m. PICK m \in Nat : m = done + n
        BY <1>1, <3>6
      <3>12. CacheWith(app_state_db, m)'
        BY <1>0, <1>6, <3>2, <3>m DEF CacheWith
      <3>13. StatusesToCome'
        <4>1. /\ accepted < Len(batch) => statuses'[accepted + 1] \notin {"OK", "ABORTED"}
              /\ \A i \in (accepted + 2)..Len(batch) : statuses'[i] = "ABORTED"
          <5>1. accepted < Len(batch) => accepted + 1 \in 1..Len(batch) /\ accepted + 1 > accepted
            BY <1>1, <3>6
          <5>2. \A i \in (accepted + 2)..Len(batch) : i \in 1..Len(batch) /\ i > accepted
            BY <1>1, <3>6
          <5> QED BY <3>1, <3>9, <5>1, <5>2 DEF StatusesToCome
        <4>2. \A i \in (done' + 1)..accepted : statuses'[i] = "OK"
          <5>1. CASE n < c
            <6>1. (done' + 1)..accepted = {}
              BY <1>1, <1>6, <3>5, <5>1
            <6> QED BY <6>1
          <5>2. CASE ~(n < c)
            <6>1. done' = done + c
              BY <1>6, <2>1, <3>5, <5>2 DEF c
            <6>2. \A i \in (done + c + 1)..accepted : i \in (done + 1)..accepted
              BY <1>1, <3>6
            <6> QED BY <3>1, <3>10, <5>2, <6>1, <6>2 DEF StatusesToCome
          <5> QED BY <5>1, <5>2
        <4> QED BY <1>6, <4>1, <4>2 DEF StatusesToCome
      <3>14. app_db' = app_state_db
        <4>1. CASE ct = "P4RT"
          BY <1>6, <3>1, <4>1 DEF DuringChunk
        <4>2. CASE ct # "P4RT"
          <5> DEFINE k == batch[done + 1].key
          <5>1. c = 1 /\ app_db = Applied(app_state_db, ChunkUpdates) /\ app_state_db \in Contents
            BY <1>1, <2>1, <3>1, <4>2 DEF DuringChunk, TypeInv, c
          <5>2. /\ ChunkUpdates \in Seq(Sendable) /\ DOMAIN ChunkUpdates = 1..1
                /\ ChunkUpdates[1] = batch[done + 1]
            BY <1>1, <5>1, ChunkUpdatesAre, LenProperties DEF c
          <5>3. k \in Keys
            BY <5>2, ElementOfSeq, SendableIs, LenProperties
          <5>4. /\ app_db[k] = batch[done + 1].value
                /\ \A l \in Keys : l # k => app_db[l] = app_state_db[l]
            <6>1. \A i, j \in DOMAIN ChunkUpdates : ChunkUpdates[i].key = ChunkUpdates[j].key => i = j
              BY <5>2
            <6>2. /\ \A i \in DOMAIN ChunkUpdates : app_db[ChunkUpdates[i].key] = ChunkUpdates[i].value
                  /\ \A l \in Keys : (\A i \in DOMAIN ChunkUpdates : ChunkUpdates[i].key # l)
                                        => app_db[l] = app_state_db[l]
              BY <5>1, <5>2, <6>1, AppliedIs
            <6> QED BY <5>2, <6>2
          <5>5. app_db \in Contents
            BY <1>1 DEF TypeInv
          <5>6. CASE n < c
            <6>1. app_db' = [app_db EXCEPT ![k] = app_state_db[k]]
              BY <1>6, <3>5, <4>2, <5>6 DEF RestoreApplDb
            <6> HIDE DEF k
            <6> QED BY <5>1, <5>3, <5>4, <5>5, <6>1 DEF Contents
          <5>7. CASE ~(n < c)
            <6>1. app_db' = app_db
              BY <1>6, <3>5, <5>7
            <6>2. done + 1 \in 1..(done + n)
              BY <1>1, <3>6, <5>1, <5>7
            <6>3. app_state_db[k] = batch[done + 1].value
              BY <3>2, <6>2 DEF CacheWith
            <6> HIDE DEF k
            <6> QED BY <5>1, <5>4, <5>5, <6>1, <6>3 DEF Contents
          <5> QED BY <5>6, <5>7
        <4> QED BY <4>1, <4>2
      <3>15. OkSoFar(m)' /\ m \in 0..done'
        <4>1. CASE n < c
          <5>1. done' = accepted
            BY <1>6, <3>5, <4>1
          <5>2. n + 1 \in 1..c /\ ~(n + 1 <= n) /\ done + (n + 1) = (done + n) + 1
            BY <1>1, <3>6, <4>1
          <5>3. statuses'[(done + n) + 1] = "FAILED"
            BY <3>8, <5>2
          <5>4. \A i \in (done + n + 2)..accepted : statuses'[i] = "ABORTED"
            <6> SUFFICES ASSUME NEW i \in (done + n + 2)..accepted PROVE statuses'[i] = "ABORTED"
              OBVIOUS
            <6>1. CASE i <= done + c
              <7>1. i - done \in 1..c /\ ~(i - done <= n) /\ i - done # n + 1 /\ done + (i - done) = i
                BY <1>1, <3>6, <6>1
              <7> QED BY <3>8, <7>1
            <6>2. CASE i > done + c
              <7>1. i \in (done + c + 1)..accepted
                BY <1>1, <3>6, <6>2
              <7> QED BY <3>10, <4>1, <7>1
            <6> QED BY <1>1, <3>6, <6>1, <6>2
          <5>5. done + n \in 0..done'
            BY <1>1, <3>6, <4>1, <5>1
          <5> QED BY <1>6, <3>11, <3>m, <5>1, <5>3, <5>4, <5>5 DEF OkSoFar
        <4>2. CASE ~(n < c)
          <5>1. done' = done + n
            BY <1>1, <1>6, <2>1, <3>5, <3>6, <4>2 DEF c
          <5>2. ~(done + n < done') /\ done + n \in 0..done'
            BY <1>1, <3>6, <5>1
          <5> QED BY <3>11, <3>m, <5>2 DEF OkSoFar
        <4> QED BY <4>1, <4>2
      <3>16. BetweenChunks'
        BY <1>0, <3>7, <3>12, <3>14, <3>15 DEF BetweenChunks
      <3> QED BY <1>6, <3>13, <3>16 DEF InStep, ReportsFirstFailure
    <2> QED BY <2>2, <2>3, <2>4 DEF IndInv
  <1> HIDE DEF c
  <1> QED BY <1>5, <1>6 DEF ReceiveResponse

\* The wait ends without an answer.
LEMMA TimeoutInv ==
  ASSUME IndInv, Timeout
  PROVE  IndInv'
  BY EnterCriticalStateInv DEF Timeout, IndInv, TypeInv
-----------------------------------------------------------------------------
(* Resources.                                                              *)

Fields == {"total_weight", "total_members"}

\* What an entry uses are two natural numbers.
LEMMA ResourceUsageIs ==
  ASSUME NEW k, NEW v, NEW f \in Fields
  PROVE  ResourceUsage(k, v)[f] \in Nat
  <1>1. CASE k \notin GroupKeys \/ v \notin Values
    BY <1>1 DEF ResourceUsage, Fields
  <1>2. CASE ~(k \notin GroupKeys \/ v \notin Values)
    <2>1. v \in Seq(Nat)
      BY <1>2, WriteConstants
    <2>2. Len(v) \in Nat /\ DOMAIN v = 1..Len(v) /\ \A i \in DOMAIN v : v[i] \in Nat
      BY <2>1, LenProperties, ElementOfSeq
    <2>3. IsFiniteSet(DOMAIN v)
      BY <2>2, FS_Interval
    <2>4. SumFunction(v) \in Nat
      BY <2>2, <2>3, SumNat DEF SumFunction
    <2> QED BY <1>2, <2>2, <2>4 DEF ResourceUsage, Fields
  <1> QED BY <1>1, <1>2

\* What an update adds is what the new entry uses less what the old one did.
LEMMA TableResourceChangeIs ==
  ASSUME NEW u, NEW f \in Fields
  PROVE  /\ TableResourceChange(u)[f] = ResourceUsage(u.key, u.value)[f] - ResourceUsage(u.key, entity_cache[u.key])[f]
         /\ TableResourceChange(u)[f] \in Int
  <1>1. TableResourceChange(u)[f] = ResourceUsage(u.key, u.value)[f] - ResourceUsage(u.key, entity_cache[u.key])[f]
    BY DEF TableResourceChange, Fields
  <1>2. ResourceUsage(u.key, u.value)[f] \in Nat /\ ResourceUsage(u.key, entity_cache[u.key])[f] \in Nat
    BY ResourceUsageIs
  <1> QED BY <1>1, <1>2

\* The updates that succeeded are finitely many, of different keys.
LEMMA SucceededAre ==
  ASSUME TypeInv, AcceptedArePassable
  PROVE  /\ IsFiniteSet(Succeeded)
         /\ \A i \in Succeeded : i \in 1..accepted /\ batch[i] \in Sendable /\ batch[i].key \in Keys
         /\ \A i, j \in Succeeded : batch[i].key = batch[j].key => i = j
  <1>1. accepted \in Nat /\ accepted <= Len(batch) /\ Len(batch) \in Nat
    BY LenProperties DEF TypeInv
  <1>2. Succeeded \in SUBSET (1..accepted)
    BY DEF Succeeded
  <1>3. IsFiniteSet(1..accepted)
    BY <1>1, FS_Interval
  <1>4. IsFiniteSet(Succeeded)
    BY <1>2, <1>3, FS_Subset
  <1>5. ASSUME NEW i \in 1..accepted PROVE batch[i] \in Sendable /\ batch[i].key \in Keys
    <2>1. i \in 1..Len(batch)
      BY <1>1
    <2>2. batch[i] \in Sendable
      BY <2>1, ElementOfSeq DEF TypeInv, AcceptedArePassable, Sendable
    <2> QED BY <2>2, SendableIs
  <1> QED BY <1>2, <1>4, <1>5 DEF AcceptedArePassable

\* The cache afterwards has the updates that succeeded and is else as before.
LEMMA CacheUpdated ==
  ASSUME TypeInv, AcceptedArePassable, UpdateCacheAndUtilizationState
  PROVE  /\ entity_cache' \in Contents
         /\ \A i \in Succeeded : entity_cache'[batch[i].key] = batch[i].value
         /\ \A k \in Keys : (\A i \in Succeeded : batch[i].key # k) => entity_cache'[k] = entity_cache[k]
  <1>1. entity_cache' = [k \in Keys |-> IF \E i \in Succeeded : batch[i].key = k
                                        THEN batch[CHOOSE i \in Succeeded : batch[i].key = k].value
                                        ELSE entity_cache[k]]
    BY DEF UpdateCacheAndUtilizationState
  <1>2. \A i \in Succeeded : batch[i].value \in Values \cup {Absent} /\ batch[i].key \in Keys
    BY SucceededAre, SendableIs
  <1>3. ASSUME NEW i \in Succeeded
        PROVE  entity_cache'[batch[i].key] = batch[i].value
    <2> DEFINE j == CHOOSE j \in Succeeded : batch[j].key = batch[i].key
    <2>1. j \in Succeeded /\ batch[j].key = batch[i].key
      OBVIOUS
    <2>2. j = i
      BY <2>1, SucceededAre
    <2>3. entity_cache'[batch[i].key] = batch[j].value
      BY <1>1, <1>2
    <2> QED BY <2>2, <2>3
  <1>4. \A k \in Keys : entity_cache[k] \in Values \cup {Absent}
    BY DEF TypeInv, Contents
  <1>5. entity_cache' \in Contents
    BY <1>1, <1>2, <1>4 DEF Contents
  <1> QED BY <1>1, <1>3, <1>5

\* The accounts afterwards are numbers.
LEMMA UtilizationUpdated ==
  ASSUME TypeInv, AcceptedArePassable, UpdateCacheAndUtilizationState
  PROVE  /\ utilization' \in [Fields -> Int]
         /\ \A f \in Fields : utilization'[f] = utilization[f]
              + SumFunctionOnSet([i \in Succeeded |-> TableResourceChange(batch[i])[f]], Succeeded)
  <1>1. utilization \in [Fields -> Int]
    BY DEF TypeInv, Fields
  <1> DEFINE Change(f) == [i \in Succeeded |-> TableResourceChange(batch[i])[f]]
  <1>2. utilization' = [f \in Fields |-> utilization[f] + SumFunction(Change(f))]
    BY <1>1 DEF UpdateCacheAndUtilizationState
  <1>3. \A f \in Fields : SumFunction(Change(f)) = SumFunctionOnSet(Change(f), Succeeded)
    BY DEF SumFunction
  <1>4. ASSUME NEW f \in Fields PROVE SumFunctionOnSet(Change(f), Succeeded) \in Int
    <2>1. \A i \in Succeeded : Change(f)[i] \in Int
      BY TableResourceChangeIs
    <2> HIDE DEF Change
    <2> QED BY <2>1, SucceededAre, SumInt
  <1> HIDE DEF Change
  <1>5. utilization' \in [Fields -> Int]
    BY <1>1, <1>2, <1>3, <1>4
  <1>6. \A f \in Fields : utilization'[f] = utilization[f] + SumFunctionOnSet(Change(f), Succeeded)
    BY <1>2, <1>3
  <1> QED BY <1>5, <1>6 DEF Change

-----------------------------------------------------------------------------
(* The end of Write.                                                       *)

\* In step, the updates that succeeded are the first n, and those are what
\* FailOnFirst reports as OK, before one error and ABORTED.
LEMMA OutcomeIs ==
  ASSUME IndInv, FinishWrite, ~critical
  PROVE  \E n \in 0..accepted :
           /\ CacheWith(app_state_db, n)
           /\ Succeeded = 1..n
           /\ \A i \in 1..Len(batch) : /\ i <= n <=> FailOnFirst[i] = "OK"
                                       /\ i > n + 1 <=> FailOnFirst[i] = "ABORTED"
  <1>1. pc = "perform" /\ done = accepted /\ TypeInv /\ BetweenChunks /\ StatusesToCome
    BY DEF FinishWrite, IndInv, InStep
  <1>2. /\ accepted \in Nat /\ Len(batch) \in Nat /\ accepted <= Len(batch)
        /\ DOMAIN statuses = 1..Len(batch)
    BY <1>1, LenProperties DEF TypeInv
  <1>3. PICK n \in 0..accepted : OkSoFar(n) /\ CacheWith(app_state_db, n)
    BY <1>1 DEF BetweenChunks
  <1>4. \A i \in 1..n : statuses[i] = "OK"
    BY <1>3 DEF OkSoFar
  <1>5. \A i \in (n + 1)..Len(batch) : statuses[i] # "OK"
    <2> SUFFICES ASSUME NEW i \in (n + 1)..Len(batch) PROVE statuses[i] # "OK"
      OBVIOUS
    <2>1. CASE i <= accepted
      BY <1>1, <1>2, <1>3, <2>1 DEF OkSoFar
    <2>2. CASE i > accepted
      BY <1>1, <1>2, <2>2 DEF StatusesToCome
    <2> QED BY <1>2, <2>1, <2>2
  <1>6. n < Len(batch) => statuses[n + 1] # "ABORTED"
    <2>1. CASE n < accepted
      BY <1>1, <1>2, <1>3, <2>1 DEF OkSoFar
    <2>2. CASE n = accepted
      BY <1>1, <1>2, <2>2 DEF StatusesToCome
    <2> QED BY <1>2, <2>1, <2>2
  <1>7. Succeeded = 1..n
    <2>1. \A i \in 1..n : i \in 1..accepted
      BY <1>2
    <2>2. \A i \in 1..accepted : i \notin 1..n => i \in (n + 1)..Len(batch)
      BY <1>2
    <2> QED BY <1>4, <1>5, <2>1, <2>2 DEF Succeeded
  <1>8. \A i \in 1..Len(batch) :
          FailOnFirst[i] = IF statuses[i] # "OK" /\ \E j \in 1..(i - 1) : statuses[j] # "OK"
                           THEN "ABORTED" ELSE statuses[i]
    BY <1>2 DEF FailOnFirst
  <1>9. ASSUME NEW i \in 1..Len(batch)
        PROVE  /\ i <= n <=> FailOnFirst[i] = "OK"
               /\ i > n + 1 <=> FailOnFirst[i] = "ABORTED"
    <2>1. CASE i <= n
      <3>1. i \in 1..n /\ ~(i > n + 1)
        BY <1>2, <2>1
      <3> QED BY <1>4, <1>8, <2>1, <3>1
    <2>2. CASE i = n + 1
      <3>1. \A j \in 1..(i - 1) : j \in 1..n
        BY <1>2, <2>2
      <3>2. i \in (n + 1)..Len(batch) /\ n < Len(batch) /\ ~(i <= n) /\ ~(i > n + 1)
        BY <1>2, <2>2
      <3> QED BY <1>4, <1>5, <1>6, <1>8, <2>2, <3>1, <3>2
    <2>3. CASE i > n + 1
      <3>1. n + 1 \in 1..(i - 1) /\ n + 1 \in (n + 1)..Len(batch) /\ i \in (n + 1)..Len(batch) /\ ~(i <= n)
        BY <1>2, <2>3
      <3> QED BY <1>5, <1>8, <2>3, <3>1
    <2> QED BY <1>2, <2>1, <2>2, <2>3
  <1> QED BY <1>3, <1>7, <1>9

\* The Write returns.
LEMMA FinishWriteInv ==
  ASSUME IndInv, FinishWrite
  PROVE  IndInv'
  <1>0. /\ pc = "perform" /\ UpdateCacheAndUtilizationState /\ statuses' = FailOnFirst
        /\ pc' = "idle" /\ batch' = <<>> /\ accepted' = 0 /\ done' = 0
        /\ UNCHANGED <<app_db, app_state_db, requests, responses, critical>>
    BY DEF FinishWrite
  <1>1. TypeInv /\ AcceptedArePassable
    BY DEF IndInv
  <1>2. Len(batch) \in Nat /\ DOMAIN statuses = 1..Len(batch)
    BY <1>0, <1>1, LenProperties DEF TypeInv
  <1>3. statuses' \in Seq(Codes) /\ Len(statuses') = Len(batch)
    <2>1. \A i \in 1..Len(batch) : statuses[i] \in Codes
      BY <1>0, <1>1, ElementOfSeq DEF TypeInv
    <2>2. statuses' \in [1..Len(batch) -> Codes]
      BY <1>0, <1>2, <2>1 DEF FailOnFirst, Codes
    <2> QED BY <1>2, <2>2, FunctionIsSeq
  <1>4. TypeInv'
    <2>1. entity_cache' \in Contents
      BY <1>0, <1>1, CacheUpdated
    <2>2. utilization' \in [{"total_weight", "total_members"} -> Int]
      BY <1>0, <1>1, UtilizationUpdated DEF Fields
    <2>3. <<>> \in Seq(RequestUpdates) /\ Len(<<>>) = 0
      OBVIOUS
    <2>4. batch' \in Seq(RequestUpdates) /\ Len(batch') = 0
      BY <1>0, <2>3
    <2>5. Len(batch') <= MaxBatch /\ accepted' \in 0..Len(batch') /\ done' \in 0..accepted'
      BY <1>0, <2>4, WriteConstants
    <2> QED BY <1>0, <1>1, <1>3, <2>1, <2>2, <2>4, <2>5 DEF TypeInv
  <1>5. AcceptedArePassable'
    BY <1>0 DEF AcceptedArePassable
  <1>6. ASSUME ~critical' PROVE InStep'
    <2>1. PICK n \in 0..accepted :
            /\ CacheWith(app_state_db, n)
            /\ Succeeded = 1..n
            /\ \A i \in 1..Len(batch) : /\ i <= n <=> FailOnFirst[i] = "OK"
                                        /\ i > n + 1 <=> FailOnFirst[i] = "ABORTED"
      BY <1>0, <1>6, OutcomeIs
    <2>2. entity_cache' = app_state_db
      <3>1. \A k \in Keys : entity_cache'[k] = app_state_db[k]
        <4> SUFFICES ASSUME NEW k \in Keys PROVE entity_cache'[k] = app_state_db[k]
          OBVIOUS
        <4>1. CASE \E i \in 1..n : batch[i].key = k
          BY <1>0, <1>1, <2>1, <4>1, CacheUpdated DEF CacheWith
        <4>2. CASE \A i \in 1..n : batch[i].key # k
          BY <1>0, <1>1, <2>1, <4>2, CacheUpdated DEF CacheWith
        <4> QED BY <4>1, <4>2
      <3>2. entity_cache' \in Contents /\ app_state_db \in Contents
        BY <1>1, <1>4 DEF TypeInv
      <3> QED BY <3>1, <3>2 DEF Contents
    <2>3. BetweenChunks'
      <3>1. BetweenChunks
        BY <1>0, <1>6 DEF IndInv, InStep
      <3>2. OkSoFar(0)' /\ CacheWith(app_state_db, 0)' /\ 0 \in 0..done'
        BY <1>0, <2>2 DEF OkSoFar, CacheWith
      <3>3. \A t \in Tables : requests'[t] = <<>> /\ responses'[t] = <<>>
        BY <1>0, <3>1 DEF BetweenChunks
      <3>4. app_db' = app_state_db'
        BY <1>0, <3>1 DEF BetweenChunks
      <3> QED BY <3>2, <3>3, <3>4 DEF BetweenChunks
    <2>4. ReportsFirstFailure'
      <3>1. n \in 0..Len(statuses') /\ DOMAIN statuses' = 1..Len(batch)
        BY <1>1, <1>2, <1>3, LenProperties DEF TypeInv
      <3>2. \A i \in DOMAIN statuses' : /\ i <= n <=> statuses'[i] = "OK"
                                        /\ i > n + 1 <=> statuses'[i] = "ABORTED"
        BY <1>0, <2>1, <3>1
      <3> QED BY <3>1, <3>2 DEF ReportsFirstFailure
    <2> QED BY <1>0, <2>3, <2>4 DEF InStep
  <1> QED BY <1>4, <1>5, <1>6 DEF IndInv
\* A new process takes over.
LEMMA RestartInv ==
  ASSUME IndInv, RebuildSwStateAfterWarmboot
  PROVE  IndInv'
  <1>0. /\ pc = "idle" /\ \A t \in Tables : requests[t] = <<>>
        /\ entity_cache' = app_db /\ utilization' = InitialCapacity
        /\ responses' = [t \in Tables |-> <<>>] /\ statuses' = <<>>
        /\ UNCHANGED <<app_db, app_state_db, pc, batch, accepted, done, requests, critical>>
    BY DEF RebuildSwStateAfterWarmboot, RebuildEntityEntryCache
  <1>1. TypeInv'
    <2>1. responses' \in [Tables -> Seq(Seq(Answers))] /\ statuses' \in Seq(Codes)
      BY <1>0
    <2>2. utilization' \in [{"total_weight", "total_members"} -> Int]
      BY <1>0 DEF InitialCapacity
    <2> QED BY <1>0, <2>1, <2>2 DEF IndInv, TypeInv
  <1>2. AcceptedArePassable'
    BY <1>0 DEF IndInv, AcceptedArePassable
  <1>3. ASSUME ~critical' PROVE InStep'
    <2>1. app_db = app_state_db /\ done = 0
      BY <1>0, <1>3, IdleContents, IdleIs DEF IndInv
    <2>2. OkSoFar(0)' /\ CacheWith(app_state_db, 0)' /\ 0 \in 0..done'
      BY <1>0, <2>1 DEF OkSoFar, CacheWith
    <2>3. BetweenChunks'
      BY <1>0, <2>1, <2>2 DEF BetweenChunks
    <2>4. ReportsFirstFailure'
      BY <1>0 DEF ReportsFirstFailure
    <2> QED BY <1>0, <2>3, <2>4 DEF InStep
  <1> QED BY <1>1, <1>2, <1>3 DEF IndInv

\* Every step preserves the inductive invariant.
LEMMA NextInv == IndInv /\ [RestartNext]_vars => IndInv'
  <1> SUFFICES ASSUME IndInv, [RestartNext]_vars PROVE IndInv'
    OBVIOUS
  <1>1. CASE \E b \in Batches : Write(b)
    BY <1>1, WriteInv
  <1>2. CASE SendChunk
    BY <1>2, SendChunkInv
  <1>3. CASE \E t \in Tables : \E n \in 0..MaxBatch : OrchAgent(t, n)
    BY <1>3, OrchAgentInv
  <1>4. CASE ReceiveResponse
    BY <1>4, ReceiveResponseInv
  <1>5. CASE Timeout
    BY <1>5, TimeoutInv
  <1>6. CASE FinishWrite
    BY <1>6, FinishWriteInv
  <1>7. CASE RebuildSwStateAfterWarmboot
    BY <1>7, RestartInv
  <1>8. CASE UNCHANGED vars
    <2>1. TypeInv' /\ AcceptedArePassable'
      BY <1>8 DEF vars, IndInv, TypeInv, AcceptedArePassable
    <2>2. ASSUME ~critical' PROVE InStep'
      <3>1. InStep
        BY <1>8, <2>2 DEF vars, IndInv
      <3>2. /\ Chunk' = Chunk /\ ChunkTable' = ChunkTable /\ ChunkUpdates' = ChunkUpdates
        BY <1>8, ChunkUnchanged DEF vars
      <3>3. BetweenChunks' <=> BetweenChunks
        BY <1>8 DEF vars, BetweenChunks, OkSoFar, CacheWith
      <3>4. DuringChunk' <=> DuringChunk
        BY <1>8, <3>2 DEF vars, DuringChunk, CarriedOut, CacheWith, Applied, AnswerTo
      <3>5. StatusesToCome' <=> StatusesToCome
        BY <1>8 DEF vars, StatusesToCome
      <3>6. ReportsFirstFailure' <=> ReportsFirstFailure
        BY <1>8 DEF vars, ReportsFirstFailure
      <3> QED BY <1>8, <3>1, <3>3, <3>4, <3>5, <3>6 DEF vars, InStep
    <2> QED BY <2>1, <2>2 DEF IndInv
  <1> QED BY <1>1, <1>2, <1>3, <1>4, <1>5, <1>6, <1>7, <1>8 DEF RestartNext, Next

\* The inductive invariant holds of every behaviour, restarts included.
LEMMA AlwaysIndInv == RestartSpec => []IndInv
  BY InitInv, NextInv, PTL DEF RestartSpec

-----------------------------------------------------------------------------
(* What follows for requests and restarts.                                 *)

\* Whatever requests, refusals and restarts there were: between requests the
\* cache, APPL_DB and the hardware hold the same entries, unless the response
\* path has broken.
THEOREM CacheStaysInStep == RestartSpec => []CacheMatchesSwitch
  <1>1. IndInv => CacheMatchesSwitch
    BY IdleContents DEF CacheMatchesSwitch
  <1> QED BY <1>1, AlwaysIndInv, PTL

\* Every response is: the updates that succeeded, one error, then ABORTED.
THEOREM FirstFailureIsReported == RestartSpec => []ReportsFirstFailure
  <1>1. IndInv => ReportsFirstFailure
    BY DEF IndInv, InStep, ReportsFirstFailure
  <1> QED BY <1>1, AlwaysIndInv, PTL

\* What Write reports of an entry is what has become of it in the hardware.
THEOREM ResponsesAreTrue == RestartSpec => ResponseTellsTheTruth
  <1> DEFINE A == pc = "perform" /\ pc' = "idle" /\ ~critical =>
                    \A k \in Keys :
                      LET ok == {i \in DOMAIN batch : batch[i].key = k /\ statuses'[i] = "OK"}
                      IN  /\ ok = {} => app_state_db[k] = entity_cache[k]
                          /\ \A i \in ok : app_state_db[k] = batch[i].value
  <1>1. IndInv /\ [RestartNext]_vars => [A]_vars
    <2> SUFFICES ASSUME IndInv, RestartNext, pc = "perform", pc' = "idle", ~critical,
                        NEW k \in Keys
                 PROVE  LET ok == {i \in DOMAIN batch : batch[i].key = k /\ statuses'[i] = "OK"}
                        IN  /\ ok = {} => app_state_db[k] = entity_cache[k]
                            /\ \A i \in ok : app_state_db[k] = batch[i].value
      OBVIOUS
    <2>1. FinishWrite
      BY DEF RestartNext, Next, Write, SendChunk, OrchAgent, ReceiveResponse, Timeout,
             RebuildSwStateAfterWarmboot
    <2>2. PICK n \in 0..accepted :
            /\ CacheWith(app_state_db, n)
            /\ \A i \in 1..Len(batch) : i <= n <=> FailOnFirst[i] = "OK"
      BY <2>1, OutcomeIs
    <2>3. statuses' = FailOnFirst
      BY <2>1 DEF FinishWrite
    <2>4. /\ accepted \in Nat /\ accepted <= Len(batch) /\ Len(batch) \in Nat
          /\ DOMAIN batch = 1..Len(batch)
      BY LenProperties DEF IndInv, TypeInv
    <2>5. {i \in DOMAIN batch : batch[i].key = k /\ statuses'[i] = "OK"}
            = {i \in 1..n : batch[i].key = k}
      <3>1. \A i \in 1..n : i \in 1..Len(batch) /\ i <= n
        BY <2>4
      <3>2. \A i \in 1..Len(batch) : i <= n => i \in 1..n
        BY <2>4
      <3> QED BY <2>2, <2>3, <2>4, <3>1, <3>2
    <2> QED BY <2>2, <2>5 DEF CacheWith
  <1> QED BY <1>1, AlwaysIndInv, PTL DEF RestartSpec, ResponseTellsTheTruth

\* A restart rebuilds the cache it takes over from.
THEOREM RestartsAreInvisible == RestartSpec => RestartKeepsEntries
  <1> DEFINE A == ~critical /\ pc = "idle" /\ pc' = "idle" => entity_cache' = entity_cache
  <1>1. IndInv /\ [RestartNext]_vars => [A]_vars
    <2> SUFFICES ASSUME IndInv, RestartNext, ~critical, pc = "idle", pc' = "idle"
                 PROVE  entity_cache' = entity_cache
      OBVIOUS
    <2>1. CASE Next
      BY <2>1 DEF Next, Write, SendChunk, OrchAgent, ReceiveResponse, Timeout, FinishWrite
    <2>2. CASE RebuildSwStateAfterWarmboot
      BY <2>2, IdleContents DEF RebuildSwStateAfterWarmboot, RebuildEntityEntryCache
    <2> QED BY <2>1, <2>2 DEF RestartNext
  <1> QED BY <1>1, AlwaysIndInv, PTL DEF RestartSpec, RestartKeepsEntries
-----------------------------------------------------------------------------
(* Write implements SequentialWrite.                                       *)

\* What VerifyEntityCacheForExistence has established.
AcceptedFit ==
  \A i \in 1..accepted : batch[i].type = "INSERT" <=> entity_cache[batch[i].key] = Absent

\* The cache does not change while the checks count on it.
LEMMA FitInv == IndInv /\ AcceptedFit /\ [RestartNext]_vars => AcceptedFit'
  <1> SUFFICES ASSUME IndInv, AcceptedFit, [RestartNext]_vars PROVE AcceptedFit'
    OBVIOUS
  <1>1. CASE UNCHANGED <<entity_cache, batch, accepted>>
    BY <1>1 DEF AcceptedFit
  <1>2. CASE accepted' = 0
    BY <1>2 DEF AcceptedFit
  <1>3. ASSUME NEW b \in Batches, Write(b) PROVE AcceptedFit'
    <2>1. batch' = b /\ accepted' = AcceptedUpdates(b) /\ entity_cache' = entity_cache
      BY <1>3 DEF Write
    <2>2. \A i \in 1..AcceptedUpdates(b) : CheckUpdate(b, i) = "OK"
      BY ChecksOfBatch
    <2>3. \A i \in 1..AcceptedUpdates(b) : VerifyEntityCacheForExistence(b[i]) = "OK"
      BY <2>2 DEF CheckUpdate
    <2>4. \A u : VerifyEntityCacheForExistence(u) = "OK" => (u.type = "INSERT" <=> entity_cache[u.key] = Absent)
      BY DEF VerifyEntityCacheForExistence
    <2> QED BY <2>1, <2>3, <2>4 DEF AcceptedFit
  <1>4. CASE SendChunk
    BY <1>1, <1>4 DEF SendChunk
  <1>5. ASSUME NEW t \in Tables, NEW n \in 0..MaxBatch, OrchAgent(t, n) PROVE AcceptedFit'
    BY <1>1, <1>5 DEF OrchAgent
  <1>6. CASE ReceiveResponse
    BY <1>1, <1>2, <1>6 DEF ReceiveResponse, EnterCriticalState
  <1>7. CASE Timeout
    BY <1>2, <1>7 DEF Timeout, EnterCriticalState
  <1>8. CASE FinishWrite
    BY <1>2, <1>8 DEF FinishWrite
  <1>9. CASE RebuildSwStateAfterWarmboot
    BY <1>2, <1>9, IdleIs DEF RebuildSwStateAfterWarmboot, IndInv
  <1> QED BY <1>1, <1>3, <1>4, <1>5, <1>6, <1>7, <1>8, <1>9 DEF RestartNext, Next, vars

\* What was accepted fits the cache in every state.
LEMMA AlwaysFit == RestartSpec => []AcceptedFit
  <1>1. Init => AcceptedFit
    BY DEF Init, AcceptedFit
  <1> QED BY <1>1, FitInv, AlwaysIndInv, PTL DEF RestartSpec

\* The cache with the first updates of the batch made is what the abstract
\* specification says, and they may be made.
LEMMA FirstUpdatesAreMade ==
  ASSUME IndInv, AcceptedFit, NEW n \in 0..accepted, NEW contents \in Contents, CacheWith(contents, n)
  PROVE  n \in 0..Len(batch) /\ Sequential!MayMake(n) /\ contents = Sequential!Made(n)
  <1>1. /\ accepted \in Nat /\ Len(batch) \in Nat /\ accepted <= Len(batch)
        /\ \A i, j \in 1..accepted : batch[i].key = batch[j].key => i = j
    BY LenProperties DEF IndInv, TypeInv, AcceptedArePassable
  <1>2. Sequential!MayMake(n)
    <2>1. ASSUME NEW i \in 1..n, NEW j \in 1..(i - 1) PROVE batch[j].key # batch[i].key
      <3>1. i \in 1..accepted /\ j \in 1..accepted /\ i # j
        BY <1>1
      <3> QED BY <1>1, <3>1
    <2>2. \A i \in 1..n : batch[i].type = "INSERT" <=> entity_cache[batch[i].key] = Absent
      BY <1>1 DEF AcceptedFit
    <2> QED BY <2>1, <2>2 DEF Sequential!MayMake
  <1>3. contents = Sequential!Made(n)
    <2>1. ASSUME NEW k \in Keys PROVE contents[k] = Sequential!Made(n)[k]
      <3>1. CASE \E i \in 1..n : batch[i].key = k
        <4>1. PICK j : j = CHOOSE i \in 1..n : batch[i].key = k
          OBVIOUS
        <4>2. j \in 1..n /\ batch[j].key = k
          BY <3>1, <4>1
        <4>3. Sequential!Made(n)[k] = batch[j].value
          BY <3>1, <4>1 DEF Sequential!Made
        <4> QED BY <4>2, <4>3 DEF CacheWith
      <3>2. CASE \A i \in 1..n : batch[i].key # k
        BY <3>2 DEF CacheWith, Sequential!Made
      <3> QED BY <3>1, <3>2
    <2>2. contents = [k \in Keys |-> contents[k]]
      BY DEF Contents
    <2>3. Sequential!Made(n) = [k \in Keys |-> Sequential!Made(n)[k]]
      BY DEF Sequential!Made
    <2> QED BY <2>1, <2>2, <2>3
  <1> QED BY <1>1, <1>2, <1>3

\* What OrchAgent does is progress of the request.
LEMMA OrchAgentRefines ==
  ASSUME IndInv, AcceptedFit, NEW t \in Tables, NEW n \in 0..MaxBatch, OrchAgent(t, n), ~critical
  PROVE  Sequential!Program
  <1>1. /\ UNCHANGED <<entity_cache, pc, batch, statuses, accepted, done, critical>>
        /\ requests[t] # <<>>
    BY DEF OrchAgent
  <1>2. IndInv'
    BY OrchAgentInv
  <1>3. pc = "wait" /\ DuringChunk /\ DuringChunk'
    <2>1. pc = "wait"
      <3>1. pc # "wait" => requests[t] = <<>>
        BY DEF IndInv, InStep, BetweenChunks
      <3> QED BY <1>1, <3>1
    <2> QED BY <1>1, <1>2, <2>1 DEF IndInv, InStep
  <1>4. /\ TypeInv /\ done \in Nat /\ accepted \in Nat /\ done < accepted
        /\ app_state_db \in Contents /\ app_state_db' \in Contents
    BY <1>2, <1>3, LenProperties DEF IndInv, TypeInv
  <1>5. CacheWith(app_state_db, done)
    <2>1. t = ChunkTable
      BY <1>1, <1>3 DEF DuringChunk
    <2>2. PICK m \in 0..Cardinality(Chunk) : CarriedOut(m) /\ CacheWith(app_state_db, done + m)
      BY <1>3 DEF DuringChunk
    <2>3. m = 0 /\ done + 0 = done
      BY <1>1, <1>4, <2>1, <2>2 DEF CarriedOut
    <2> QED BY <2>2, <2>3
  <1>6. PICK m \in 0..Cardinality(Chunk) : CacheWith(app_state_db', done + m)
    <2>1. Chunk' = Chunk
      BY <1>1, ChunkUnchanged
    <2>2. PICK m \in 0..Cardinality(Chunk') : CacheWith(app_state_db, done + m)'
      BY <1>3 DEF DuringChunk
    <2> QED BY <1>1, <2>1, <2>2 DEF CacheWith
  <1>7. done + m \in 0..accepted /\ done \in 0..accepted /\ done \in 0..(done + m)
    <2>1. PICK e \in (done + 1)..accepted : Cardinality(Chunk) = e - done
      BY <1>4, ChunkIs
    <2> QED BY <1>4, <1>6, <2>1
  <1>8. /\ done + m \in 0..Len(batch) /\ Sequential!MayMake(done + m)
        /\ app_state_db' = Sequential!Made(done + m) /\ app_state_db = Sequential!Made(done)
    BY <1>4, <1>5, <1>6, <1>7, FirstUpdatesAreMade
  <1> QED BY <1>1, <1>7, <1>8 DEF Sequential!Program

\* The end of Write is the abstract answer.
LEMMA FinishWriteRefines ==
  ASSUME IndInv, AcceptedFit, FinishWrite, ~critical
  PROVE  Sequential!Answer
  <1>1. /\ pc = "perform" /\ pc' = "idle" /\ batch' = <<>> /\ statuses' = FailOnFirst
        /\ UNCHANGED <<app_state_db, critical>>
    BY DEF FinishWrite
  <1>2. entity_cache' = app_state_db
    <2>1. IndInv' /\ ~critical' /\ pc' = "idle"
      BY <1>1, FinishWriteInv
    <2>2. (IndInv /\ pc = "idle" /\ ~critical => entity_cache = app_state_db)'
      BY IdleContents, PTL
    <2> QED BY <1>1, <2>1, <2>2
  <1>3. PICK n \in 0..accepted :
          /\ CacheWith(app_state_db, n)
          /\ \A i \in 1..Len(batch) : /\ i <= n <=> FailOnFirst[i] = "OK"
                                      /\ i > n + 1 <=> FailOnFirst[i] = "ABORTED"
    BY OutcomeIs
  <1>4. /\ n \in 0..Len(batch) /\ Sequential!MayMake(n) /\ app_state_db = Sequential!Made(n)
    BY <1>3, FirstUpdatesAreMade DEF IndInv, TypeInv
  <1>5. statuses' \in [1..Len(batch) -> Codes]
    <2>1. DOMAIN statuses = 1..Len(batch) /\ \A i \in 1..Len(batch) : statuses[i] \in Codes
      BY <1>1, ElementOfSeq, LenProperties DEF IndInv, TypeInv
    <2> QED BY <1>1, <2>1 DEF FailOnFirst, Codes
  <1>6. batch # <<>>
    BY <1>1 DEF IndInv, TypeInv
  <1> QED BY <1>1, <1>2, <1>3, <1>4, <1>5, <1>6 DEF Sequential!Answer

\* Every step is an abstract step or changes nothing of it.
LEMMA StepRefines ==
  ASSUME IndInv, AcceptedFit, [RestartNext]_vars
  PROVE  [Sequential!Next]_(Sequential!vars)
  <1> DEFINE response == IF pc = "idle" THEN statuses ELSE <<>>
  <1>1. CASE critical
    <2>1. critical' = critical \/ critical' = TRUE
      BY DEF RestartNext, Next, vars, Write, SendChunk, OrchAgent, ReceiveResponse, Timeout, FinishWrite,
             EnterCriticalState, RebuildSwStateAfterWarmboot
    <2> QED BY <1>1, <2>1 DEF Sequential!Next
  <1>2. ASSUME UNCHANGED <<entity_cache, app_state_db, batch, critical>>, response' = response
        PROVE  [Sequential!Next]_(Sequential!vars)
    BY <1>2 DEF Sequential!vars
  <1>3. ASSUME ~critical, NEW b \in Batches, Write(b) PROVE Sequential!Begin
    <2>1. /\ pc = "idle" /\ pc' = "perform" /\ batch' = b
          /\ UNCHANGED <<entity_cache, app_state_db, critical>>
      BY <1>3 DEF Write
    <2>2. batch = <<>>
      BY <2>1, IdleIs DEF IndInv
    <2> QED BY <2>1, <2>2 DEF Sequential!Begin
  <1>4. CASE SendChunk
    BY <1>2, <1>4 DEF SendChunk
  <1>5. ASSUME ~critical, EnterCriticalState, pc # "idle", UNCHANGED app_state_db PROVE Sequential!Break
    <2>1. /\ critical' = TRUE /\ pc' = "idle" /\ batch' = <<>> /\ statuses' = <<>>
          /\ entity_cache' = entity_cache
      BY <1>5 DEF EnterCriticalState
    <2>2. batch # <<>>
      BY <1>5 DEF IndInv, TypeInv
    <2> QED BY <1>5, <2>1, <2>2 DEF Sequential!Break
  <1>6. ASSUME ~critical, ReceiveResponse PROVE [Sequential!Next]_(Sequential!vars)
    <2>1. pc = "wait" /\ app_state_db' = app_state_db
      BY <1>6 DEF ReceiveResponse
    <2>2. CASE EnterCriticalState
      BY <1>5, <1>6, <2>1, <2>2 DEF Sequential!Next
    <2>3. CASE ~EnterCriticalState
      <3>1. pc' = "perform" /\ UNCHANGED <<entity_cache, batch, critical>>
        BY <1>6, <2>3 DEF ReceiveResponse
      <3> QED BY <1>2, <2>1, <3>1
    <2> QED BY <2>2, <2>3
  <1>7. ASSUME ~critical, Timeout PROVE Sequential!Break
    BY <1>5, <1>7 DEF Timeout
  <1>8. ASSUME ~critical, RebuildSwStateAfterWarmboot PROVE Sequential!Restart
    <2>1. /\ pc = "idle" /\ pc' = "idle" /\ statuses' = <<>> /\ entity_cache' = app_db
          /\ UNCHANGED <<app_state_db, batch, critical>>
      BY <1>8 DEF RebuildSwStateAfterWarmboot, RebuildEntityEntryCache
    <2>2. batch = <<>> /\ entity_cache = app_db
      BY <1>8, <2>1, IdleIs, IdleContents DEF IndInv
    <2> QED BY <2>1, <2>2 DEF Sequential!Restart
  <1>9. CASE UNCHANGED vars
    BY <1>2, <1>9 DEF vars
  <1>10. ASSUME ~critical, FinishWrite PROVE Sequential!Answer
    BY <1>10, FinishWriteRefines
  <1>11. ASSUME ~critical, NEW t \in Tables, NEW n \in 0..MaxBatch, OrchAgent(t, n) PROVE Sequential!Program
    BY <1>11, OrchAgentRefines
  <1> QED BY <1>1, <1>3, <1>4, <1>6, <1>7, <1>8, <1>9, <1>10, <1>11 DEF RestartNext, Next, Sequential!Next

\* Write, with all of its layers and with restarts in between, implements the
\* sequential specification.
THEOREM WriteIsSequential == RestartSpec => ImplementsSequentialWrite
  <1>1. Init => Sequential!Init
    BY DEF Init, Sequential!Init
  <1>2. IndInv /\ AcceptedFit /\ [RestartNext]_vars => [Sequential!Next]_(Sequential!vars)
    BY StepRefines
  <1> QED BY <1>1, <1>2, AlwaysIndInv, AlwaysFit, PTL DEF RestartSpec, ImplementsSequentialWrite, Sequential!Spec

-----------------------------------------------------------------------------
(* The accounts of the action profile.                                     *)

\* What a switch with these contents uses, of one resource.
Used(contents, f) == SumFunctionOnSet([k \in Keys |-> ResourceUsage(k, contents[k])[f]], Keys)

\* What the updates L of the batch add to it.
Added(L, f) == SumFunctionOnSet([i \in L |-> TableResourceChange(batch[i])[f]], L)

\* Total is what the contents use, of each resource.
LEMMA TotalIs ==
  ASSUME TypeInv, NEW contents
  PROVE  DOMAIN utilization = Fields /\ Total(contents) = [f \in Fields |-> Used(contents, f)]
  <1>1. DOMAIN utilization = Fields
    BY DEF TypeInv, Fields
  <1> QED BY <1>1 DEF Total, Used, SumFunction

\* Contents that differ from the cache by some updates of different keys use
\* as much as the cache, and what those updates add.
LEMMA UsedAfter ==
  ASSUME NEW L, IsFiniteSet(L), NEW contents, NEW f \in Fields,
         \A i \in L : batch[i].key \in Keys /\ contents[batch[i].key] = batch[i].value,
         \A i, j \in L : batch[i].key = batch[j].key => i = j,
         \A k \in Keys : (\A i \in L : batch[i].key # k) => contents[k] = entity_cache[k]
  PROVE  /\ Used(contents, f) = Used(entity_cache, f) + Added(L, f)
         /\ Used(entity_cache, f) \in Int /\ Added(L, f) \in Int
  <1> DEFINE e == [i \in L |-> batch[i].key]
             g == [k \in Keys |-> ResourceUsage(k, entity_cache[k])[f]]
             h == [k \in Keys |-> ResourceUsage(k, contents[k])[f]]
             c == [i \in L |-> TableResourceChange(batch[i])[f]]
  <1>1. \A i \in L : e[i] \in Keys
    OBVIOUS
  <1>2. \A i, j \in L : e[i] = e[j] => i = j
    OBVIOUS
  <1>3. \A k \in Keys : g[k] \in Int /\ h[k] \in Int
    BY ResourceUsageIs
  <1>4. \A i \in L : c[i] \in Int /\ h[e[i]] = g[e[i]] + c[i]
    <2> SUFFICES ASSUME NEW i \in L PROVE c[i] \in Int /\ h[e[i]] = g[e[i]] + c[i]
      OBVIOUS
    <2> DEFINE k == batch[i].key
    <2>1. h[e[i]] = ResourceUsage(k, batch[i].value)[f] /\ g[e[i]] = ResourceUsage(k, entity_cache[k])[f]
      OBVIOUS
    <2>2. c[i] = ResourceUsage(k, batch[i].value)[f] - ResourceUsage(k, entity_cache[k])[f]
      BY TableResourceChangeIs
    <2>3. ResourceUsage(k, batch[i].value)[f] \in Nat /\ ResourceUsage(k, entity_cache[k])[f] \in Nat
      BY ResourceUsageIs
    <2> HIDE DEF h, g, c, e, k
    <2> QED BY <2>1, <2>2, <2>3
  <1>5. \A k \in Keys : (\A i \in L : e[i] # k) => h[k] = g[k]
    OBVIOUS
  <1>6. IsFiniteSet(Keys)
    BY WriteConstants
  <1> HIDE DEF e, g, h, c
  <1>7. SumFunctionOnSet(h, Keys) = SumFunctionOnSet(g, Keys) + SumFunctionOnSet(c, L)
    BY <1>1, <1>2, <1>3, <1>4, <1>5, <1>6, SumReindex
  <1>8. SumFunctionOnSet(g, Keys) \in Int /\ SumFunctionOnSet(c, L) \in Int
    BY <1>3, <1>4, <1>6, SumInt
  <1> QED BY <1>7, <1>8 DEF g, h, c, Used, Added

\* A Write that returns keeps the accounts.
LEMMA FinishWriteUtilization ==
  ASSUME IndInv, UtilizationMatchesCache, FinishWrite
  PROVE  UtilizationMatchesCache'
  <1>1. TypeInv /\ AcceptedArePassable /\ UpdateCacheAndUtilizationState
    BY DEF IndInv, FinishWrite
  <1>2. ASSUME NEW f \in Fields PROVE utilization'[f] = Used(entity_cache', f)
    <2>1. utilization'[f] = utilization[f] + Added(Succeeded, f)
      BY <1>1, UtilizationUpdated DEF Added
    <2>2. utilization[f] = Used(entity_cache, f)
      BY <1>1, TotalIs DEF UtilizationMatchesCache
    <2>3. /\ \A i \in Succeeded : entity_cache'[batch[i].key] = batch[i].value
          /\ \A k \in Keys : (\A i \in Succeeded : batch[i].key # k) => entity_cache'[k] = entity_cache[k]
      BY <1>1, CacheUpdated
    <2>4. Used(entity_cache', f) = Used(entity_cache, f) + Added(Succeeded, f)
      BY <1>1, <2>3, SucceededAre, UsedAfter
    <2> QED BY <2>1, <2>2, <2>4
  <1>3. utilization' \in [Fields -> Int] /\ DOMAIN utilization' = Fields
    BY <1>1, UtilizationUpdated
  <1>4. Total(entity_cache)' = [f \in Fields |-> Used(entity_cache', f)]
    BY <1>3 DEF Total, Used, SumFunction
  <1>5. utilization' = [f \in Fields |-> Used(entity_cache', f)]
    BY <1>2, <1>3
  <1> QED BY <1>4, <1>5 DEF UtilizationMatchesCache

\* The accounts start at nothing.
LEMMA InitUtilization == Init => UtilizationMatchesCache
  <1> SUFFICES ASSUME Init PROVE UtilizationMatchesCache
    OBVIOUS
  <1>1. TypeInv
    BY InitInv DEF IndInv
  <1>2. ASSUME NEW f \in Fields PROVE Used(entity_cache, f) = 0
    <2> DEFINE g == [k \in Keys |-> ResourceUsage(k, entity_cache[k])[f]]
    <2>1. \A k \in Keys : g[k] = 0
      BY WriteConstants DEF Init, ResourceUsage, Fields
    <2>2. SumFunctionOnSet(g, Keys) = 0
      <3>1. \A k \in Keys : g[k] \in {0}
        BY <2>1
      <3>2. 0 \in {0} /\ \A a, b \in {0} : a + b \in {0}
        OBVIOUS
      <3> HIDE DEF g
      <3>3. SumFunctionOnSet(g, Keys) \in {0}
        BY <3>1, <3>2, SumIn, WriteConstants
      <3> QED BY <3>3
    <2> QED BY <2>2 DEF Used
  <1>3. utilization \in [Fields -> Int] /\ \A f \in Fields : utilization[f] = 0
    BY <1>1 DEF TypeInv, Fields, Init
  <1>4. utilization = [f \in Fields |-> Used(entity_cache, f)]
    BY <1>2, <1>3
  <1> QED BY <1>1, <1>4, TotalIs DEF UtilizationMatchesCache

\* Without a restart the accounts are those of the cached entries at every
\* moment, whatever failed, and also after the response path has broken.
THEOREM AccountsAreRight == Spec => []UtilizationMatchesCache
  <1>1. IndInv /\ UtilizationMatchesCache /\ [Next]_vars => UtilizationMatchesCache'
    <2> SUFFICES ASSUME IndInv, UtilizationMatchesCache, [Next]_vars PROVE UtilizationMatchesCache'
      OBVIOUS
    <2>1. CASE FinishWrite
      BY <2>1, FinishWriteUtilization
    <2>2. CASE UNCHANGED <<entity_cache, utilization>>
      BY <2>2 DEF UtilizationMatchesCache, Total
    <2>3. \/ FinishWrite \/ UNCHANGED <<entity_cache, utilization>>
      BY DEF Next, vars, Write, SendChunk, OrchAgent, ReceiveResponse, Timeout, EnterCriticalState
    <2> QED BY <2>1, <2>2, <2>3
  <1>2. IndInv /\ [Next]_vars => IndInv'
    BY NextInv DEF RestartNext
  <1> QED BY <1>1, <1>2, InitInv, InitUtilization, PTL DEF Spec
-----------------------------------------------------------------------------
(* The limit of the action profile.  OrchAgent carries out the updates of  *)
(* a batch in order and stops at the first that fails, so all it can hold  *)
(* is the cache with a first part of the batch; and the checks have found  *)
(* room for each first part (FirstPartsFit).                               *)

\* The resource that is counted, by its name.
CountedField == IF UsesSumOfMembers THEN "total_members" ELSE "total_weight"

\* What each update of a batch adds to the resource that is counted.
Changes(b) == [j \in DOMAIN b |-> Counted(TableResourceChange(b[j]))]

\* There is room for every first part of the accepted updates.
FirstPartsFit ==
  ProfileSize # 0 =>
    \A m \in 0..accepted : Counted(utilization) + SumFunctionOnSet(Changes(batch), 1..m) <= ProfileSize

\* Counted selects a field.
LEMMA CountedIs ==
  ASSUME NEW r
  PROVE  Counted(r) = r[CountedField] /\ CountedField \in Fields
  BY DEF Counted, CountedField, Fields

\* If every update passes its checks there is room for each first part: the
\* first one there is no room for would have ended with an update that uses
\* nothing, or that was refused.
LEMMA ChecksFindRoom ==
  ASSUME NEW b \in Batches, NEW a \in 0..Len(b), \A i \in 1..a : CheckUpdate(b, i) = "OK",
         ProfileSize # 0, Counted(utilization) \in Int, Counted(utilization) <= ProfileSize
  PROVE  \A m \in 0..a : Counted(utilization) + SumFunctionOnSet(Changes(b), 1..m) <= ProfileSize
  <1> DEFINE Sum(m) == SumFunctionOnSet(Changes(b), 1..m)
             u0 == Counted(utilization)
             S == {m \in 0..a : ~(u0 + Sum(m) <= ProfileSize)}
  <1>1. SUFFICES ASSUME S # {} PROVE FALSE
    OBVIOUS
  <1>2. Len(b) \in Nat /\ DOMAIN b = 1..Len(b) /\ a \in Nat /\ a <= Len(b) /\ ProfileSize \in Nat
    BY BatchIs, WriteConstants
  <1>3. PICK m \in S : \A k \in S : m <= k
    <2>1. S \subseteq 0..a
      OBVIOUS
    <2> HIDE DEF S
    <2> QED BY <1>1, <1>2, <2>1, LeastMember
  <1>4. \A j \in 1..a : Changes(b)[j] = TableResourceChange(b[j])[CountedField] /\ Changes(b)[j] \in Int
    <2> SUFFICES ASSUME NEW j \in 1..a
                 PROVE  Changes(b)[j] = TableResourceChange(b[j])[CountedField] /\ Changes(b)[j] \in Int
      OBVIOUS
    <2>1. j \in DOMAIN b
      BY <1>2
    <2> QED BY <2>1, CountedIs, TableResourceChangeIs DEF Changes
  <1>5. m # 0
    <2>1. Sum(0) = 0
      <3>1. 1..0 = {}
        OBVIOUS
      <3> QED BY <3>1, SumEmpty
    <2> HIDE DEF Sum, u0
    <2> QED BY <1>2, <1>3, <2>1 DEF u0
  <1>6. m \in 1..a /\ m - 1 \in 0..a /\ ~(m <= m - 1)
    BY <1>2, <1>3, <1>5
  <1>7. u0 + Sum(m - 1) <= ProfileSize
    BY <1>3, <1>6
  <1>8. Sum(m) = Changes(b)[m] + Sum(m - 1) /\ Sum(m - 1) \in Int
    <2>1. IsFiniteSet(1..m) /\ IsFiniteSet(1..(m - 1))
      BY <1>6, FS_Interval
    <2>2. \A j \in 1..m : j \in 1..a
      BY <1>2, <1>6
    <2>3. (1..m) \ {m} = 1..(m - 1) /\ m \in 1..m
      BY <1>2, <1>6
    <2>4. \A j \in 1..(m - 1) : j \in 1..a
      BY <1>2, <1>6
    <2>5. SumFunctionOnSet(Changes(b), 1..m) = Changes(b)[m] + SumFunctionOnSet(Changes(b), (1..m) \ {m})
      BY <1>4, <2>1, <2>2, <2>3, SumRemove
    <2>6. SumFunctionOnSet(Changes(b), 1..(m - 1)) \in Int
      BY <1>4, <2>1, <2>4, SumInt
    <2> QED BY <2>3, <2>5, <2>6
  <1>9. VerifyCapacity(b, m) = "OK"
    <2>1. CheckUpdate(b, m) = "OK"
      BY <1>6
    <2> QED BY <2>1 DEF CheckUpdate
  <1>10. CASE b[m].key \in GroupKeys
    <2>1. ~Exceeds(Counted(utilization) + ResourcesInBatch(b, m) + Counted(TableResourceChange(b[m])), ProfileSize)
      BY <1>9, <1>10 DEF VerifyCapacity
    <2>2. ResourcesInBatch(b, m) = Sum(m - 1)
      BY DEF ResourcesInBatch, Changes
    <2>3. Counted(TableResourceChange(b[m])) = Changes(b)[m] /\ Changes(b)[m] \in Int
      BY <1>4, <1>6, CountedIs
    <2>4. ~(u0 + Sum(m - 1) + Changes(b)[m] > ProfileSize)
      BY <2>1, <2>2, <2>3 DEF Exceeds
    <2>5. ~(u0 + Sum(m) <= ProfileSize)
      BY <1>3
    <2>6. u0 \in Int
      OBVIOUS
    <2> HIDE DEF Sum, u0, S
    <2> QED BY <1>2, <1>8, <2>3, <2>4, <2>5, <2>6
  <1>11. CASE b[m].key \notin GroupKeys
    <2>1. Changes(b)[m] = 0
      <3>1. \A v : ResourceUsage(b[m].key, v)[CountedField] = 0
        BY <1>11 DEF ResourceUsage, CountedField
      <3>2. TableResourceChange(b[m])[CountedField] = 0 - 0
        BY <3>1, CountedIs, TableResourceChangeIs
      <3> QED BY <1>4, <1>6, <3>2
    <2>2. ~(u0 + Sum(m) <= ProfileSize)
      BY <1>3
    <2> HIDE DEF Sum, u0, S
    <2> QED BY <1>7, <1>8, <2>1, <2>2
  <1> QED BY <1>10, <1>11

\* What the accounts, or the hardware, come to after a first part of the batch.
LEMMA FirstPartIs ==
  ASSUME TypeInv, AcceptedArePassable, NEW m \in 0..accepted
  PROVE  Added(1..m, CountedField) = SumFunctionOnSet(Changes(batch), 1..m)
  <1>1. accepted \in Nat /\ accepted <= Len(batch) /\ DOMAIN batch = 1..Len(batch) /\ Len(batch) \in Nat
    BY LenProperties DEF TypeInv
  <1>2. IsFiniteSet(1..m)
    BY FS_Interval
  <1> DEFINE c == [i \in 1..m |-> TableResourceChange(batch[i])[CountedField]]
  <1>3. \A i \in 1..m : c[i] = Changes(batch)[i]
    <2> SUFFICES ASSUME NEW i \in 1..m PROVE c[i] = Changes(batch)[i]
      OBVIOUS
    <2>1. i \in DOMAIN batch
      BY <1>1
    <2> QED BY <2>1, CountedIs DEF Changes
  <1> HIDE DEF c
  <1>4. SumFunctionOnSet(c, 1..m) = SumFunctionOnSet(Changes(batch), 1..m)
    BY <1>2, <1>3, SumCongruent
  <1> QED BY <1>4 DEF c, Added

\* A batch that is checked fits.
LEMMA WriteFits ==
  ASSUME IndInv, ~critical, FirstPartsFit, NEW b \in Batches, Write(b)
  PROVE  FirstPartsFit'
  <1>1. /\ pc = "idle" /\ batch' = b /\ accepted' = AcceptedUpdates(b)
        /\ UNCHANGED <<entity_cache, utilization>>
    BY DEF Write
  <1>2. SUFFICES ASSUME ProfileSize # 0
                 PROVE  \A m \in 0..accepted' : Counted(utilization)' + SumFunctionOnSet(Changes(batch)', 1..m) <= ProfileSize
    BY DEF FirstPartsFit
  <1>3. Counted(utilization) \in Int /\ Counted(utilization) <= ProfileSize
    <2>1. Counted(utilization) \in Int
      BY CountedIs DEF IndInv, TypeInv, Fields
    <2>2. accepted = 0 /\ 1..0 = {}
      BY <1>1, IdleIs DEF IndInv
    <2>3. Counted(utilization) + SumFunctionOnSet(Changes(batch), 1..0) <= ProfileSize
      BY <1>2, <2>2 DEF FirstPartsFit
    <2>4. SumFunctionOnSet(Changes(batch), 1..0) = 0
      BY <2>2, SumEmpty
    <2> QED BY <2>1, <2>3, <2>4
  <1>4. /\ AcceptedUpdates(b) \in 0..Len(b)
        /\ \A i \in 1..AcceptedUpdates(b) : CheckUpdate(b, i) = "OK"
    BY ChecksOfBatch
  <1>5. \A m \in 0..AcceptedUpdates(b) : Counted(utilization) + SumFunctionOnSet(Changes(b), 1..m) <= ProfileSize
    BY <1>2, <1>3, <1>4, ChecksFindRoom
  <1>6. Counted(utilization)' = Counted(utilization) /\ Changes(batch)' = Changes(b)
    BY <1>1 DEF Counted, Changes, TableResourceChange
  <1> QED BY <1>1, <1>5, <1>6

\* A Write that returns leaves room for what is there.
LEMMA FinishWriteFits ==
  ASSUME IndInv, ~critical, FirstPartsFit, FinishWrite
  PROVE  FirstPartsFit'
  <1>1. /\ batch' = <<>> /\ accepted' = 0 /\ UpdateCacheAndUtilizationState
        /\ TypeInv /\ AcceptedArePassable
    BY DEF FinishWrite, IndInv
  <1>2. SUFFICES ASSUME ProfileSize # 0
                 PROVE  Counted(utilization)' + SumFunctionOnSet(Changes(batch)', 1..0) <= ProfileSize
    BY <1>1 DEF FirstPartsFit
  <1>3. PICK n \in 0..accepted : Succeeded = 1..n
    BY OutcomeIs
  <1>4. utilization'[CountedField] = utilization[CountedField] + Added(1..n, CountedField)
    BY <1>1, <1>3, CountedIs, UtilizationUpdated DEF Added
  <1>5. Counted(utilization)' = Counted(utilization) + SumFunctionOnSet(Changes(batch), 1..n)
    <2>1. Counted(utilization)' = utilization'[CountedField]
      BY DEF Counted, CountedField
    <2> QED BY <1>1, <1>4, <2>1, CountedIs, FirstPartIs
  <1>6. Counted(utilization)' <= ProfileSize
    BY <1>2, <1>5 DEF FirstPartsFit
  <1>7. SumFunctionOnSet(Changes(batch)', 1..0) = 0
    <2>1. 1..0 = {}
      OBVIOUS
    <2> QED BY <2>1, SumEmpty
  <1>8. Counted(utilization)' \in Int
    <2>1. utilization' \in [Fields -> Int]
      BY <1>1, UtilizationUpdated
    <2> QED BY <2>1 DEF Counted, Fields
  <1> QED BY <1>6, <1>7, <1>8

\* In step, what the hardware holds is the cache with a first part of the batch.
LEMMA HardwareIs ==
  ASSUME IndInv, ~critical
  PROVE  \E m \in 0..accepted : CacheWith(app_state_db, m)
  <1>1. TypeInv /\ AcceptedArePassable /\ InStep /\ accepted \in Nat /\ done \in 0..accepted
    BY LenProperties DEF IndInv, TypeInv
  <1>2. CASE pc # "wait"
    <2>1. PICK n \in 0..done : CacheWith(app_state_db, n)
      BY <1>1, <1>2 DEF InStep, BetweenChunks
    <2>2. n \in 0..accepted
      BY <1>1
    <2> QED BY <2>1, <2>2
  <1>3. CASE pc = "wait"
    <2>1. PICK n \in 0..Cardinality(Chunk) : CacheWith(app_state_db, done + n)
      BY <1>1, <1>3 DEF InStep, DuringChunk
    <2>2. Cardinality(Chunk) \in 1..(accepted - done)
      BY <1>1, <1>3, ChunkUpdatesAre DEF TypeInv
    <2>3. done + n \in 0..accepted
      BY <1>1, <2>2
    <2> QED BY <2>1, <2>3
  <1> QED BY <1>2, <1>3

\* With the accounts right and room for every first part, the limit is kept.
LEMMA LimitIsKept ==
  ASSUME IndInv, UtilizationMatchesCache, ~critical => FirstPartsFit
  PROVE  HardwareWithinLimits
  <1> SUFFICES ASSUME ~critical, ProfileSize # 0
               PROVE  ~(Counted(Total(app_state_db)) > ProfileSize)
    BY DEF HardwareWithinLimits, Exceeds
  <1>1. TypeInv /\ AcceptedArePassable /\ ProfileSize \in Nat
    BY WriteConstants DEF IndInv
  <1>2. PICK m \in 0..accepted : CacheWith(app_state_db, m)
    BY HardwareIs
  <1>3. accepted \in Nat /\ accepted <= Len(batch) /\ Len(batch) \in Nat /\ m \in Nat
    BY <1>1, LenProperties DEF TypeInv
  <1>4. \A i \in 1..m : i \in 1..accepted /\ batch[i].key \in Keys
    <2> SUFFICES ASSUME NEW i \in 1..m PROVE i \in 1..accepted /\ batch[i].key \in Keys
      OBVIOUS
    <2>1. i \in 1..accepted /\ i \in 1..Len(batch)
      BY <1>3
    <2>2. batch[i] \in Sendable
      BY <1>1, <2>1, ElementOfSeq DEF TypeInv, AcceptedArePassable, Sendable
    <2> QED BY <2>1, <2>2, SendableIs
  <1>5. \A i, j \in 1..m : batch[i].key = batch[j].key => i = j
    BY <1>1, <1>4 DEF AcceptedArePassable
  <1>6. /\ Used(app_state_db, CountedField) = Used(entity_cache, CountedField) + Added(1..m, CountedField)
    <2>1. IsFiniteSet(1..m)
      BY <1>3, FS_Interval
    <2> QED BY <1>2, <1>4, <1>5, <2>1, CountedIs, UsedAfter DEF CacheWith
  <1>7. Counted(Total(app_state_db)) = Used(app_state_db, CountedField)
    BY <1>1, CountedIs, TotalIs
  <1>8. Counted(utilization) = Used(entity_cache, CountedField)
    <2>1. Counted(utilization) = Total(entity_cache)[CountedField]
      BY CountedIs DEF UtilizationMatchesCache
    <2> QED BY <1>1, <2>1, CountedIs, TotalIs
  <1>9. Counted(utilization) + SumFunctionOnSet(Changes(batch), 1..m) <= ProfileSize
    BY DEF FirstPartsFit
  <1>10. Counted(Total(app_state_db)) = Counted(utilization) + SumFunctionOnSet(Changes(batch), 1..m)
    BY <1>1, <1>6, <1>7, <1>8, FirstPartIs
  <1>11. Counted(utilization) + SumFunctionOnSet(Changes(batch), 1..m) \in Int
    <2>1. IsFiniteSet(1..m)
      BY <1>3, FS_Interval
    <2>2. \A i \in 1..m : Changes(batch)[i] \in Int
      <3> SUFFICES ASSUME NEW i \in 1..m PROVE Changes(batch)[i] \in Int
        OBVIOUS
      <3>1. i \in DOMAIN batch
        BY <1>1, <1>3, LenProperties DEF TypeInv
      <3> QED BY <3>1, CountedIs, TableResourceChangeIs DEF Changes
    <2>3. SumFunctionOnSet(Changes(batch), 1..m) \in Int
      BY <2>1, <2>2, SumInt
    <2>4. Counted(utilization) \in Int
      BY <1>1, CountedIs DEF TypeInv, Fields
    <2> QED BY <2>3, <2>4
  <1> HIDE DEF Counted
  <1> QED BY <1>1, <1>9, <1>10, <1>11

\* Without a restart the hardware never holds more than the profile's size, at
\* no moment of any batch, with either way of counting.
THEOREM LimitsAreKept == Spec => []HardwareWithinLimits
  <1> DEFINE Fits == ~critical => FirstPartsFit
  <1>1. Init => Fits
    <2> SUFFICES ASSUME Init PROVE FirstPartsFit
      OBVIOUS
    <2>1. Counted(utilization) = 0 /\ 0..accepted = {0} /\ 1..0 = {} /\ ProfileSize \in Nat
      BY WriteConstants DEF Init, Counted
    <2>2. SumFunctionOnSet(Changes(batch), 1..0) = 0
      BY <2>1, SumEmpty
    <2> QED BY <2>1, <2>2 DEF FirstPartsFit
  <1>2. IndInv /\ Fits /\ [Next]_vars => Fits'
    <2> SUFFICES ASSUME IndInv, Fits, [Next]_vars, ~critical' PROVE FirstPartsFit'
      OBVIOUS
    <2>1. ~critical
      BY DEF Next, vars, Write, SendChunk, OrchAgent, ReceiveResponse, Timeout, FinishWrite, EnterCriticalState
    <2>2. CASE \E b \in Batches : Write(b)
      BY <2>1, <2>2, WriteFits
    <2>3. CASE FinishWrite
      BY <2>1, <2>3, FinishWriteFits
    <2>4. CASE UNCHANGED <<entity_cache, utilization, batch, accepted>>
      <3>1. Changes(batch)' = Changes(batch) /\ Counted(utilization)' = Counted(utilization)
        BY <2>4 DEF Changes, Counted, TableResourceChange
      <3> QED BY <2>1, <2>4, <3>1 DEF FirstPartsFit
    <2>5. \/ \E b \in Batches : Write(b)
          \/ FinishWrite
          \/ UNCHANGED <<entity_cache, utilization, batch, accepted>>
      BY DEF Next, vars, SendChunk, OrchAgent, ReceiveResponse, Timeout, EnterCriticalState
    <2> QED BY <2>2, <2>3, <2>4, <2>5
  <1>3. IndInv /\ [Next]_vars => IndInv'
    BY NextInv DEF RestartNext
  <1>4. IndInv /\ UtilizationMatchesCache /\ Fits => HardwareWithinLimits
    BY LimitIsKept
  <1> QED BY <1>1, <1>2, <1>3, <1>4, InitInv, AccountsAreRight, PTL DEF Spec
=============================================================================
