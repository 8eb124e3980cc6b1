-------------------------- MODULE P4RuntimeWrite --------------------------
(***************************************************************************)
(* P4RuntimeImpl::Write, from an accepted request to its response: the     *)
(* checks of p4runtime_impl.cc and resource_utilization.cc, the AppDb      *)
(* layer below them (sonic/app_db_manager.cc, vrf_entry_translation.cc,    *)
(* vlan_entry_translation.cc) and the response path                        *)
(* (sonic/response_handler.cc).                                            *)
(*                                                                         *)
(* Write holds server_state_lock_ until it returns, so there is one Write  *)
(* at a time.  It runs concurrently with OrchAgent, another process, which *)
(* answers late, refuses updates, or answers only after Write gave up.     *)
(* Entries of the P4RT table travel over ZMQ in chunks; VRF, VLAN and VLAN *)
(* member entries travel one by one through Redis.                         *)
(***************************************************************************)
EXTENDS Integers, Sequences, FiniteSetsExt, Functions

CONSTANTS
  Keys,             \* entity keys, one AppDb key each
  Table,            \* [Keys -> Tables], GetAppDbTableType
  GroupKeys,        \* keys of the table that uses the action profile
  Values,           \* action sets: each the sequence of its members' weights
  Absent,           \* no entry
  Untranslatable,   \* an entity PiUpdateToEntityUpdate rejects
  UsesSumOfMembers, \* the action profile's size semantics
  ProfileSize, MaxGroupSize, MaxWeightPerMember,  \* its limits; 0: none
  RequestUpdates,   \* bound: the updates requests are made of
  MaxBatch,         \* bound: updates in a request
  MaxPending        \* bound: unanswered requests in a table's channel

Tables == {"P4RT", "VRF", "VLAN", "VLAN_MEMBER"}

\* A DELETE carries no action; the key alone counts.
Updates ==
  [type : {"INSERT", "MODIFY"}, key : Keys, value : Values \cup {Untranslatable}]
    \cup [type : {"DELETE"}, key : Keys, value : {Absent, Untranslatable}]

ASSUME WriteConstants ==
  /\ IsFiniteSet(Keys)
  /\ Table \in [Keys -> Tables]
  /\ GroupKeys \subseteq {k \in Keys : Table[k] = "P4RT"}
  /\ Values \subseteq Seq(Nat)
  /\ Absent \notin Values
  /\ Untranslatable \notin Values \cup {Absent}
  /\ UsesSumOfMembers \in BOOLEAN
  /\ {ProfileSize, MaxGroupSize, MaxWeightPerMember, MaxPending} \subseteq Nat
  /\ RequestUpdates \subseteq Updates
  /\ MaxBatch \in Nat \ {0}

VARIABLES
  entity_cache,  \* entity_cache_
  utilization,   \* capacity_by_action_profile_name_: current totals
  app_db,        \* APPL_DB
  app_state_db,  \* APPL_STATE_DB, what the hardware holds
  pc,            \* where the Write in progress is
  batch,         \* its updates
  statuses,      \* its rpc_response; kept once it has returned
  accepted,      \* size of app_db_updates, a prefix of the batch
  done,          \* updates handled by PerformAppDbUpdates so far
  requests,      \* [Tables -> chunks OrchAgent has not handled]
  responses,     \* [Tables -> answers P4RT App has not read]
  critical       \* EnterCriticalState has been called

vars == <<entity_cache, utilization, app_db, app_state_db, pc, batch, statuses,
          accepted, done, requests, responses, critical>>

Contents == [Keys -> Values \cup {Absent}]

Batches == UNION {[1..n -> RequestUpdates] : n \in 1..MaxBatch}

Codes == {"OK", "INVALID_ARGUMENT", "ALREADY_EXISTS", "NOT_FOUND",
          "RESOURCE_EXHAUSTED", "FAILED", "ABORTED"}

Init ==
  /\ entity_cache = [k \in Keys |-> Absent]
  /\ utilization = [total_weight |-> 0, total_members |-> 0]
  /\ app_db = [k \in Keys |-> Absent]
  /\ app_state_db = [k \in Keys |-> Absent]
  /\ pc = "idle"
  /\ batch = <<>>
  /\ statuses = <<>>
  /\ accepted = 0
  /\ done = 0
  /\ requests = [t \in Tables |-> <<>>]
  /\ responses = [t \in Tables |-> <<>>]
  /\ critical = FALSE

-----------------------------------------------------------------------------
(* Action profile resources.                                               *)

\* GetResourceUsageFor{Ir,Pi}TableEntry.  Entries of the other tables, and
\* entries that are not there, use nothing.
ResourceUsage(k, v) ==
  IF k \notin GroupKeys \/ v \notin Values
  THEN [total_weight |-> 0, total_members |-> 0]
  ELSE [total_weight |-> SumFunction(v), total_members |-> Len(v)]

\* Mutation: a MODIFY does not give back what the old entry used.
NewUsageOnly(u) ==
  LET new == ResourceUsage(u.key, u.value)
      old == IF u.type = "DELETE" THEN ResourceUsage(u.key, entity_cache[u.key])
             ELSE [total_weight |-> 0, total_members |-> 0]
  IN  [total_weight  |-> new.total_weight - old.total_weight,
       total_members |-> new.total_members - old.total_members]

\* The resources an update adds, less those its old entry gives back.
TableResourceChange(u) ==
  LET new == ResourceUsage(u.key, u.value)
      old == ResourceUsage(u.key, entity_cache[u.key])
  IN  [total_weight  |-> new.total_weight - old.total_weight,
       total_members |-> new.total_members - old.total_members]

\* The quantity the profile's limit is about.
Counted(resources) ==
  IF UsesSumOfMembers THEN resources.total_members ELSE resources.total_weight

\* Mutation: the updates before i in the batch are left out of the account.
NothingInBatch(b, i) == 0

\* resources_in_batch when update i is checked.
ResourcesInBatch(b, i) ==
  SumFunctionOnSet([j \in DOMAIN b |-> Counted(TableResourceChange(b[j]))],
                   1..(i - 1))

Exceeds(n, limit) == limit # 0 /\ n > limit

\* VerifyCapacityAndGetTableResourceChange: what the new entry asks for
\* alone, then what everything together would use.
VerifyCapacity(b, i) ==
  LET u   == b[i]
      new == ResourceUsage(u.key, u.value)
  IN  IF u.key \notin GroupKeys THEN "OK"
      ELSE IF \/ Exceeds(Counted(new), MaxGroupSize)
              \/ /\ UsesSumOfMembers
                 /\ u.type # "DELETE"
                 /\ \E m \in DOMAIN u.value :
                      Exceeds(u.value[m], MaxWeightPerMember)
           THEN "INVALID_ARGUMENT"
      ELSE IF Exceeds(Counted(utilization) + ResourcesInBatch(b, i)
                        + Counted(TableResourceChange(u)), ProfileSize)
           THEN "RESOURCE_EXHAUSTED"
      ELSE "OK"

-----------------------------------------------------------------------------
(* PiEntityUpdatesToIr: which updates go to the lower layers.              *)

\* PiUpdateToEntityUpdate: the entity has no translation, breaks a P4
\* constraint or belongs to a table the role may not write; or it modifies
\* an entry of a table whose entries cannot be modified.
Translates(u) ==
  /\ u.value # Untranslatable
  /\ u.type = "MODIFY" => Table[u.key] \notin {"VRF", "VLAN"}

DuplicateKey(b, i) == \E j \in 1..(i - 1) : b[j].key = b[i].key

VerifyEntityCacheForExistence(u) ==
  CASE u.type = "INSERT" /\ entity_cache[u.key] # Absent -> "ALREADY_EXISTS"
    [] u.type # "INSERT" /\ entity_cache[u.key] = Absent -> "NOT_FOUND"
    [] OTHER -> "OK"

\* The outcome of update i, all before it having passed.
CheckUpdate(b, i) ==
  IF ~Translates(b[i]) THEN "INVALID_ARGUMENT"
  ELSE IF DuplicateKey(b, i) THEN "INVALID_ARGUMENT"
  ELSE IF VerifyEntityCacheForExistence(b[i]) # "OK"
       THEN VerifyEntityCacheForExistence(b[i])
  ELSE VerifyCapacity(b, i)

\* The first update that fails its check, if one does.
FirstRejected(b) ==
  Min({i \in DOMAIN b : CheckUpdate(b, i) # "OK"} \cup {Len(b) + 1})

HasDuplicates(b) ==
  LET i == FirstRejected(b)
  IN  i <= Len(b) /\ Translates(b[i]) /\ DuplicateKey(b, i)

\* A duplicate key abandons the whole batch, any other error what follows.
AcceptedUpdates(b) == IF HasDuplicates(b) THEN 0 ELSE FirstRejected(b) - 1

InitialStatuses(b) ==
  IF HasDuplicates(b)
  THEN [i \in DOMAIN b |-> IF i = 1 THEN "INVALID_ARGUMENT" ELSE "ABORTED"]
  ELSE [i \in DOMAIN b |-> IF i <= FirstRejected(b) THEN CheckUpdate(b, i)
                                                    ELSE "ABORTED"]

\* A Write that may pass: it comes from the primary and a pipeline config is
\* set.  Nothing else is asked of it.  The bound keeps the channels short.
Write(b) ==
  /\ pc = "idle"
  /\ \/ \A t \in Tables : Len(requests[t]) + Len(responses[t]) <= MaxPending
     \/ AcceptedUpdates(b) = 0
  /\ pc' = "perform"
  /\ batch' = b
  /\ statuses' = InitialStatuses(b)
  /\ accepted' = AcceptedUpdates(b)
  /\ done' = 0
  /\ UNCHANGED <<entity_cache, utilization, app_db, app_state_db, requests,
                 responses, critical>>

-----------------------------------------------------------------------------
(* PerformAppDbUpdates.                                                    *)

InTable(i) == Table[batch[i].key]

\* The updates to send next: every P4RT update up to the next one of another
\* table, or a single update of another table.
Chunk ==
  IF InTable(done + 1) # "P4RT" THEN {done + 1}
  ELSE {i \in (done + 1)..accepted :
          \A j \in (done + 1)..i : InTable(j) = "P4RT"}

ChunkTable == InTable(done + 1)

\* SET and DEL: a SET replaces the entry, whatever was there.
Applied(contents, us) ==
  [k \in Keys |-> IF \E i \in DOMAIN us : us[i].key = k
                  THEN us[CHOOSE i \in DOMAIN us : us[i].key = k].value
                  ELSE contents[k]]

ChunkUpdates == [i \in 1..Cardinality(Chunk) |-> batch[done + i]]

\* PerformAppDbP4rtUpdates sends the chunk; PerformAppDb{Vrf,Vlan,VlanMember}-
\* Update drains the old notifications and writes the entry to APPL_DB first.
SendChunk ==
  /\ pc = "perform"
  /\ done < accepted
  /\ pc' = "wait"
  /\ requests' = [requests EXCEPT ![ChunkTable] = Append(@, ChunkUpdates)]
  /\ IF ChunkTable = "P4RT"
     THEN UNCHANGED <<responses, app_db>>
     ELSE /\ responses' = [responses EXCEPT ![ChunkTable] = <<>>]
          /\ app_db' = Applied(app_db, ChunkUpdates)
  /\ UNCHANGED <<entity_cache, utilization, app_state_db, batch, statuses,
                 accepted, done, critical>>

\* OrchAgent takes a chunk of table t and programs its updates in order; the
\* first n succeed, the one after fails, the rest is not executed.
OrchAgent(t, n) ==
  /\ requests[t] # <<>>
  /\ LET us  == Head(requests[t])
         ok  == SubSeq(us, 1, n)
     IN  /\ n <= Len(us)
         /\ app_state_db' = Applied(app_state_db, ok)
         /\ app_db' = IF t = "P4RT" THEN Applied(app_db, ok) ELSE app_db
         /\ responses' = [responses EXCEPT ![t] = Append(@,
              [i \in DOMAIN us |->
                [key  |-> us[i].key,
                 code |-> IF i <= n THEN "OK"
                          ELSE IF i = n + 1 THEN "FAILED" ELSE "ABORTED"]])]
  /\ requests' = [requests EXCEPT ![t] = Tail(@)]
  /\ UNCHANGED <<entity_cache, utilization, pc, batch, statuses, accepted,
                 done, critical>>

-----------------------------------------------------------------------------
(* The response path.                                                      *)

\* Exactly the keys that were sent, each once.
ResponseMatches(response) ==
  /\ Len(response) = Cardinality(Chunk)
  /\ {response[i].key : i \in DOMAIN response} = {batch[i].key : i \in Chunk}

ResponseCode(response, k) ==
  response[CHOOSE i \in DOMAIN response : response[i].key = k].code

ChunkFailed(response) == \E i \in DOMAIN response : response[i].code # "OK"

\* Mutation: the updates after a failed chunk keep their status.
AbortNothing(response) ==
  [i \in DOMAIN batch |->
     IF i \in Chunk /\ ResponseCode(response, batch[i].key) # "OK"
     THEN ResponseCode(response, batch[i].key)
     ELSE statuses[i]]

\* UpdateResponsesAndRestoreState, and PerformAppDbUpdates once it failed.
UpdatedStatuses(response) ==
  [i \in DOMAIN batch |->
     IF i \in Chunk
     THEN IF ResponseCode(response, batch[i].key) # "OK"
          THEN ResponseCode(response, batch[i].key) ELSE statuses[i]
     ELSE IF ChunkFailed(response) /\ i > done /\ i <= accepted
          THEN "ABORTED"
     ELSE statuses[i]]

\* Mutation: a refused entry stays in APPL_DB.
RestoreNothing == app_db

\* The refused entry is put back to what APPL_STATE_DB holds.
RestoreApplDb ==
  [app_db EXCEPT ![batch[done + 1].key] = app_state_db[batch[done + 1].key]]

\* Write ends with INTERNAL; the cache is not touched.
EnterCriticalState ==
  /\ critical' = TRUE
  /\ pc' = "idle"
  /\ batch' = <<>>
  /\ statuses' = <<>>
  /\ accepted' = 0
  /\ done' = 0
  /\ UNCHANGED <<entity_cache, utilization>>

\* The oldest answer in the chunk's channel is read.  If it is not the answer
\* to this chunk the response path is broken.
ReceiveResponse ==
  /\ pc = "wait"
  /\ responses[ChunkTable] # <<>>
  /\ LET response == Head(responses[ChunkTable])
     IN  \/ /\ ResponseMatches(response)
            /\ pc' = "perform"
            /\ statuses' = UpdatedStatuses(response)
            /\ done' = IF ChunkFailed(response) THEN accepted ELSE Max(Chunk)
            /\ app_db' = IF ChunkFailed(response) /\ ChunkTable # "P4RT"
                         THEN RestoreApplDb ELSE app_db
            /\ UNCHANGED <<entity_cache, utilization, batch, accepted, critical>>
         \/ /\ ~ResponseMatches(response)
            /\ EnterCriticalState
            /\ UNCHANGED app_db
  /\ responses' = [responses EXCEPT ![ChunkTable] = Tail(@)]
  /\ UNCHANGED <<app_state_db, requests>>

\* Mutation: no limit on the wait.
WaitForever == FALSE /\ UNCHANGED vars

\* No answer in time.  It may still come.
Timeout ==
  /\ pc = "wait"
  /\ responses[ChunkTable] = <<>>
  /\ EnterCriticalState
  /\ UNCHANGED <<app_db, app_state_db, requests, responses>>

-----------------------------------------------------------------------------
(* The end of Write.                                                       *)

\* Mutation: the layers' errors are reported as they are.
EveryErrorReported == statuses

\* All errors but the first are reported as ABORTED.
FailOnFirst ==
  [i \in DOMAIN statuses |->
     IF statuses[i] # "OK" /\ \E j \in 1..(i - 1) : statuses[j] # "OK"
     THEN "ABORTED" ELSE statuses[i]]

Succeeded == {i \in 1..accepted : statuses[i] = "OK"}

\* UpdateCacheAndUtilizationState, for the updates that succeeded.
UpdateCacheAndUtilizationState ==
  /\ entity_cache' =
       [k \in Keys |-> IF \E i \in Succeeded : batch[i].key = k
                       THEN batch[CHOOSE i \in Succeeded : batch[i].key = k].value
                       ELSE entity_cache[k]]
  /\ LET change == [i \in Succeeded |-> TableResourceChange(batch[i])]
     IN  utilization' =
           [f \in DOMAIN utilization |->
              utilization[f] + SumFunction([i \in Succeeded |-> change[i][f]])]

FinishWrite ==
  /\ pc = "perform"
  /\ done = accepted
  /\ UpdateCacheAndUtilizationState
  /\ statuses' = FailOnFirst
  /\ pc' = "idle"
  /\ batch' = <<>>
  /\ accepted' = 0
  /\ done' = 0
  /\ UNCHANGED <<app_db, app_state_db, requests, responses, critical>>

-----------------------------------------------------------------------------
Next ==
  \/ \E b \in Batches : Write(b)
  \/ SendChunk
  \/ \E t \in Tables : \E n \in 0..MaxBatch : OrchAgent(t, n)
  \/ ReceiveResponse
  \/ Timeout
  \/ FinishWrite

Spec == Init /\ [][Next]_vars

\* The thread of a Write in progress keeps running.  OrchAgent need not.
FairSpec == Spec /\ WF_vars(SendChunk) /\ WF_vars(ReceiveResponse)
                 /\ WF_vars(Timeout) /\ WF_vars(FinishWrite)

-----------------------------------------------------------------------------
(* Properties.                                                             *)

Total(contents) ==
  [f \in DOMAIN utilization |->
     SumFunction([k \in Keys |-> ResourceUsage(k, contents[k])[f]])]

\* In particular, every update of a request has a status.
TypeOK ==
  /\ {entity_cache, app_db, app_state_db} \subseteq Contents
  /\ DOMAIN utilization = {"total_weight", "total_members"}
  /\ \A f \in DOMAIN utilization : utilization[f] \in Int
  /\ pc \in {"idle", "perform", "wait"}
  /\ batch \in Batches \cup {<<>>}
  /\ \A i \in DOMAIN statuses : statuses[i] \in Codes
  /\ pc # "idle" => Len(statuses) = Len(batch)
  /\ accepted \in 0..Len(batch)
  /\ done \in 0..accepted
  /\ critical \in BOOLEAN

\* Between requests the cache, which Read answers from and every check of the
\* next Write relies on, is what the hardware holds, and so is APPL_DB, which
\* a restart rebuilds the cache from: whatever mix of tables, errors of either
\* layer and refusals of OrchAgent the requests met.  A response path that
\* broke is the exception; Write reports it as critical.
CacheMatchesSwitch ==
  pc = "idle" /\ ~critical =>
    entity_cache = app_state_db /\ app_db = app_state_db

\* The accounts of the action profile are those of the cached entries, also
\* after batches that succeed in part and after a broken response path.
UtilizationMatchesCache == utilization = Total(entity_cache)

\* At no moment, also halfway through a batch that both frees and takes
\* resources, does the hardware hold more than the profile's size.
HardwareWithinLimits ==
  ~critical => ~Exceeds(Counted(Total(app_state_db)), ProfileSize)

\* Fail on first, through all layers: a request's updates that succeeded come
\* first, then one error, then only ABORTED.
ReportsFirstFailure ==
  pc = "idle" /\ ~critical =>
    \E n \in 0..Len(statuses) :
      \A i \in DOMAIN statuses :
        /\ i <= n <=> statuses[i] = "OK"
        /\ i > n + 1 <=> statuses[i] = "ABORTED"

\* A response is true of the hardware: an entry of the request is what the
\* update reported OK made it, and as before if there is no such update.
ResponseTellsTheTruth ==
  [][pc = "perform" /\ pc' = "idle" /\ ~critical =>
       \A k \in Keys :
         LET ok == {i \in DOMAIN batch : batch[i].key = k /\ statuses'[i] = "OK"}
         IN  /\ ok = {} => app_state_db[k] = entity_cache[k]
             /\ \A i \in ok : app_state_db[k] = batch[i].value]_vars

\* Every Write returns, even if OrchAgent never answers: nobody else could get
\* server_state_lock_ any more.
WriteReturns == pc # "idle" ~> pc = "idle"

\* What the comment in PiEntityUpdatesToIr says of the batch account: "we do
\* not assume a MODIFY or DELETE will succeed. So if a request would free
\* resources we act as if it does not".  Every update that goes to the lower
\* layers fits even if none of those before it frees anything.
FreedResourcesNotReused ==
  pc = "perform" /\ done = 0 /\ ProfileSize # 0 =>
    \A i \in 1..accepted :
      LET change == [j \in 1..i |-> Counted(TableResourceChange(batch[j]))]
      IN  change[i] > 0 =>
            Counted(utilization) + change[i]
              + SumFunctionOnSet([j \in 1..i |-> Max({0, change[j]})], 1..(i - 1))
            <= ProfileSize

\* What the comment on Write promises: "Requests will be rejected if: [...] The
\* switch is in a critical state".
RejectedWhenCritical == [][critical /\ pc = "idle" => pc' = "idle"]_vars
=============================================================================
