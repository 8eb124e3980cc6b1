------------------------ MODULE PipelineConfigProofs ------------------------
(***************************************************************************)
(* Proofs about PipelineConfig, for any finite set of ACL tables, any hash *)
(* fields, configs and entries.                                            *)
(*                                                                         *)
(* First what the sequences of steps that ConfigureAppDbTables,            *)
(* TransitionHashConfig and TransitionAcls plan will have done when all of *)
(* their steps are (Plan); then an inductive invariant that says of every  *)
(* moment of a transition what the steps still to come will do to what is  *)
(* there (Underway), and that no essential entry is deleted where it is    *)
(* the only copy (DeletesAreCovered).                                      *)
(***************************************************************************)
EXTENDS PipelineConfig, CollectionTheorems

-----------------------------------------------------------------------------
(* What a sequence of steps will have done.  An item is a table's          *)
(* definition or entries, in one of the two copies, or a hash field.       *)

DefItem(t, c) == [kind |-> "def", table |-> t, copy |-> c]
EntItem(t, c) == [kind |-> "entries", table |-> t, copy |-> c]
HashItem(f)   == [kind |-> "hash", field |-> f]

\* The step writes the item.
Touches(s, x) ==
  \/ /\ x.kind = "def" /\ s.op \in {"insert_table", "remove_table"}
     /\ s.table = x.table /\ s.copy = x.copy
  \/ /\ x.kind = "entries" /\ s.op \in {"insert_entries", "delete_entries"}
     /\ s.table = x.table /\ s.copy = x.copy
  \/ /\ x.kind = "hash" /\ s.op \in {"set_hash", "delete_hash"}
     /\ x.field \in s.fields

\* A step that touches the item leaves it as config p wants it.
Right(s, x, p) ==
  /\ x.kind = "def" => (IF s.op = "insert_table" THEN s.def ELSE None)
                         = (IF x.copy = "original" THEN p.acl[x.table] ELSE None)
  /\ x.kind = "entries" => s.op = IF x.copy = "original" THEN "insert_entries" ELSE "delete_entries"
  /\ x.kind = "hash" => s.op = "set_hash" \/ p.hash[x.field] = None

Has(q, x) == \E i \in 1..Len(q) : Touches(q[i], x)
Includes(q, s) == \E i \in 1..Len(q) : q[i] = s

\* The last step that touches the item leaves it right.
Decides(q, x, p) ==
  \E i \in 1..Len(q) : /\ Touches(q[i], x) /\ Right(q[i], x, p)
                       /\ \A j \in 1..Len(q) : j > i => ~Touches(q[j], x)

Settles(q, x, p) == Has(q, x) => Decides(q, x, p)

\* The steps concern one table.
About(q, t) == \A x : Has(q, x) => x.kind # "hash" /\ x.table = t

Other(c) == IF c = "original" THEN "duplicate" ELSE "original"
IsEssentialDelete(s) == s.op = "delete_entries" /\ s.table \notin Nonessential
CoverOf(s) == InsertEntries(s.table, Other(s.copy), s.entries)

\* Entries of an essential table are deleted from one copy right after they
\* were inserted into the other.
Careful(q) ==
  \A i \in 1..Len(q) : IsEssentialDelete(q[i]) => i > 1 /\ q[i - 1] = CoverOf(q[i])

\* Two sequences one after the other.
LEMMA ConcatFacts ==
  ASSUME NEW T, NEW q \in Seq(T), NEW r \in Seq(T)
  PROVE  /\ q \o r \in Seq(T)
         /\ \A x : Has(q \o r, x) <=> Has(q, x) \/ Has(r, x)
         /\ \A x, p : Decides(r, x, p) => Decides(q \o r, x, p)
         /\ \A x, p : Settles(q, x, p) /\ Settles(r, x, p) => Settles(q \o r, x, p)
         /\ \A s : Includes(q \o r, s) <=> Includes(q, s) \/ Includes(r, s)
         /\ Careful(q) /\ Careful(r) => Careful(q \o r)
  <1> DEFINE w == q \o r
             m == Len(q)
             n == Len(r)
  <1>1. /\ w \in Seq(T) /\ m \in Nat /\ n \in Nat /\ Len(w) = m + n
        /\ \A i \in 1..m : w[i] = q[i]
        /\ \A i \in 1..n : w[m + i] = r[i]
    <2>1. w \in Seq(T) /\ m \in Nat /\ n \in Nat /\ Len(w) = m + n
      BY ConcatProperties, LenProperties
    <2>2. \A i \in 1..(m + n) : w[i] = IF i <= m THEN q[i] ELSE r[i - m]
      BY ConcatProperties
    <2> HIDE DEF w, m, n
    <2> QED BY <2>1, <2>2
  <1>2. m = Len(q) /\ n = Len(r)
    OBVIOUS
  <1> HIDE DEF w, m, n
  <1>3. \A i \in 1..Len(w) : i \in 1..m \/ (i > m /\ i - m \in 1..n /\ w[i] = r[i - m])
    <2>1. SUFFICES ASSUME NEW i \in 1..Len(w), i \notin 1..m
                   PROVE  i > m /\ i - m \in 1..n /\ w[i] = r[i - m]
      OBVIOUS
    <2>2. i > m /\ i - m \in 1..n /\ i = m + (i - m)
      BY <1>1, <2>1
    <2> QED BY <1>1, <2>2
  <1>4. \A i \in 1..m : i \in 1..Len(w)
    BY <1>1
  <1>5. \A i \in 1..n : m + i \in 1..Len(w)
    BY <1>1
  <1>6. \A x : Has(w, x) <=> Has(q, x) \/ Has(r, x)
    <2>1. ASSUME NEW x, Has(w, x) PROVE Has(q, x) \/ Has(r, x)
      BY <1>1, <1>2, <1>3, <2>1 DEF Has
    <2>2. ASSUME NEW x, Has(q, x) PROVE Has(w, x)
      BY <1>1, <1>2, <1>4, <2>2 DEF Has
    <2>3. ASSUME NEW x, Has(r, x) PROVE Has(w, x)
      BY <1>1, <1>2, <1>5, <2>3 DEF Has
    <2> QED BY <2>1, <2>2, <2>3
  <1>7. \A x, p : Decides(r, x, p) => Decides(w, x, p)
    <2>1. SUFFICES ASSUME NEW x, NEW p, Decides(r, x, p) PROVE Decides(w, x, p)
      OBVIOUS
    <2>2. PICK i \in 1..n : /\ Touches(r[i], x) /\ Right(r[i], x, p)
                            /\ \A j \in 1..n : j > i => ~Touches(r[j], x)
      BY <1>2, <2>1 DEF Decides
    <2>3. ASSUME NEW j \in 1..Len(w), j > m + i PROVE ~Touches(w[j], x)
      <3>1. j \notin 1..m /\ j - m > i
        BY <1>1, <2>3
      <3> QED BY <1>3, <2>2, <3>1
    <2>4. m + i \in 1..Len(w) /\ w[m + i] = r[i]
      BY <1>1, <1>5
    <2> QED BY <2>2, <2>3, <2>4 DEF Decides
  <1>8. ASSUME NEW x, NEW p, Settles(q, x, p), Settles(r, x, p), Has(w, x) PROVE Decides(w, x, p)
    <2>1. CASE Has(r, x)
      BY <1>7, <1>8, <2>1 DEF Settles
    <2>2. CASE ~Has(r, x)
      <3>1. Decides(q, x, p)
        BY <1>6, <1>8, <2>2 DEF Settles
      <3>2. PICK i \in 1..m : /\ Touches(q[i], x) /\ Right(q[i], x, p)
                              /\ \A j \in 1..m : j > i => ~Touches(q[j], x)
        BY <1>2, <3>1 DEF Decides
      <3>3. ASSUME NEW j \in 1..Len(w), j > i PROVE ~Touches(w[j], x)
        <4>1. CASE j \in 1..m
          BY <1>1, <3>2, <3>3, <4>1
        <4>2. CASE j \notin 1..m
          BY <1>2, <1>3, <2>2, <4>2 DEF Has
        <4> QED BY <4>1, <4>2
      <3>4. i \in 1..Len(w) /\ w[i] = q[i]
        BY <1>1, <1>4
      <3> QED BY <3>2, <3>3, <3>4 DEF Decides
    <2> QED BY <2>1, <2>2
  <1>9. \A s : Includes(w, s) <=> Includes(q, s) \/ Includes(r, s)
    <2>1. ASSUME NEW s, Includes(w, s) PROVE Includes(q, s) \/ Includes(r, s)
      BY <1>1, <1>2, <1>3, <2>1 DEF Includes
    <2>2. ASSUME NEW s, Includes(q, s) PROVE Includes(w, s)
      BY <1>1, <1>2, <1>4, <2>2 DEF Includes
    <2>3. ASSUME NEW s, Includes(r, s) PROVE Includes(w, s)
      BY <1>1, <1>2, <1>5, <2>3 DEF Includes
    <2> QED BY <2>1, <2>2, <2>3
  <1>10. ASSUME Careful(q), Careful(r) PROVE Careful(w)
    <2>1. SUFFICES ASSUME NEW i \in 1..Len(w), IsEssentialDelete(w[i])
                   PROVE  i > 1 /\ w[i - 1] = CoverOf(w[i])
      BY DEF Careful
    <2>2. CASE i \in 1..m
      <3>1. i > 1 /\ q[i - 1] = CoverOf(q[i]) /\ w[i] = q[i]
        BY <1>1, <1>2, <1>10, <2>1, <2>2 DEF Careful
      <3>2. i - 1 \in 1..m
        BY <1>1, <2>2, <3>1
      <3> QED BY <1>1, <3>1, <3>2
    <2>3. CASE i \notin 1..m
      <3>1. i > m /\ i - m \in 1..n /\ w[i] = r[i - m]
        BY <1>3, <2>3
      <3>2. i - m > 1 /\ r[(i - m) - 1] = CoverOf(r[i - m])
        BY <1>2, <1>10, <2>1, <3>1 DEF Careful
      <3>3. (i - m) - 1 \in 1..n /\ m + ((i - m) - 1) = i - 1 /\ i > 1
        BY <1>1, <3>1, <3>2
      <3>4. w[m + ((i - m) - 1)] = r[(i - m) - 1]
        BY <1>1, <3>3
      <3> QED BY <3>1, <3>2, <3>3, <3>4
    <2> QED BY <2>2, <2>3
  <1> QED BY <1>1, <1>6, <1>7, <1>8, <1>9, <1>10 DEF Settles, w

\* Blocks one after the other, of which at most one touches an item.
LEMMA BlockFacts ==
  ASSUME NEW T, NEW ss, ss \in Seq(Seq(T)), NEW w, w = FlattenSeq(ss)
  PROVE  /\ w \in Seq(T)
         /\ \A x : Has(w, x) => \E j \in 1..Len(ss) : Has(ss[j], x)
         /\ \A x, p : \A j \in 1..Len(ss) :
              /\ Decides(ss[j], x, p)
              /\ \A k \in 1..Len(ss) : k # j => ~Has(ss[k], x)
              => Decides(w, x, p)
         /\ \A s : \A j \in 1..Len(ss) : Includes(ss[j], s) => Includes(w, s)
         /\ (\A j \in 1..Len(ss) : Careful(ss[j])) => Careful(w)
  <1> DEFINE n == Len(ss)
  <1>1. w \in Seq(T) /\ n \in Nat /\ Len(w) \in Nat
    BY FlattenFacts, LenProperties
  <1>2. PICK o : Placed(w, ss, o, n)
    BY FlattenFacts
  <1>3. n = Len(ss)
    OBVIOUS
  <1> HIDE DEF n
  <1>4. \A j \in 1..n : o[j] \in Nat /\ Len(ss[j]) \in Nat
    <2>1. \A j \in 1..n : ss[j] \in Seq(T)
      BY <1>3, ElementOfSeq
    <2>2. \A j \in 1..n : o[j] \in Nat
      BY <1>2 DEF Placed
    <2> QED BY <2>1, <2>2, LenProperties
  <1>5. \A j \in 1..n : \A r \in 1..Len(ss[j]) : o[j] + r \in 1..Len(w) /\ w[o[j] + r] = ss[j][r]
    <2>1. SUFFICES ASSUME NEW j \in 1..n, NEW r \in 1..Len(ss[j])
                   PROVE  o[j] + r \in 1..Len(w) /\ w[o[j] + r] = ss[j][r]
      OBVIOUS
    <2>2. o[j] + Len(ss[j]) <= Len(w) /\ w[o[j] + r] = ss[j][r]
      BY <1>2 DEF Placed
    <2>3. o[j] \in Nat /\ Len(ss[j]) \in Nat
      BY <1>4
    <2> QED BY ONLY r \in 1..Len(ss[j]), <1>1, <2>2, <2>3
  <1>6. ASSUME NEW i \in 1..Len(w) PROVE \E j \in 1..n : \E r \in 1..Len(ss[j]) : i = o[j] + r
    BY <1>2 DEF Placed
  <1>7. \A x : Has(w, x) => \E j \in 1..n : Has(ss[j], x)
    <2>1. SUFFICES ASSUME NEW x, NEW i \in 1..Len(w), Touches(w[i], x) PROVE \E j \in 1..n : Has(ss[j], x)
      BY DEF Has
    <2>2. PICK j \in 1..n : \E r \in 1..Len(ss[j]) : i = o[j] + r
      BY <1>6
    <2> QED BY <1>5, <2>1, <2>2 DEF Has
  <1>8. ASSUME NEW x, NEW p, NEW j \in 1..n, Decides(ss[j], x, p),
               \A k \in 1..n : k # j => ~Has(ss[k], x)
        PROVE  Decides(w, x, p)
    <2>1. PICK r \in 1..Len(ss[j]) : /\ Touches(ss[j][r], x) /\ Right(ss[j][r], x, p)
                                     /\ \A e \in 1..Len(ss[j]) : e > r => ~Touches(ss[j][e], x)
      BY <1>8 DEF Decides
    <2>2. o[j] + r \in 1..Len(w) /\ w[o[j] + r] = ss[j][r]
      BY <1>5
    <2>3. ASSUME NEW i \in 1..Len(w), i > o[j] + r PROVE ~Touches(w[i], x)
      <3>1. PICK k \in 1..n : \E e \in 1..Len(ss[k]) : i = o[k] + e
        BY <1>6
      <3>2. PICK e \in 1..Len(ss[k]) : i = o[k] + e
        BY <3>1
      <3>3. w[i] = ss[k][e]
        BY <1>5, <3>2
      <3>4. CASE k # j
        BY <1>8, <3>3, <3>4 DEF Has
      <3>5. CASE k = j
        <4>1. e > r
          BY <1>4, <2>3, <3>2, <3>5
        <4> QED BY <2>1, <3>3, <3>5, <4>1
      <3> QED BY <3>4, <3>5
    <2> QED BY <2>1, <2>2, <2>3 DEF Decides
  <1>9. ASSUME NEW s, NEW j \in 1..n, Includes(ss[j], s) PROVE Includes(w, s)
    BY <1>5, <1>9 DEF Includes
  <1>10. ASSUME \A j \in 1..n : Careful(ss[j]) PROVE Careful(w)
    <2>1. SUFFICES ASSUME NEW i \in 1..Len(w), IsEssentialDelete(w[i])
                   PROVE  i > 1 /\ w[i - 1] = CoverOf(w[i])
      BY DEF Careful
    <2>2. PICK j \in 1..n : \E r \in 1..Len(ss[j]) : i = o[j] + r
      BY <1>6
    <2>3. PICK r \in 1..Len(ss[j]) : i = o[j] + r
      BY <2>2
    <2>4. w[i] = ss[j][r]
      BY <1>5, <2>3
    <2>5. r > 1 /\ ss[j][r - 1] = CoverOf(ss[j][r])
      BY <1>10, <2>1, <2>4 DEF Careful
    <2>6. r - 1 \in 1..Len(ss[j]) /\ i - 1 = o[j] + (r - 1) /\ i > 1
      <3>1. o[j] \in Nat /\ Len(ss[j]) \in Nat
        BY <1>4
      <3>2. r \in Nat /\ r <= Len(ss[j])
        BY <3>1
      <3>3. r - 1 \in 1..Len(ss[j])
        BY ONLY <2>5, <3>1, <3>2
      <3>4. i - 1 = o[j] + (r - 1) /\ i > 1
        BY ONLY <2>3, <2>5, <3>1, <3>2
      <3> QED BY <3>3, <3>4
    <2>7. w[o[j] + (r - 1)] = ss[j][r - 1]
      BY <1>5, <2>6
    <2> QED BY <2>4, <2>5, <2>6, <2>7
  <1> QED BY <1>1, <1>3, <1>7, <1>8, <1>9, <1>10

\* OrderTables lists every table once.
LEMMA OrderFacts ==
  ASSUME NEW S \in SUBSET AclTables
  PROVE  \E n \in Nat :
           /\ OrderTables(S) \in [1..n -> S]
           /\ \A j, k \in 1..n : OrderTables(S)[j] = OrderTables(S)[k] => j = k
           /\ \A t \in S : \E j \in 1..n : OrderTables(S)[j] = t
  <1> DEFINE c == Cardinality(S)
             f == SetToSeq(S)
  <1>1. IsFiniteSet(S)
    BY PipelineConstants, FS_Subset
  <1>2. c \in Nat /\ ExistsBijection(1..c, S)
    BY <1>1, FS_CardinalityType
  <1>3. \E g \in [1..c -> S] : IsInjective(g)
    BY <1>2 DEF ExistsBijection, Bijection, Injection
  <1>4. f \in [1..c -> S] /\ IsInjective(f)
    BY <1>3 DEF SetToSeq
  <1>5. f \in Injection(1..c, S)
    BY <1>4 DEF Injection
  <1>6. IsFiniteSet(1..c) /\ Cardinality(1..c) = c
    BY <1>2, FS_Interval
  <1>7. f \in Surjection(1..c, S)
    <2> HIDE DEF f
    <2> QED BY <1>1, <1>5, <1>6, FS_Injection
  <1>8. /\ \A j, k \in 1..c : f[j] = f[k] => j = k
        /\ \A t \in S : \E j \in 1..c : f[j] = t
    <2> HIDE DEF f, c
    <2> QED BY <1>4, <1>7 DEF IsInjective, Surjection
  <1> HIDE DEF f, c
  <1> QED BY <1>2, <1>4, <1>8 DEF OrderTables, f

\* The blocks of several tables one after the other, each about its table.
LEMMA TableBlocks ==
  ASSUME NEW T, NEW S, S \in SUBSET AclTables, NEW B,
         \A t \in S : B[t] \in Seq(T) /\ About(B[t], t),
         NEW w, w = FlattenSeq([i \in DOMAIN OrderTables(S) |-> B[OrderTables(S)[i]]])
  PROVE  /\ w \in Seq(T)
         /\ \A x : Has(w, x) => x.kind # "hash" /\ x.table \in S /\ Has(B[x.table], x)
         /\ \A x, p : \A t \in S : x.table = t /\ Decides(B[t], x, p) => Decides(w, x, p)
         /\ \A x, p : (x.table \in S => Settles(B[x.table], x, p)) => Settles(w, x, p)
         /\ \A s : \A t \in S : Includes(B[t], s) => Includes(w, s)
         /\ (\A t \in S : Careful(B[t])) => Careful(w)
  <1> DEFINE order == OrderTables(S)
  <1>1. PICK n \in Nat :
          /\ order \in [1..n -> S]
          /\ \A j, k \in 1..n : order[j] = order[k] => j = k
          /\ \A t \in S : \E j \in 1..n : order[j] = t
    BY OrderFacts
  <1> DEFINE ss == [i \in 1..n |-> B[order[i]]]
  <1>2. w = FlattenSeq(ss)
    <2>1. DOMAIN order = 1..n
      BY <1>1
    <2> QED BY <2>1
  <1> HIDE DEF order
  <1>3. /\ \A i \in 1..n : order[i] \in S /\ ss[i] = B[order[i]]
        /\ ss \in [1..n -> Seq(T)]
    BY <1>1
  <1>4. ss \in Seq(Seq(T)) /\ Len(ss) = n
    <2> DEFINE Q == Seq(T)
    <2>1. ss \in [1..n -> Q]
      BY <1>3
    <2> HIDE DEF ss, Q
    <2>2. ss \in Seq(Q) /\ Len(ss) = n
      BY <2>1, FunctionIsSeq
    <2> QED BY <2>2 DEF Q
  <1> HIDE DEF ss
  <1>5. \A x : \A t \in S : Has(B[t], x) => x.kind # "hash" /\ x.table = t
    BY DEF About, Has
  <1>6. /\ w \in Seq(T)
        /\ \A x : Has(w, x) => \E j \in 1..n : Has(ss[j], x)
        /\ \A x, p : \A j \in 1..n :
             /\ Decides(ss[j], x, p)
             /\ \A k \in 1..n : k # j => ~Has(ss[k], x)
             => Decides(w, x, p)
        /\ \A s : \A j \in 1..n : Includes(ss[j], s) => Includes(w, s)
        /\ (\A j \in 1..n : Careful(ss[j])) => Careful(w)
    BY <1>2, <1>4, BlockFacts
  <1>7. \A x : Has(w, x) => x.kind # "hash" /\ x.table \in S /\ Has(B[x.table], x)
    BY <1>3, <1>5, <1>6
  <1>8. ASSUME NEW x, NEW p, NEW t \in S, x.table = t, Decides(B[t], x, p) PROVE Decides(w, x, p)
    <2>1. PICK j \in 1..n : order[j] = t
      BY <1>1
    <2>2. \A k \in 1..n : k # j => ~Has(ss[k], x)
      BY <1>1, <1>3, <1>5, <1>8, <2>1
    <2> QED BY <1>3, <1>6, <1>8, <2>1, <2>2
  <1>9. \A x, p : (x.table \in S => Settles(B[x.table], x, p)) => Settles(w, x, p)
    BY <1>7, <1>8 DEF Settles
  <1>10. \A s : \A t \in S : Includes(B[t], s) => Includes(w, s)
    BY <1>1, <1>3, <1>6
  <1>11. (\A t \in S : Careful(B[t])) => Careful(w)
    BY <1>3, <1>6
  <1> QED BY <1>6, <1>7, <1>8, <1>9, <1>10, <1>11

-----------------------------------------------------------------------------
(* The steps of a transition.                                              *)

\* The steps there are, on the entries cached when they were planned.
StepSet(cache) ==
       {InsertTable(t, c, d) : t \in AclTables, c \in Copies, d \in Definitions}
  \cup {RemoveTable(t, c) : t \in AclTables, c \in Copies}
  \cup {InsertEntries(t, c, cache[t]) : t \in AclTables, c \in Copies}
  \cup {DeleteEntries(t, c, cache[t]) : t \in AclTables, c \in Copies}
  \cup {SetHash(fs) : fs \in SUBSET HashFields}
  \cup {DeleteHash(fs) : fs \in SUBSET HashFields}
  \cup {SetSwitch(fs) : fs \in SUBSET HashFields}
  \cup {PublishExtTables}

\* Which step touches what, and what it leaves.
LEMMA StepTouches ==
  ASSUME NEW x
  PROVE  /\ \A t, c, d : Touches(InsertTable(t, c, d), x) <=> x.kind = "def" /\ t = x.table /\ c = x.copy
         /\ \A t, c : Touches(RemoveTable(t, c), x) <=> x.kind = "def" /\ t = x.table /\ c = x.copy
         /\ \A t, c, e : Touches(InsertEntries(t, c, e), x)
                           <=> x.kind = "entries" /\ t = x.table /\ c = x.copy
         /\ \A t, c, e : Touches(DeleteEntries(t, c, e), x)
                           <=> x.kind = "entries" /\ t = x.table /\ c = x.copy
         /\ \A fs : Touches(SetHash(fs), x) <=> x.kind = "hash" /\ x.field \in fs
         /\ \A fs : Touches(DeleteHash(fs), x) <=> x.kind = "hash" /\ x.field \in fs
         /\ \A fs : ~Touches(SetSwitch(fs), x)
         /\ ~Touches(PublishExtTables, x)
  <1>1. \A t, c, d : Touches(InsertTable(t, c, d), x) <=> x.kind = "def" /\ t = x.table /\ c = x.copy
    BY DEF Touches, InsertTable
  <1>2. \A t, c : Touches(RemoveTable(t, c), x) <=> x.kind = "def" /\ t = x.table /\ c = x.copy
    BY DEF Touches, RemoveTable
  <1>3. \A t, c, e : Touches(InsertEntries(t, c, e), x)
                       <=> x.kind = "entries" /\ t = x.table /\ c = x.copy
    BY DEF Touches, InsertEntries
  <1>4. \A t, c, e : Touches(DeleteEntries(t, c, e), x)
                       <=> x.kind = "entries" /\ t = x.table /\ c = x.copy
    BY DEF Touches, DeleteEntries
  <1>5. \A fs : Touches(SetHash(fs), x) <=> x.kind = "hash" /\ x.field \in fs
    BY DEF Touches, SetHash
  <1>6. \A fs : Touches(DeleteHash(fs), x) <=> x.kind = "hash" /\ x.field \in fs
    BY DEF Touches, DeleteHash
  <1>7. \A fs : ~Touches(SetSwitch(fs), x)
    BY DEF Touches, SetSwitch
  <1>8. ~Touches(PublishExtTables, x)
    BY DEF Touches, PublishExtTables
  <1> QED BY <1>1, <1>2, <1>3, <1>4, <1>5, <1>6, <1>7, <1>8

\* Only a deletion of entries is an essential delete.
LEMMA StepDeletes ==
  /\ \A t, c, d : ~IsEssentialDelete(InsertTable(t, c, d))
  /\ \A t, c : ~IsEssentialDelete(RemoveTable(t, c))
  /\ \A t, c, e : ~IsEssentialDelete(InsertEntries(t, c, e))
  /\ \A t, c, e : IsEssentialDelete(DeleteEntries(t, c, e)) <=> t \notin Nonessential
  /\ \A t, e : /\ CoverOf(DeleteEntries(t, "original", e)) = InsertEntries(t, "duplicate", e)
               /\ CoverOf(DeleteEntries(t, "duplicate", e)) = InsertEntries(t, "original", e)
  /\ \A fs : /\ ~IsEssentialDelete(SetHash(fs))
             /\ ~IsEssentialDelete(DeleteHash(fs))
             /\ ~IsEssentialDelete(SetSwitch(fs))
  /\ ~IsEssentialDelete(PublishExtTables)
  BY DEF IsEssentialDelete, InsertTable, RemoveTable, InsertEntries, DeleteEntries, SetHash,
         DeleteHash, SetSwitch, PublishExtTables, CoverOf, Other

\* What each step is right about.
LEMMA StepRight ==
  ASSUME NEW p
  PROVE  /\ \A t : Right(InsertTable(t, "original", p.acl[t]), DefItem(t, "original"), p)
         /\ \A t : p.acl[t] = None => Right(RemoveTable(t, "original"), DefItem(t, "original"), p)
         /\ \A t : Right(RemoveTable(t, "duplicate"), DefItem(t, "duplicate"), p)
         /\ \A t, e : Right(InsertEntries(t, "original", e), EntItem(t, "original"), p)
         /\ \A t, e : Right(DeleteEntries(t, "duplicate", e), EntItem(t, "duplicate"), p)
         /\ \A fs, f : Right(SetHash(fs), HashItem(f), p)
         /\ \A fs, f : p.hash[f] = None => Right(DeleteHash(fs), HashItem(f), p)
  BY DEF Right, InsertTable, RemoveTable, InsertEntries, DeleteEntries, SetHash, DeleteHash,
         DefItem, EntItem, HashItem

\* One step.
LEMMA OneStep ==
  ASSUME NEW T, NEW s \in T
  PROVE  /\ <<s>> \in Seq(T)
         /\ \A x : Has(<<s>>, x) <=> Touches(s, x)
         /\ \A x, p : Touches(s, x) /\ Right(s, x, p) => Decides(<<s>>, x, p)
         /\ \A x, p : (Touches(s, x) => Right(s, x, p)) => Settles(<<s>>, x, p)
         /\ Includes(<<s>>, s)
         /\ ~IsEssentialDelete(s) => Careful(<<s>>)
         /\ \A t : (\A x : Touches(s, x) => x.kind # "hash" /\ x.table = t) => About(<<s>>, t)
  BY DEF Has, Decides, Settles, Includes, Careful, About

\* No step.
LEMMA NoStep ==
  ASSUME NEW T
  PROVE  /\ <<>> \in Seq(T)
         /\ \A x : ~Has(<<>>, x)
         /\ \A x, p : Settles(<<>>, x, p)
         /\ Careful(<<>>)
         /\ \A t : About(<<>>, t)
  BY EmptySeq DEF Has, Settles, Careful, About

\* The kinds of the items.
LEMMA ItemFields ==
  /\ \A t, c : /\ DefItem(t, c).kind = "def" /\ DefItem(t, c).table = t /\ DefItem(t, c).copy = c
               /\ EntItem(t, c).kind = "entries" /\ EntItem(t, c).table = t /\ EntItem(t, c).copy = c
  /\ \A f : HashItem(f).kind = "hash" /\ HashItem(f).field = f
  BY DEF DefItem, EntItem, HashItem

\* The steps of the plans are steps.
LEMMA InStepSet ==
  ASSUME NEW cache, NEW t \in AclTables, NEW c \in Copies
  PROVE  /\ \A d \in Definitions : InsertTable(t, c, d) \in StepSet(cache)
         /\ RemoveTable(t, c) \in StepSet(cache)
         /\ InsertEntries(t, c, cache[t]) \in StepSet(cache)
         /\ DeleteEntries(t, c, cache[t]) \in StepSet(cache)
  <1>1. \A d \in Definitions : InsertTable(t, c, d) \in StepSet(cache)
    BY DEF StepSet
  <1>2. RemoveTable(t, c) \in StepSet(cache)
    BY DEF StepSet
  <1>3. InsertEntries(t, c, cache[t]) \in StepSet(cache)
    BY DEF StepSet
  <1>4. DeleteEntries(t, c, cache[t]) \in StepSet(cache)
    BY DEF StepSet
  <1> QED BY <1>1, <1>2, <1>3, <1>4

\* So are those on hash fields and the publication.
LEMMA HashInStepSet ==
  ASSUME NEW cache
  PROVE  /\ \A fs \in SUBSET HashFields : /\ SetHash(fs) \in StepSet(cache)
                                          /\ DeleteHash(fs) \in StepSet(cache)
                                          /\ SetSwitch(fs) \in StepSet(cache)
         /\ PublishExtTables \in StepSet(cache)
  BY DEF StepSet

Removal(t) == <<RemoveTable(t, "original")>>
Addition(t, to) == <<InsertTable(t, "original", to.acl[t])>>

\* The removal of a table's definition.
LEMMA RemoveBlock ==
  ASSUME NEW t \in AclTables, NEW q, q = Removal(t)
  PROVE  /\ q \in Seq(StepSet(entity_cache))
         /\ About(q, t) /\ Careful(q)
         /\ \A x : Has(q, x) <=> x.kind = "def" /\ x.table = t /\ x.copy = "original"
         /\ \A p : p.acl[t] = None => Decides(q, DefItem(t, "original"), p)
         /\ Includes(q, RemoveTable(t, "original"))
  <1> DEFINE s == RemoveTable(t, "original")
  <1>1. s \in StepSet(entity_cache) /\ ~IsEssentialDelete(s)
    BY InStepSet, StepDeletes DEF Copies
  <1>2. \A x : Touches(s, x) <=> x.kind = "def" /\ x.table = t /\ x.copy = "original"
    BY StepTouches
  <1>3. \A p : p.acl[t] = None => Right(s, DefItem(t, "original"), p)
    BY StepRight
  <1>4. "def" # "hash"
    OBVIOUS
  <1> HIDE DEF s
  <1>5. q = <<s>>
    BY DEF s, Removal
  <1> QED BY <1>1, <1>2, <1>3, <1>4, <1>5, OneStep, ItemFields DEF About, s

\* The definition of a new table.
LEMMA AddNewBlock ==
  ASSUME NEW t \in AclTables, NEW to, to.acl[t] \in Definitions,
         NEW q, q = Addition(t, to)
  PROVE  /\ q \in Seq(StepSet(entity_cache))
         /\ About(q, t) /\ Careful(q)
         /\ \A x : Has(q, x) <=> x.kind = "def" /\ x.table = t /\ x.copy = "original"
         /\ Decides(q, DefItem(t, "original"), to)
  <1> DEFINE s == InsertTable(t, "original", to.acl[t])
  <1>1. s \in StepSet(entity_cache) /\ ~IsEssentialDelete(s)
    BY InStepSet, StepDeletes DEF Copies
  <1>2. \A x : Touches(s, x) <=> x.kind = "def" /\ x.table = t /\ x.copy = "original"
    BY StepTouches
  <1>3. Right(s, DefItem(t, "original"), to)
    BY StepRight
  <1>4. "def" # "hash"
    OBVIOUS
  <1> HIDE DEF s
  <1>5. q = <<s>>
    BY DEF s, Addition
  <1> QED BY <1>1, <1>2, <1>3, <1>4, <1>5, OneStep, ItemFields DEF About

\* One step on the entries cached for a table.
LEMMA EntriesBlock ==
  ASSUME NEW t \in AclTables, NEW s,
         s = InsertEntries(t, "original", entity_cache[t])
           \/ (s = DeleteEntries(t, "original", entity_cache[t]) /\ t \in Nonessential)
  PROVE  /\ <<s>> \in Seq(StepSet(entity_cache))
         /\ About(<<s>>, t) /\ Careful(<<s>>)
         /\ \A x : Has(<<s>>, x) <=> x.kind = "entries" /\ x.table = t /\ x.copy = "original"
         /\ s = InsertEntries(t, "original", entity_cache[t])
              => \A p : Decides(<<s>>, EntItem(t, "original"), p)
  <1>1. s \in StepSet(entity_cache) /\ ~IsEssentialDelete(s)
    BY InStepSet, StepDeletes DEF Copies
  <1>2. \A x : Touches(s, x) <=> x.kind = "entries" /\ x.table = t /\ x.copy = "original"
    BY StepTouches
  <1>3. s = InsertEntries(t, "original", entity_cache[t]) => \A p : Right(s, EntItem(t, "original"), p)
    BY StepRight
  <1>4. "entries" # "hash"
    OBVIOUS
  <1> QED BY <1>1, <1>2, <1>3, <1>4, OneStep, ItemFields DEF About

\* The removal of a nonessential table with its entries.
LEMMA RemoveAclBlock ==
  ASSUME NEW t \in AclTables, t \in Nonessential, NEW q, q = RemoveAclTable(t)
  PROVE  /\ q \in Seq(StepSet(entity_cache))
         /\ About(q, t) /\ Careful(q)
         /\ \A x : Has(q, x) => /\ x.table = t /\ x.copy = "original"
                                /\ x.kind # "def" => entity_cache[t] # {}
  <1> DEFINE a == IF entity_cache[t] = {} THEN <<>> ELSE <<DeleteEntries(t, "original", entity_cache[t])>>
             b == Removal(t)
  <1>1. q = a \o b
    BY DEF RemoveAclTable, Removal
  <1>2. /\ b \in Seq(StepSet(entity_cache))
        /\ About(b, t) /\ Careful(b)
        /\ \A x : Has(b, x) => x.table = t /\ x.copy = "original" /\ x.kind = "def"
    BY RemoveBlock
  <1>3. /\ a \in Seq(StepSet(entity_cache))
        /\ About(a, t) /\ Careful(a)
        /\ \A x : Has(a, x) => x.table = t /\ x.copy = "original" /\ entity_cache[t] # {}
    BY EntriesBlock, NoStep
  <1> HIDE DEF a, b
  <1> QED BY <1>1, <1>2, <1>3, ConcatFacts DEF About

\* The definition of a table and the entries it had.
LEMMA AddBlock ==
  ASSUME NEW t \in AclTables, NEW to, to.acl[t] \in Definitions, NEW q, q = AddAclTable(t, to)
  PROVE  /\ q \in Seq(StepSet(entity_cache))
         /\ About(q, t) /\ Careful(q)
         /\ Decides(q, DefItem(t, "original"), to)
         /\ entity_cache[t] # {} => Decides(q, EntItem(t, "original"), to)
         /\ \A x : Has(q, x) => /\ x.table = t /\ x.copy = "original" /\ x.kind \in {"def", "entries"}
                                /\ x.kind # "def" => entity_cache[t] # {}
  <1> DEFINE a == Addition(t, to)
             b == IF entity_cache[t] = {} THEN <<>> ELSE <<InsertEntries(t, "original", entity_cache[t])>>
  <1>1. q = a \o b
    BY DEF AddAclTable, Addition
  <1>2. /\ a \in Seq(StepSet(entity_cache))
        /\ About(a, t) /\ Careful(a)
        /\ Decides(a, DefItem(t, "original"), to)
        /\ \A x : Has(a, x) => x.table = t /\ x.copy = "original" /\ x.kind = "def"
    BY AddNewBlock
  <1>3. /\ b \in Seq(StepSet(entity_cache))
        /\ About(b, t) /\ Careful(b)
        /\ entity_cache[t] # {} => Decides(b, EntItem(t, "original"), to)
        /\ \A x : Has(b, x) => /\ x.table = t /\ x.copy = "original" /\ x.kind = "entries"
                               /\ entity_cache[t] # {}
    BY EntriesBlock, NoStep
  <1> HIDE DEF a, b
  <1>4. "entries" # "def" /\ ~Has(b, DefItem(t, "original"))
    BY <1>3, ItemFields
  <1>5. Has(a, DefItem(t, "original"))
    BY <1>2 DEF Decides, Has
  <1>6. Settles(a \o b, DefItem(t, "original"), to) /\ Has(a \o b, DefItem(t, "original"))
    BY <1>2, <1>3, <1>4, <1>5, ConcatFacts DEF Settles
  <1> QED BY <1>1, <1>2, <1>3, <1>6, ConcatFacts DEF About, Settles

\* The eight steps of ReplaceTableInAppDb.
LEMMA ReplaceBlock ==
  ASSUME NEW t \in AclTables, NEW from, NEW to, from.acl[t] \in Definitions,
         to.acl[t] \in Definitions, NEW q, q = ReplaceTableInAppDb(t, from, to)
  PROVE  /\ q \in Seq(StepSet(entity_cache))
         /\ About(q, t) /\ Careful(q)
         /\ \A c \in Copies : Decides(q, DefItem(t, c), to) /\ Decides(q, EntItem(t, c), to)
  <1> DEFINE es == entity_cache[t]
             s1 == InsertTable(t, "duplicate", from.acl[t])
             s2 == InsertEntries(t, "duplicate", es)
             s3 == DeleteEntries(t, "original", es)
             s4 == RemoveTable(t, "original")
             s5 == InsertTable(t, "original", to.acl[t])
             s6 == InsertEntries(t, "original", es)
             s7 == DeleteEntries(t, "duplicate", es)
             s8 == RemoveTable(t, "duplicate")
             S == StepSet(entity_cache)
  <1>1. q = <<s1, s2, s3, s4, s5, s6, s7, s8>>
    BY DEF ReplaceTableInAppDb
  <1>2. s1 \in S /\ s2 \in S /\ s3 \in S /\ s4 \in S /\ s5 \in S /\ s6 \in S /\ s7 \in S /\ s8 \in S
    BY InStepSet DEF Copies
  <1>3. /\ ~IsEssentialDelete(s1) /\ ~IsEssentialDelete(s2) /\ ~IsEssentialDelete(s4)
        /\ ~IsEssentialDelete(s5) /\ ~IsEssentialDelete(s6) /\ ~IsEssentialDelete(s8)
        /\ CoverOf(s3) = s2 /\ CoverOf(s7) = s6
    BY StepDeletes
  <1>4. \A x : /\ Touches(s1, x) <=> x.kind = "def" /\ t = x.table /\ "duplicate" = x.copy
               /\ Touches(s2, x) <=> x.kind = "entries" /\ t = x.table /\ "duplicate" = x.copy
               /\ Touches(s3, x) <=> x.kind = "entries" /\ t = x.table /\ "original" = x.copy
               /\ Touches(s4, x) <=> x.kind = "def" /\ t = x.table /\ "original" = x.copy
               /\ Touches(s5, x) <=> x.kind = "def" /\ t = x.table /\ "original" = x.copy
               /\ Touches(s6, x) <=> x.kind = "entries" /\ t = x.table /\ "original" = x.copy
               /\ Touches(s7, x) <=> x.kind = "entries" /\ t = x.table /\ "duplicate" = x.copy
               /\ Touches(s8, x) <=> x.kind = "def" /\ t = x.table /\ "duplicate" = x.copy
    BY StepTouches
  <1>5. /\ Right(s5, DefItem(t, "original"), to) /\ Right(s6, EntItem(t, "original"), to)
        /\ Right(s7, EntItem(t, "duplicate"), to) /\ Right(s8, DefItem(t, "duplicate"), to)
    BY StepRight
  <1> HIDE DEF s1, s2, s3, s4, s5, s6, s7, s8, S, es
  <1>6. /\ Len(q) = 8
        /\ q[1] = s1 /\ q[2] = s2 /\ q[3] = s3 /\ q[4] = s4
        /\ q[5] = s5 /\ q[6] = s6 /\ q[7] = s7 /\ q[8] = s8
    BY <1>1
  <1>7. \A i \in 1..8 : i \in {1, 2, 3, 4, 5, 6, 7, 8}
    OBVIOUS
  <1>8. q \in Seq(S)
    BY <1>1, <1>2
  <1>9. Careful(q)
    <2>1. SUFFICES ASSUME NEW i \in 1..8, IsEssentialDelete(q[i]) PROVE i > 1 /\ q[i - 1] = CoverOf(q[i])
      BY <1>6 DEF Careful
    <2>2. i = 3 \/ i = 7
      BY <1>3, <1>6, <1>7, <2>1
    <2> QED BY <1>3, <1>6, <2>2
  <1>10. About(q, t)
    <2>1. SUFFICES ASSUME NEW x, NEW i \in 1..8, Touches(q[i], x) PROVE x.kind # "hash" /\ x.table = t
      BY <1>6 DEF About, Has
    <2>2. x.kind \in {"def", "entries"} /\ x.table = t
      BY <1>4, <1>6, <1>7, <2>1
    <2> QED BY <2>2
  <1>11. Decides(q, DefItem(t, "original"), to)
    <2> DEFINE x == DefItem(t, "original")
    <2>1. x.kind = "def" /\ x.table = t /\ x.copy = "original"
      BY ItemFields
    <2> HIDE DEF x
    <2>2. Touches(s5, x) /\ ~Touches(s6, x) /\ ~Touches(s7, x) /\ ~Touches(s8, x)
      BY <1>4, <2>1
    <2>3. \A j \in 1..8 : j > 5 => ~Touches(q[j], x)
      BY <1>6, <1>7, <2>2
    <2>4. 5 \in 1..8 /\ Touches(q[5], x) /\ Right(q[5], x, to)
      BY <1>5, <1>6, <2>2 DEF x
    <2> QED BY <1>6, <2>3, <2>4 DEF Decides, x
  <1>12. Decides(q, EntItem(t, "original"), to)
    <2> DEFINE x == EntItem(t, "original")
    <2>1. x.kind = "entries" /\ x.table = t /\ x.copy = "original"
      BY ItemFields
    <2> HIDE DEF x
    <2>2. Touches(s6, x) /\ ~Touches(s7, x) /\ ~Touches(s8, x)
      BY <1>4, <2>1
    <2>3. \A j \in 1..8 : j > 6 => ~Touches(q[j], x)
      BY <1>6, <1>7, <2>2
    <2>4. 6 \in 1..8 /\ Touches(q[6], x) /\ Right(q[6], x, to)
      BY <1>5, <1>6, <2>2 DEF x
    <2> QED BY <1>6, <2>3, <2>4 DEF Decides, x
  <1>13. Decides(q, EntItem(t, "duplicate"), to)
    <2> DEFINE x == EntItem(t, "duplicate")
    <2>1. x.kind = "entries" /\ x.table = t /\ x.copy = "duplicate"
      BY ItemFields
    <2> HIDE DEF x
    <2>2. Touches(s7, x) /\ ~Touches(s8, x)
      BY <1>4, <2>1
    <2>3. \A j \in 1..8 : j > 7 => ~Touches(q[j], x)
      BY <1>6, <1>7, <2>2
    <2>4. 7 \in 1..8 /\ Touches(q[7], x) /\ Right(q[7], x, to)
      BY <1>5, <1>6, <2>2 DEF x
    <2> QED BY <1>6, <2>3, <2>4 DEF Decides, x
  <1>14. Decides(q, DefItem(t, "duplicate"), to)
    <2> DEFINE x == DefItem(t, "duplicate")
    <2>1. Touches(s8, x)
      BY <1>4, ItemFields
    <2> HIDE DEF x
    <2>2. 8 \in 1..8 /\ Touches(q[8], x) /\ Right(q[8], x, to) /\ \A j \in 1..8 : ~(j > 8)
      BY <1>5, <1>6, <2>1 DEF x
    <2> QED BY <1>6, <2>2 DEF Decides, x
  <1> QED BY <1>8, <1>9, <1>10, <1>11, <1>12, <1>13, <1>14 DEF Copies, S

\* ForAll applied to a table's block is the flattening of the blocks.
Blocks(S, B) == FlattenSeq([i \in DOMAIN OrderTables(S) |-> B[OrderTables(S)[i]]])

\* What a sequence of steps makes of the old ACL tables and hash fields is
\* what the config wants.
Plan(w, acl, hash, to) ==
  /\ w \in Seq(StepSet(entity_cache))
  /\ Careful(w)
  /\ \A t \in AclTables :
       /\ \A c \in Copies : Settles(w, DefItem(t, c), to) /\ Settles(w, EntItem(t, c), to)
       /\ ~Has(w, DefItem(t, "original")) => acl[t] = to.acl[t]
       /\ to.acl[t] = None => /\ ~Has(w, EntItem(t, "original"))
                              /\ acl[t] = None \/ Includes(w, RemoveTable(t, "original"))
  /\ \A f \in HashFields :
       /\ Settles(w, HashItem(f), to)
       /\ ~Has(w, HashItem(f)) => hash[f] = to.hash[f]
       /\ to.hash[f] # None => hash[f] # None \/ Includes(w, SetSwitch(Fields(to)))

\* Blocks given by an expression and by a function are the same.
LEMMA BlocksEqual ==
  ASSUME NEW S \in SUBSET AclTables, NEW ss, NEW B,
         DOMAIN ss = DOMAIN OrderTables(S), ss = [i \in DOMAIN ss |-> ss[i]],
         \A i \in DOMAIN ss : OrderTables(S)[i] \in AclTables => ss[i] = B[OrderTables(S)[i]]
  PROVE  FlattenSeq(ss) = Blocks(S, B)
  <1>1. PICK n \in Nat : OrderTables(S) \in [1..n -> S]
    BY OrderFacts
  <1>2. \A i \in DOMAIN ss : ss[i] = B[OrderTables(S)[i]]
    BY <1>1
  <1>3. ss = [i \in DOMAIN OrderTables(S) |-> B[OrderTables(S)[i]]]
    BY <1>2
  <1> QED BY <1>3 DEF Blocks

\* TransitionAcls as six groups of blocks.
LEMMA TransitionAclsBlocks ==
  ASSUME NEW from, NEW to
  PROVE  LET modify == AclTablesToModify(from, to)
             empty == {t \in modify \ Nonessential : entity_cache[t] = {}}
             nonessential == modify \cap Nonessential
             populated == (modify \ Nonessential) \ empty
             remove == [t \in AclTables |-> Removal(t)]
             removeAll == [t \in AclTables |-> RemoveAclTable(t)]
             replace == [t \in AclTables |-> ReplaceTableInAppDb(t, from, to)]
             addNew == [t \in AclTables |-> Addition(t, to)]
             add == [t \in AclTables |-> AddAclTable(t, to)]
         IN  TransitionAcls(from, to) =
               Blocks(AclTablesToDelete(from, to), remove)
               \o Blocks(nonessential, removeAll)
               \o Blocks(empty, remove)
               \o Blocks(populated, replace)
               \o Blocks(AclTablesToAdd(from, to), addNew)
               \o Blocks(nonessential \cup empty, add)
  <1> DEFINE modify == AclTablesToModify(from, to)
             empty == {t \in modify \ Nonessential : entity_cache[t] = {}}
             S1 == AclTablesToDelete(from, to)
             S2 == modify \cap Nonessential
             S4 == (modify \ Nonessential) \ empty
             S5 == AclTablesToAdd(from, to)
             S6 == S2 \cup empty
             F1 == [i \in DOMAIN OrderTables(S1) |-> Removal(OrderTables(S1)[i])]
             F2 == [i \in DOMAIN OrderTables(S2) |-> RemoveAclTable(OrderTables(S2)[i])]
             F3 == [i \in DOMAIN OrderTables(empty) |->
                      Removal(OrderTables(empty)[i])]
             F4 == [i \in DOMAIN OrderTables(S4) |-> ReplaceTableInAppDb(OrderTables(S4)[i], from, to)]
             F5 == [i \in DOMAIN OrderTables(S5) |->
                      Addition(OrderTables(S5)[i], to)]
             F6 == [i \in DOMAIN OrderTables(S6) |-> AddAclTable(OrderTables(S6)[i], to)]
             remove == [t \in AclTables |-> Removal(t)]
             removeAll == [t \in AclTables |-> RemoveAclTable(t)]
             replace == [t \in AclTables |-> ReplaceTableInAppDb(t, from, to)]
             addNew == [t \in AclTables |-> Addition(t, to)]
             add == [t \in AclTables |-> AddAclTable(t, to)]
  <1>1. /\ S1 \in SUBSET AclTables /\ S2 \in SUBSET AclTables /\ empty \in SUBSET AclTables
        /\ S4 \in SUBSET AclTables /\ S5 \in SUBSET AclTables /\ S6 \in SUBSET AclTables
    BY DEF AclTablesToDelete, AclTablesToAdd, AclTablesToModify, Tables
  <1>2. TransitionAcls(from, to) =
          FlattenSeq(F1) \o FlattenSeq(F2) \o FlattenSeq(F3) \o FlattenSeq(F4) \o FlattenSeq(F5)
          \o FlattenSeq(F6)
    BY DEF TransitionAcls, ForAll, Removal, Addition
  <1> HIDE DEF modify, empty, S1, S2, S4, S5, S6
  <1>3. FlattenSeq(F1) = Blocks(S1, remove)
    <2>1. /\ DOMAIN F1 = DOMAIN OrderTables(S1) /\ F1 = [i \in DOMAIN F1 |-> F1[i]]
          /\ \A i \in DOMAIN F1 : OrderTables(S1)[i] \in AclTables => F1[i] = remove[OrderTables(S1)[i]]
      OBVIOUS
    <2> HIDE DEF F1, remove
    <2> QED BY <1>1, <2>1, BlocksEqual
  <1>4. FlattenSeq(F2) = Blocks(S2, removeAll)
    <2>1. /\ DOMAIN F2 = DOMAIN OrderTables(S2) /\ F2 = [i \in DOMAIN F2 |-> F2[i]]
          /\ \A i \in DOMAIN F2 : OrderTables(S2)[i] \in AclTables => F2[i] = removeAll[OrderTables(S2)[i]]
      OBVIOUS
    <2> HIDE DEF F2, removeAll
    <2> QED BY <1>1, <2>1, BlocksEqual
  <1>5. FlattenSeq(F3) = Blocks(empty, remove)
    <2>1. /\ DOMAIN F3 = DOMAIN OrderTables(empty) /\ F3 = [i \in DOMAIN F3 |-> F3[i]]
          /\ \A i \in DOMAIN F3 : OrderTables(empty)[i] \in AclTables
                                    => F3[i] = remove[OrderTables(empty)[i]]
      OBVIOUS
    <2> HIDE DEF F3, remove
    <2> QED BY <1>1, <2>1, BlocksEqual
  <1>6. FlattenSeq(F4) = Blocks(S4, replace)
    <2>1. /\ DOMAIN F4 = DOMAIN OrderTables(S4) /\ F4 = [i \in DOMAIN F4 |-> F4[i]]
          /\ \A i \in DOMAIN F4 : OrderTables(S4)[i] \in AclTables => F4[i] = replace[OrderTables(S4)[i]]
      OBVIOUS
    <2> HIDE DEF F4, replace
    <2> QED BY <1>1, <2>1, BlocksEqual
  <1>7. FlattenSeq(F5) = Blocks(S5, addNew)
    <2>1. /\ DOMAIN F5 = DOMAIN OrderTables(S5) /\ F5 = [i \in DOMAIN F5 |-> F5[i]]
          /\ \A i \in DOMAIN F5 : OrderTables(S5)[i] \in AclTables => F5[i] = addNew[OrderTables(S5)[i]]
      OBVIOUS
    <2> HIDE DEF F5, addNew
    <2> QED BY <1>1, <2>1, BlocksEqual
  <1>8. FlattenSeq(F6) = Blocks(S6, add)
    <2>1. /\ DOMAIN F6 = DOMAIN OrderTables(S6) /\ F6 = [i \in DOMAIN F6 |-> F6[i]]
          /\ \A i \in DOMAIN F6 : OrderTables(S6)[i] \in AclTables => F6[i] = add[OrderTables(S6)[i]]
      OBVIOUS
    <2> HIDE DEF F6, add
    <2> QED BY <1>1, <2>1, BlocksEqual
  <1> HIDE DEF F1, F2, F3, F4, F5, F6, remove, removeAll, replace, addNew, add
  <1>9. TransitionAcls(from, to) =
          Blocks(S1, remove) \o Blocks(S2, removeAll) \o Blocks(empty, remove) \o Blocks(S4, replace)
          \o Blocks(S5, addNew) \o Blocks(S6, add)
    BY <1>2, <1>3, <1>4, <1>5, <1>6, <1>7, <1>8, Zenon
  <1> QED BY <1>9 DEF modify, empty, S1, S2, S4, S5, S6, remove, removeAll, replace, addNew, add

\* Tables in a config have a definition.
LEMMA ConfigTypes ==
  ASSUME NEW p \in P4Infos
  PROVE  /\ \A t \in AclTables : p.acl[t] \in Definitions \cup {None}
         /\ \A f \in HashFields : p.hash[f] \in HashValues \cup {None}
         /\ \A t \in AclTables : t \in Tables(p) <=> p.acl[t] # None
         /\ \A t \in Tables(p) : t \in AclTables /\ p.acl[t] \in Definitions
         /\ Fields(p) \in SUBSET HashFields
         /\ p # None
  <1>1. p \in P4InfoType /\ p # None
    BY PipelineConstants
  <1> QED BY <1>1 DEF P4InfoType, Tables, Fields

\* TransitionAcls leads from one config's tables to the other's.
LEMMA AclPlan ==
  ASSUME NEW from \in P4Infos, NEW to \in P4Infos, NEW w, w = TransitionAcls(from, to)
  PROVE  /\ w \in Seq(StepSet(entity_cache))
         /\ Careful(w)
         /\ \A x : Has(w, x) => x.kind # "hash"
         /\ \A t \in AclTables :
              /\ \A c \in Copies : Settles(w, DefItem(t, c), to) /\ Settles(w, EntItem(t, c), to)
              /\ ~Has(w, DefItem(t, "original")) => from.acl[t] = to.acl[t]
              /\ to.acl[t] = None => /\ ~Has(w, EntItem(t, "original"))
                                     /\ from.acl[t] = None \/ Includes(w, RemoveTable(t, "original"))
  <1> DEFINE Q == Seq(StepSet(entity_cache))
             S1 == AclTablesToDelete(from, to)
             M  == AclTablesToModify(from, to)
             S2 == M \cap Nonessential
             S3 == {t \in M \ Nonessential : entity_cache[t] = {}}
             S4 == (M \ Nonessential) \ S3
             S5 == AclTablesToAdd(from, to)
             S6 == S2 \cup S3
             remove == [t \in AclTables |-> Removal(t)]
             removeAll == [t \in AclTables |-> RemoveAclTable(t)]
             replace == [t \in AclTables |-> ReplaceTableInAppDb(t, from, to)]
             addNew == [t \in AclTables |-> Addition(t, to)]
             add == [t \in AclTables |-> AddAclTable(t, to)]
             w1 == Blocks(S1, remove)
             w2 == Blocks(S2, removeAll)
             w3 == Blocks(S3, remove)
             w4 == Blocks(S4, replace)
             w5 == Blocks(S5, addNew)
             w6 == Blocks(S6, add)
  <1>1. /\ \A t \in S1 : t \in AclTables /\ to.acl[t] = None /\ from.acl[t] # None
        /\ \A t \in M : t \in AclTables /\ to.acl[t] \in Definitions /\ from.acl[t] \in Definitions
        /\ \A t \in S5 : t \in AclTables /\ to.acl[t] \in Definitions /\ from.acl[t] = None
        /\ \A t \in AclTables : t \notin S1 /\ t \notin M /\ t \notin S5 => from.acl[t] = to.acl[t]
        /\ \A t \in AclTables : to.acl[t] = None /\ from.acl[t] # None => t \in S1
    BY ConfigTypes DEF AclTablesToDelete, AclTablesToModify, AclTablesToAdd, Tables
  <1>2. None \notin Definitions
    BY PipelineConstants
  <1>3. w = w1 \o w2 \o w3 \o w4 \o w5 \o w6
    BY TransitionAclsBlocks, Zenon
  <1> HIDE DEF S1, M, S5
  <1>4. /\ \A t \in S2 : t \in M /\ t \in Nonessential
        /\ \A t \in S3 : t \in M /\ entity_cache[t] = {}
        /\ \A t \in S4 : t \in M /\ t \notin S6
        /\ \A t \in S6 : t \in M
        /\ \A t \in M : t \in S4 \/ t \in S6
        /\ \A t : t \in S6 <=> t \in S2 \/ t \in S3
    OBVIOUS
  <1>5. /\ S1 \in SUBSET AclTables /\ S2 \in SUBSET AclTables /\ S3 \in SUBSET AclTables
        /\ S4 \in SUBSET AclTables /\ S5 \in SUBSET AclTables /\ S6 \in SUBSET AclTables
    BY <1>1, <1>4
  <1> HIDE DEF S2, S3, S4, S6, Q
  <1>6. /\ w1 \in Q /\ Careful(w1)
        /\ \A x : Has(w1, x) => x.kind = "def" /\ x.table \in S1 /\ x.copy = "original"
        /\ \A t \in S1 : /\ Decides(w1, DefItem(t, "original"), to)
                         /\ Includes(w1, RemoveTable(t, "original"))
    <2>1. \A t \in S1 : /\ remove[t] \in Q /\ About(remove[t], t) /\ Careful(remove[t])
                        /\ \A x : Has(remove[t], x) => x.kind = "def" /\ x.copy = "original"
                        /\ Decides(remove[t], DefItem(t, "original"), to)
                        /\ Includes(remove[t], RemoveTable(t, "original"))
      <3>1. \A t \in S1 : t \in AclTables /\ remove[t] = Removal(t)
        BY <1>5
      <3> HIDE DEF remove
      <3> QED BY <1>1, <3>1, RemoveBlock DEF Q
    <2> HIDE DEF remove
    <2>2. /\ w1 \in Q
          /\ \A x : Has(w1, x) => x.kind # "hash" /\ x.table \in S1 /\ Has(remove[x.table], x)
          /\ \A x, p : \A t \in S1 : x.table = t /\ Decides(remove[t], x, p) => Decides(w1, x, p)
          /\ \A s : \A t \in S1 : Includes(remove[t], s) => Includes(w1, s)
          /\ Careful(w1)
      BY ONLY <1>5, <2>1, TableBlocks, SMTT(60) DEF Q, Blocks
    <2> HIDE DEF w1
    <2> QED BY <2>1, <2>2, ItemFields
  <1>7. /\ w2 \in Q /\ Careful(w2)
        /\ \A x : Has(w2, x) => /\ x.kind # "hash" /\ x.table \in S2 /\ x.copy = "original"
                                /\ x.kind # "def" => entity_cache[x.table] # {}
    <2>1. \A t \in S2 : /\ removeAll[t] \in Q /\ About(removeAll[t], t) /\ Careful(removeAll[t])
                        /\ \A x : Has(removeAll[t], x) =>
                             x.copy = "original" /\ (x.kind # "def" => entity_cache[t] # {})
      <3>1. \A t \in S2 : t \in AclTables /\ removeAll[t] = RemoveAclTable(t)
        BY <1>5
      <3> HIDE DEF removeAll
      <3> QED BY <1>1, <1>4, <3>1, RemoveAclBlock DEF Q
    <2> HIDE DEF removeAll
    <2>2. /\ w2 \in Q
          /\ \A x : Has(w2, x) => x.kind # "hash" /\ x.table \in S2 /\ Has(removeAll[x.table], x)
          /\ \A x, p : \A t \in S2 : x.table = t /\ Decides(removeAll[t], x, p) => Decides(w2, x, p)
          /\ \A s : \A t \in S2 : Includes(removeAll[t], s) => Includes(w2, s)
          /\ Careful(w2)
      BY ONLY <1>5, <2>1, TableBlocks, SMTT(60) DEF Q, Blocks
    <2> HIDE DEF w2
    <2> QED BY <2>1, <2>2, ItemFields
  <1>8. /\ w3 \in Q /\ Careful(w3)
        /\ \A x : Has(w3, x) => x.kind = "def" /\ x.table \in S3 /\ x.copy = "original"
    <2>1. \A t \in S3 : /\ remove[t] \in Q /\ About(remove[t], t) /\ Careful(remove[t])
                        /\ \A x : Has(remove[t], x) => x.kind = "def" /\ x.copy = "original"
      <3>1. \A t \in S3 : t \in AclTables /\ remove[t] = Removal(t)
        BY <1>5
      <3> HIDE DEF remove
      <3> QED BY <1>1, <1>4, <3>1, RemoveBlock DEF Q
    <2> HIDE DEF remove
    <2>2. /\ w3 \in Q
          /\ \A x : Has(w3, x) => x.kind # "hash" /\ x.table \in S3 /\ Has(remove[x.table], x)
          /\ \A x, p : \A t \in S3 : x.table = t /\ Decides(remove[t], x, p) => Decides(w3, x, p)
          /\ \A s : \A t \in S3 : Includes(remove[t], s) => Includes(w3, s)
          /\ Careful(w3)
      <3>1. S3 \in SUBSET AclTables
        BY <1>5
      <3>2. \A t \in S3 : remove[t] \in Q /\ About(remove[t], t)
        BY <2>1
      <3>3. \A t \in S3 : Careful(remove[t])
        BY <2>1
      <3> QED BY ONLY <3>1, <3>2, <3>3, TableBlocks DEF Q, Blocks
    <2> HIDE DEF w3
    <2> QED BY <2>1, <2>2, ItemFields
  <1>9. /\ w4 \in Q /\ Careful(w4)
        /\ \A x : Has(w4, x) => x.kind # "hash" /\ x.table \in S4
        /\ \A t \in S4 : \A c \in Copies : /\ Decides(w4, DefItem(t, c), to)
                                           /\ Decides(w4, EntItem(t, c), to)
    <2>1. \A t \in S4 : /\ replace[t] \in Q /\ About(replace[t], t) /\ Careful(replace[t])
                        /\ \A c \in Copies : /\ Decides(replace[t], DefItem(t, c), to)
                                             /\ Decides(replace[t], EntItem(t, c), to)
      <3>1. \A t \in S4 : t \in AclTables /\ replace[t] = ReplaceTableInAppDb(t, from, to)
        BY <1>5
      <3> HIDE DEF replace
      <3> QED BY <1>1, <1>4, <3>1, ReplaceBlock DEF Q
    <2> HIDE DEF replace
    <2>2. /\ w4 \in Q
          /\ \A x : Has(w4, x) => x.kind # "hash" /\ x.table \in S4 /\ Has(replace[x.table], x)
          /\ \A x, p : \A t \in S4 : x.table = t /\ Decides(replace[t], x, p) => Decides(w4, x, p)
          /\ \A s : \A t \in S4 : Includes(replace[t], s) => Includes(w4, s)
          /\ Careful(w4)
      BY ONLY <1>5, <2>1, TableBlocks, SMTT(60) DEF Q, Blocks
    <2> HIDE DEF w4
    <2> QED BY <2>1, <2>2, ItemFields
  <1>10. /\ w5 \in Q /\ Careful(w5)
         /\ \A x : Has(w5, x) => x.kind = "def" /\ x.table \in S5 /\ x.copy = "original"
         /\ \A t \in S5 : Decides(w5, DefItem(t, "original"), to)
    <2>1. \A t \in S5 : /\ addNew[t] \in Q /\ About(addNew[t], t) /\ Careful(addNew[t])
                        /\ \A x : Has(addNew[t], x) => x.kind = "def" /\ x.copy = "original"
                        /\ Decides(addNew[t], DefItem(t, "original"), to)
      <3>1. \A t \in S5 : t \in AclTables /\ addNew[t] = Addition(t, to)
        BY <1>5
      <3> HIDE DEF addNew
      <3> QED BY <1>1, <3>1, AddNewBlock DEF Q
    <2> HIDE DEF addNew
    <2>2. /\ w5 \in Q
          /\ \A x : Has(w5, x) => x.kind # "hash" /\ x.table \in S5 /\ Has(addNew[x.table], x)
          /\ \A x, p : \A t \in S5 : x.table = t /\ Decides(addNew[t], x, p) => Decides(w5, x, p)
          /\ \A s : \A t \in S5 : Includes(addNew[t], s) => Includes(w5, s)
          /\ Careful(w5)
      BY ONLY <1>5, <2>1, TableBlocks, SMTT(60) DEF Q, Blocks
    <2> HIDE DEF w5
    <2> QED BY <2>1, <2>2, ItemFields
  <1>11. /\ w6 \in Q /\ Careful(w6)
         /\ \A x : Has(w6, x) => /\ x.kind # "hash" /\ x.table \in S6 /\ x.copy = "original"
                                 /\ x.kind # "def" => entity_cache[x.table] # {}
         /\ \A t \in S6 : /\ Decides(w6, DefItem(t, "original"), to)
                          /\ entity_cache[t] # {} => Decides(w6, EntItem(t, "original"), to)
    <2>1. \A t \in S6 : /\ add[t] \in Q /\ About(add[t], t) /\ Careful(add[t])
                        /\ \A x : Has(add[t], x) =>
                             x.copy = "original" /\ (x.kind # "def" => entity_cache[t] # {})
                        /\ Decides(add[t], DefItem(t, "original"), to)
                        /\ entity_cache[t] # {} => Decides(add[t], EntItem(t, "original"), to)
      <3>1. \A t \in S6 : t \in AclTables /\ add[t] = AddAclTable(t, to)
        BY <1>5
      <3> HIDE DEF add
      <3> QED BY <1>1, <1>4, <3>1, AddBlock DEF Q
    <2> HIDE DEF add
    <2>2. /\ w6 \in Q
          /\ \A x : Has(w6, x) => x.kind # "hash" /\ x.table \in S6 /\ Has(add[x.table], x)
          /\ \A x, p : \A t \in S6 : x.table = t /\ Decides(add[t], x, p) => Decides(w6, x, p)
          /\ \A s : \A t \in S6 : Includes(add[t], s) => Includes(w6, s)
          /\ Careful(w6)
      BY ONLY <1>5, <2>1, TableBlocks, SMTT(60) DEF Q, Blocks
    <2> HIDE DEF w6
    <2> QED BY <2>1, <2>2, ItemFields
  <1> HIDE DEF w1, w2, w3, w4, w5, w6
  <1> DEFINE v2 == w1 \o w2
             v3 == v2 \o w3
             v4 == v3 \o w4
             v5 == v4 \o w5
             v6 == v5 \o w6
  <1>12. /\ v2 \in Q /\ Careful(v2)
         /\ \A x : Has(v2, x) <=> Has(w1, x) \/ Has(w2, x)
         /\ \A x : Settles(w1, x, to) /\ Settles(w2, x, to) => Settles(v2, x, to)
         /\ \A s : Includes(w1, s) => Includes(v2, s)
    BY <1>6, <1>7, ConcatFacts DEF Q
  <1> HIDE DEF v2
  <1>13. /\ v3 \in Q /\ Careful(v3)
         /\ \A x : Has(v3, x) <=> Has(v2, x) \/ Has(w3, x)
         /\ \A x : Settles(v2, x, to) /\ Settles(w3, x, to) => Settles(v3, x, to)
         /\ \A s : Includes(v2, s) => Includes(v3, s)
    BY <1>8, <1>12, ConcatFacts DEF Q
  <1> HIDE DEF v3
  <1>14. /\ v4 \in Q /\ Careful(v4)
         /\ \A x : Has(v4, x) <=> Has(v3, x) \/ Has(w4, x)
         /\ \A x : Settles(v3, x, to) /\ Settles(w4, x, to) => Settles(v4, x, to)
         /\ \A s : Includes(v3, s) => Includes(v4, s)
    BY <1>9, <1>13, ConcatFacts DEF Q
  <1> HIDE DEF v4
  <1>15. /\ v5 \in Q /\ Careful(v5)
         /\ \A x : Has(v5, x) <=> Has(v4, x) \/ Has(w5, x)
         /\ \A x : Settles(v4, x, to) /\ Settles(w5, x, to) => Settles(v5, x, to)
         /\ \A s : Includes(v4, s) => Includes(v5, s)
    BY <1>10, <1>14, ConcatFacts DEF Q
  <1> HIDE DEF v5
  <1>16. /\ v6 \in Q /\ Careful(v6)
         /\ \A x : Has(v6, x) <=> Has(v5, x) \/ Has(w6, x)
         /\ \A x : Settles(v5, x, to) /\ Settles(w6, x, to) => Settles(v6, x, to)
         /\ \A x : Decides(w6, x, to) => Decides(v6, x, to)
         /\ \A s : Includes(v5, s) => Includes(v6, s)
    BY <1>11, <1>15, ConcatFacts DEF Q
  <1>17. w = v6
    BY <1>3 DEF v2, v3, v4, v5
  <1> HIDE DEF v6
  <1>18. \A x : Has(w, x) <=> \/ Has(w1, x) \/ Has(w2, x) \/ Has(w3, x)
                              \/ Has(w4, x) \/ Has(w5, x) \/ Has(w6, x)
    BY <1>12, <1>13, <1>14, <1>15, <1>16, <1>17
  <1>19. \A x : Settles(w1, x, to) /\ ~Has(w2, x) /\ ~Has(w3, x) /\ Settles(w4, x, to)
                /\ Settles(w5, x, to) /\ ~Has(w6, x) => Settles(w, x, to)
    BY <1>12, <1>13, <1>14, <1>15, <1>16, <1>17 DEF Settles
  <1>20. \A x : Has(w, x) => x.kind # "hash"
    <2>1. "def" # "hash"
      OBVIOUS
    <2> QED BY <1>6, <1>7, <1>8, <1>9, <1>10, <1>11, <1>18, <2>1
  <1>21. \A x, p : Decides(w, x, p) => Has(w, x)
    BY DEF Decides, Has
  <1>22. \A x, p : /\ Decides(w1, x, p) => Has(w1, x)
                   /\ Decides(w4, x, p) => Has(w4, x)
                   /\ Decides(w5, x, p) => Has(w5, x)
    BY DEF Decides, Has
  <1>23. ASSUME NEW t \in AclTables, NEW c \in Copies
         PROVE  Settles(w, DefItem(t, c), to)
    <2> DEFINE x == DefItem(t, c)
    <2>1. x.kind = "def" /\ x.table = t /\ x.copy = c
      BY ItemFields
    <2>2. CASE t \in S6 /\ c = "original"
      BY <1>11, <1>16, <1>17, <2>2 DEF Settles
    <2>3. CASE t \notin S6 \/ c # "original"
      <3>1. ~Has(w2, x) /\ ~Has(w3, x) /\ ~Has(w6, x)
        <4> HIDE DEF x
        <4> QED BY <1>4, <1>7, <1>8, <1>11, <2>1, <2>3
      <3>2. Settles(w1, x, to)
        BY <1>6, <2>1 DEF Settles
      <3>3. Settles(w4, x, to)
        BY <1>9, <2>1 DEF Settles
      <3>4. Settles(w5, x, to)
        BY <1>10, <2>1 DEF Settles
      <3> HIDE DEF x
      <3>5. Settles(w, x, to)
        BY <1>19, <3>1, <3>2, <3>3, <3>4
      <3> QED BY <3>5 DEF x
    <2> QED BY <2>2, <2>3
  <1>24. ASSUME NEW t \in AclTables, NEW c \in Copies
         PROVE  Settles(w, EntItem(t, c), to)
    <2> DEFINE x == EntItem(t, c)
    <2>1. x.kind = "entries" /\ x.table = t /\ x.copy = c /\ x.kind # "def"
      BY ItemFields
    <2>2. CASE t \in S6 /\ c = "original" /\ entity_cache[t] # {}
      BY <1>11, <1>16, <1>17, <2>2 DEF Settles
    <2>3. CASE t \notin S6 \/ c # "original" \/ entity_cache[t] = {}
      <3>1. ~Has(w2, x) /\ ~Has(w3, x) /\ ~Has(w6, x) /\ ~Has(w1, x) /\ ~Has(w5, x)
        <4> HIDE DEF x
        <4> QED BY <1>4, <1>6, <1>7, <1>8, <1>10, <1>11, <2>1, <2>3
      <3>2. Settles(w4, x, to)
        BY <1>9, <2>1 DEF Settles
      <3> HIDE DEF x
      <3>3. Settles(w, x, to)
        BY <1>19, <3>1, <3>2 DEF Settles
      <3> QED BY <3>3 DEF x
    <2> QED BY <2>2, <2>3
  <1>25. ASSUME NEW t \in AclTables, ~Has(w, DefItem(t, "original")) PROVE from.acl[t] = to.acl[t]
    <2>1. "original" \in Copies
      BY DEF Copies
    <2>2. t \notin S1 /\ t \notin S4 /\ t \notin S5
      BY <1>6, <1>9, <1>10, <1>18, <1>22, <1>25, <2>1
    <2>3. t \notin S6
      BY <1>11, <1>16, <1>17, <1>21, <1>25
    <2> QED BY <1>1, <1>4, <2>2, <2>3
  <1>26. ASSUME NEW t \in AclTables, to.acl[t] = None
         PROVE  /\ ~Has(w, EntItem(t, "original"))
                /\ from.acl[t] = None \/ Includes(w, RemoveTable(t, "original"))
    <2>1. t \notin M
      BY <1>1, <1>2, <1>26
    <2>2. ~Has(w, EntItem(t, "original"))
      <3> DEFINE x == EntItem(t, "original")
      <3>1. x.kind # "def" /\ x.table = t
        BY ItemFields
      <3> HIDE DEF x
      <3>2. ~Has(w, x)
        BY <1>4, <1>6, <1>7, <1>8, <1>9, <1>10, <1>11, <1>18, <2>1, <3>1
      <3> QED BY <3>2 DEF x
    <2>3. ASSUME from.acl[t] # None PROVE Includes(w, RemoveTable(t, "original"))
      BY <1>1, <1>6, <1>12, <1>13, <1>14, <1>15, <1>16, <1>17, <1>26, <2>3
    <2> QED BY <2>2, <2>3
  <1> QED BY <1>16, <1>17, <1>20, <1>23, <1>24, <1>25, <1>26 DEF Q

\* A step on hash fields.
LEMMA HashStep ==
  ASSUME NEW fs, fs \in SUBSET HashFields, NEW to, NEW s,
         s = SetHash(fs) \/ s = SetSwitch(fs) \/ (s = DeleteHash(fs) /\ \A f \in fs : to.hash[f] = None)
  PROVE  /\ <<s>> \in Seq(StepSet(entity_cache)) /\ Careful(<<s>>)
         /\ \A x : Has(<<s>>, x) => x.kind = "hash"
         /\ \A f : Settles(<<s>>, HashItem(f), to)
         /\ \A f \in fs : s = SetHash(fs) \/ s = DeleteHash(fs) => Has(<<s>>, HashItem(f))
         /\ Includes(<<s>>, s)
  <1>1. s \in StepSet(entity_cache) /\ ~IsEssentialDelete(s)
    BY HashInStepSet, StepDeletes
  <1>2. \A x : Touches(s, x) => x.kind = "hash" /\ x.field \in fs
    BY StepTouches
  <1>3. \A f : Touches(s, HashItem(f)) => Right(s, HashItem(f), to)
    <2>1. SUFFICES ASSUME NEW f, Touches(s, HashItem(f)) PROVE Right(s, HashItem(f), to)
      OBVIOUS
    <2>2. f \in fs
      BY <1>2, <2>1, ItemFields
    <2>3. s # SetSwitch(fs)
      BY <2>1, StepTouches
    <2> QED BY <2>2, <2>3, StepRight
  <1>4. \A f \in fs : s = SetHash(fs) \/ s = DeleteHash(fs) => Touches(s, HashItem(f))
    BY StepTouches, ItemFields
  <1> QED BY <1>1, <1>2, <1>3, <1>4, OneStep

\* TransitionHashConfig leads from one config's hash fields to the other's.
LEMMA HashPlan ==
  ASSUME NEW from \in P4Infos, NEW to \in P4Infos, NEW w, w = TransitionHashConfig(from, to)
  PROVE  /\ w \in Seq(StepSet(entity_cache))
         /\ Careful(w)
         /\ \A x : Has(w, x) => x.kind = "hash"
         /\ \A f \in HashFields :
              /\ Settles(w, HashItem(f), to)
              /\ ~Has(w, HashItem(f)) => from.hash[f] = to.hash[f]
              /\ to.hash[f] # None => from.hash[f] # None \/ Includes(w, SetSwitch(Fields(to)))
  <1> DEFINE Q == Seq(StepSet(entity_cache))
             set == HashFieldsToSet(from, to)
             delete == HashFieldsToDelete(from, to)
             a == IF set = {} THEN <<>> ELSE <<SetHash(Fields(to))>>
             b == IF delete = {} THEN <<>> ELSE <<DeleteHash(delete)>>
             c == IF Fields(to) = {} THEN <<>> ELSE <<SetSwitch(Fields(to))>>
             Quiet(q) == /\ q \in Q /\ Careful(q)
                         /\ \A x : Has(q, x) => x.kind = "hash"
                         /\ \A f : Settles(q, HashItem(f), to)
  <1>1. /\ Fields(to) \in SUBSET HashFields /\ delete \in SUBSET HashFields
        /\ set \subseteq Fields(to)
        /\ \A f \in delete : to.hash[f] = None
        /\ \A f \in HashFields : f \notin set /\ f \notin delete => from.hash[f] = to.hash[f]
        /\ \A f \in HashFields : to.hash[f] # None => f \in Fields(to) /\ (from.hash[f] # None \/ f \in set)
    BY DEF HashFieldsToSet, HashFieldsToDelete, Fields
  <1>2. set \cup delete = {} => w = <<>>
    BY DEF TransitionHashConfig
  <1>3. set \cup delete # {} => w = a \o b \o c
    BY DEF TransitionHashConfig
  <1> HIDE DEF set, delete, Q
  <1>4. /\ Quiet(a)
        /\ \A f \in set : Has(a, HashItem(f))
    <2>1. CASE set = {}
      BY <2>1, NoStep DEF Q
    <2>2. CASE set # {}
      <3>1. /\ Quiet(<<SetHash(Fields(to))>>)
            /\ \A f \in Fields(to) : Has(<<SetHash(Fields(to))>>, HashItem(f))
        BY <1>1, HashStep DEF Q
      <3> QED BY <1>1, <2>2, <3>1
    <2> QED BY <2>1, <2>2
  <1>5. /\ Quiet(b)
        /\ \A f \in delete : Has(b, HashItem(f))
    <2>1. CASE delete = {}
      BY <2>1, NoStep DEF Q
    <2>2. CASE delete # {}
      <3>1. /\ Quiet(<<DeleteHash(delete)>>)
            /\ \A f \in delete : Has(<<DeleteHash(delete)>>, HashItem(f))
        <4> DEFINE s == DeleteHash(delete)
        <4>1. s = DeleteHash(delete) /\ \A f \in delete : to.hash[f] = None
          BY <1>1
        <4> HIDE DEF s
        <4>2. /\ <<s>> \in Seq(StepSet(entity_cache)) /\ Careful(<<s>>)
              /\ \A x : Has(<<s>>, x) => x.kind = "hash"
              /\ \A f : Settles(<<s>>, HashItem(f), to)
              /\ \A f \in delete : Has(<<s>>, HashItem(f))
          BY <1>1, <4>1, HashStep
        <4> QED BY <4>1, <4>2 DEF Q
      <3> QED BY <2>2, <3>1
    <2> QED BY <2>1, <2>2
  <1>6. /\ Quiet(c)
        /\ Fields(to) # {} => Includes(c, SetSwitch(Fields(to)))
    <2>1. CASE Fields(to) = {}
      BY <2>1, NoStep DEF Q
    <2>2. CASE Fields(to) # {}
      <3>1. /\ Quiet(<<SetSwitch(Fields(to))>>)
            /\ Includes(<<SetSwitch(Fields(to))>>, SetSwitch(Fields(to)))
        BY <1>1, HashStep DEF Q
      <3> QED BY <2>2, <3>1
    <2> QED BY <2>1, <2>2
  <1> HIDE DEF a, b, c
  <1>7. /\ Quiet(a \o b)
        /\ \A x : Has(a \o b, x) <=> Has(a, x) \/ Has(b, x)
    BY <1>4, <1>5, ConcatFacts DEF Q
  <1> DEFINE ab == a \o b
  <1> HIDE DEF ab
  <1>8. /\ Quiet(ab \o c)
        /\ \A x : Has(ab \o c, x) <=> Has(ab, x) \/ Has(c, x)
        /\ \A s : Includes(c, s) => Includes(ab \o c, s)
    BY <1>6, <1>7, ConcatFacts DEF Q, ab
  <1>9. CASE set \cup delete = {}
    <2>1. w = <<>>
      BY <1>2, <1>9
    <2>2. Quiet(w)
      BY <2>1, NoStep DEF Q
    <2>3. \A f \in HashFields : f \notin set /\ f \notin delete
      BY <1>9
    <2> QED BY <1>1, <2>2, <2>3 DEF Q
  <1>10. CASE set \cup delete # {}
    <2>1. w = ab \o c
      BY <1>3, <1>10 DEF ab
    <2>2. \A f \in HashFields : ~Has(w, HashItem(f)) => from.hash[f] = to.hash[f]
      BY <1>1, <1>4, <1>5, <1>7, <1>8, <2>1 DEF ab
    <2>3. \A f \in HashFields : to.hash[f] # None => Includes(w, SetSwitch(Fields(to)))
      BY <1>1, <1>6, <1>8, <2>1
    <2> QED BY <1>8, <2>1, <2>2, <2>3 DEF Q
  <1> QED BY <1>9, <1>10

\* A pair of steps.
LEMMA PairOfSteps ==
  ASSUME NEW T, NEW x \in T, NEW y \in T
  PROVE  <<x, y>> = <<x>> \o <<y>>
  <1> DEFINE q == <<x, y>>
             a == <<x>>
             b == <<y>>
             r == a \o b
  <1>1. /\ q \in Seq(T) /\ Len(q) = 2 /\ q[1] = x /\ q[2] = y
        /\ a \in Seq(T) /\ Len(a) = 1 /\ a[1] = x
        /\ b \in Seq(T) /\ Len(b) = 1 /\ b[1] = y
    OBVIOUS
  <1> HIDE DEF q, a, b
  <1>2. /\ r \in Seq(T) /\ Len(r) = Len(a) + Len(b)
        /\ \A i \in 1..(Len(a) + Len(b)) : r[i] = IF i <= Len(a) THEN a[i] ELSE b[i - Len(a)]
    BY <1>1, ConcatProperties
  <1> HIDE DEF r
  <1>3. Len(r) = 2 /\ r[1] = x /\ r[2] = y
    BY <1>1, <1>2
  <1>4. \A i \in 1..2 : q[i] = r[i]
    <2>1. \A i \in 1..2 : i = 1 \/ i = 2
      OBVIOUS
    <2> QED BY <1>1, <1>3, <2>1
  <1>5. q = r
    BY <1>1, <1>2, <1>3, <1>4, SeqEqual
  <1> QED BY <1>5 DEF q, a, b, r

FirstAddition(t, to) == <<InsertTable(t, "original", to.acl[t]), PublishExtTables>>

\* The definition of a table of the first config, and its publication.
LEMMA FirstBlock ==
  ASSUME NEW t \in AclTables, NEW to, to.acl[t] \in Definitions, NEW q, q = FirstAddition(t, to)
  PROVE  /\ q \in Seq(StepSet(entity_cache))
         /\ About(q, t) /\ Careful(q)
         /\ \A x : Has(q, x) => x.kind = "def" /\ x.table = t /\ x.copy = "original"
         /\ Decides(q, DefItem(t, "original"), to)
  <1> DEFINE a == Addition(t, to)
             s == PublishExtTables
             b == <<s>>
  <1>1. q = a \o b
    BY DEF FirstAddition, Addition
  <1>2. /\ a \in Seq(StepSet(entity_cache))
        /\ About(a, t) /\ Careful(a)
        /\ Decides(a, DefItem(t, "original"), to)
        /\ \A x : Has(a, x) => x.kind = "def" /\ x.table = t /\ x.copy = "original"
    BY AddNewBlock
  <1>3. s \in StepSet(entity_cache) /\ ~IsEssentialDelete(s) /\ \A x : ~Touches(s, x)
    BY HashInStepSet, StepDeletes, StepTouches
  <1> HIDE DEF s
  <1>4. b \in Seq(StepSet(entity_cache)) /\ Careful(b) /\ \A x : ~Has(b, x)
    BY <1>3, OneStep
  <1> HIDE DEF a, b
  <1>5. Has(a, DefItem(t, "original"))
    BY <1>2 DEF Decides, Has
  <1>6. Settles(a \o b, DefItem(t, "original"), to) /\ Has(a \o b, DefItem(t, "original"))
    BY <1>2, <1>4, <1>5, ConcatFacts DEF Settles
  <1> QED BY <1>1, <1>2, <1>4, <1>6, ConcatFacts DEF About, Settles

\* No ACL table, or no hash field.
NoAcls   == [t \in AclTables |-> None]
NoHashes == [f \in HashFields |-> None]

\* ConfigureAppDbTables leads from the empty switch to the first config.
LEMMA FirstPlan ==
  ASSUME NEW to \in P4Infos, NEW w, w = ConfigureAppDbTables(to)
  PROVE  Plan(w, NoAcls, NoHashes, to)
  <1> DEFINE Q == Seq(StepSet(entity_cache))
             S == Tables(to)
             block == [t \in AclTables |-> FirstAddition(t, to)]
             F == [i \in DOMAIN OrderTables(S) |-> FirstAddition(OrderTables(S)[i], to)]
             a == Blocks(S, block)
             fs == Fields(to)
             s1 == SetHash(fs)
             s2 == SetSwitch(fs)
             b == IF fs = {} THEN <<>> ELSE <<s1, s2>>
  <1>1. /\ S \in SUBSET AclTables /\ fs \in SUBSET HashFields
        /\ \A t \in S : to.acl[t] \in Definitions
        /\ \A t \in AclTables : t \in S <=> to.acl[t] # None
        /\ \A f \in HashFields : f \in fs <=> to.hash[f] # None
    BY ConfigTypes DEF Fields, Tables
  <1>2. w = FlattenSeq(F) \o b
    BY DEF ConfigureAppDbTables, ForAll, FirstAddition
  <1>3. s1 = SetHash(fs) /\ s2 = SetSwitch(fs) /\ fs = Fields(to)
    OBVIOUS
  <1> HIDE DEF S, fs
  <1>4. FlattenSeq(F) = a
    <2>1. /\ DOMAIN F = DOMAIN OrderTables(S) /\ F = [i \in DOMAIN F |-> F[i]]
          /\ \A i \in DOMAIN F : OrderTables(S)[i] \in AclTables => F[i] = block[OrderTables(S)[i]]
      OBVIOUS
    <2> HIDE DEF F, block
    <2> QED BY <1>1, <2>1, BlocksEqual
  <1> HIDE DEF F, s1, s2
  <1>5. /\ a \in Q /\ Careful(a)
        /\ \A x : Has(a, x) => x.kind = "def" /\ x.table \in S /\ x.copy = "original"
        /\ \A t \in S : Decides(a, DefItem(t, "original"), to)
    <2>1. \A t \in S : /\ block[t] \in Q /\ About(block[t], t) /\ Careful(block[t])
                       /\ \A x : Has(block[t], x) => x.kind = "def" /\ x.copy = "original"
                       /\ Decides(block[t], DefItem(t, "original"), to)
      <3>1. \A t \in S : t \in AclTables /\ block[t] = FirstAddition(t, to)
        BY <1>1
      <3> HIDE DEF block
      <3> QED BY <1>1, <3>1, FirstBlock DEF Q
    <2> HIDE DEF block
    <2>2. /\ a \in Q
          /\ \A x : Has(a, x) => x.kind # "hash" /\ x.table \in S /\ Has(block[x.table], x)
          /\ \A x, p : \A t \in S : x.table = t /\ Decides(block[t], x, p) => Decides(a, x, p)
          /\ Careful(a)
      BY ONLY <1>1, <2>1, TableBlocks DEF Q, Blocks
    <2> HIDE DEF a
    <2> QED BY <2>1, <2>2, ItemFields
  <1>6. /\ b \in Q /\ Careful(b)
        /\ \A x : Has(b, x) => x.kind = "hash"
        /\ \A f : Settles(b, HashItem(f), to)
        /\ \A f \in fs : Has(b, HashItem(f)) /\ Includes(b, s2)
    <2>1. CASE fs = {}
      BY <2>1, NoStep DEF Q
    <2>2. CASE fs # {}
      <3> DEFINE b1 == <<s1>>
                 b2 == <<s2>>
      <3>1. /\ b1 \in Q /\ Careful(b1)
            /\ \A x : Has(b1, x) => x.kind = "hash"
            /\ \A f : Settles(b1, HashItem(f), to)
            /\ \A f \in fs : Has(b1, HashItem(f))
        BY <1>1, <1>3, HashStep DEF Q
      <3>2. /\ b2 \in Q /\ Careful(b2)
            /\ \A x : Has(b2, x) => x.kind = "hash"
            /\ \A f : Settles(b2, HashItem(f), to)
            /\ Includes(b2, s2)
        BY <1>1, <1>3, HashStep DEF Q
      <3>3. b = b1 \o b2
        <4>1. b = <<s1, s2>>
          BY <2>2
        <4>2. <<s1, s2>> = <<s1>> \o <<s2>>
          <5>1. s1 \in StepSet(entity_cache) /\ s2 \in StepSet(entity_cache)
            BY <1>1, <1>3, HashInStepSet
          <5> QED BY <5>1, PairOfSteps
        <4> QED BY <4>1, <4>2
      <3> HIDE DEF b1, b2, b
      <3> QED BY <3>1, <3>2, <3>3, ConcatFacts DEF Q
    <2> QED BY <2>1, <2>2
  <1> HIDE DEF a, b
  <1>7. /\ w \in Q /\ Careful(w)
        /\ \A x : Has(w, x) <=> Has(a, x) \/ Has(b, x)
        /\ \A x : Settles(a, x, to) /\ Settles(b, x, to) => Settles(w, x, to)
        /\ \A s : Includes(b, s) => Includes(w, s)
    BY <1>2, <1>4, <1>5, <1>6, ConcatFacts DEF Q
  <1>8. ASSUME NEW t \in AclTables, NEW c \in Copies
        PROVE  Settles(w, DefItem(t, c), to) /\ Settles(w, EntItem(t, c), to)
    <2>1. /\ Settles(a, DefItem(t, c), to) /\ ~Has(b, DefItem(t, c))
          /\ ~Has(a, EntItem(t, c)) /\ ~Has(b, EntItem(t, c))
      BY <1>5, <1>6, ItemFields DEF Settles
    <2> QED BY <1>7, <2>1 DEF Settles
  <1>9. ASSUME NEW t \in AclTables
        PROVE  /\ ~Has(w, DefItem(t, "original")) => NoAcls[t] = to.acl[t]
               /\ ~Has(w, EntItem(t, "original"))
               /\ NoAcls[t] = None
    <2>1. ~Has(a, EntItem(t, "original")) /\ ~Has(b, EntItem(t, "original"))
      BY <1>5, <1>6, ItemFields
    <2>2. t \in S => Has(a, DefItem(t, "original"))
      BY <1>5 DEF Decides, Has
    <2> QED BY <1>1, <1>7, <2>1, <2>2 DEF NoAcls
  <1>10. ASSUME NEW f \in HashFields
         PROVE  /\ Settles(w, HashItem(f), to)
                /\ ~Has(w, HashItem(f)) => NoHashes[f] = to.hash[f]
                /\ to.hash[f] # None => Includes(w, SetSwitch(Fields(to)))
    <2>1. ~Has(a, HashItem(f))
      BY <1>5, ItemFields
    <2>2. Settles(w, HashItem(f), to)
      BY <1>6, <1>7, <2>1 DEF Settles
    <2> QED BY <1>1, <1>3, <1>6, <1>7, <2>2 DEF NoHashes
  <1> QED BY <1>7, <1>8, <1>9, <1>10 DEF Plan, Q

\* The steps of a reconciliation with a config lead from the old to the new.
OldAcl  == IF ir_p4info = None THEN NoAcls ELSE ir_p4info.acl
OldHash == IF ir_p4info = None THEN NoHashes ELSE ir_p4info.hash

\* What a reconciliation plans is right.
LEMMA ReconcilePlan ==
  ASSUME NEW to \in P4Infos, ir_p4info \in P4Infos \cup {None}, NEW w,
         w = IF ir_p4info = None THEN ConfigureAppDbTables(to)
             ELSE IF ir_p4info = to THEN <<>>
             ELSE TransitionHashConfig(ir_p4info, to) \o TransitionAcls(ir_p4info, to)
  PROVE  Plan(w, OldAcl, OldHash, to)
  <1>1. CASE ir_p4info = None
    BY <1>1, FirstPlan DEF OldAcl, OldHash
  <1>2. CASE ir_p4info = to
    <2>1. w = <<>> /\ OldAcl = to.acl /\ OldHash = to.hash
      BY <1>2, ConfigTypes DEF OldAcl, OldHash
    <2>2. \A t \in AclTables : to.acl[t] = None => OldAcl[t] = None
      BY <2>1
    <2> QED BY <2>1, <2>2, NoStep DEF Plan
  <1>3. CASE ir_p4info # None /\ ir_p4info # to
    <2>1. PICK from \in P4Infos : from = ir_p4info
      BY <1>3
    <2> DEFINE Q == Seq(StepSet(entity_cache))
               a == TransitionHashConfig(from, to)
               b == TransitionAcls(from, to)
    <2>2. w = a \o b /\ OldAcl = from.acl /\ OldHash = from.hash
      BY <1>3, <2>1 DEF OldAcl, OldHash
    <2>3. a = TransitionHashConfig(from, to) /\ b = TransitionAcls(from, to)
      OBVIOUS
    <2> HIDE DEF a, b
    <2>4. /\ a \in Q
          /\ Careful(a)
          /\ \A x : Has(a, x) => x.kind = "hash"
          /\ \A f \in HashFields :
               /\ Settles(a, HashItem(f), to)
               /\ ~Has(a, HashItem(f)) => from.hash[f] = to.hash[f]
               /\ to.hash[f] # None => from.hash[f] # None \/ Includes(a, SetSwitch(Fields(to)))
      BY <2>3, HashPlan
    <2>5. /\ b \in Q
          /\ Careful(b)
          /\ \A x : Has(b, x) => x.kind # "hash"
          /\ \A t \in AclTables :
               /\ \A c \in Copies : Settles(b, DefItem(t, c), to) /\ Settles(b, EntItem(t, c), to)
               /\ ~Has(b, DefItem(t, "original")) => from.acl[t] = to.acl[t]
               /\ to.acl[t] = None => /\ ~Has(b, EntItem(t, "original"))
                                      /\ from.acl[t] = None \/ Includes(b, RemoveTable(t, "original"))
      BY <2>3, AclPlan
    <2>6. /\ w \in Q /\ Careful(w)
          /\ \A x : Has(w, x) <=> Has(a, x) \/ Has(b, x)
          /\ \A x : Settles(a, x, to) /\ Settles(b, x, to) => Settles(w, x, to)
          /\ \A s : Includes(w, s) <=> Includes(a, s) \/ Includes(b, s)
      <3> HIDE DEF Q
      <3>1. a \in Seq(StepSet(entity_cache)) /\ b \in Seq(StepSet(entity_cache))
        BY <2>4, <2>5 DEF Q
      <3>2. w = a \o b /\ Careful(a) /\ Careful(b)
        BY <2>2, <2>4, <2>5
      <3> QED BY ONLY <3>1, <3>2, ConcatFacts DEF Q
    <2>7. \A t, c : ~Has(a, DefItem(t, c)) /\ ~Has(a, EntItem(t, c))
      BY <2>4, ItemFields
    <2>8. \A f : ~Has(b, HashItem(f))
      BY <2>5, ItemFields
    <2>9. ASSUME NEW t \in AclTables, NEW c \in Copies
          PROVE  Settles(w, DefItem(t, c), to) /\ Settles(w, EntItem(t, c), to)
      BY <2>5, <2>6, <2>7 DEF Settles
    <2>10. ASSUME NEW f \in HashFields PROVE Settles(w, HashItem(f), to)
      BY <2>4, <2>6, <2>8 DEF Settles
    <2> QED BY <2>2, <2>4, <2>5, <2>6, <2>7, <2>8, <2>9, <2>10 DEF Plan, Q
  <1> QED BY <1>1, <1>2, <1>3

-----------------------------------------------------------------------------
(* The inductive invariant.                                                *)

Configs  == P4Infos \cup {None}
EntrySet == UNION {Entries[t] : t \in AclTables}

HardwareOK ==
  /\ acl_def \in [AclTables -> [Copies -> Definitions \cup {None}]]
  /\ acl_entries \in [AclTables -> [Copies -> SUBSET EntrySet]]
  /\ hash_table \in [HashFields -> HashValues \cup {None}]
  /\ switch_table \in SUBSET HashFields

TypeOK ==
  /\ HardwareOK
  /\ ir_p4info \in Configs
  /\ saved_config \in Configs
  /\ configured \in BOOLEAN
  /\ critical \in BOOLEAN
  /\ save_failed \in BOOLEAN
  /\ interrupted \in BOOLEAN
  /\ entity_cache \in [AclTables -> SUBSET EntrySet]
  /\ acknowledged \in [AclTables -> SUBSET EntrySet]
  /\ pc \in {"idle", "RECONCILE_AND_COMMIT", "VERIFY_AND_COMMIT"}
  /\ target \in Configs
  /\ pc # "idle" => target \in P4Infos
  /\ pc = "idle" => steps = <<>>
  /\ steps \in Seq(StepSet(entity_cache))

\* What is cached or acknowledged for an essential table is in force, whether
\* or not the config still has the table.
Covered ==
  \A t \in AclTables \ Nonessential :
    entity_cache[t] \cup acknowledged[t]
      \subseteq acl_entries[t]["original"] \cup acl_entries[t]["duplicate"]

\* Before entries of an essential table are deleted from one copy, they are in
\* the other: they are there already, or the step before puts them there.
DeletesAreCovered ==
  \A i \in 1..Len(steps) : IsEssentialDelete(steps[i]) =>
    IF i = 1 THEN steps[1].entries \subseteq acl_entries[steps[1].table][Other(steps[1].copy)]
    ELSE steps[i - 1] = CoverOf(steps[i])

\* No transition has failed, been cut short or been left unsaved.
Undisturbed == ~critical /\ ~save_failed /\ ~interrupted

\* The config on disk is the one in force.
Saved == Undisturbed => saved_config = ir_p4info /\ (configured <=> ir_p4info # None)

\* Between transitions.
Settled ==
  Undisturbed /\ pc = "idle" =>
    /\ \A t \in AclTables :
         /\ acl_def[t]["original"] = OldAcl[t]
         /\ acl_def[t]["duplicate"] = None
         /\ acl_entries[t]["original"] = entity_cache[t]
         /\ acl_entries[t]["duplicate"] = {}
         /\ OldAcl[t] = None => entity_cache[t] = {}
    /\ \A f \in HashFields : /\ hash_table[f] = OldHash[f]
                             /\ hash_table[f] # None => f \in switch_table

\* In a transition: what the remaining steps do not touch is as the new config
\* wants it, and of what they touch the last touch will leave it so.  A table
\* that goes away has no entries when its definition is removed.
AclUnderway(t) ==
  /\ \A c \in Copies :
       /\ acl_entries[t][c] \subseteq entity_cache[t]
       /\ IF Has(steps, DefItem(t, c)) THEN Decides(steps, DefItem(t, c), target)
          ELSE acl_def[t][c] = IF c = "original" THEN target.acl[t] ELSE None
       /\ IF Has(steps, EntItem(t, c)) THEN Decides(steps, EntItem(t, c), target)
          ELSE acl_entries[t][c] = IF c = "original" THEN entity_cache[t] ELSE {}
  /\ target.acl[t] = None =>
       /\ ~Has(steps, EntItem(t, "original"))
       /\ entity_cache[t] = {} \/ Includes(steps, RemoveTable(t, "original"))

HashUnderway(f) ==
  /\ IF Has(steps, HashItem(f)) THEN Decides(steps, HashItem(f), target)
     ELSE hash_table[f] = target.hash[f]
  /\ target.hash[f] # None => f \in switch_table \/ Includes(steps, SetSwitch(Fields(target)))

Underway ==
  Undisturbed /\ pc # "idle" =>
    /\ \A t \in AclTables : AclUnderway(t)
    /\ \A f \in HashFields : HashUnderway(f)

IndInv ==
  TypeOK /\ Covered /\ DeletesAreCovered /\ Saved /\ Settled /\ Underway

\* Of steps q, step s is the first and r are the others.
FirstAndRest(q, s, r) ==
  /\ Len(q) \in Nat /\ Len(r) \in Nat /\ Len(q) = Len(r) + 1
  /\ q[1] = s
  /\ \A i \in 1..Len(r) : r[i] = q[i + 1]
  /\ \A x : Has(q, x) <=> Touches(s, x) \/ Has(r, x)
  /\ \A x, p : Decides(q, x, p) => IF Has(r, x) THEN Decides(r, x, p)
                                   ELSE Touches(s, x) /\ Right(s, x, p)
  /\ \A u : Includes(q, u) => u = s \/ Includes(r, u)

\* Taking the first step away.
LEMMA TailFacts ==
  ASSUME NEW T, NEW q, q \in Seq(T), q # <<>>, NEW s, s = Head(q), NEW r, r = Tail(q)
  PROVE  s \in T /\ r \in Seq(T) /\ FirstAndRest(q, s, r)
  <1>1. /\ s \in T /\ r \in Seq(T) /\ Len(q) \in Nat /\ Len(r) \in Nat /\ Len(q) = Len(r) + 1
        /\ q[1] = s
        /\ \A i \in 1..Len(r) : r[i] = q[i + 1]
    <2>1. /\ s \in T /\ s = q[1] /\ r \in Seq(T) /\ Len(r) = Len(q) - 1
          /\ \A i \in 1..Len(r) : r[i] = q[i + 1]
      BY HeadTailProperties
    <2>2. Len(q) \in Nat /\ Len(r) \in Nat
      BY <2>1, LenProperties
    <2> QED BY <2>1, <2>2
  <1>2. \A i \in 1..Len(q) : i = 1 \/ (i - 1 \in 1..Len(r) /\ r[i - 1] = q[i])
    <2>1. SUFFICES ASSUME NEW i \in 1..Len(q), i # 1 PROVE i - 1 \in 1..Len(r) /\ r[i - 1] = q[i]
      OBVIOUS
    <2>2. i - 1 \in 1..Len(r) /\ (i - 1) + 1 = i
      BY <1>1, <2>1
    <2> QED BY <1>1, <2>2
  <1>3. \A i \in 1..Len(r) : i + 1 \in 1..Len(q) /\ q[i + 1] = r[i]
    BY <1>1
  <1>4. \A x : Has(q, x) <=> Touches(s, x) \/ Has(r, x)
    <2>1. 1 \in 1..Len(q)
      BY <1>1
    <2> QED BY <1>1, <1>2, <1>3, <2>1 DEF Has
  <1>5. ASSUME NEW x, NEW p, Decides(q, x, p)
        PROVE  IF Has(r, x) THEN Decides(r, x, p) ELSE Touches(s, x) /\ Right(s, x, p)
    <2>1. PICK i \in 1..Len(q) : /\ Touches(q[i], x) /\ Right(q[i], x, p)
                                 /\ \A j \in 1..Len(q) : j > i => ~Touches(q[j], x)
      BY <1>5 DEF Decides
    <2>2. CASE i = 1
      <3>1. ~Has(r, x)
        <4>1. SUFFICES ASSUME NEW j \in 1..Len(r), Touches(r[j], x) PROVE FALSE
          BY DEF Has
        <4>2. j + 1 \in 1..Len(q) /\ j + 1 > 1 /\ q[j + 1] = r[j]
          BY <1>3
        <4> QED BY <2>1, <2>2, <4>1, <4>2
      <3> QED BY <1>1, <2>1, <2>2, <3>1
    <2>3. CASE i # 1
      <3>1. PICK k \in 1..Len(r) : k = i - 1
        BY <1>2, <2>3
      <3>2. r[k] = q[i]
        BY <1>2, <2>3, <3>1
      <3>3. ASSUME NEW j \in 1..Len(r), j > k PROVE ~Touches(r[j], x)
        <4>1. j + 1 \in 1..Len(q) /\ j + 1 > i /\ q[j + 1] = r[j]
          BY <1>3, <3>1, <3>3
        <4> QED BY <2>1, <4>1
      <3>4. Decides(r, x, p) /\ Has(r, x)
        BY <2>1, <3>2, <3>3 DEF Decides, Has
      <3> QED BY <3>4
    <2> QED BY <2>2, <2>3
  <1>6. \A u : Includes(q, u) => u = s \/ Includes(r, u)
    BY <1>1, <1>2 DEF Includes
  <1> QED BY <1>1, <1>4, <1>5, <1>6 DEF FirstAndRest

\* The fields of the steps.
LEMMA StepFields ==
  /\ \A t, c, d : LET s == InsertTable(t, c, d)
                  IN  s.op = "insert_table" /\ s.table = t /\ s.copy = c /\ s.def = d
  /\ \A t, c : LET s == RemoveTable(t, c) IN s.op = "remove_table" /\ s.table = t /\ s.copy = c
  /\ \A t, c, e : LET s == InsertEntries(t, c, e)
                  IN  s.op = "insert_entries" /\ s.table = t /\ s.copy = c /\ s.entries = e
  /\ \A t, c, e : LET s == DeleteEntries(t, c, e)
                  IN  s.op = "delete_entries" /\ s.table = t /\ s.copy = c /\ s.entries = e
  /\ \A fs : SetHash(fs).op = "set_hash" /\ SetHash(fs).fields = fs
  /\ \A fs : DeleteHash(fs).op = "delete_hash" /\ DeleteHash(fs).fields = fs
  /\ \A fs : SetSwitch(fs).op = "set_switch" /\ SetSwitch(fs).fields = fs
  /\ PublishExtTables.op = "publish_ext_tables"
  BY DEF InsertTable, RemoveTable, InsertEntries, DeleteEntries, SetHash, DeleteHash, SetSwitch,
         PublishExtTables

\* The kinds of steps.
LEMMA StepKinds ==
  ASSUME NEW cache, NEW s, s \in StepSet(cache)
  PROVE  \/ \E t \in AclTables, c \in Copies, d \in Definitions : s = InsertTable(t, c, d)
         \/ \E t \in AclTables, c \in Copies : s = RemoveTable(t, c)
         \/ \E t \in AclTables, c \in Copies : s = InsertEntries(t, c, cache[t])
         \/ \E t \in AclTables, c \in Copies : s = DeleteEntries(t, c, cache[t])
         \/ \E fs \in SUBSET HashFields : s = SetHash(fs)
         \/ \E fs \in SUBSET HashFields : s = DeleteHash(fs)
         \/ \E fs \in SUBSET HashFields : s = SetSwitch(fs)
         \/ s = PublishExtTables
  BY DEF StepSet

\* What a step that succeeds does to a copy of a table and to a hash field.
AclEffect(s, t, c) ==
  /\ ~Touches(s, DefItem(t, c)) => acl_def'[t][c] = acl_def[t][c]
  /\ \A p : Touches(s, DefItem(t, c)) /\ Right(s, DefItem(t, c), p)
              => acl_def'[t][c] = IF c = "original" THEN p.acl[t] ELSE None
  /\ ~Touches(s, EntItem(t, c)) => acl_entries'[t][c] = acl_entries[t][c]
  /\ \A p : Touches(s, EntItem(t, c)) /\ Right(s, EntItem(t, c), p)
            /\ acl_entries[t][c] \subseteq entity_cache[t]
              => acl_entries'[t][c] = IF c = "original" THEN entity_cache[t] ELSE {}
  /\ acl_entries'[t][c] \subseteq acl_entries[t][c] \cup entity_cache[t]
  /\ s = InsertEntries(t, c, entity_cache[t]) => entity_cache[t] \subseteq acl_entries'[t][c]
  /\ s = RemoveTable(t, c) => acl_entries[t][c] = {}

HashEffect(s, f) ==
  /\ ~Touches(s, HashItem(f)) => hash_table'[f] = hash_table[f]
  /\ Touches(s, HashItem(f)) /\ Right(s, HashItem(f), target) => hash_table'[f] = target.hash[f]
  /\ f \in switch_table => f \in switch_table'
  /\ \A fs : s = SetSwitch(fs) /\ f \in fs => f \in switch_table'

Effect(s) ==
  /\ \A t \in AclTables : \A c \in Copies : AclEffect(s, t, c)
  /\ \A f \in HashFields : HashEffect(s, f)

\* Every entry of an essential table that was in one of its copies still is.
KeepsEntries ==
  \A t \in AclTables \ Nonessential :
    acl_entries[t]["original"] \cup acl_entries[t]["duplicate"]
      \subseteq acl_entries'[t]["original"] \cup acl_entries'[t]["duplicate"]

\* An essential delete takes away only what the other copy has.
DeleteCovered(s) ==
  IsEssentialDelete(s) => s.entries \subseteq acl_entries[s.table][Other(s.copy)]

\* An update of one copy of one table.
LEMMA PointUpdate ==
  ASSUME NEW V, NEW f, f \in [AclTables -> [Copies -> V]], NEW t0, t0 \in AclTables,
         NEW c0, c0 \in Copies, NEW v, NEW g, g = [f EXCEPT ![t0][c0] = v]
  PROVE  /\ v \in V => g \in [AclTables -> [Copies -> V]]
         /\ g[t0][c0] = v
         /\ \A t \in AclTables : \A c \in Copies : t # t0 \/ c # c0 => g[t][c] = f[t][c]
  OBVIOUS

\* A step on a table's definition.
LEMMA DefinitionEffect ==
  ASSUME TypeOK, NEW s, StepSucceeds(s), NEW t0, t0 \in AclTables, NEW c0, c0 \in Copies,
         (\E d \in Definitions : s = InsertTable(t0, c0, d)) \/ s = RemoveTable(t0, c0)
  PROVE  HardwareOK' /\ Effect(s) /\ KeepsEntries
  <1> DEFINE D == Definitions \cup {None}
             v == IF s.op = "insert_table" THEN s.def ELSE None
  <1>1. /\ s.op \in {"insert_table", "remove_table"} /\ s.table = t0 /\ s.copy = c0
        /\ v \in D
    BY StepFields
  <1>2. /\ acl_def' = [acl_def EXCEPT ![t0][c0] = v]
        /\ UNCHANGED <<acl_entries, hash_table, switch_table>>
        /\ s.op = "remove_table" => acl_entries[t0][c0] = {}
    BY <1>1 DEF StepSucceeds
  <1>3. acl_def \in [AclTables -> [Copies -> D]]
    BY DEF TypeOK, HardwareOK
  <1>4. v = IF s.op = "insert_table" THEN s.def ELSE None
    OBVIOUS
  <1> HIDE DEF v, D
  <1>5. /\ acl_def' \in [AclTables -> [Copies -> D]]
        /\ acl_def'[t0][c0] = v
        /\ \A t \in AclTables : \A c \in Copies : t # t0 \/ c # c0 => acl_def'[t][c] = acl_def[t][c]
    BY <1>1, <1>2, <1>3, PointUpdate
  <1>6. HardwareOK'
    BY <1>2, <1>5 DEF TypeOK, HardwareOK, D
  <1>7. \A x : Touches(s, x) <=> x.kind = "def" /\ x.table = t0 /\ x.copy = c0
    BY StepTouches
  <1>8. ASSUME NEW t \in AclTables, NEW c \in Copies
        PROVE  AclEffect(s, t, c)
    <2>1. Touches(s, DefItem(t, c)) <=> t = t0 /\ c = c0
      BY <1>7, ItemFields
    <2>2. ~Touches(s, EntItem(t, c))
      BY <1>7, ItemFields
    <2>3. \A p : Right(s, DefItem(t, c), p) => v = IF c = "original" THEN p.acl[t] ELSE None
      BY <1>4, ItemFields DEF Right
    <2>4. \A e : s # InsertEntries(t, c, e)
      BY <1>1, StepFields
    <2>5. s = RemoveTable(t, c) => s.op = "remove_table" /\ t = t0 /\ c = c0
      BY <1>1, StepFields
    <2>6. ~Touches(s, DefItem(t, c)) => acl_def'[t][c] = acl_def[t][c]
      BY <1>5, <2>1
    <2>7. \A p : Touches(s, DefItem(t, c)) /\ Right(s, DefItem(t, c), p)
                   => acl_def'[t][c] = IF c = "original" THEN p.acl[t] ELSE None
      BY <1>5, <2>1, <2>3
    <2>8. acl_entries'[t][c] = acl_entries[t][c]
      BY <1>2
    <2>9. s = RemoveTable(t, c) => acl_entries[t][c] = {}
      BY <1>2, <2>5
    <2>10. acl_entries'[t][c] \subseteq acl_entries[t][c] \cup entity_cache[t]
      BY <2>8
    <2> QED BY ONLY <2>2, <2>4, <2>6, <2>7, <2>8, <2>9, <2>10 DEF AclEffect
  <1>9. ASSUME NEW f \in HashFields PROVE HashEffect(s, f)
    <2>1. ~Touches(s, HashItem(f)) /\ \A fs : s # SetSwitch(fs)
      BY <1>1, <1>7, ItemFields, StepFields
    <2> QED BY <1>2, <2>1 DEF HashEffect
  <1>10. Effect(s)
    BY <1>8, <1>9 DEF Effect
  <1> QED BY <1>2, <1>6, <1>10 DEF KeepsEntries

\* A step on a table's entries.
LEMMA EntriesEffect ==
  ASSUME TypeOK, NEW s, StepSucceeds(s), DeleteCovered(s),
         NEW t0, t0 \in AclTables, NEW c0, c0 \in Copies,
         s = InsertEntries(t0, c0, entity_cache[t0]) \/ s = DeleteEntries(t0, c0, entity_cache[t0])
  PROVE  HardwareOK' /\ Effect(s) /\ KeepsEntries
  <1> DEFINE E == SUBSET EntrySet
             es == entity_cache[t0]
             old == acl_entries[t0][c0]
             v == IF s.op = "insert_entries" THEN old \cup es ELSE old \ es
  <1>1. /\ s.op \in {"insert_entries", "delete_entries"} /\ s.table = t0 /\ s.copy = c0
        /\ s.entries = es
    BY StepFields
  <1>2. /\ acl_entries' = [acl_entries EXCEPT ![t0][c0] = v]
        /\ UNCHANGED <<acl_def, hash_table, switch_table>>
    BY <1>1 DEF StepSucceeds
  <1>3. /\ acl_entries \in [AclTables -> [Copies -> E]]
        /\ v \in E
    <2>1. es \in SUBSET EntrySet /\ old \in SUBSET EntrySet
      BY DEF TypeOK, HardwareOK
    <2>2. acl_entries \in [AclTables -> [Copies -> E]]
      BY DEF TypeOK, HardwareOK
    <2> QED BY <2>1, <2>2
  <1>4. v = IF s.op = "insert_entries" THEN old \cup es ELSE old \ es
    OBVIOUS
  <1> HIDE DEF v, E
  <1>5. /\ acl_entries' \in [AclTables -> [Copies -> E]]
        /\ acl_entries'[t0][c0] = v
        /\ \A t \in AclTables : \A c \in Copies :
             t # t0 \/ c # c0 => acl_entries'[t][c] = acl_entries[t][c]
    BY <1>1, <1>2, <1>3, PointUpdate
  <1>6. HardwareOK'
    BY <1>2, <1>5 DEF TypeOK, HardwareOK, E
  <1>7. \A x : Touches(s, x) <=> x.kind = "entries" /\ x.table = t0 /\ x.copy = c0
    BY StepTouches
  <1>8. ASSUME NEW t \in AclTables, NEW c \in Copies
        PROVE  AclEffect(s, t, c)
    <2>1. Touches(s, EntItem(t, c)) <=> t = t0 /\ c = c0
      BY <1>7, ItemFields
    <2>2. ~Touches(s, DefItem(t, c))
      BY <1>7, ItemFields
    <2>3. \A p : Right(s, EntItem(t, c), p) =>
                   s.op = IF c = "original" THEN "insert_entries" ELSE "delete_entries"
      BY ItemFields DEF Right
    <2>4. s # RemoveTable(t, c)
      BY <1>1, StepFields
    <2>5. s = InsertEntries(t, c, entity_cache[t]) => s.op = "insert_entries" /\ t = t0 /\ c = c0
      BY <1>1, StepFields
    <2>6. \A p : Touches(s, EntItem(t, c)) /\ Right(s, EntItem(t, c), p)
                 /\ acl_entries[t][c] \subseteq entity_cache[t]
                   => acl_entries'[t][c] = IF c = "original" THEN entity_cache[t] ELSE {}
      <3>1. "insert_entries" # "delete_entries"
        OBVIOUS
      <3> QED BY <1>4, <1>5, <2>1, <2>3, <3>1
    <2>7. acl_entries'[t][c] \subseteq acl_entries[t][c] \cup entity_cache[t]
      BY <1>4, <1>5
    <2>8. s = InsertEntries(t, c, entity_cache[t]) => entity_cache[t] \subseteq acl_entries'[t][c]
      BY <1>4, <1>5, <2>5
    <2>9. ~Touches(s, EntItem(t, c)) => acl_entries'[t][c] = acl_entries[t][c]
      BY <1>5, <2>1
    <2>10. acl_def'[t][c] = acl_def[t][c]
      BY <1>2
    <2> QED BY ONLY <2>2, <2>4, <2>6, <2>7, <2>8, <2>9, <2>10 DEF AclEffect
  <1>9. ASSUME NEW f \in HashFields PROVE HashEffect(s, f)
    <2>1. ~Touches(s, HashItem(f)) /\ \A fs : s # SetSwitch(fs)
      BY <1>1, <1>7, ItemFields, StepFields
    <2> QED BY <1>2, <2>1 DEF HashEffect
  <1>10. KeepsEntries
    <2>1. SUFFICES ASSUME NEW t \in AclTables \ Nonessential
                   PROVE  acl_entries[t]["original"] \cup acl_entries[t]["duplicate"]
                            \subseteq acl_entries'[t]["original"] \cup acl_entries'[t]["duplicate"]
      BY DEF KeepsEntries
    <2>2. CASE t # t0
      BY <1>5, <2>2 DEF Copies
    <2>3. CASE t = t0
      <3>1. \A c \in Copies : c # c0 => acl_entries'[t][c] = acl_entries[t][c]
        BY <1>5
      <3>2. acl_entries'[t][c0] = v
        BY <1>5, <2>3
      <3>3. CASE s.op = "insert_entries"
        <4>1. acl_entries[t][c0] \subseteq v
          BY <1>4, <2>3, <3>3
        <4> QED BY <3>1, <3>2, <4>1 DEF Copies
      <3>4. CASE s.op = "delete_entries"
        <4>1. es \subseteq acl_entries[t][Other(c0)]
          BY <1>1, <2>1, <2>3, <3>4 DEF DeleteCovered, IsEssentialDelete
        <4>2. v = old \ es
          BY <1>4, <3>4
        <4>3. CASE c0 = "original"
          BY <2>3, <3>1, <3>2, <4>1, <4>2, <4>3 DEF Copies, Other
        <4>4. CASE c0 = "duplicate"
          BY <2>3, <3>1, <3>2, <4>1, <4>2, <4>4 DEF Copies, Other
        <4> QED BY <4>3, <4>4 DEF Copies
      <3> QED BY <1>1, <3>3, <3>4
    <2> QED BY <2>2, <2>3
  <1> QED BY <1>6, <1>8, <1>9, <1>10 DEF Effect

\* A step on hash fields, and the publication of the tables.
LEMMA HashStepEffect ==
  ASSUME TypeOK, target \in P4Infos, NEW s, StepSucceeds(s),
         NEW fs, fs \in SUBSET HashFields,
         s = SetHash(fs) \/ s = DeleteHash(fs) \/ s = SetSwitch(fs) \/ s = PublishExtTables
  PROVE  HardwareOK' /\ Effect(s) /\ KeepsEntries
  <1>1. \A x : Touches(s, x) => x.kind = "hash" /\ x.field \in fs
    BY StepTouches
  <1>0. s.op \in {"set_hash", "delete_hash", "set_switch", "publish_ext_tables"}
    BY StepFields
  <1>2. acl_def' = acl_def /\ acl_entries' = acl_entries
    BY <1>0 DEF StepSucceeds, hardware
  <1>3. ASSUME NEW t \in AclTables, NEW c \in Copies PROVE AclEffect(s, t, c)
    <2>1. ~Touches(s, DefItem(t, c)) /\ ~Touches(s, EntItem(t, c))
      BY <1>1, ItemFields
    <2>2. s # RemoveTable(t, c) /\ s # InsertEntries(t, c, entity_cache[t])
      BY StepFields
    <2>3. /\ acl_def'[t][c] = acl_def[t][c]
          /\ acl_entries'[t][c] = acl_entries[t][c]
          /\ acl_entries'[t][c] \subseteq acl_entries[t][c] \cup entity_cache[t]
      BY <1>2
    <2> QED BY ONLY <2>1, <2>2, <2>3 DEF AclEffect
  <1>4. \A f \in HashFields : target.hash[f] \in HashValues \cup {None}
    BY ConfigTypes
  <1>5. CASE s = SetHash(fs)
    <2>0. s.op = "set_hash" /\ s.fields = fs
      BY <1>5, StepFields
    <2>1. /\ s.fields = fs
          /\ hash_table' = [f \in HashFields |-> IF f \in fs THEN target.hash[f] ELSE hash_table[f]]
          /\ switch_table' = switch_table
      BY <2>0 DEF StepSucceeds
    <2>2. ASSUME NEW f \in HashFields PROVE HashEffect(s, f)
      <3>1. Touches(s, HashItem(f)) <=> f \in fs
        BY <1>5, StepTouches, ItemFields
      <3>2. \A gs : s # SetSwitch(gs)
        BY <1>5, StepFields
      <3> QED BY <2>1, <3>1, <3>2 DEF HashEffect
    <2>3. HardwareOK'
      BY <1>2, <1>4, <2>1 DEF TypeOK, HardwareOK
    <2> QED BY <1>2, <1>3, <2>2, <2>3 DEF Effect, KeepsEntries
  <1>6. CASE s = DeleteHash(fs)
    <2>0. s.op = "delete_hash" /\ s.fields = fs
      BY <1>6, StepFields
    <2>1. /\ s.fields = fs /\ s.op = "delete_hash"
          /\ hash_table' = [f \in HashFields |-> IF f \in fs THEN None ELSE hash_table[f]]
          /\ switch_table' = switch_table
      BY <2>0 DEF StepSucceeds
    <2>2. ASSUME NEW f \in HashFields PROVE HashEffect(s, f)
      <3>1. Touches(s, HashItem(f)) <=> f \in fs
        BY <1>6, StepTouches, ItemFields
      <3>2. \A gs : s # SetSwitch(gs)
        BY <1>6, StepFields
      <3>3. Right(s, HashItem(f), target) => target.hash[f] = None
        BY <2>1, ItemFields DEF Right
      <3> QED BY <2>1, <3>1, <3>2, <3>3 DEF HashEffect
    <2>3. HardwareOK'
      BY <1>2, <1>4, <2>1 DEF TypeOK, HardwareOK
    <2> QED BY <1>2, <1>3, <2>2, <2>3 DEF Effect, KeepsEntries
  <1>7. CASE s = SetSwitch(fs)
    <2>0. s.op = "set_switch" /\ s.fields = fs
      BY <1>7, StepFields
    <2>1. /\ hash_table' = hash_table
          /\ switch_table' = switch_table \cup fs
      BY <2>0 DEF StepSucceeds
    <2>2. ASSUME NEW f \in HashFields PROVE HashEffect(s, f)
      <3>1. ~Touches(s, HashItem(f))
        BY <1>7, StepTouches
      <3>2. \A gs : s = SetSwitch(gs) => gs = fs
        <4>1. \A gs : s = SetSwitch(gs) => s.fields = gs
          BY StepFields
        <4> QED BY <2>0, <4>1
      <3> QED BY <2>1, <3>1, <3>2 DEF HashEffect
    <2>3. HardwareOK'
      BY <1>2, <2>1 DEF TypeOK, HardwareOK
    <2> QED BY <1>2, <1>3, <2>2, <2>3 DEF Effect, KeepsEntries
  <1>8. CASE s = PublishExtTables
    <2>1. /\ hash_table' = hash_table
          /\ switch_table' = switch_table
      BY <1>8, StepFields DEF StepSucceeds, hardware
    <2>2. ASSUME NEW f \in HashFields PROVE HashEffect(s, f)
      <3>1. ~Touches(s, HashItem(f))
        BY <1>8, StepTouches
      <3>2. \A gs : s # SetSwitch(gs)
        BY <1>8, StepFields
      <3> QED BY <2>1, <3>1, <3>2 DEF HashEffect
    <2>3. HardwareOK'
      BY <1>2, <2>1 DEF TypeOK, HardwareOK
    <2> QED BY <1>2, <1>3, <2>2, <2>3 DEF Effect, KeepsEntries
  <1> QED BY <1>5, <1>6, <1>7, <1>8

\* Every step that succeeds.
LEMMA StepEffect ==
  ASSUME TypeOK, target \in P4Infos, NEW s, s \in StepSet(entity_cache), StepSucceeds(s),
         DeleteCovered(s)
  PROVE  HardwareOK' /\ Effect(s) /\ KeepsEntries
  <1>1. CASE \E t \in AclTables, c \in Copies, d \in Definitions : s = InsertTable(t, c, d)
    BY <1>1, DefinitionEffect
  <1>2. CASE \E t \in AclTables, c \in Copies : s = RemoveTable(t, c)
    BY <1>2, DefinitionEffect
  <1>3. CASE \E t \in AclTables, c \in Copies : \/ s = InsertEntries(t, c, entity_cache[t])
                                                \/ s = DeleteEntries(t, c, entity_cache[t])
    BY <1>3, EntriesEffect
  <1>4. CASE \E fs \in SUBSET HashFields : s = SetHash(fs) \/ s = DeleteHash(fs) \/ s = SetSwitch(fs)
    BY <1>4, HashStepEffect
  <1>5. CASE s = PublishExtTables
    BY <1>5, HashStepEffect
  <1> QED BY <1>1, <1>2, <1>3, <1>4, <1>5, StepKinds

\* A step on entries that is refused, some of them perhaps done.
LEMMA EntriesRefused ==
  ASSUME TypeOK, NEW s, StepFails(s), DeleteCovered(s),
         NEW t0, t0 \in AclTables, NEW c0, c0 \in Copies,
         s = InsertEntries(t0, c0, entity_cache[t0]) \/ s = DeleteEntries(t0, c0, entity_cache[t0])
  PROVE  HardwareOK' /\ KeepsEntries
  <1> DEFINE E == SUBSET EntrySet
             es == entity_cache[t0]
             old == acl_entries[t0][c0]
  <1>1. /\ s.op \in {"insert_entries", "delete_entries"} /\ s.table = t0 /\ s.copy = c0
        /\ s.entries = es
    BY StepFields
  <1>2. PICK some \in SUBSET es :
          /\ s.op = "insert_entries" => acl_entries' = [acl_entries EXCEPT ![t0][c0] = old \cup some]
          /\ s.op = "delete_entries" => acl_entries' = [acl_entries EXCEPT ![t0][c0] = old \ some]
          /\ UNCHANGED <<acl_def, hash_table, switch_table>>
    <2>1. CASE s.op = "insert_entries"
      BY <1>1, <2>1 DEF StepFails
    <2>2. CASE s.op = "delete_entries"
      BY <1>1, <2>2 DEF StepFails
    <2> QED BY <1>1, <2>1, <2>2
  <1> DEFINE v == IF s.op = "insert_entries" THEN old \cup some ELSE old \ some
  <1>3. acl_entries' = [acl_entries EXCEPT ![t0][c0] = v]
    BY <1>1, <1>2
  <1>4. /\ acl_entries \in [AclTables -> [Copies -> E]]
        /\ v \in E
    <2>1. es \in SUBSET EntrySet /\ old \in SUBSET EntrySet
      BY DEF TypeOK, HardwareOK
    <2>2. acl_entries \in [AclTables -> [Copies -> E]]
      BY DEF TypeOK, HardwareOK
    <2> QED BY <2>1, <2>2
  <1>5. v = IF s.op = "insert_entries" THEN old \cup some ELSE old \ some
    OBVIOUS
  <1> HIDE DEF v, E
  <1>6. /\ acl_entries' \in [AclTables -> [Copies -> E]]
        /\ acl_entries'[t0][c0] = v
        /\ \A t \in AclTables : \A c \in Copies :
             t # t0 \/ c # c0 => acl_entries'[t][c] = acl_entries[t][c]
    BY <1>1, <1>3, <1>4, PointUpdate
  <1>7. HardwareOK'
    BY <1>2, <1>6 DEF TypeOK, HardwareOK, E
  <1>8. KeepsEntries
    <2>1. SUFFICES ASSUME NEW t \in AclTables \ Nonessential
                   PROVE  acl_entries[t]["original"] \cup acl_entries[t]["duplicate"]
                            \subseteq acl_entries'[t]["original"] \cup acl_entries'[t]["duplicate"]
      BY DEF KeepsEntries
    <2>2. CASE t # t0
      BY <1>6, <2>2 DEF Copies
    <2>3. CASE t = t0
      <3>1. \A c \in Copies : c # c0 => acl_entries'[t][c] = acl_entries[t][c]
        BY <1>6
      <3>2. acl_entries'[t][c0] = v
        BY <1>6, <2>3
      <3>3. CASE s.op = "insert_entries"
        <4>1. acl_entries[t][c0] \subseteq v
          BY <1>5, <2>3, <3>3
        <4> QED BY <3>1, <3>2, <4>1 DEF Copies
      <3>4. CASE s.op = "delete_entries"
        <4>1. es \subseteq acl_entries[t][Other(c0)]
          BY <1>1, <2>1, <2>3, <3>4 DEF DeleteCovered, IsEssentialDelete
        <4>2. v = old \ some
          BY <1>5, <3>4
        <4>3. CASE c0 = "original"
          BY <2>3, <3>1, <3>2, <4>1, <4>2, <4>3 DEF Copies, Other
        <4>4. CASE c0 = "duplicate"
          BY <2>3, <3>1, <3>2, <4>1, <4>2, <4>4 DEF Copies, Other
        <4> QED BY <4>3, <4>4 DEF Copies
      <3> QED BY <1>1, <3>3, <3>4
    <2> QED BY <2>2, <2>3
  <1> QED BY <1>7, <1>8

\* Every step that is refused.
LEMMA StepRefused ==
  ASSUME TypeOK, target \in P4Infos, NEW s, s \in StepSet(entity_cache), StepFails(s),
         DeleteCovered(s)
  PROVE  HardwareOK' /\ KeepsEntries
  <1>1. CASE \E t \in AclTables, c \in Copies : \/ s = InsertEntries(t, c, entity_cache[t])
                                                \/ s = DeleteEntries(t, c, entity_cache[t])
    BY <1>1, EntriesRefused
  <1>2. CASE s.op \in {"insert_table", "remove_table", "set_switch", "publish_ext_tables"}
    <2>1. acl_def' = acl_def /\ acl_entries' = acl_entries /\ hash_table' = hash_table
          /\ switch_table' = switch_table
      BY <1>2 DEF StepFails, hardware
    <2> QED BY <2>1 DEF TypeOK, HardwareOK, KeepsEntries
  <1>3. CASE s.op \in {"set_hash", "delete_hash"}
    <2>1. /\ acl_def' = acl_def /\ acl_entries' = acl_entries /\ switch_table' = switch_table
          /\ \E some : \/ hash_table' = [f \in HashFields |-> IF f \in some
                                                    THEN target.hash[f] ELSE hash_table[f]]
                       \/ hash_table' = [f \in HashFields |-> IF f \in some
                                                    THEN None ELSE hash_table[f]]
      BY <1>3 DEF StepFails
    <2>2. \A f \in HashFields : target.hash[f] \in HashValues \cup {None}
      BY ConfigTypes
    <2>3. hash_table' \in [HashFields -> HashValues \cup {None}]
      BY <2>1, <2>2 DEF TypeOK, HardwareOK
    <2> QED BY <2>1, <2>3 DEF TypeOK, HardwareOK, KeepsEntries
  <1>4. \/ \E t \in AclTables, c \in Copies : \/ s = InsertEntries(t, c, entity_cache[t])
                                              \/ s = DeleteEntries(t, c, entity_cache[t])
        \/ s.op \in {"insert_table", "remove_table", "set_switch", "publish_ext_tables",
                     "set_hash", "delete_hash"}
    BY StepKinds, StepFields
  <1> QED BY <1>1, <1>2, <1>3, <1>4

\* The first step, if it deletes entries of an essential table.
LEMMA HeadIsCovered ==
  ASSUME TypeOK, DeletesAreCovered, steps # <<>>, NEW s, s = Head(steps)
  PROVE  DeleteCovered(s) /\ s \in StepSet(entity_cache) /\ target \in P4Infos
  <1>1. steps \in Seq(StepSet(entity_cache)) /\ target \in P4Infos
    BY DEF TypeOK
  <1>2. s \in StepSet(entity_cache) /\ steps[1] = s /\ 1 \in 1..Len(steps)
    <2>1. PICK r : r = Tail(steps)
      OBVIOUS
    <2>2. /\ s \in StepSet(entity_cache) /\ steps[1] = s /\ Len(r) \in Nat /\ Len(steps) = Len(r) + 1
      BY <1>1, <2>1, TailFacts DEF FirstAndRest
    <2> QED BY <2>2
  <1>3. IsEssentialDelete(s) => s.entries \subseteq acl_entries[s.table][Other(s.copy)]
    BY <1>2 DEF DeletesAreCovered
  <1> QED BY <1>1, <1>2, <1>3 DEF DeleteCovered

\* Initially.
LEMMA InitInd == Init => IndInv
  <1> SUFFICES ASSUME Init PROVE IndInv
    OBVIOUS
  <1>1. steps = <<>> /\ steps \in Seq(StepSet(entity_cache)) /\ Len(steps) = 0
    BY EmptySeq DEF Init
  <1>2. TypeOK
    BY <1>1 DEF Init, TypeOK, HardwareOK, Configs, Copies
  <1>3. Covered
    BY DEF Init, Covered, Copies
  <1>4. DeletesAreCovered
    BY <1>1 DEF DeletesAreCovered
  <1>5. Saved
    BY DEF Init, Saved
  <1>6. Settled
    BY DEF Init, Settled, OldAcl, OldHash, NoAcls, NoHashes, Copies
  <1>7. Underway
    BY DEF Init, Underway
  <1> QED BY <1>2, <1>3, <1>4, <1>5, <1>6, <1>7 DEF IndInv

\* A reconciliation begins.
LEMMA ReconcileInd ==
  ASSUME IndInv, NEW action, action \in {"RECONCILE_AND_COMMIT", "VERIFY_AND_COMMIT"},
         NEW p, p \in P4Infos, Reconcile(action, p)
  PROVE  IndInv'
  <1>1. /\ pc = "idle" /\ pc' = action /\ pc' # "idle" /\ target' = p
        /\ ir_p4info' = ir_p4info /\ entity_cache' = entity_cache /\ saved_config' = saved_config
        /\ configured' = configured /\ acl_def' = acl_def /\ acl_entries' = acl_entries
        /\ hash_table' = hash_table /\ switch_table' = switch_table /\ critical' = critical
        /\ save_failed' = save_failed /\ interrupted' = interrupted /\ acknowledged' = acknowledged
    BY DEF Reconcile, software, hardware, history
  <1>2. PICK w : w = steps'
    OBVIOUS
  <1>3. Plan(w, OldAcl, OldHash, p)
    <2>1. ir_p4info \in P4Infos \cup {None}
      BY DEF IndInv, TypeOK, Configs
    <2>2. w = IF ir_p4info = None THEN ConfigureAppDbTables(p)
              ELSE IF ir_p4info = p THEN <<>>
              ELSE TransitionHashConfig(ir_p4info, p) \o TransitionAcls(ir_p4info, p)
      BY <1>2 DEF Reconcile
    <2> QED BY <2>1, <2>2, ReconcilePlan
  <1>4. TypeOK'
    <2>1. steps' \in Seq(StepSet(entity_cache'))
      BY <1>1, <1>2, <1>3 DEF Plan
    <2> QED BY <1>1, <2>1 DEF IndInv, TypeOK, HardwareOK, Configs
  <1>5. Covered'
    BY <1>1 DEF IndInv, Covered
  <1>6. DeletesAreCovered'
    BY <1>1, <1>2, <1>3 DEF Plan, Careful, DeletesAreCovered
  <1>7. Saved'
    BY <1>1 DEF IndInv, Saved, Undisturbed
  <1>8. Settled'
    BY <1>1 DEF Settled
  <1>9. Underway'
    <2>1. SUFFICES ASSUME Undisturbed'
                   PROVE  /\ \A t \in AclTables : AclUnderway(t)'
                          /\ \A f \in HashFields : HashUnderway(f)'
      BY DEF Underway
    <2>2. /\ \A t \in AclTables :
               /\ acl_def[t]["original"] = OldAcl[t]
               /\ acl_def[t]["duplicate"] = None
               /\ acl_entries[t]["original"] = entity_cache[t]
               /\ acl_entries[t]["duplicate"] = {}
               /\ OldAcl[t] = None => entity_cache[t] = {}
          /\ \A f \in HashFields : /\ hash_table[f] = OldHash[f]
                                   /\ hash_table[f] # None => f \in switch_table
      BY <1>1, <2>1 DEF IndInv, Settled, Undisturbed
    <2>3. ASSUME NEW t \in AclTables PROVE AclUnderway(t)'
      <3>1. /\ \A c \in Copies : /\ Has(w, DefItem(t, c)) => Decides(w, DefItem(t, c), p)
                                 /\ Has(w, EntItem(t, c)) => Decides(w, EntItem(t, c), p)
            /\ ~Has(w, DefItem(t, "original")) => OldAcl[t] = p.acl[t]
            /\ p.acl[t] = None => /\ ~Has(w, EntItem(t, "original"))
                                  /\ OldAcl[t] = None \/ Includes(w, RemoveTable(t, "original"))
        BY <1>3 DEF Plan, Settles
      <3>2. \A c \in Copies : c = "original" \/ c = "duplicate"
        BY DEF Copies
      <3> QED BY <1>1, <1>2, <2>2, <3>1, <3>2 DEF AclUnderway
    <2>4. ASSUME NEW f \in HashFields PROVE HashUnderway(f)'
      <3>1. /\ Has(w, HashItem(f)) => Decides(w, HashItem(f), p)
            /\ ~Has(w, HashItem(f)) => OldHash[f] = p.hash[f]
            /\ p.hash[f] # None => OldHash[f] # None \/ Includes(w, SetSwitch(Fields(p)))
        BY <1>3 DEF Plan, Settles
      <3> QED BY <1>1, <1>2, <2>2, <3>1 DEF HashUnderway
    <2> QED BY <2>3, <2>4
  <1> QED BY <1>4, <1>5, <1>6, <1>7, <1>8, <1>9 DEF IndInv

\* OrchAgent carries out a step.
LEMMA PerformInd ==
  ASSUME IndInv, PerformStep
  PROVE  IndInv'
  <1>1. /\ steps # <<>> /\ StepSucceeds(Head(steps)) /\ steps' = Tail(steps)
        /\ ir_p4info' = ir_p4info /\ entity_cache' = entity_cache /\ saved_config' = saved_config
        /\ configured' = configured /\ pc' = pc /\ target' = target /\ critical' = critical
        /\ save_failed' = save_failed /\ interrupted' = interrupted /\ acknowledged' = acknowledged
    BY DEF PerformStep, software, history
  <1>2. PICK s, q, r : s = Head(steps) /\ q = steps /\ r = Tail(steps)
    OBVIOUS
  <1>3. TypeOK /\ Covered /\ DeletesAreCovered /\ Saved /\ Settled /\ Underway
    BY DEF IndInv
  <1>4. DeleteCovered(s) /\ s \in StepSet(entity_cache) /\ target \in P4Infos /\ pc # "idle"
    BY <1>1, <1>2, <1>3, HeadIsCovered DEF TypeOK
  <1>5. HardwareOK' /\ Effect(s) /\ KeepsEntries
    BY <1>1, <1>2, <1>3, <1>4, StepEffect
  <1>6. /\ r \in Seq(StepSet(entity_cache)) /\ Len(q) \in Nat /\ Len(r) \in Nat /\ Len(q) = Len(r) + 1
        /\ q[1] = s
        /\ \A i \in 1..Len(r) : r[i] = q[i + 1]
        /\ \A x : Has(q, x) <=> Touches(s, x) \/ Has(r, x)
        /\ \A x, p : Decides(q, x, p) => IF Has(r, x) THEN Decides(r, x, p)
                                         ELSE Touches(s, x) /\ Right(s, x, p)
        /\ \A u : Includes(q, u) => u = s \/ Includes(r, u)
    <2>1. q \in Seq(StepSet(entity_cache)) /\ q # <<>> /\ s = Head(q) /\ r = Tail(q)
      BY <1>1, <1>2, <1>3 DEF TypeOK
    <2>2. r \in Seq(StepSet(entity_cache)) /\ FirstAndRest(q, s, r)
      BY ONLY <2>1, TailFacts
    <2> QED BY <2>2 DEF FirstAndRest
  <1>7. TypeOK'
    BY <1>1, <1>2, <1>3, <1>4, <1>5, <1>6 DEF TypeOK
  <1>8. Covered'
    BY <1>1, <1>3, <1>5 DEF Covered, KeepsEntries
  <1>9. DeletesAreCovered'
    <2>1. SUFFICES ASSUME NEW i \in 1..Len(r), IsEssentialDelete(r[i])
                   PROVE  IF i = 1
                          THEN r[1].entries \subseteq acl_entries'[r[1].table][Other(r[1].copy)]
                          ELSE r[i - 1] = CoverOf(r[i])
      BY <1>1, <1>2 DEF DeletesAreCovered
    <2>2. i + 1 \in 1..Len(q) /\ i + 1 # 1 /\ (i + 1) - 1 = i /\ r[i] = q[i + 1]
      BY <1>6
    <2>3. q[i] = CoverOf(r[i])
      BY <1>2, <1>3, <2>1, <2>2 DEF DeletesAreCovered
    <2>4. CASE i = 1
      <3>1. PICK u : u = r[1]
        OBVIOUS
      <3>2. s = CoverOf(u) /\ IsEssentialDelete(u) /\ u \in StepSet(entity_cache)
        <4>1. 1 \in 1..Len(r)
          BY <2>4
        <4>2. r[1] \in StepSet(entity_cache)
          BY <1>6, <4>1, ElementOfSeq
        <4> QED BY <1>6, <2>1, <2>3, <2>4, <3>1, <4>2
      <3>3. PICK t \in AclTables, c \in Copies : u = DeleteEntries(t, c, entity_cache[t])
        BY <3>2, StepKinds, StepDeletes
      <3>4. u.table = t /\ u.copy = c /\ u.entries = entity_cache[t]
        BY <3>3, StepFields
      <3>5. s = InsertEntries(t, Other(c), entity_cache[t]) /\ Other(c) \in Copies
        BY <3>2, <3>4 DEF CoverOf, Other, Copies
      <3>6. entity_cache[t] \subseteq acl_entries'[t][Other(c)]
        BY <1>5, <3>5 DEF Effect, AclEffect
      <3> QED BY <2>4, <3>1, <3>4, <3>6
    <2>5. CASE i # 1
      <3>1. i - 1 \in 1..Len(r) /\ (i - 1) + 1 = i
        BY <1>6, <2>5
      <3>2. r[i - 1] = q[i]
        BY <1>6, <3>1
      <3> QED BY <2>3, <2>5, <3>2
    <2> QED BY <2>4, <2>5
  <1>10. Saved'
    BY <1>1, <1>3 DEF Saved, Undisturbed
  <1>11. Settled'
    BY <1>1, <1>4 DEF Settled
  <1>12. Underway'
    <2>1. SUFFICES ASSUME Undisturbed'
                   PROVE  /\ \A t \in AclTables : AclUnderway(t)'
                          /\ \A f \in HashFields : HashUnderway(f)'
      BY DEF Underway
    <2>2. /\ \A t \in AclTables : AclUnderway(t)
          /\ \A f \in HashFields : HashUnderway(f)
      BY <1>1, <1>3, <1>4, <2>1 DEF Underway, Undisturbed
    <2>3. PICK p : p = target
      OBVIOUS
    <2>4. ASSUME NEW t \in AclTables PROVE AclUnderway(t)'
      <3>1. AclUnderway(t)
        BY <2>2
      <3>2. ASSUME NEW c \in Copies
            PROVE  /\ acl_entries'[t][c] \subseteq entity_cache[t]
                   /\ IF Has(r, DefItem(t, c)) THEN Decides(r, DefItem(t, c), p)
                      ELSE acl_def'[t][c] = IF c = "original" THEN p.acl[t] ELSE None
                   /\ IF Has(r, EntItem(t, c)) THEN Decides(r, EntItem(t, c), p)
                      ELSE acl_entries'[t][c] = IF c = "original" THEN entity_cache[t] ELSE {}
        <4>1. /\ acl_entries[t][c] \subseteq entity_cache[t]
              /\ IF Has(q, DefItem(t, c)) THEN Decides(q, DefItem(t, c), p)
                 ELSE acl_def[t][c] = IF c = "original" THEN p.acl[t] ELSE None
              /\ IF Has(q, EntItem(t, c)) THEN Decides(q, EntItem(t, c), p)
                 ELSE acl_entries[t][c] = IF c = "original" THEN entity_cache[t] ELSE {}
          BY <1>2, <2>3, <3>1 DEF AclUnderway
        <4>2. AclEffect(s, t, c)
          BY <1>5 DEF Effect
        <4>3. acl_entries'[t][c] \subseteq entity_cache[t]
          BY <4>1, <4>2 DEF AclEffect
        <4>4. IF Has(r, DefItem(t, c)) THEN Decides(r, DefItem(t, c), p)
              ELSE acl_def'[t][c] = IF c = "original" THEN p.acl[t] ELSE None
          <5>1. CASE Has(r, DefItem(t, c))
            BY <1>6, <4>1, <5>1
          <5>2. CASE ~Has(r, DefItem(t, c)) /\ Has(q, DefItem(t, c))
            <6>1. Touches(s, DefItem(t, c)) /\ Right(s, DefItem(t, c), p)
              BY <1>6, <4>1, <5>2
            <6>2. acl_def'[t][c] = IF c = "original" THEN p.acl[t] ELSE None
              BY <4>2, <6>1 DEF AclEffect
            <6> QED BY <5>2, <6>2
          <5>3. CASE ~Has(q, DefItem(t, c))
            <6>1. ~Touches(s, DefItem(t, c)) /\ ~Has(r, DefItem(t, c))
              BY <1>6, <5>3
            <6>2. acl_def'[t][c] = acl_def[t][c]
              BY <4>2, <6>1 DEF AclEffect
            <6> QED BY <4>1, <5>3, <6>1, <6>2
          <5> QED BY <5>1, <5>2, <5>3
        <4>5. IF Has(r, EntItem(t, c)) THEN Decides(r, EntItem(t, c), p)
              ELSE acl_entries'[t][c] = IF c = "original" THEN entity_cache[t] ELSE {}
          <5>1. CASE Has(r, EntItem(t, c))
            BY <1>6, <4>1, <5>1
          <5>2. CASE ~Has(r, EntItem(t, c)) /\ Has(q, EntItem(t, c))
            <6>1. Touches(s, EntItem(t, c)) /\ Right(s, EntItem(t, c), p)
              BY <1>6, <4>1, <5>2
            <6>2. acl_entries'[t][c] = IF c = "original" THEN entity_cache[t] ELSE {}
              BY <4>1, <4>2, <6>1 DEF AclEffect
            <6> QED BY <5>2, <6>2
          <5>3. CASE ~Has(q, EntItem(t, c))
            <6>1. ~Touches(s, EntItem(t, c)) /\ ~Has(r, EntItem(t, c))
              BY <1>6, <5>3
            <6>2. acl_entries'[t][c] = acl_entries[t][c]
              BY <4>2, <6>1 DEF AclEffect
            <6> QED BY <4>1, <5>3, <6>1, <6>2
          <5> QED BY <5>1, <5>2, <5>3
        <4> QED BY <4>3, <4>4, <4>5
      <3>3. ASSUME p.acl[t] = None
            PROVE  /\ ~Has(r, EntItem(t, "original"))
                   /\ entity_cache[t] = {} \/ Includes(r, RemoveTable(t, "original"))
        <4>1. /\ ~Has(q, EntItem(t, "original"))
              /\ entity_cache[t] = {} \/ Includes(q, RemoveTable(t, "original"))
          BY <1>2, <2>3, <3>1, <3>3 DEF AclUnderway
        <4>2. ~Has(r, EntItem(t, "original"))
          BY <1>6, <4>1
        <4>3. CASE entity_cache[t] # {} /\ ~Includes(r, RemoveTable(t, "original"))
          <5>1. s = RemoveTable(t, "original")
            BY <1>6, <4>1, <4>3
          <5>2. "original" \in Copies
            BY DEF Copies
          <5>3. acl_entries[t]["original"] = {}
            BY <1>5, <5>1, <5>2 DEF Effect, AclEffect
          <5>4. acl_entries[t]["original"] = entity_cache[t]
            BY <1>2, <3>1, <4>1, <5>2 DEF AclUnderway
          <5> QED BY <4>3, <5>3, <5>4
        <4> QED BY <4>1, <4>2, <4>3
      <3> QED BY <1>1, <1>2, <2>3, <3>2, <3>3 DEF AclUnderway
    <2>5. ASSUME NEW f \in HashFields PROVE HashUnderway(f)'
      <3>1. /\ IF Has(q, HashItem(f)) THEN Decides(q, HashItem(f), p) ELSE hash_table[f] = p.hash[f]
            /\ p.hash[f] # None => f \in switch_table \/ Includes(q, SetSwitch(Fields(p)))
        BY <1>2, <2>2, <2>3 DEF HashUnderway
      <3>2. HashEffect(s, f)
        BY <1>5 DEF Effect
      <3>3. IF Has(r, HashItem(f)) THEN Decides(r, HashItem(f), p) ELSE hash_table'[f] = p.hash[f]
        <4>1. CASE Has(r, HashItem(f))
          BY <1>6, <3>1, <4>1
        <4>2. CASE ~Has(r, HashItem(f)) /\ Has(q, HashItem(f))
          <5>1. Touches(s, HashItem(f)) /\ Right(s, HashItem(f), target)
            BY <1>6, <2>3, <3>1, <4>2
          <5>2. hash_table'[f] = p.hash[f]
            BY <2>3, <3>2, <5>1 DEF HashEffect
          <5> QED BY <4>2, <5>2
        <4>3. CASE ~Has(q, HashItem(f))
          <5>1. ~Touches(s, HashItem(f)) /\ ~Has(r, HashItem(f))
            BY <1>6, <4>3
          <5>2. hash_table'[f] = hash_table[f]
            BY <3>2, <5>1 DEF HashEffect
          <5> QED BY <3>1, <4>3, <5>1, <5>2
        <4> QED BY <4>1, <4>2, <4>3
      <3>4. p.hash[f] # None => f \in switch_table' \/ Includes(r, SetSwitch(Fields(p)))
        <4>1. f \in switch_table => f \in switch_table'
          BY <3>2 DEF HashEffect
        <4>2. s = SetSwitch(Fields(p)) /\ p.hash[f] # None => f \in switch_table'
          BY <3>2 DEF HashEffect, Fields
        <4> QED BY <1>6, <3>1, <4>1, <4>2
      <3> QED BY <1>1, <1>2, <2>3, <3>3, <3>4 DEF HashUnderway
    <2> QED BY <2>4, <2>5
  <1> QED BY <1>7, <1>8, <1>9, <1>10, <1>11, <1>12 DEF IndInv

\* OrchAgent refuses a step.
LEMMA FailInd ==
  ASSUME IndInv, FailStep
  PROVE  IndInv'
  <1>1. /\ steps # <<>> /\ StepFails(Head(steps)) /\ steps' = <<>> /\ pc' = "idle" /\ target' = None
        /\ critical' = TRUE
        /\ ir_p4info' = ir_p4info /\ entity_cache' = entity_cache /\ saved_config' = saved_config
        /\ configured' = configured /\ save_failed' = save_failed
        /\ interrupted' = interrupted /\ acknowledged' = acknowledged
    BY DEF FailStep, Return, software, history
  <1>2. PICK s : s = Head(steps)
    OBVIOUS
  <1>3. TypeOK /\ Covered /\ DeletesAreCovered
    BY DEF IndInv
  <1>4. DeleteCovered(s) /\ s \in StepSet(entity_cache) /\ target \in P4Infos
    BY <1>1, <1>2, <1>3, HeadIsCovered
  <1>5. HardwareOK' /\ KeepsEntries
    BY <1>1, <1>2, <1>3, <1>4, StepRefused
  <1>6. steps' = <<>> /\ steps' \in Seq(StepSet(entity_cache')) /\ Len(steps') = 0
    BY <1>1, EmptySeq
  <1>7. TypeOK'
    BY <1>1, <1>3, <1>5, <1>6 DEF TypeOK, Configs
  <1>8. Covered'
    BY <1>1, <1>3, <1>5 DEF Covered, KeepsEntries
  <1>9. DeletesAreCovered'
    BY <1>6 DEF DeletesAreCovered
  <1> QED BY <1>1, <1>7, <1>8, <1>9 DEF IndInv, Saved, Settled, Underway, Undisturbed

\* What an undisturbed transition has achieved when no step is left.
LEMMA NothingLeft ==
  ASSUME IndInv, Undisturbed, pc # "idle", steps = <<>>
  PROVE  /\ \A t \in AclTables :
              /\ acl_def[t]["original"] = target.acl[t]
              /\ acl_def[t]["duplicate"] = None
              /\ acl_entries[t]["original"] = entity_cache[t]
              /\ acl_entries[t]["duplicate"] = {}
              /\ target.acl[t] = None => entity_cache[t] = {}
         /\ \A f \in HashFields : /\ hash_table[f] = target.hash[f]
                                  /\ hash_table[f] # None => f \in switch_table
  <1>1. /\ \A x : ~Has(steps, x)
        /\ \A u : ~Includes(steps, u)
    BY DEF Has, Includes
  <1>2. /\ \A t \in AclTables : AclUnderway(t)
        /\ \A f \in HashFields : HashUnderway(f)
    BY DEF IndInv, Underway
  <1>3. "original" \in Copies /\ "duplicate" \in Copies /\ "original" # "duplicate"
    BY DEF Copies
  <1>4. ASSUME NEW t \in AclTables
        PROVE  /\ acl_def[t]["original"] = target.acl[t]
               /\ acl_def[t]["duplicate"] = None
               /\ acl_entries[t]["original"] = entity_cache[t]
               /\ acl_entries[t]["duplicate"] = {}
               /\ target.acl[t] = None => entity_cache[t] = {}
    BY <1>1, <1>2, <1>3 DEF AclUnderway
  <1>5. ASSUME NEW f \in HashFields
        PROVE  /\ hash_table[f] = target.hash[f]
               /\ hash_table[f] # None => f \in switch_table
    BY <1>1, <1>2 DEF HashUnderway
  <1> QED BY <1>4, <1>5

\* The entries in hardware are those of the essential tables' originals.
LEMMA RebuiltCache ==
  ASSUME TypeOK
  PROVE  /\ InHardware \in [AclTables -> SUBSET EntrySet]
         /\ \A t \in AclTables : InHardware[t] = acl_entries[t]["original"]
  BY DEF InHardware, TypeOK, HardwareOK, Copies

\* The new config takes effect and is saved.
LEMMA CommitInd ==
  ASSUME IndInv, CommitPipelineConfig
  PROVE  IndInv'
  <1>1. /\ pc # "idle" /\ steps = <<>> /\ ir_p4info' = target /\ saved_config' = target
        /\ pc' = "idle" /\ target' = None /\ steps' = <<>>
        /\ acl_def' = acl_def /\ acl_entries' = acl_entries /\ hash_table' = hash_table
        /\ switch_table' = switch_table /\ save_failed' = save_failed
        /\ interrupted' = interrupted /\ acknowledged' = acknowledged
    BY DEF CommitPipelineConfig, Return, hardware, history
  <1>2. \/ configured' = TRUE /\ entity_cache' = entity_cache /\ critical' = critical
        \/ configured' = TRUE /\ entity_cache' = InHardware /\ critical' = critical
        \/ configured' = configured /\ entity_cache' = entity_cache /\ critical' = TRUE
    BY DEF CommitPipelineConfig
  <1>3. TypeOK /\ Covered /\ target \in P4Infos /\ target # None
    BY <1>1, ConfigTypes DEF IndInv, TypeOK
  <1>4. /\ InHardware \in [AclTables -> SUBSET EntrySet]
        /\ \A t \in AclTables : InHardware[t] = acl_entries[t]["original"]
    BY <1>3, RebuiltCache
  <1>5. steps' \in Seq(StepSet(entity_cache')) /\ Len(steps') = 0
    BY <1>1, EmptySeq
  <1>6. TypeOK'
    BY <1>1, <1>2, <1>3, <1>4, <1>5 DEF TypeOK, HardwareOK, Configs
  <1>7. Covered'
    BY <1>1, <1>2, <1>3, <1>4 DEF Covered
  <1>8. DeletesAreCovered'
    BY <1>5 DEF DeletesAreCovered
  <1>9. Undisturbed' => Undisturbed /\ configured'
    BY <1>1, <1>2, <1>3 DEF Undisturbed, TypeOK
  <1>10. Saved'
    BY <1>1, <1>3, <1>9 DEF Saved
  <1>11. Settled'
    <2>1. SUFFICES ASSUME Undisturbed' PROVE Settled'
      BY DEF Settled
    <2>2. /\ \A t \in AclTables :
               /\ acl_def[t]["original"] = target.acl[t]
               /\ acl_def[t]["duplicate"] = None
               /\ acl_entries[t]["original"] = entity_cache[t]
               /\ acl_entries[t]["duplicate"] = {}
               /\ target.acl[t] = None => entity_cache[t] = {}
          /\ \A f \in HashFields : /\ hash_table[f] = target.hash[f]
                                   /\ hash_table[f] # None => f \in switch_table
      BY <1>1, <1>9, <2>1, NothingLeft
    <2>3. OldAcl' = target.acl /\ OldHash' = target.hash
      BY <1>1, <1>3 DEF OldAcl, OldHash
    <2>4. \A t \in AclTables : entity_cache'[t] = entity_cache[t]
      BY <1>2, <1>4, <2>2
    <2> QED BY <1>1, <2>2, <2>3, <2>4 DEF Settled
  <1>12. Underway'
    BY <1>1 DEF Underway
  <1> QED BY <1>6, <1>7, <1>8, <1>10, <1>11, <1>12 DEF IndInv

\* The new config takes effect and cannot be saved.
LEMMA UnsavedInd ==
  ASSUME IndInv, CommitWithoutSaving
  PROVE  IndInv'
  <1>1. /\ pc # "idle" /\ steps = <<>> /\ ir_p4info' = target /\ save_failed' = TRUE
        /\ pc' = "idle" /\ target' = None /\ steps' = <<>>
        /\ acl_def' = acl_def /\ acl_entries' = acl_entries /\ hash_table' = hash_table
        /\ switch_table' = switch_table /\ critical' = critical /\ entity_cache' = entity_cache
        /\ saved_config' = saved_config /\ configured' = configured
        /\ interrupted' = interrupted /\ acknowledged' = acknowledged
    BY DEF CommitWithoutSaving, Return, hardware, history
  <1>2. TypeOK /\ Covered /\ target \in P4Infos
    BY <1>1 DEF IndInv, TypeOK
  <1>3. steps' \in Seq(StepSet(entity_cache')) /\ Len(steps') = 0
    BY <1>1, EmptySeq
  <1>4. TypeOK'
    BY <1>1, <1>2, <1>3 DEF TypeOK, HardwareOK, Configs
  <1>5. Covered'
    BY <1>1, <1>2 DEF Covered
  <1>6. DeletesAreCovered'
    BY <1>3 DEF DeletesAreCovered
  <1> QED BY <1>1, <1>4, <1>5, <1>6 DEF IndInv, Saved, Settled, Underway, Undisturbed

\* A controller writes or deletes an entry.
LEMMA EntryInd ==
  ASSUME IndInv, NEW t, t \in AclTables, NEW e, e \in Entries[t],
         InsertEntry(t, e) \/ DeleteEntry(t, e)
  PROVE  IndInv'
  <1>1. /\ pc = "idle" /\ ir_p4info # None /\ ir_p4info.acl[t] # None
        /\ ir_p4info' = ir_p4info /\ saved_config' = saved_config /\ configured' = configured
        /\ acl_def' = acl_def /\ hash_table' = hash_table /\ switch_table' = switch_table
        /\ pc' = pc /\ target' = target /\ steps' = steps /\ critical' = critical
        /\ save_failed' = save_failed /\ interrupted' = interrupted
    BY DEF InsertEntry, DeleteEntry
  <1> DEFINE Changed(S) == IF InsertEntry(t, e) THEN S \cup {e} ELSE S \ {e}
  <1>2. /\ entity_cache' = [entity_cache EXCEPT ![t] = Changed(entity_cache[t])]
        /\ acl_entries' = [acl_entries EXCEPT ![t]["original"] = Changed(acl_entries[t]["original"])]
        /\ acknowledged' = [acknowledged EXCEPT ![t] = Changed(acknowledged[t])]
    <2>1. CASE InsertEntry(t, e)
      BY <2>1 DEF InsertEntry
    <2>2. CASE ~InsertEntry(t, e)
      <3>1. DeleteEntry(t, e)
        BY <2>2
      <3> QED BY <2>2, <3>1 DEF DeleteEntry
    <2> QED BY <2>1, <2>2
  <1>3. TypeOK /\ Covered /\ Saved /\ Settled /\ steps = <<>>
    BY <1>1 DEF IndInv, TypeOK
  <1>4. PICK a, b, k : /\ a = Changed(entity_cache[t]) /\ b = Changed(acl_entries[t]["original"])
                       /\ k = Changed(acknowledged[t])
    OBVIOUS
  <1>5. e \in EntrySet
    BY DEF EntrySet
  <1>6. /\ a \in SUBSET EntrySet /\ b \in SUBSET EntrySet /\ k \in SUBSET EntrySet
        /\ acl_entries[t]["original"] = entity_cache[t] => b = a
        /\ entity_cache[t] \cup acknowledged[t]
             \subseteq acl_entries[t]["original"] \cup acl_entries[t]["duplicate"]
             => a \cup k \subseteq b \cup acl_entries[t]["duplicate"]
    <2>1. /\ entity_cache[t] \in SUBSET EntrySet /\ acknowledged[t] \in SUBSET EntrySet
          /\ acl_entries[t]["original"] \in SUBSET EntrySet
      BY <1>3 DEF TypeOK, HardwareOK, Copies
    <2>2. CASE InsertEntry(t, e)
      BY <1>4, <1>5, <2>1, <2>2
    <2>3. CASE ~InsertEntry(t, e)
      BY <1>4, <1>5, <2>1, <2>3
    <2> QED BY <2>2, <2>3
  <1>7. /\ entity_cache' = [entity_cache EXCEPT ![t] = a]
        /\ acl_entries' = [acl_entries EXCEPT ![t]["original"] = b]
        /\ acknowledged' = [acknowledged EXCEPT ![t] = k]
    BY <1>2, <1>4
  <1> HIDE DEF Changed
  <1>8. /\ entity_cache' \in [AclTables -> SUBSET EntrySet]
        /\ acknowledged' \in [AclTables -> SUBSET EntrySet]
        /\ entity_cache'[t] = a /\ acknowledged'[t] = k
        /\ \A u \in AclTables : u # t => entity_cache'[u] = entity_cache[u]
                                         /\ acknowledged'[u] = acknowledged[u]
    BY <1>3, <1>6, <1>7 DEF TypeOK
  <1>9. /\ acl_entries' \in [AclTables -> [Copies -> SUBSET EntrySet]]
        /\ acl_entries'[t]["original"] = b
        /\ \A u \in AclTables : \A c \in Copies :
             u # t \/ c # "original" => acl_entries'[u][c] = acl_entries[u][c]
    <2>1. PICK V : V = SUBSET EntrySet
      OBVIOUS
    <2>2. acl_entries \in [AclTables -> [Copies -> V]] /\ b \in V /\ "original" \in Copies
      BY <1>3, <1>6, <2>1 DEF TypeOK, HardwareOK, Copies
    <2> QED BY <1>7, <2>1, <2>2, PointUpdate
  <1>10. "duplicate" \in Copies /\ "original" \in Copies /\ "duplicate" # "original"
    BY DEF Copies
  <1>11. steps' \in Seq(StepSet(entity_cache')) /\ Len(steps') = 0
    BY <1>1, <1>3, EmptySeq
  <1>12. TypeOK'
    BY <1>1, <1>3, <1>8, <1>9, <1>11 DEF TypeOK, HardwareOK
  <1>13. Covered'
    <2>1. SUFFICES ASSUME NEW u \in AclTables \ Nonessential
                   PROVE  entity_cache'[u] \cup acknowledged'[u]
                            \subseteq acl_entries'[u]["original"] \cup acl_entries'[u]["duplicate"]
      BY DEF Covered
    <2>2. entity_cache[u] \cup acknowledged[u]
            \subseteq acl_entries[u]["original"] \cup acl_entries[u]["duplicate"]
      BY <1>3 DEF Covered
    <2>3. CASE u = t
      BY <1>6, <1>8, <1>9, <1>10, <2>2, <2>3
    <2>4. CASE u # t
      BY <1>8, <1>9, <1>10, <2>2, <2>4
    <2> QED BY <2>3, <2>4
  <1>14. DeletesAreCovered'
    BY <1>11 DEF DeletesAreCovered
  <1>15. Saved'
    BY <1>1, <1>3 DEF Saved, Undisturbed
  <1>16. Settled'
    <2>1. SUFFICES ASSUME Undisturbed' PROVE Settled'
      BY DEF Settled
    <2>2. Undisturbed /\ OldAcl' = OldAcl /\ OldHash' = OldHash /\ OldAcl[t] # None
      BY <1>1, <2>1 DEF Undisturbed, OldAcl, OldHash
    <2>3. /\ \A u \in AclTables :
               /\ acl_def[u]["original"] = OldAcl[u]
               /\ acl_def[u]["duplicate"] = None
               /\ acl_entries[u]["original"] = entity_cache[u]
               /\ acl_entries[u]["duplicate"] = {}
               /\ OldAcl[u] = None => entity_cache[u] = {}
          /\ \A f \in HashFields : /\ hash_table[f] = OldHash[f]
                                   /\ hash_table[f] # None => f \in switch_table
      BY <1>1, <1>3, <2>2 DEF Settled
    <2>4. \A u \in AclTables :
               /\ acl_entries'[u]["original"] = entity_cache'[u]
               /\ acl_entries'[u]["duplicate"] = {}
               /\ OldAcl[u] = None => entity_cache'[u] = {}
      BY <1>6, <1>8, <1>9, <1>10, <2>2, <2>3
    <2> QED BY <1>1, <2>2, <2>3, <2>4 DEF Settled
  <1>17. Underway'
    BY <1>1 DEF Underway
  <1> QED BY <1>12, <1>13, <1>14, <1>15, <1>16, <1>17 DEF IndInv

\* The process is replaced.
LEMMA RestartInd ==
  ASSUME IndInv, WarmRestart
  PROVE  IndInv'
  <1> DEFINE found == configured /\ saved_config # None
             rebuilt == found /\ CanRebuildEntityEntryCache(saved_config)
             empty == [t \in AclTables |-> {}]
  <1>1. /\ ir_p4info' = IF found THEN saved_config ELSE None
        /\ entity_cache' = IF rebuilt THEN InHardware ELSE empty
        /\ interrupted' = (interrupted \/ pc # "idle")
        /\ pc' = "idle" /\ target' = None /\ steps' = <<>>
        /\ acl_def' = acl_def /\ acl_entries' = acl_entries /\ hash_table' = hash_table
        /\ switch_table' = switch_table /\ critical' = critical /\ save_failed' = save_failed
        /\ saved_config' = saved_config /\ configured' = configured
        /\ acknowledged' = acknowledged
    BY DEF WarmRestart, Return, hardware
  <1>2. TypeOK /\ Covered /\ Saved /\ Settled
    BY DEF IndInv
  <1>3. /\ InHardware \in [AclTables -> SUBSET EntrySet]
        /\ \A t \in AclTables : InHardware[t] = acl_entries[t]["original"]
    BY <1>2, RebuiltCache
  <1>4. /\ entity_cache' \in [AclTables -> SUBSET EntrySet]
        /\ \A t \in AclTables : entity_cache'[t] = acl_entries[t]["original"] \/ entity_cache'[t] = {}
        /\ ~rebuilt => \A t \in AclTables : entity_cache'[t] = {}
        /\ rebuilt => \A t \in AclTables : entity_cache'[t] = acl_entries[t]["original"]
    <2> HIDE DEF rebuilt
    <2>1. CASE rebuilt
      BY <1>1, <1>3, <2>1
    <2>2. CASE ~rebuilt
      BY <1>1, <2>2
    <2> QED BY <2>1, <2>2
  <1>5. steps' \in Seq(StepSet(entity_cache')) /\ Len(steps') = 0
    BY <1>1, EmptySeq
  <1>6. TypeOK'
    BY <1>1, <1>2, <1>4, <1>5 DEF TypeOK, HardwareOK, Configs
  <1>7. Covered'
    BY <1>1, <1>2, <1>4 DEF Covered
  <1>8. DeletesAreCovered'
    BY <1>5 DEF DeletesAreCovered
  <1>9. ASSUME Undisturbed'
        PROVE  Undisturbed /\ pc = "idle" /\ saved_config = ir_p4info /\ ir_p4info' = ir_p4info
               /\ (found <=> ir_p4info # None) /\ (configured <=> ir_p4info # None)
    <2>1. Undisturbed /\ pc = "idle"
      BY <1>1, <1>9 DEF Undisturbed
    <2>2. saved_config = ir_p4info /\ (configured <=> ir_p4info # None)
      BY <1>2, <2>1 DEF Saved
    <2> QED BY <1>1, <2>1, <2>2
  <1>10. Saved'
    BY <1>1, <1>9 DEF Saved
  <1>11. Settled'
    <2>1. SUFFICES ASSUME Undisturbed' PROVE Settled'
      BY DEF Settled
    <2>2. /\ \A t \in AclTables :
               /\ acl_def[t]["original"] = OldAcl[t]
               /\ acl_def[t]["duplicate"] = None
               /\ acl_entries[t]["original"] = entity_cache[t]
               /\ acl_entries[t]["duplicate"] = {}
               /\ OldAcl[t] = None => entity_cache[t] = {}
          /\ \A f \in HashFields : /\ hash_table[f] = OldHash[f]
                                   /\ hash_table[f] # None => f \in switch_table
      BY <1>2, <1>9, <2>1 DEF Settled
    <2>3. OldAcl' = OldAcl /\ OldHash' = OldHash
      BY <1>9, <2>1 DEF OldAcl, OldHash
    <2>4. \A t \in AclTables : entity_cache'[t] = entity_cache[t]
      <3>1. CASE rebuilt
        BY <1>4, <2>2, <3>1
      <3>2. CASE ~found
        <4>1. \A t \in AclTables : OldAcl[t] = None
          BY <1>9, <2>1, <3>2 DEF OldAcl, NoAcls
        <4> QED BY <1>4, <2>2, <3>2, <4>1
      <3>3. CASE found
        <4>1. OldAcl = saved_config.acl
          BY <1>9, <2>1, <3>3 DEF OldAcl
        <4>2. CanRebuildEntityEntryCache(saved_config)
          BY <2>2, <4>1 DEF CanRebuildEntityEntryCache
        <4> QED BY <3>1, <3>3, <4>2
      <3> QED BY <3>2, <3>3
    <2> QED BY <1>1, <2>2, <2>3, <2>4 DEF Settled
  <1>12. Underway'
    BY <1>1 DEF Underway
  <1> QED BY <1>6, <1>7, <1>8, <1>10, <1>11, <1>12 DEF IndInv

\* No step at all.
LEMMA StutterInd ==
  ASSUME IndInv, UNCHANGED vars
  PROVE  IndInv'
  <1>1. /\ ir_p4info' = ir_p4info /\ entity_cache' = entity_cache /\ saved_config' = saved_config
        /\ configured' = configured /\ acl_def' = acl_def /\ acl_entries' = acl_entries
        /\ hash_table' = hash_table /\ switch_table' = switch_table /\ pc' = pc /\ target' = target
        /\ steps' = steps /\ critical' = critical /\ save_failed' = save_failed
        /\ interrupted' = interrupted /\ acknowledged' = acknowledged
    BY DEF vars
  <1>2. TypeOK'
    BY <1>1 DEF IndInv, TypeOK, HardwareOK, Configs
  <1>3. Covered'
    BY <1>1 DEF IndInv, Covered
  <1>4. DeletesAreCovered'
    BY <1>1 DEF IndInv, DeletesAreCovered
  <1>5. Saved'
    BY <1>1 DEF IndInv, Saved, Undisturbed
  <1>6. Settled'
    BY <1>1 DEF IndInv, Settled, Undisturbed, OldAcl, OldHash
  <1>7. Underway'
    BY <1>1 DEF IndInv, Underway, Undisturbed, AclUnderway, HashUnderway
  <1> QED BY <1>2, <1>3, <1>4, <1>5, <1>6, <1>7 DEF IndInv

\* IndInv is inductive.
LEMMA NextInd == IndInv /\ [Next]_vars => IndInv'
  <1> SUFFICES ASSUME IndInv, [Next]_vars PROVE IndInv'
    OBVIOUS
  <1>1. ASSUME NEW p \in P4Infos, ReconcileAndCommit(p) \/ VerifyAndCommit(p) PROVE IndInv'
    BY <1>1, ReconcileInd DEF ReconcileAndCommit, VerifyAndCommit
  <1>2. ASSUME Commit PROVE IndInv'
    <2>1. saved_config \in P4Infos
      BY <1>2 DEF Commit, IndInv, TypeOK, Configs
    <2> QED BY <1>2, <2>1, ReconcileInd DEF Commit, VerifyAndCommit
  <1>3. ASSUME NEW t \in AclTables, NEW e \in Entries[t], InsertEntry(t, e) \/ DeleteEntry(t, e)
        PROVE  IndInv'
    BY <1>3, EntryInd
  <1>4. CASE UNCHANGED vars
    BY <1>4, StutterInd
  <1> QED BY <1>1, <1>2, <1>3, <1>4, PerformInd, FailInd, CommitInd, UnsavedInd, RestartInd DEF Next

-----------------------------------------------------------------------------
(* The theorems.                                                           *)

\* After any series of pushed configs, writes and warm restarts, the ACL tables,
\* entries and hash settings of the switch are those of the config and of the
\* cache, unless OrchAgent refused a step, a config could not be saved or a
\* restart cut a transition short (SetForwardingPipelineConfig).
THEOREM ConfigIsOnSwitch == Spec => []ConfigMatchesSwitch
  <1>1. IndInv => ConfigMatchesSwitch
    <2> SUFFICES ASSUME IndInv, pc = "idle", Undisturbed PROVE ConfigMatchesSwitch
      BY DEF ConfigMatchesSwitch, Undisturbed
    <2>1. /\ \A t \in AclTables : OldAcl[t] = IF ir_p4info = None THEN None ELSE ir_p4info.acl[t]
          /\ \A f \in HashFields : OldHash[f] = IF ir_p4info = None THEN None ELSE ir_p4info.hash[f]
      BY DEF OldAcl, OldHash, NoAcls, NoHashes
    <2> QED BY <2>1 DEF IndInv, Settled, ConfigMatchesSwitch
  <1> QED BY <1>1, InitInd, NextInd, PTL DEF Spec

\* At every moment, also after a refused step and after a restart in the middle
\* of a transition, the entries cached or acknowledged for an essential ACL table
\* are in the table or in its duplicate (ReplaceTableInAppDb).
THEOREM EssentialEntriesStay == Spec => []EssentialEntriesInForce
  <1>1. IndInv => EssentialEntriesInForce
    <2> SUFFICES ASSUME IndInv, ir_p4info # None, NEW t \in Tables(ir_p4info) \ Nonessential
                 PROVE  entity_cache[t] \cup acknowledged[t]
                          \subseteq UNION {acl_entries[t][c] : c \in Copies}
      BY DEF EssentialEntriesInForce
    <2>1. t \in AclTables \ Nonessential
      BY DEF Tables
    <2>2. entity_cache[t] \cup acknowledged[t]
            \subseteq acl_entries[t]["original"] \cup acl_entries[t]["duplicate"]
      BY <2>1 DEF IndInv, Covered
    <2> QED BY <2>2 DEF Copies
  <1> QED BY <1>1, InitInd, NextInd, PTL DEF Spec

=============================================================================
