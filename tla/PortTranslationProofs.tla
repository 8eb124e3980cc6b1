----------------------- MODULE PortTranslationProofs -----------------------
(***************************************************************************)
(* Proofs about PortTranslation, for any finite set of ports, any ids and  *)
(* any bounds.                                                             *)
(*                                                                         *)
(* The inductive invariant says, for each port, what decides its           *)
(* translation (PortDecided): its last unpopped event, else its last       *)
(* popped event, else the map; what the port tables then hold              *)
(* (TablesFollow); that events handled without another write to CONFIG_DB  *)
(* concern one port at a time (QuietInv); and that the cache and the P4RT  *)
(* table are translations of each other as long as no cached id has moved  *)
(* (EntriesMatch).                                                         *)
(***************************************************************************)
EXTENDS PortTranslation, CollectionTheorems

Databases == {"app_db", "app_state_db"}

\* The types of the variables the properties depend on.
TypeOK ==
  /\ config_db \in [Ports -> Ids \cup {NoId}]
  /\ events \in Seq([key : Ports, del : BOOLEAN])
  /\ popped \in Seq([key : Ports, id : Ids \cup {NoId}])
  /\ DOMAIN port_translation_map \subseteq Ports
  /\ port_translation_map \in [DOMAIN port_translation_map -> Ids]
  /\ port_table = [db \in Databases |-> port_table[db]]
  /\ \A db \in Databases : DOMAIN port_table[db] \subseteq Ports
  /\ DOMAIN port_table["app_db"] = DOMAIN port_table["app_state_db"]
  /\ up \in BOOLEAN /\ rejected \in BOOLEAN /\ raced \in BOOLEAN
  /\ ~up => events = <<>> /\ popped = <<>>

\* One id, one port: in CONFIG_DB and in the map.
OneIdPerPort ==
  /\ \A p, q \in Ports : config_db[p] = config_db[q] /\ config_db[p] # NoId => p = q
  /\ \A p, q \in DOMAIN port_translation_map :
       port_translation_map[p] = port_translation_map[q] => p = q

Pending(s, p) == \E i \in 1..Len(s) : s[i].key = p
LastOf(s, p, i) == s[i].key = p /\ \A j \in 1..Len(s) : j > i => s[j].key # p

\* The map has for the port what CONFIG_DB has.
Agrees(p) ==
  /\ p \in DOMAIN port_translation_map <=> config_db[p] # NoId
  /\ p \in DOMAIN port_translation_map => port_translation_map[p] = config_db[p]

\* What a port's translation will be once its events are handled.
Decided(p) ==
  /\ Pending(events, p) =>
       \E i \in 1..Len(events) : LastOf(events, p, i) /\ (events[i].del <=> config_db[p] = NoId)
  /\ ~Pending(events, p) /\ Pending(popped, p) =>
       \E i \in 1..Len(popped) : LastOf(popped, p, i) /\ popped[i].id = config_db[p]
  /\ ~Pending(events, p) /\ ~Pending(popped, p) => Agrees(p)

PortDecided == up /\ ~rejected => \A p \in Ports : Decided(p)

\* A port with no event to come is in both tables as it is in the map.
TableHas(p) ==
  \A db \in Databases :
    /\ p \in DOMAIN port_translation_map =>
         p \in DOMAIN port_table[db] /\ port_table[db][p] = port_translation_map[p]
    /\ p \in DOMAIN port_table[db] => p \in DOMAIN port_translation_map \cup left_behind

TablesFollow ==
  up /\ ~rejected =>
    \A p \in Ports : ~Pending(events, p) /\ ~Pending(popped, p) => TableHas(p)

\* As long as CONFIG_DB is only written when everything is handled, no value
\* is late, and a port the map is wrong about is the one every event is for.
QuietInv ==
  /\ rejected => raced
  /\ up /\ ~raced =>
       /\ \A i \in 1..Len(popped) : popped[i].id = config_db[popped[i].key]
       /\ \A i \in 1..Len(events) : events[i].del <=> config_db[events[i].key] = NoId
       /\ \A p \in Ports : ~Agrees(p) =>
            /\ \A i \in 1..Len(popped) : popped[i].key = p
            /\ \A i \in 1..Len(events) : events[i].key = p

\* The cache holds ids of the map, and the P4RT table their ports.
CacheIsTable ==
  /\ entity_cache \subseteq Range(port_translation_map)
  /\ p4rt_table = {n \in DOMAIN port_translation_map : port_translation_map[n] \in entity_cache}

EntriesMatch ==
  /\ up /\ moved = {} => CacheIsTable
  /\ Ids = {} => p4rt_table = {}

IndInv ==
  /\ TypeOK
  /\ OneIdPerPort
  /\ PortDecided
  /\ TablesFollow
  /\ QuietInv
  /\ EntriesMatch

-----------------------------------------------------------------------------
(* Facts about the operators.                                              *)

\* InOrder lists a set of places once each, in ascending order.
LEMMA InOrderFacts ==
  ASSUME NEW n \in Nat, NEW S \in SUBSET (1..n)
  PROVE  /\ Cardinality(S) \in Nat
         /\ InOrder(S) \in [1..Cardinality(S) -> S]
         /\ \A j, k \in 1..Cardinality(S) : j < k => InOrder(S)[j] < InOrder(S)[k]
         /\ \A x \in S : \E j \in 1..Cardinality(S) : InOrder(S)[j] = x
  <1>1. IsFiniteSet(S)
    <2>1. IsFiniteSet(1..n)
      BY FS_Interval
    <2> QED BY ONLY S \in SUBSET (1..n), <2>1, FS_Subset
  <1>2. Cardinality(S) \in Nat
    BY <1>1, FS_CardinalityType
  <1>3. PICK f : Ascending(f, S)
    BY AscendingExists
  <1> DEFINE c == Cardinality(S)
             UpTo(x) == {k \in S : k <= x}
  <1>4. f \in [1..c -> S] /\ \A j, k \in 1..c : j < k => f[j] < f[k]
    BY <1>3 DEF Ascending
  <1>5. \A j \in 1..c : f[j] \in S /\ f[j] \in Nat
    <2> HIDE DEF c
    <2>1. \A j \in 1..c : f[j] \in S
      BY <1>4
    <2>2. \A x \in S : x \in 1..n
      BY ONLY S \in SUBSET (1..n)
    <2>3. \A x \in 1..n : x \in Nat
      BY ONLY n \in Nat
    <2> QED BY ONLY <2>1, <2>2, <2>3, Zenon
  <1>6. \A j, k \in 1..c : f[j] <= f[k] <=> j <= k
    <2> HIDE DEF c
    <2> QED BY ONLY <1>4, <1>5
  <1>7. \A j, k \in 1..c : f[j] = f[k] => j = k
    <2> HIDE DEF c
    <2> QED BY ONLY <1>5, <1>6
  <1>8. \A x \in S : \E j \in 1..c : f[j] = x
    BY <1>1, <1>4, <1>7, InjectionIsOnto
  <1>9. ASSUME NEW j \in 1..c PROVE Cardinality(UpTo(f[j])) = j
    <2> DEFINE g == [i \in 1..j |-> f[i]]
    <2> HIDE DEF c
    <2>1. j \in Nat /\ \A i \in 1..j : i \in 1..c /\ i <= j
      BY <1>2 DEF c
    <2>2. \A i \in 1..j : g[i] = f[i] /\ g[i] \in UpTo(f[j])
      BY <1>5, <1>6, <2>1
    <2>3. ASSUME NEW x \in UpTo(f[j]) PROVE \E i \in 1..j : g[i] = x
      <3>1. PICK i \in 1..c : f[i] = x
        BY <1>8
      <3>2. i <= j
        BY <1>6, <3>1
      <3>3. i \in 1..j
        BY <2>1, <3>2
      <3> QED BY <2>2, <3>1, <3>3
    <2>4. \A i, k \in 1..j : g[i] = g[k] => i = k
      BY <1>7, <2>1, <2>2
    <2>5. g \in Bijection(1..j, UpTo(f[j]))
      <3>1. g \in [1..j -> UpTo(f[j])]
        BY <2>2
      <3> HIDE DEF g, UpTo
      <3> QED BY <2>3, <2>4, <3>1 DEF Bijection, Injection, Surjection, IsInjective
    <2> HIDE DEF g
    <2>6. ExistsBijection(1..j, UpTo(f[j]))
      BY <2>5 DEF ExistsBijection
    <2> QED BY ONLY <2>1, <2>6, FS_CountingElements
  <1>10. ASSUME NEW j \in 1..c PROVE InOrder(S)[j] = f[j]
    <2> DEFINE x == CHOOSE i \in S : Cardinality(UpTo(i)) = j
    <2>1. x \in S /\ Cardinality(UpTo(x)) = j
      BY <1>5, <1>9
    <2>2. InOrder(S)[j] = x
      BY DEF InOrder
    <2> HIDE DEF x, UpTo
    <2>3. PICK i \in 1..c : f[i] = x
      BY <1>8, <2>1
    <2> QED BY <1>9, <2>1, <2>2, <2>3
  <1>11. DOMAIN InOrder(S) = 1..c /\ InOrder(S) = [j \in 1..c |-> InOrder(S)[j]]
    BY DEF InOrder
  <1>12. InOrder(S) \in [1..c -> S]
    <2> HIDE DEF c
    <2> QED BY <1>5, <1>10, <1>11
  <1> HIDE DEF c
  <1>13. /\ \A j, k \in 1..c : j < k => InOrder(S)[j] < InOrder(S)[k]
         /\ \A x \in S : \E j \in 1..c : InOrder(S)[j] = x
    BY <1>4, <1>8, <1>10
  <1> QED BY <1>2, <1>12, <1>13 DEF c

-----------------------------------------------------------------------------
(* The invariant is inductive.                                             *)

\* Nothing is configured, cached or pending at first.
LEMMA InitIndInv == Init => IndInv
  <1> SUFFICES ASSUME Init PROVE IndInv
    OBVIOUS
  <1>1. TypeOK
    <2>1. DOMAIN port_translation_map = {}
      BY DEF Init, NoTranslations
    <2>2. \A db \in Databases : DOMAIN port_table[db] = {}
      BY DEF Init, NoTranslations, Databases
    <2>3. port_table = [db \in Databases |-> port_table[db]]
      BY DEF Init, Databases
    <2>4. port_translation_map \in [DOMAIN port_translation_map -> Ids]
      BY <2>1 DEF Init, NoTranslations
    <2>5. events = <<>> /\ popped = <<>>
      BY DEF Init
    <2>6. config_db \in [Ports -> Ids \cup {NoId}]
      BY DEF Init
    <2>7. up \in BOOLEAN /\ rejected \in BOOLEAN /\ raced \in BOOLEAN
      BY DEF Init
    <2>8. /\ events \in Seq([key : Ports, del : BOOLEAN])
          /\ popped \in Seq([key : Ports, id : Ids \cup {NoId}])
      BY <2>5, EmptySeq
    <2>9. "app_db" \in Databases /\ "app_state_db" \in Databases
      BY DEF Databases
    <2>10. \A db \in Databases : DOMAIN port_table[db] \subseteq Ports
      BY <2>2
    <2>11. DOMAIN port_table["app_db"] = DOMAIN port_table["app_state_db"]
      BY <2>2, <2>9
    <2>12. DOMAIN port_translation_map \subseteq Ports
      BY <2>1
    <2> QED BY <2>3, <2>4, <2>5, <2>6, <2>7, <2>8, <2>10, <2>11, <2>12 DEF TypeOK
  <1>2. OneIdPerPort
    BY DEF Init, OneIdPerPort, NoTranslations
  <1>3. \A p \in Ports : Agrees(p) /\ TableHas(p) /\ Decided(p)
    BY DEF Init, Agrees, TableHas, Decided, Pending, NoTranslations, Databases
  <1>4. QuietInv
    BY <1>3 DEF Init, QuietInv
  <1>5. EntriesMatch
    BY DEF Init, EntriesMatch, CacheIsTable
  <1> QED BY <1>1, <1>2, <1>3, <1>4, <1>5 DEF IndInv, PortDecided, TablesFollow

\* What is said of the map, the tables and the entries is kept by a step that
\* changes none of them.
LEMMA EntriesStay ==
  ASSUME EntriesMatch,
         UNCHANGED <<port_translation_map, entity_cache, p4rt_table, up, moved>>
  PROVE  EntriesMatch'
  BY DEF EntriesMatch, CacheIsTable, Range

\* A write to CONFIG_DB leaves an event behind, the last one of its port.
LEMMA WriteKeeps ==
  ASSUME IndInv, NEW p \in Ports, NEW id \in Ids \cup {NoId}, WriteConfigDb(p, id)
  PROVE  IndInv'
  <1>0. /\ UNCHANGED <<popped, port_translation_map, port_table, entity_cache, p4rt_table, up,
                       rejected, moved, left_behind>>
        /\ raced' = (raced \/ ~Settled)
        /\ events' = IF up THEN Append(events, [key |-> p, del |-> id = NoId]) ELSE events
        /\ \A q \in Ports : config_db[q] = id => id = NoId
        /\ config_db' = [config_db EXCEPT ![p] = id]
    BY DEF WriteConfigDb
  <1>1. /\ TypeOK /\ OneIdPerPort /\ PortDecided /\ TablesFollow /\ QuietInv /\ EntriesMatch
    BY DEF IndInv
  <1>2. /\ config_db' \in [Ports -> Ids \cup {NoId}]
        /\ config_db'[p] = id
        /\ \A q \in Ports : q # p => config_db'[q] = config_db[q]
    BY <1>0, <1>1 DEF TypeOK
  <1> DEFINE e == [key |-> p, del |-> id = NoId]
             n == Len(events)
  <1>3. e \in [key : Ports, del : BOOLEAN] /\ e.key = p /\ (e.del <=> id = NoId)
    OBVIOUS
  <1>4. ASSUME up
        PROVE  /\ events' \in Seq([key : Ports, del : BOOLEAN])
               /\ n \in Nat /\ Len(events') = n + 1
               /\ events'[n + 1] = e
               /\ \A i \in 1..n : events'[i] = events[i]
    <2>1. events \in Seq([key : Ports, del : BOOLEAN]) /\ events' = Append(events, e)
      BY <1>0, <1>1, <1>4 DEF TypeOK
    <2> HIDE DEF e
    <2> QED BY <1>3, <2>1, AppendProperties, LenProperties
  <1>5. TypeOK'
    <2>1. events' \in Seq([key : Ports, del : BOOLEAN]) /\ (~up => events' = events)
      BY <1>0, <1>1, <1>4 DEF TypeOK
    <2>2. raced' \in BOOLEAN
      BY <1>0, <1>1 DEF TypeOK, Settled
    <2> QED BY <1>0, <1>1, <1>2, <2>1, <2>2 DEF TypeOK
  <1>6. OneIdPerPort'
    BY <1>0, <1>1, <1>2 DEF OneIdPerPort
  <1>7. ASSUME up PROVE Pending(events', p) /\ LastOf(events', p, n + 1)
    <2> HIDE DEF e, n
    <2> QED BY <1>3, <1>4, <1>7 DEF Pending, LastOf
  <1>8. ASSUME up, NEW q \in Ports, q # p PROVE Pending(events', q) <=> Pending(events, q)
    <2>1. events'[n + 1].key # q
      BY <1>3, <1>4, <1>8
    <2>2. Len(events) = n
      OBVIOUS
    <2> HIDE DEF e, n
    <2> QED BY <1>4, <1>8, <2>1, <2>2 DEF Pending
  <1>9. ASSUME NEW q \in Ports, q # p PROVE Agrees(q)' <=> Agrees(q)
    BY <1>0, <1>2, <1>9 DEF Agrees
  <1>10. PortDecided'
    <2>1. SUFFICES ASSUME up, ~rejected, NEW q \in Ports PROVE Decided(q)'
      BY <1>0 DEF PortDecided
    <2>2. CASE q = p
      <3>1. n + 1 \in 1..Len(events') /\ (events'[n + 1].del <=> config_db'[p] = NoId)
        BY <1>2, <1>3, <1>4, <2>1
      <3> HIDE DEF n, e
      <3> QED BY <1>7, <2>1, <2>2, <3>1 DEF Decided
    <2>3. CASE q # p
      <3>1. Decided(q)
        BY <1>1, <2>1 DEF PortDecided
      <3>2. ASSUME Pending(events', q)
            PROVE  \E i \in 1..Len(events') :
                     LastOf(events', q, i) /\ (events'[i].del <=> config_db'[q] = NoId)
        <4>1. PICK i \in 1..Len(events) :
                LastOf(events, q, i) /\ (events[i].del <=> config_db[q] = NoId)
          BY <1>8, <2>1, <2>3, <3>1, <3>2 DEF Decided
        <4>2. i \in 1..Len(events') /\ events'[i] = events[i] /\ Len(events) = n
          BY <1>4, <2>1
        <4>3. events'[n + 1].key # q
          BY <1>3, <1>4, <2>1, <2>3
        <4> HIDE DEF n, e
        <4>4. LastOf(events', q, i)
          BY <1>4, <2>1, <4>1, <4>2, <4>3 DEF LastOf
        <4> QED BY <1>2, <2>3, <4>1, <4>2, <4>4
      <3>3. Pending(events', q) <=> Pending(events, q)
        BY <1>8, <2>1, <2>3
      <3>4. popped' = popped /\ config_db'[q] = config_db[q] /\ (Agrees(q)' <=> Agrees(q))
        BY <1>0, <1>2, <1>9, <2>3
      <3> QED BY <3>1, <3>2, <3>3, <3>4 DEF Decided
    <2> QED BY <2>2, <2>3
  <1>11. TablesFollow'
    <2>1. SUFFICES ASSUME up, ~rejected, NEW q \in Ports, ~Pending(events', q), ~Pending(popped, q)
                   PROVE  TableHas(q)'
      BY <1>0 DEF TablesFollow
    <2>2. TableHas(q)
      BY <1>1, <1>7, <1>8, <2>1 DEF TablesFollow
    <2> QED BY <1>0, <2>2 DEF TableHas
  <1>12. QuietInv'
    <2>1. rejected' => raced'
      BY <1>0, <1>1 DEF QuietInv
    <2>2. ASSUME up, ~raced'
          PROVE  /\ popped = <<>> /\ n = 0 /\ ~rejected
                 /\ \A q \in Ports : Agrees(q)
      <3>1. up /\ events = <<>> /\ popped = <<>> /\ ~raced
        BY <1>0, <1>1, <2>2 DEF Settled, TypeOK
      <3>2. ~rejected
        BY <1>1, <3>1 DEF QuietInv
      <3>3. \A q \in Ports : ~Pending(events, q) /\ ~Pending(popped, q)
        BY <3>1 DEF Pending
      <3> QED BY <1>1, <3>1, <3>2, <3>3 DEF PortDecided, Decided
    <2>3. ASSUME up, ~raced'
          PROVE  /\ \A i \in 1..Len(popped') : FALSE
                 /\ \A i \in 1..Len(events') : events'[i].key = p /\ (events'[i].del <=> config_db'[p] = NoId)
      <3>1. popped' = <<>>
        BY <1>0, <2>2, <2>3
      <3>2. Len(events') = 1 /\ events'[1] = e
        BY <1>4, <2>2, <2>3
      <3> QED BY <1>2, <1>3, <3>1, <3>2
    <2>4. ASSUME up, ~raced', NEW q \in Ports, ~Agrees(q)' PROVE q = p
      BY <1>9, <2>2, <2>4
    <2> HIDE DEF n, e
    <2> QED BY <1>0, <2>1, <2>3, <2>4 DEF QuietInv
  <1>13. EntriesMatch'
    BY <1>0, <1>1, EntriesStay
  <1> QED BY <1>5, <1>6, <1>10, <1>11, <1>12, <1>13 DEF IndInv

\* What the pop delivers: for every place of popped' an event it comes from,
\* in the same order, and the last event of a port among them.
LEMMA PopDelivers ==
  ASSUME TypeOK, PopEvents
  PROVE  /\ popped' \in Seq([key : Ports, id : Ids \cup {NoId}])
         /\ \E f \in [1..Len(popped') -> 1..Len(events)] :
              /\ \A j \in 1..Len(popped') :
                   /\ popped'[j].key = events[f[j]].key
                   /\ popped'[j].id = IF events[f[j]].del THEN NoId
                                                          ELSE config_db[events[f[j]].key]
              /\ \A j, k \in 1..Len(popped') : j < k => f[j] < f[k]
              /\ \A i \in 1..Len(events) :
                   events[i].del \/ config_db[events[i].key] # NoId
                     => \E j \in 1..Len(popped') : f[j] = i
  <1> DEFINE n == Len(events)
             S == Deliverable
             c == Cardinality(S)
             f == InOrder(S)
             s == [j \in 1..c |-> EventValue(events[f[j]])]
  <1>1. events \in Seq([key : Ports, del : BOOLEAN]) /\ config_db \in [Ports -> Ids \cup {NoId}]
    BY DEF TypeOK
  <1>2. n \in Nat /\ DOMAIN events = 1..n
    BY <1>1, LenProperties
  <1>3. S \in SUBSET (1..n)
    BY <1>2 DEF Deliverable
  <1>4. \A i \in 1..n : i \in S <=> events[i].del \/ config_db[events[i].key] # NoId
    BY <1>2 DEF Deliverable
  <1>5. /\ c \in Nat
        /\ f \in [1..c -> S]
        /\ \A j, k \in 1..c : j < k => f[j] < f[k]
        /\ \A x \in S : \E j \in 1..c : f[j] = x
    <2> HIDE DEF n, S
    <2> QED BY ONLY <1>2, <1>3, InOrderFacts
  <1>6. popped' = s
    <2>1. popped' = [j \in DOMAIN f |-> EventValue(events[f[j]])]
      BY DEF PopEvents
    <2>2. DOMAIN f = 1..c
      BY <1>5
    <2> QED BY <2>1, <2>2
  <1>7. \A i \in 1..n : /\ events[i] \in [key : Ports, del : BOOLEAN]
                        /\ events[i].key \in Ports /\ config_db[events[i].key] \in Ids \cup {NoId}
    <2>1. \A i \in 1..n : events[i] \in [key : Ports, del : BOOLEAN]
      <3> DEFINE R == [key : Ports, del : BOOLEAN]
      <3>1. events \in Seq(R)
        BY <1>1
      <3> HIDE DEF R
      <3>2. \A i \in 1..n : events[i] \in R
        BY <3>1, ElementOfSeq
      <3> QED BY <3>2 DEF R
    <2> QED BY <1>1, <2>1
  <1>8. \A i \in 1..n : /\ EventValue(events[i]) \in [key : Ports, id : Ids \cup {NoId}]
                        /\ EventValue(events[i]).key = events[i].key
                        /\ EventValue(events[i]).id = IF events[i].del THEN NoId
                                                                        ELSE config_db[events[i].key]
    BY <1>7 DEF EventValue
  <1>9. f \in [1..c -> 1..n]
    <2> HIDE DEF n, S, c, f
    <2> QED BY <1>3, <1>5
  <1> HIDE DEF n, S, c, f
  <1>10. s \in [1..c -> [key : Ports, id : Ids \cup {NoId}]]
    BY <1>8, <1>9
  <1>11. s \in Seq([key : Ports, id : Ids \cup {NoId}]) /\ Len(s) = c
    <2> DEFINE R == [key : Ports, id : Ids \cup {NoId}]
    <2>1. s \in [1..c -> R]
      BY <1>10
    <2> HIDE DEF s, R
    <2>2. s \in Seq(R) /\ Len(s) = c
      BY ONLY <1>5, <2>1, FunctionIsSeq
    <2> QED BY <2>2 DEF R
  <1>12. \A j \in 1..c : /\ s[j].key = events[f[j]].key
                         /\ s[j].id = IF events[f[j]].del THEN NoId ELSE config_db[events[f[j]].key]
    BY <1>8, <1>9
  <1>13. \A i \in 1..n : events[i].del \/ config_db[events[i].key] # NoId
                           => \E j \in 1..c : f[j] = i
    BY <1>4, <1>5
  <1>14. popped' \in Seq([key : Ports, id : Ids \cup {NoId}]) /\ Len(popped') = c
    BY ONLY <1>6, <1>11
  <1> HIDE DEF s
  <1>15. \A j \in 1..c :
           /\ popped'[j].key = events[f[j]].key
           /\ popped'[j].id = IF events[f[j]].del THEN NoId ELSE config_db[events[f[j]].key]
    BY ONLY <1>6, <1>12
  <1>16. f \in [1..Len(popped') -> 1..Len(events)]
    BY ONLY <1>9, <1>14 DEF n
  <1>17. \A i \in 1..Len(events) :
           events[i].del \/ config_db[events[i].key] # NoId => \E j \in 1..Len(popped') : f[j] = i
    BY ONLY <1>13, <1>14 DEF n
  <1>18. \A j, k \in 1..Len(popped') : j < k => f[j] < f[k]
    BY ONLY <1>5, <1>14
  <1> QED BY ONLY <1>14, <1>15, <1>16, <1>17, <1>18, Zenon

\* A pop hands every port's last event on, and what it says of CONFIG_DB.
LEMMA PopKeeps ==
  ASSUME IndInv, PopEvents
  PROVE  IndInv'
  <1>0. /\ UNCHANGED <<config_db, port_translation_map, port_table, entity_cache, p4rt_table, up,
                       rejected, raced, moved, left_behind>>
        /\ up /\ popped = <<>> /\ events' = <<>>
    BY DEF PopEvents, historyVars
  <1>1. /\ TypeOK /\ OneIdPerPort /\ PortDecided /\ TablesFollow /\ QuietInv /\ EntriesMatch
    BY DEF IndInv
  <1> DEFINE n == Len(events)
             m == Len(popped')
  <1>2. popped' \in Seq([key : Ports, id : Ids \cup {NoId}])
    BY <1>1, PopDelivers
  <1>3. PICK f \in [1..m -> 1..n] :
              /\ \A j \in 1..m :
                   /\ popped'[j].key = events[f[j]].key
                   /\ popped'[j].id = IF events[f[j]].del THEN NoId
                                                          ELSE config_db[events[f[j]].key]
              /\ \A j, k \in 1..m : j < k => f[j] < f[k]
              /\ \A i \in 1..n :
                   events[i].del \/ config_db[events[i].key] # NoId
                     => \E j \in 1..m : f[j] = i
    BY <1>1, PopDelivers
  <1>4. n \in Nat /\ m \in Nat
    <2>1. events \in Seq([key : Ports, del : BOOLEAN])
      BY <1>1 DEF TypeOK
    <2> QED BY <1>2, <2>1, LenProperties
  <1>5. TypeOK'
    <2>1. events' \in Seq([key : Ports, del : BOOLEAN])
      BY <1>0, EmptySeq
    <2> QED BY <1>0, <1>1, <1>2, <2>1 DEF TypeOK
  <1>6. OneIdPerPort'
    BY <1>0, <1>1 DEF OneIdPerPort
  <1>7. \A q : ~Pending(events', q) /\ ~Pending(popped, q)
    BY <1>0 DEF Pending
  <1>8. ASSUME ~rejected, NEW q \in Ports, Pending(events, q)
        PROVE  \E j \in 1..m : LastOf(popped', q, j) /\ popped'[j].id = config_db[q]
    <2>1. PICK i \in 1..n : LastOf(events, q, i) /\ (events[i].del <=> config_db[q] = NoId)
      BY <1>0, <1>1, <1>8 DEF PortDecided, Decided
    <2>2. events[i].key = q /\ \A k \in 1..n : k > i => events[k].key # q
      BY <2>1 DEF LastOf
    <2>3. PICK j \in 1..m : f[j] = i
      BY <1>3, <2>1, <2>2
    <2>4. popped'[j].key = q /\ popped'[j].id = config_db[q]
      BY <1>3, <2>1, <2>2, <2>3
    <2> HIDE DEF n, m
    <2>5. ASSUME NEW k \in 1..m, k > j PROVE popped'[k].key # q
      <3>1. f[k] > i /\ f[k] \in 1..n
        BY <1>3, <1>4, <2>3, <2>5
      <3> QED BY <1>3, <2>2, <3>1
    <2> QED BY <2>4, <2>5 DEF LastOf, m
  <1>9. ASSUME NEW q \in Ports, Pending(popped', q) PROVE Pending(events, q)
    <2>1. PICK j \in 1..m : popped'[j].key = q
      BY <1>9 DEF Pending
    <2> HIDE DEF m
    <2>2. f[j] \in 1..n /\ events[f[j]].key = q
      BY <1>3, <2>1
    <2> QED BY <2>2 DEF Pending
  <1>10. ASSUME ~rejected, NEW q \in Ports PROVE Pending(popped', q) <=> Pending(events, q)
    <2>1. ASSUME Pending(events, q) PROVE Pending(popped', q)
      BY <1>8, <1>10, <2>1 DEF LastOf, Pending
    <2> QED BY <1>9, <2>1
  <1>11. \A q : Agrees(q)' <=> Agrees(q)
    BY <1>0 DEF Agrees
  <1>12. PortDecided'
    <2>1. SUFFICES ASSUME ~rejected, NEW q \in Ports PROVE Decided(q)'
      BY <1>0 DEF PortDecided
    <2>2. Decided(q)
      BY <1>0, <1>1, <2>1 DEF PortDecided
    <2>3. config_db'[q] = config_db[q] /\ popped' = popped'
      BY <1>0
    <2> QED BY <1>7, <1>8, <1>10, <1>11, <2>1, <2>2, <2>3 DEF Decided
  <1>13. TablesFollow'
    <2>1. SUFFICES ASSUME ~rejected, NEW q \in Ports, ~Pending(popped', q) PROVE TableHas(q)'
      BY <1>0 DEF TablesFollow
    <2>2. TableHas(q)
      BY <1>0, <1>1, <1>7, <1>10, <2>1 DEF TablesFollow
    <2> QED BY <1>0, <2>2 DEF TableHas
  <1>14. QuietInv'
    <2>1. rejected' => raced'
      BY <1>0, <1>1 DEF QuietInv
    <2>2. \A i \in 1..Len(events') : FALSE
      BY <1>0
    <2>3. ASSUME ~raced, NEW j \in 1..m
          PROVE  /\ popped'[j].id = config_db[popped'[j].key]
                 /\ \A q \in Ports : ~Agrees(q) => popped'[j].key = q
      <3>1. f[j] \in 1..n /\ popped'[j].key = events[f[j]].key
        BY <1>3
      <3>2. events[f[j]].del <=> config_db[events[f[j]].key] = NoId
        BY <1>0, <1>1, <2>3, <3>1 DEF QuietInv
      <3>3. popped'[j].id = IF events[f[j]].del THEN NoId ELSE config_db[events[f[j]].key]
        BY <1>3
      <3>4. \A q \in Ports : ~Agrees(q) => events[f[j]].key = q
        BY <1>0, <1>1, <2>3, <3>1 DEF QuietInv
      <3> QED BY <3>1, <3>2, <3>3, <3>4
    <2> QED BY <1>0, <1>11, <2>1, <2>2, <2>3 DEF QuietInv
  <1>15. EntriesMatch'
    BY <1>0, <1>1, EntriesStay
  <1> QED BY <1>5, <1>6, <1>12, <1>13, <1>14, <1>15 DEF IndInv

\* The types of the map and of the tables, and one id for one port.
MapsOk ==
  /\ DOMAIN port_translation_map \subseteq Ports
  /\ port_translation_map \in [DOMAIN port_translation_map -> Ids]
  /\ port_table = [db \in Databases |-> port_table[db]]
  /\ \A db \in Databases : DOMAIN port_table[db] \subseteq Ports
  /\ DOMAIN port_table["app_db"] = DOMAIN port_table["app_state_db"]
  /\ \A p, q \in DOMAIN port_translation_map :
       port_translation_map[p] = port_translation_map[q] => p = q

\* A step that leaves one port alone.
SameAt(q) ==
  /\ q \in DOMAIN port_translation_map' <=> q \in DOMAIN port_translation_map
  /\ q \in DOMAIN port_translation_map => port_translation_map'[q] = port_translation_map[q]
  /\ \A db \in Databases :
       /\ q \in DOMAIN port_table'[db] <=> q \in DOMAIN port_table[db]
       /\ q \in DOMAIN port_table[db] => port_table'[db][q] = port_table[db][q]
  /\ q \in left_behind' <=> q \in left_behind

\* The name OrchAgent is given for an id of the map is the id's port.
LEMMA NameOfId ==
  ASSUME NEW map, \A p, q \in DOMAIN map : map[p] = map[q] => p = q, NEW p \in DOMAIN map
  PROVE  TranslatePort("kForOrchAgent", map, map[p]) = Ok(p)
  <1>1. map[p] \in Range(map)
    BY DEF Range
  <1>2. (CHOOSE n \in DOMAIN map : map[n] = map[p]) = p
    OBVIOUS
  <1>3. "kForOrchAgent" # "kForController"
    OBVIOUS
  <1> QED BY <1>1, <1>2, <1>3 DEF TranslatePort

\* An id outside the map has no name.
LEMMA NoNameOfId ==
  ASSUME NEW map, NEW i, i \notin Range(map)
  PROVE  TranslatePort("kForOrchAgent", map, i) = Err
  <1>1. "kForOrchAgent" # "kForController"
    OBVIOUS
  <1> QED BY <1>1 DEF TranslatePort

\* If a cached id's port is taken from it, the id counts as lost.
LEMMA CachedIdsKeepTheirPort ==
  ASSUME MapsOk, NEW new_map, LostIds(new_map) = {}, NEW p \in DOMAIN port_translation_map,
         port_translation_map[p] \notin Range(new_map)
  PROVE  port_translation_map[p] \notin entity_cache
  <1> DEFINE i == port_translation_map[p]
  <1>1. SUFFICES ASSUME i \in entity_cache PROVE FALSE
    OBVIOUS
  <1>2. i \in Range(port_translation_map)
    BY DEF Range
  <1>3. TranslatePort("kForOrchAgent", port_translation_map, i) = Ok(p)
    BY NameOfId DEF MapsOk
  <1>4. TranslatePort("kForOrchAgent", new_map, i) = Err
    BY NoNameOfId
  <1>5. Ok(p) # Err
    BY DEF Ok, Err
  <1>6. i \in LostIds(new_map)
    <2> HIDE DEF i
    <2> QED BY <1>1, <1>2, <1>3, <1>4, <1>5 DEF LostIds
  <1> QED BY <1>6

\* RemovePortTranslation takes one port out of the map and of both tables.
LEMMA RemoveEffect ==
  ASSUME MapsOk, EntriesMatch, NEW p \in Ports, RemovePortTranslation(p),
         UNCHANGED <<entity_cache, p4rt_table, up>>
  PROVE  /\ MapsOk'
         /\ \A q \in Ports : q # p => SameAt(q)
         /\ p \notin DOMAIN port_translation_map' /\ TableHas(p)'
         /\ rejected' = rejected
         /\ EntriesMatch'
  <1> DEFINE map == port_translation_map
  <1>1. map' = [n \in DOMAIN map \ {p} |-> map[n]]
    BY DEF RemovePortTranslation, BimapErase
  <1>2. DOMAIN map' = DOMAIN map \ {p} /\ \A n \in DOMAIN map' : map'[n] = map[n]
    BY <1>1
  <1>3. /\ \A db \in Databases :
             /\ DOMAIN port_table'[db] = DOMAIN port_table[db] \ {p}
             /\ \A n \in DOMAIN port_table'[db] : port_table'[db][n] = port_table[db][n]
        /\ port_table' = [db \in Databases |-> port_table'[db]]
    <2>1. DOMAIN port_table = Databases
      BY DEF MapsOk
    <2>2. port_table' = [db \in Databases |-> BimapErase(port_table[db], p)]
      BY <2>1 DEF RemovePortTranslation
    <2>3. \A db \in Databases : port_table'[db] = [n \in DOMAIN port_table[db] \ {p} |-> port_table[db][n]]
      BY <2>2 DEF BimapErase
    <2> QED BY <2>2, <2>3
  <1>4. left_behind' = left_behind \ {p} /\ rejected' = rejected
    BY DEF RemovePortTranslation
  <1>5. MapsOk'
    <2>1. map' \in [DOMAIN map' -> Ids]
      BY <1>1, <1>2 DEF MapsOk
    <2>2. "app_db" \in Databases /\ "app_state_db" \in Databases
      BY DEF Databases
    <2>3. DOMAIN map' \subseteq Ports /\ \A q, r \in DOMAIN map' : map'[q] = map'[r] => q = r
      BY <1>2 DEF MapsOk
    <2>4. DOMAIN port_table'["app_db"] = DOMAIN port_table'["app_state_db"]
      BY <1>3, <2>2 DEF MapsOk
    <2>5. \A db \in Databases : DOMAIN port_table'[db] \subseteq Ports
      BY <1>3 DEF MapsOk
    <2> QED BY <1>3, <2>1, <2>3, <2>4, <2>5 DEF MapsOk
  <1>6. \A q \in Ports : q # p => SameAt(q)
    BY <1>2, <1>3, <1>4 DEF SameAt
  <1>7. p \notin DOMAIN map' /\ TableHas(p)'
    BY <1>2, <1>3 DEF TableHas
  <1>8. EntriesMatch'
    <2>1. SUFFICES ASSUME up, moved' = {} PROVE CacheIsTable'
      BY DEF EntriesMatch
    <2>2. moved = {} /\ LostIds(map') = {}
      BY <2>1 DEF RemovePortTranslation
    <2>3. CacheIsTable
      BY <2>1, <2>2 DEF EntriesMatch
    <2>4. ASSUME p \in DOMAIN map PROVE map[p] \notin entity_cache
      <3>1. map[p] \notin Range(map')
        BY <1>2, <2>4 DEF MapsOk, Range
      <3> QED BY <2>2, <2>4, <3>1, CachedIdsKeepTheirPort
    <2>5. entity_cache' \subseteq Range(map')
      BY <1>2, <2>3, <2>4 DEF CacheIsTable, Range
    <2>6. p4rt_table' = {n \in DOMAIN map' : map'[n] \in entity_cache'}
      BY <1>2, <2>3, <2>4 DEF CacheIsTable
    <2> QED BY <2>5, <2>6 DEF CacheIsTable
  <1> QED BY <1>4, <1>5, <1>6, <1>7, <1>8

\* SetPortTable writes one row to both tables and leaves the others alone.
LEMMA SetPortTableEffect ==
  ASSUME MapsOk, NEW p \in Ports, NEW id, port_table' = SetPortTable(p, id)
  PROVE  /\ port_table' = [db \in Databases |-> port_table'[db]]
         /\ \A db \in Databases :
              /\ DOMAIN port_table'[db] = DOMAIN port_table[db] \cup {p}
              /\ DOMAIN port_table'[db] \subseteq Ports
              /\ port_table'[db][p] = id
              /\ \A q \in DOMAIN port_table[db] : q # p => port_table'[db][q] = port_table[db][q]
         /\ DOMAIN port_table'["app_db"] = DOMAIN port_table'["app_state_db"]
  <1>1. DOMAIN port_table = Databases
    BY DEF MapsOk
  <1>2. \A db \in Databases :
          port_table'[db] = [q \in DOMAIN port_table[db] \cup {p} |->
                               IF q = p THEN id ELSE port_table[db][q]]
    BY <1>1 DEF SetPortTable
  <1>3. port_table' = [db \in Databases |-> port_table'[db]]
    BY <1>1 DEF SetPortTable
  <1>4. \A db \in Databases :
          /\ DOMAIN port_table'[db] = DOMAIN port_table[db] \cup {p}
          /\ port_table'[db][p] = id
          /\ \A q \in DOMAIN port_table[db] : q # p => port_table'[db][q] = port_table[db][q]
    BY <1>2
  <1>5. "app_db" \in Databases /\ "app_state_db" \in Databases
    BY DEF Databases
  <1>6. DOMAIN port_table'["app_db"] = DOMAIN port_table'["app_state_db"]
    BY <1>4, <1>5 DEF MapsOk
  <1>7. \A db \in Databases : DOMAIN port_table'[db] \subseteq Ports
    BY <1>4 DEF MapsOk
  <1> QED BY <1>3, <1>4, <1>6, <1>7

\* AddPortTranslation gives one port its id in the map and in both tables, or
\* rejects an id that another port has.
LEMMA AddEffect ==
  ASSUME MapsOk, EntriesMatch, NEW p \in Ports, NEW id \in Ids, AddPortTranslation(p, id),
         UNCHANGED <<entity_cache, p4rt_table, up>>, rejected \in BOOLEAN
  PROVE  /\ MapsOk'
         /\ \A q \in Ports : q # p => SameAt(q)
         /\ EntriesMatch'
         /\ rejected' \in BOOLEAN
         /\ ~rejected' => /\ ~rejected
                          /\ p \in DOMAIN port_translation_map'
                          /\ port_translation_map'[p] = id
                          /\ TableHas(p)'
         /\ rejected' /\ ~rejected =>
              \E q \in DOMAIN port_translation_map : q # p /\ port_translation_map[q] = id
  <1> DEFINE map == port_translation_map
             same == p \in DOMAIN map /\ map[p] = id
             new_map == BimapInsert(BimapErase(map, p), p, id)
  <1>1. CASE /\ same
             /\ port_table' = SetPortTable(p, id)
             /\ left_behind' = left_behind \ {p}
             /\ UNCHANGED <<port_translation_map, moved, rejected>>
    <2>1. MapsOk'
      BY <1>1, SetPortTableEffect DEF MapsOk
    <2>2. \A q \in Ports : q # p => SameAt(q)
      BY <1>1, SetPortTableEffect DEF SameAt
    <2>3. p \in DOMAIN map' /\ map'[p] = id
      BY <1>1
    <2>4. TableHas(p)'
      BY <1>1, SetPortTableEffect DEF TableHas
    <2> QED BY <1>1, <2>1, <2>2, <2>3, <2>4, EntriesStay
  <1>2. CASE /\ ~same
             /\ id \in Range(map)
             /\ rejected' = TRUE
             /\ UNCHANGED <<port_translation_map, port_table, moved, left_behind>>
    <2>1. MapsOk' /\ \A q \in Ports : SameAt(q)
      BY <1>2 DEF MapsOk, SameAt
    <2>2. \E q \in DOMAIN map : q # p /\ map[q] = id
      BY <1>2 DEF Range
    <2> QED BY <1>2, <2>1, <2>2, EntriesStay
  <1>3. CASE /\ ~same
             /\ id \notin Range(map)
             /\ port_translation_map' = new_map
             /\ port_table' = SetPortTable(p, id)
             /\ moved' = moved \cup LostIds(new_map)
             /\ left_behind' = left_behind \ {p}
             /\ UNCHANGED rejected
    <2>1. \A n \in DOMAIN map : map[n] # id
      BY <1>3 DEF Range
    <2>2. map' = [n \in (DOMAIN map \ {p}) \cup {p} |-> IF n = p THEN id ELSE BimapErase(map, p)[n]]
      <3>1. p \notin DOMAIN BimapErase(map, p) /\ id \notin Range(BimapErase(map, p))
        BY <2>1 DEF BimapErase, Range
      <3>2. DOMAIN BimapErase(map, p) = DOMAIN map \ {p}
        BY DEF BimapErase
      <3> QED BY <1>3, <3>1, <3>2 DEF BimapInsert
    <2>3. /\ DOMAIN map' = DOMAIN map \cup {p} /\ map'[p] = id
          /\ \A n \in DOMAIN map : n # p => map'[n] = map[n]
      BY <2>2 DEF BimapErase
    <2>4. MapsOk'
      <3>1. DOMAIN map' \subseteq Ports /\ \A q, r \in DOMAIN map' : map'[q] = map'[r] => q = r
        BY <2>1, <2>3 DEF MapsOk
      <3>2. \A n \in DOMAIN map' : map'[n] \in Ids
        BY <2>3 DEF MapsOk
      <3>3. map' \in [DOMAIN map' -> Ids]
        BY <2>2, <3>2
      <3> QED BY <1>3, <3>1, <3>3, SetPortTableEffect DEF MapsOk
    <2>5. \A q \in Ports : q # p => SameAt(q)
      BY <1>3, <2>3, SetPortTableEffect DEF SameAt
    <2>6. TableHas(p)'
      BY <1>3, <2>3, SetPortTableEffect DEF TableHas
    <2>7. EntriesMatch'
      <3>1. SUFFICES ASSUME up, moved' = {} PROVE CacheIsTable'
        BY DEF EntriesMatch
      <3>2. moved = {} /\ LostIds(map') = {}
        BY <1>3, <3>1
      <3>3. CacheIsTable
        BY <3>1, <3>2 DEF EntriesMatch
      <3>4. ASSUME p \in DOMAIN map PROVE map[p] \notin entity_cache
        <4>1. map[p] # id /\ map[p] \notin Range(map')
          BY <2>1, <2>3, <3>4 DEF MapsOk, Range
        <4> QED BY <3>2, <3>4, <4>1, CachedIdsKeepTheirPort
      <3>5. id \notin entity_cache
        BY <1>3, <3>3 DEF CacheIsTable
      <3>6. entity_cache' \subseteq Range(map')
        BY <2>3, <3>3, <3>4 DEF CacheIsTable, Range
      <3>7. p4rt_table' = {n \in DOMAIN map' : map'[n] \in entity_cache'}
        BY <2>3, <3>3, <3>4, <3>5 DEF CacheIsTable
      <3> QED BY <3>6, <3>7 DEF CacheIsTable
    <2> QED BY <1>3, <2>3, <2>4, <2>5, <2>6, <2>7
  <1> QED BY <1>1, <1>2, <1>3 DEF AddPortTranslation

\* Handling an event settles its port if it was the port's last one, and
\* leaves the other ports as they were.
LEMMA HandleKeeps ==
  ASSUME IndInv, HandleEvent
  PROVE  IndInv'
  <1> DEFINE R == [key : Ports, id : Ids \cup {NoId}]
             n == Len(popped)
  <1>0. /\ UNCHANGED <<config_db, events, entity_cache, p4rt_table, up, raced>>
        /\ up /\ popped # <<>> /\ popped' = Tail(popped)
    BY DEF HandleEvent
  <1>1. /\ TypeOK /\ OneIdPerPort /\ PortDecided /\ TablesFollow /\ QuietInv /\ EntriesMatch
    BY DEF IndInv
  <1>2. /\ popped \in Seq(R) /\ n \in Nat /\ n >= 1
        /\ popped' \in Seq(R) /\ Len(popped') = n - 1
        /\ \A i \in 1..(n - 1) : popped'[i] = popped[i + 1]
        /\ Head(popped) = popped[1] /\ popped[1] \in R
    <2>1. popped \in Seq(R)
      BY <1>1 DEF TypeOK
    <2> HIDE DEF R
    <2>2. n \in Nat /\ n >= 1
      BY <1>0, <2>1, EmptySeq, LenProperties
    <2>3. Tail(popped) \in Seq(R) /\ Head(popped) = popped[1] /\ popped[1] \in R
      BY <1>0, <2>1, HeadTailProperties, ElementOfSeq
    <2>4. Len(Tail(popped)) = n - 1 /\ \A i \in 1..(n - 1) : Tail(popped)[i] = popped[i + 1]
      BY <1>0, <2>1, HeadTailProperties
    <2> QED BY <1>0, <2>1, <2>2, <2>3, <2>4
  <1>p. PICK p \in Ports : p = popped[1].key
    BY <1>2
  <1>id. PICK id \in Ids \cup {NoId} : id = popped[1].id
    BY <1>2
  <1>3. p = popped[1].key /\ id = popped[1].id
    BY <1>p, <1>id
  <1>4. MapsOk /\ rejected \in BOOLEAN
    BY <1>1 DEF TypeOK, OneIdPerPort, MapsOk
  <1>5. IF id = NoId THEN RemovePortTranslation(p) ELSE AddPortTranslation(p, id)
    <2>1. Head(popped).id = id /\ Head(popped).key = p
      BY <1>2, <1>3
    <2> QED BY <2>1 DEF HandleEvent
  <1> HIDE DEF n
  <1>6. /\ MapsOk'
        /\ \A q \in Ports : q # p => SameAt(q)
        /\ EntriesMatch'
        /\ rejected' \in BOOLEAN
        /\ ~rejected' => /\ ~rejected
                         /\ p \in DOMAIN port_translation_map' <=> id # NoId
                         /\ id # NoId => port_translation_map'[p] = id
                         /\ TableHas(p)'
        /\ rejected' /\ ~rejected =>
             \E q \in DOMAIN port_translation_map :
               q # p /\ port_translation_map[q] = id /\ id # NoId
    <2>1. CASE id = NoId
      BY <1>0, <1>1, <1>3, <1>4, <1>5, <2>1, RemoveEffect
    <2>2. CASE id # NoId
      BY <1>0, <1>1, <1>3, <1>4, <1>5, <2>2, AddEffect
    <2> QED BY <2>1, <2>2
  <1>7. TypeOK'
    <2>1. popped' \in Seq(R)
      BY <1>2
    <2> QED BY <1>0, <1>1, <1>6, <2>1 DEF TypeOK, MapsOk
  <1>8. OneIdPerPort'
    BY <1>0, <1>1, <1>6 DEF OneIdPerPort, MapsOk
  <1>9. ASSUME NEW q \in Ports, q # p
        PROVE  (Agrees(q)' <=> Agrees(q)) /\ (TableHas(q) => TableHas(q)')
    <2>1. SameAt(q)
      BY <1>6, <1>9
    <2> QED BY <1>0, <2>1 DEF SameAt, Agrees, TableHas
  <1>10. ASSUME NEW q \in Ports, q # p PROVE Pending(popped', q) <=> Pending(popped, q)
    <2>1. ASSUME Pending(popped, q) PROVE Pending(popped', q)
      <3>1. PICK i \in 1..Len(popped) : popped[i].key = q
        BY <2>1 DEF Pending
      <3>2. i # 1
        BY <1>3, <1>10, <3>1
      <3>3. i - 1 \in 1..(n - 1) /\ popped'[i - 1] = popped[i]
        BY <1>2, <3>1, <3>2 DEF n
      <3> QED BY <1>2, <3>1, <3>3 DEF Pending
    <2>2. ASSUME Pending(popped', q) PROVE Pending(popped, q)
      <3>1. PICK i \in 1..(n - 1) : popped'[i].key = q
        BY <1>2, <2>2 DEF Pending
      <3>2. i + 1 \in 1..Len(popped) /\ popped[i + 1].key = q
        BY <1>2, <3>1 DEF n
      <3> QED BY <3>2 DEF Pending
    <2> QED BY <2>1, <2>2
  <1>11. ASSUME id = config_db[p], ~rejected' PROVE Agrees(p)'
    BY <1>0, <1>6, <1>11 DEF Agrees
  <1>12. PortDecided'
    <2>1. SUFFICES ASSUME ~rejected', NEW q \in Ports PROVE Decided(q)'
      BY DEF PortDecided
    <2>2. Decided(q)
      BY <1>0, <1>1, <1>6, <2>1 DEF PortDecided
    <2>3. events' = events /\ config_db' = config_db
      BY <1>0
    <2>4. ASSUME ~Pending(events, q), Pending(popped', q)
          PROVE  \E i \in 1..Len(popped') : LastOf(popped', q, i) /\ popped'[i].id = config_db[q]
      <3>1. PICK k \in 1..(n - 1) : popped'[k].key = q
        BY <1>2, <2>4 DEF Pending
      <3>2. k + 1 \in 1..Len(popped) /\ popped[k + 1].key = q
        BY <1>2, <3>1 DEF n
      <3>3. PICK i \in 1..Len(popped) : LastOf(popped, q, i) /\ popped[i].id = config_db[q]
        BY <2>2, <2>4, <3>2 DEF Decided, Pending
      <3>4. i # 1
        <4>1. k + 1 # 1 /\ k + 1 >= 1
          BY <1>2, <3>1 DEF n
        <4>2. ~(k + 1 > i)
          BY <3>2, <3>3 DEF LastOf
        <4> QED BY <3>2, <4>1, <4>2
      <3>5. i - 1 \in 1..(n - 1) /\ popped'[i - 1] = popped[i]
        BY <1>2, <3>3, <3>4 DEF n
      <3>6. ASSUME NEW j \in 1..(n - 1), j > i - 1 PROVE popped'[j].key # q
        <4>1. j + 1 \in 1..Len(popped) /\ j + 1 > i /\ popped'[j] = popped[j + 1]
          BY <1>2, <3>3, <3>6 DEF n
        <4> QED BY <3>3, <4>1 DEF LastOf
      <3>7. LastOf(popped', q, i - 1)
        BY <1>2, <3>3, <3>5, <3>6 DEF LastOf
      <3> QED BY <1>2, <3>3, <3>5, <3>7
    <2>5. ASSUME ~Pending(events, q), ~Pending(popped', q) PROVE Agrees(q)'
      <3>1. CASE q # p
        BY <1>9, <1>10, <2>2, <2>5, <3>1 DEF Decided
      <3>2. CASE q = p
        <4>1. Pending(popped, q)
          BY <1>2, <1>3, <3>2 DEF Pending, n
        <4>2. PICK i \in 1..Len(popped) : LastOf(popped, q, i) /\ popped[i].id = config_db[q]
          BY <2>2, <2>5, <4>1 DEF Decided
        <4>3. i = 1
          <5>1. SUFFICES ASSUME i # 1 PROVE FALSE
            OBVIOUS
          <5>2. i - 1 \in 1..(n - 1) /\ popped'[i - 1] = popped[i]
            BY <1>2, <4>2, <5>1 DEF n
          <5> QED BY <1>2, <2>5, <4>2, <5>2 DEF Pending, LastOf
        <4> QED BY <1>3, <1>11, <2>1, <3>2, <4>2, <4>3
      <3> QED BY <3>1, <3>2
    <2> QED BY <2>2, <2>3, <2>4, <2>5 DEF Decided
  <1>13. TablesFollow'
    <2>1. SUFFICES ASSUME ~rejected', NEW q \in Ports, ~Pending(events, q), ~Pending(popped', q)
                   PROVE  TableHas(q)'
      BY <1>0 DEF TablesFollow
    <2>2. CASE q = p
      BY <1>6, <2>1, <2>2
    <2>3. CASE q # p
      BY <1>0, <1>1, <1>6, <1>9, <1>10, <2>1, <2>3 DEF TablesFollow
    <2> QED BY <2>2, <2>3
  <1>14. QuietInv'
    <2>1. SUFFICES ASSUME ~raced
                   PROVE  /\ ~rejected'
                          /\ \A i \in 1..Len(popped') : popped'[i].id = config_db[popped'[i].key]
                          /\ \A i \in 1..Len(events) : events[i].del <=> config_db[events[i].key] = NoId
                          /\ \A q \in Ports : ~Agrees(q)' =>
                               /\ \A i \in 1..Len(popped') : popped'[i].key = q
                               /\ \A i \in 1..Len(events) : events[i].key = q
      BY <1>0, <1>1 DEF QuietInv, TypeOK
    <2>2. /\ ~rejected
          /\ \A i \in 1..n : popped[i].id = config_db[popped[i].key]
          /\ \A i \in 1..Len(events) : events[i].del <=> config_db[events[i].key] = NoId
          /\ \A q \in Ports : ~Agrees(q) =>
               /\ \A i \in 1..n : popped[i].key = q
               /\ \A i \in 1..Len(events) : events[i].key = q
      BY <1>0, <1>1, <2>1 DEF QuietInv, n
    <2>3. id = config_db[p]
      BY <1>2, <1>3, <2>2
    <2>4. ~rejected'
      <3>1. SUFFICES ASSUME rejected' PROVE FALSE
        OBVIOUS
      <3>2. PICK q \in DOMAIN port_translation_map :
              q # p /\ port_translation_map[q] = id /\ id # NoId
        BY <1>6, <2>2, <3>1
      <3>3. q \in Ports
        BY <1>4 DEF MapsOk
      <3>4. Agrees(q)
        <4>1. 1 \in 1..n /\ popped[1].key # q
          BY <1>2, <1>3, <3>2
        <4> QED BY <2>2, <3>3, <4>1
      <3> QED BY <1>1, <1>3, <2>3, <3>2, <3>3, <3>4 DEF OneIdPerPort, Agrees
    <2>5. \A i \in 1..Len(popped') : i + 1 \in 1..n /\ popped'[i] = popped[i + 1]
      BY <1>2
    <2>6. \A q \in Ports : ~Agrees(q)' => ~Agrees(q)
      BY <1>9, <1>11, <2>3, <2>4
    <2> QED BY <2>2, <2>4, <2>5, <2>6
  <1> QED BY <1>6, <1>7, <1>8, <1>12, <1>13, <1>14 DEF IndInv

\* What concerns ports and events is kept by a step on entries.
LEMMA PortsStay ==
  ASSUME IndInv,
         UNCHANGED <<config_db, events, popped, port_translation_map, port_table, up,
                     rejected, raced, left_behind>>
  PROVE  TypeOK' /\ OneIdPerPort' /\ PortDecided' /\ TablesFollow' /\ QuietInv'
  <1>1. TypeOK /\ OneIdPerPort /\ PortDecided /\ TablesFollow /\ QuietInv
    BY DEF IndInv
  <1>2. TypeOK' /\ OneIdPerPort'
    BY <1>1 DEF TypeOK, OneIdPerPort
  <1>3. \A p : (Agrees(p)' <=> Agrees(p)) /\ (TableHas(p)' <=> TableHas(p))
    BY DEF Agrees, TableHas
  <1>4. \A p : Decided(p)' <=> Decided(p)
    BY <1>3 DEF Decided
  <1>5. PortDecided' /\ TablesFollow'
    BY <1>1, <1>3, <1>4 DEF PortDecided, TablesFollow
  <1>6. QuietInv'
    BY <1>1, <1>3 DEF QuietInv
  <1> QED BY <1>2, <1>5, <1>6

\* A Write of an id's entry puts the id's port into the P4RT table.
LEMMA InsertKeeps ==
  ASSUME IndInv, NEW id \in Ids, InsertEntry(id)
  PROVE  IndInv'
  <1> DEFINE map == port_translation_map
             name == TranslatePort("kForOrchAgent", map, id)
  <1>0. /\ UNCHANGED <<config_db, events, popped, port_translation_map, port_table, up,
                       rejected, raced, moved, left_behind>>
        /\ name.ok
        /\ entity_cache' = entity_cache \cup {id}
        /\ p4rt_table' = p4rt_table \cup {name.value}
    BY DEF InsertEntry, historyVars
  <1>1. \A p, q \in DOMAIN map : map[p] = map[q] => p = q
    BY DEF IndInv, OneIdPerPort
  <1>2. id \in Range(map)
    <2>1. SUFFICES ASSUME id \notin Range(map) PROVE FALSE
      OBVIOUS
    <2> QED BY <1>0, <2>1, NoNameOfId DEF Err
  <1>3. PICK p \in DOMAIN map : map[p] = id
    BY <1>2 DEF Range
  <1>4. name.value = p
    BY <1>1, <1>3, NameOfId DEF Ok
  <1>5. EntriesMatch'
    <2>1. Ids # {}
      OBVIOUS
    <2>2. SUFFICES ASSUME up, moved = {} PROVE CacheIsTable'
      BY <1>0, <2>1 DEF EntriesMatch
    <2>3. CacheIsTable
      BY <2>2 DEF IndInv, EntriesMatch
    <2>4. p4rt_table' = {n \in DOMAIN map : map[n] \in entity_cache \cup {id}}
      <3> HIDE DEF name
      <3> QED BY <1>0, <1>1, <1>3, <1>4, <2>3 DEF CacheIsTable
    <2>5. entity_cache' \subseteq Range(map)
      BY <1>0, <1>2, <2>3 DEF CacheIsTable
    <2> QED BY <1>0, <2>4, <2>5 DEF CacheIsTable
  <1> QED BY <1>0, <1>5, PortsStay DEF IndInv

\* A Write that deletes an id's entry takes the id's port out.
LEMMA DeleteKeeps ==
  ASSUME IndInv, NEW id \in Ids, DeleteEntry(id)
  PROVE  IndInv'
  <1> DEFINE map == port_translation_map
             name == TranslatePort("kForOrchAgent", map, id)
  <1>0. /\ UNCHANGED <<config_db, events, popped, port_translation_map, port_table, up,
                       rejected, raced, moved, left_behind>>
        /\ name.ok
        /\ entity_cache' = entity_cache \ {id}
        /\ p4rt_table' = p4rt_table \ {name.value}
    BY DEF DeleteEntry, historyVars
  <1>1. \A p, q \in DOMAIN map : map[p] = map[q] => p = q
    BY DEF IndInv, OneIdPerPort
  <1>2. id \in Range(map)
    <2>1. SUFFICES ASSUME id \notin Range(map) PROVE FALSE
      OBVIOUS
    <2> QED BY <1>0, <2>1, NoNameOfId DEF Err
  <1>3. PICK p \in DOMAIN map : map[p] = id
    BY <1>2 DEF Range
  <1>4. name.value = p
    BY <1>1, <1>3, NameOfId DEF Ok
  <1>5. EntriesMatch'
    <2>1. Ids # {}
      OBVIOUS
    <2>2. SUFFICES ASSUME up, moved = {} PROVE CacheIsTable'
      BY <1>0, <2>1 DEF EntriesMatch
    <2>3. CacheIsTable
      BY <2>2 DEF IndInv, EntriesMatch
    <2>4. p4rt_table' = {n \in DOMAIN map : map[n] \in entity_cache \ {id}}
      <3> HIDE DEF name
      <3> QED BY <1>0, <1>1, <1>3, <1>4, <2>3 DEF CacheIsTable
    <2>5. entity_cache' \subseteq Range(map)
      BY <1>0, <2>3 DEF CacheIsTable
    <2> QED BY <1>0, <2>4, <2>5 DEF CacheIsTable
  <1> QED BY <1>0, <1>5, PortsStay DEF IndInv

\* A crash leaves only what is in the databases.
LEMMA CrashKeeps ==
  ASSUME IndInv, Crash
  PROVE  IndInv'
  <1>0. /\ UNCHANGED <<config_db, port_table, p4rt_table, rejected, raced>>
        /\ up' = FALSE /\ events' = <<>> /\ popped' = <<>>
        /\ port_translation_map' = NoTranslations
    BY DEF Crash
  <1>1. TypeOK /\ OneIdPerPort /\ QuietInv /\ EntriesMatch
    BY DEF IndInv
  <1>2. DOMAIN port_translation_map' = {}
    BY <1>0 DEF NoTranslations
  <1>3. TypeOK'
    <2>1. /\ events' \in Seq([key : Ports, del : BOOLEAN])
          /\ popped' \in Seq([key : Ports, id : Ids \cup {NoId}])
      BY <1>0, EmptySeq
    <2>2. port_translation_map' \in [DOMAIN port_translation_map' -> Ids]
      BY <1>0 DEF NoTranslations
    <2> QED BY <1>0, <1>1, <1>2, <2>1, <2>2 DEF TypeOK
  <1>4. OneIdPerPort'
    BY <1>0, <1>1, <1>2 DEF OneIdPerPort
  <1>5. QuietInv' /\ EntriesMatch' /\ PortDecided' /\ TablesFollow'
    BY <1>0, <1>1 DEF QuietInv, EntriesMatch, PortDecided, TablesFollow
  <1> QED BY <1>3, <1>4, <1>5 DEF IndInv

\* After a restart the map is CONFIG_DB's, each of its ports has one event, and
\* the cache is the P4RT table's if every row could be translated.
LEMMA BootKeeps ==
  ASSUME IndInv, Boot
  PROVE  IndInv'
  <1> DEFINE map == ConfigIds(config_db)
             rows == SetToSeq(DOMAIN map)
             c == Cardinality(DOMAIN map)
             cached == {TranslatePort("kForController", map, name) : name \in p4rt_table}
             allOk == \A x \in cached : x.ok
             starts == [j \in DOMAIN rows |-> [key |-> rows[j], del |-> FALSE]]
  <1>0. /\ UNCHANGED <<config_db, port_table, p4rt_table, popped>>
        /\ ~up /\ up' = TRUE /\ rejected' = FALSE /\ raced' = FALSE
        /\ port_translation_map' = map
        /\ entity_cache' = IF allOk THEN {x.value : x \in cached} ELSE {}
        /\ moved' = IF allOk THEN {} ELSE Ids
        /\ events' = starts
        /\ left_behind' = DOMAIN port_table.app_db \ DOMAIN map
    BY DEF Boot
  <1>1. TypeOK /\ OneIdPerPort /\ EntriesMatch
    BY DEF IndInv
  <1>2. popped = <<>>
    BY <1>0, <1>1 DEF TypeOK
  <1>3. /\ DOMAIN map = {q \in Ports : config_db[q] # NoId}
        /\ \A q \in DOMAIN map : map[q] = config_db[q] /\ map[q] \in Ids
        /\ map \in [DOMAIN map -> Ids]
    <2>1. map = [q \in {r \in Ports : config_db[r] # NoId} |-> config_db[q]]
      BY DEF ConfigIds
    <2>2. \A q \in Ports : config_db[q] \in Ids \cup {NoId}
      BY <1>1 DEF TypeOK
    <2> HIDE DEF map
    <2> QED BY <2>1, <2>2
  <1>4. /\ c \in Nat
        /\ rows \in [1..c -> DOMAIN map]
        /\ \A j, k \in 1..c : rows[j] = rows[k] => j = k
        /\ \A q \in DOMAIN map : \E j \in 1..c : rows[j] = q
    <2>1. DOMAIN map \in SUBSET Ports
      BY <1>3
    <2>2. IsFiniteSet(DOMAIN map)
      <3> HIDE DEF map
      <3> QED BY ONLY <2>1, PortConstants, FS_Subset
    <2> HIDE DEF map
    <2> QED BY ONLY <2>2, SetToSeqFacts
  <1> HIDE DEF rows, c
  <1>5. /\ starts \in [1..c -> [key : Ports, del : BOOLEAN]]
        /\ \A j \in 1..c : starts[j].key = rows[j] /\ starts[j].del = FALSE
    <2>1. \A j \in 1..c : rows[j] \in Ports
      BY <1>3, <1>4
    <2>2. DOMAIN rows = 1..c
      BY <1>4
    <2> HIDE DEF map
    <2> QED BY <2>1, <2>2
  <1>6. starts \in Seq([key : Ports, del : BOOLEAN]) /\ Len(starts) = c
    <2> DEFINE R == [key : Ports, del : BOOLEAN]
    <2>1. starts \in [1..c -> R]
      BY <1>5
    <2> HIDE DEF starts, R, map
    <2>2. starts \in Seq(R) /\ Len(starts) = c
      BY ONLY <1>4, <2>1, FunctionIsSeq
    <2> QED BY <2>2 DEF R
  <1>7. /\ events' \in Seq([key : Ports, del : BOOLEAN]) /\ Len(events') = c
        /\ \A j \in 1..c : events'[j].key = rows[j] /\ events'[j].del = FALSE
    <2> HIDE DEF starts
    <2> QED BY <1>0, <1>5, <1>6
  <1> HIDE DEF starts
  <1>8. TypeOK'
    <2>1. DOMAIN map \subseteq Ports
      BY <1>3
    <2> HIDE DEF map, allOk, cached
    <2> QED BY <1>0, <1>1, <1>3, <1>7, <2>1 DEF TypeOK
  <1>9. OneIdPerPort'
    <2> HIDE DEF map, allOk, cached
    <2> QED BY <1>0, <1>1, <1>3 DEF OneIdPerPort
  <1>10. \A q \in Ports : Agrees(q)'
    <2> HIDE DEF map, allOk, cached
    <2> QED BY <1>0, <1>3 DEF Agrees
  <1>11. \A q : ~Pending(popped', q)
    BY <1>0, <1>2 DEF Pending
  <1>12. ASSUME NEW q \in Ports PROVE Pending(events', q) <=> q \in DOMAIN map
    <2> HIDE DEF map, allOk, cached
    <2> QED BY <1>4, <1>7 DEF Pending
  <1>13. PortDecided'
    <2>1. SUFFICES ASSUME NEW q \in Ports, Pending(events', q)
                   PROVE  \E i \in 1..c : LastOf(events', q, i) /\ (events'[i].del <=> config_db[q] = NoId)
      BY <1>0, <1>7, <1>10, <1>11 DEF PortDecided, Decided
    <2>2. q \in DOMAIN map /\ config_db[q] # NoId
      BY <1>3, <1>12, <2>1
    <2> HIDE DEF map, allOk, cached
    <2>3. PICK i \in 1..c : rows[i] = q
      BY <1>4, <2>2
    <2>4. LastOf(events', q, i)
      BY <1>4, <1>7, <2>3 DEF LastOf
    <2> QED BY <1>7, <2>2, <2>3, <2>4
  <1>14. TablesFollow'
    <2>1. SUFFICES ASSUME NEW q \in Ports, q \notin DOMAIN map PROVE TableHas(q)'
      BY <1>12 DEF TablesFollow
    <2>2. \A db \in Databases : DOMAIN port_table[db] = DOMAIN port_table["app_db"]
      BY <1>1 DEF TypeOK, Databases
    <2> HIDE DEF map, allOk, cached
    <2> QED BY <1>0, <2>1, <2>2 DEF TableHas
  <1>15. QuietInv'
    <2>1. \A i \in 1..Len(popped') : FALSE
      BY <1>0, <1>2
    <2>2. \A i \in 1..Len(events') : events'[i].del <=> config_db'[events'[i].key] = NoId
      <3> HIDE DEF map, allOk, cached
      <3>1. \A j \in 1..c : rows[j] \in DOMAIN map
        BY <1>4
      <3> QED BY <1>0, <1>3, <1>7, <3>1
    <2> HIDE DEF map, allOk, cached
    <2> QED BY <1>0, <1>10, <2>1, <2>2 DEF QuietInv
  <1>16. EntriesMatch'
    <2>1. Ids = {} => p4rt_table' = {}
      BY <1>0, <1>1 DEF EntriesMatch
    <2>2. SUFFICES ASSUME moved' = {} PROVE CacheIsTable'
      BY <2>1 DEF EntriesMatch
    <2>3. allOk
      <3>1. SUFFICES ASSUME ~allOk PROVE FALSE
        OBVIOUS
      <3>2. p4rt_table = {}
        BY <1>0, <2>1, <2>2, <3>1
      <3> QED BY <3>1, <3>2
    <2>4. \A name \in p4rt_table : TranslatePort("kForController", map, name).ok
      BY <2>3
    <2>5. \A name \in p4rt_table :
            name \in DOMAIN map /\ TranslatePort("kForController", map, name).value = map[name]
      <3> HIDE DEF map
      <3> QED BY <2>4 DEF TranslatePort, Ok, Err
    <2>6. entity_cache' = {x.value : x \in cached}
      BY <1>0, <2>3
    <2>7. entity_cache' = {map[name] : name \in p4rt_table}
      <3> HIDE DEF map
      <3> QED BY <2>5, <2>6
    <2>8. \A q, r \in DOMAIN map : map[q] = map[r] => q = r
      BY <1>0, <1>9 DEF OneIdPerPort
    <2> HIDE DEF map, allOk, cached
    <2>9. entity_cache' \subseteq Range(map)
      BY <2>5, <2>7 DEF Range
    <2>10. p4rt_table = {n \in DOMAIN map : map[n] \in entity_cache'}
      BY <2>5, <2>7, <2>8
    <2> QED BY <1>0, <2>9, <2>10 DEF CacheIsTable
  <1> QED BY <1>8, <1>9, <1>13, <1>14, <1>15, <1>16 DEF IndInv

\* Every step keeps the invariant.
LEMMA StepIndInv == IndInv /\ [Next]_vars => IndInv'
  <1> SUFFICES ASSUME IndInv, [Next]_vars PROVE IndInv'
    OBVIOUS
  <1>1. CASE Next
    <2>1. ASSUME NEW p \in Ports, NEW id \in Ids \cup {NoId}, WriteConfigDb(p, id) PROVE IndInv'
      BY <2>1, WriteKeeps
    <2>2. ASSUME NEW id \in Ids, InsertEntry(id) \/ DeleteEntry(id) PROVE IndInv'
      BY <2>2, InsertKeeps, DeleteKeeps
    <2> QED BY <1>1, <2>1, <2>2, PopKeeps, HandleKeeps, CrashKeeps, BootKeeps DEF Next
  <1>2. CASE UNCHANGED vars
    <2>1. /\ UNCHANGED <<config_db, events, popped, port_translation_map, port_table, up,
                         rejected, raced, left_behind>>
          /\ UNCHANGED <<port_translation_map, entity_cache, p4rt_table, up, moved>>
      BY <1>2 DEF vars, processVars, historyVars
    <2> QED BY <2>1, PortsStay, EntriesStay DEF IndInv
  <1> QED BY <1>1, <1>2

\* The invariant holds always.
LEMMA AlwaysIndInv == Spec => []IndInv
  BY InitIndInv, StepIndInv, PTL DEF Spec

-----------------------------------------------------------------------------
(* What follows from it.                                                   *)

\* Once every event is handled, and none was rejected, the ids in use are
\* those of CONFIG_DB; an id is only rejected if CONFIG_DB was written while
\* events were unhandled.  For any finite set of ports and any ids.
THEOREM SettledMapIsConfigDb == Spec => []SettledMapMatchesConfig
  <1>1. IndInv => SettledMapMatchesConfig
    <2>1. SUFFICES ASSUME IndInv PROVE SettledMapMatchesConfig
      OBVIOUS
    <2>2. rejected => raced
      BY <2>1 DEF IndInv, QuietInv
    <2>3. ASSUME Settled, ~rejected PROVE port_translation_map = ConfigIds(config_db)
      <3>1. \A p \in Ports : Agrees(p)
        <4>1. \A p : ~Pending(events, p) /\ ~Pending(popped, p)
          BY <2>3 DEF Settled, Pending
        <4> QED BY <2>1, <2>3, <4>1 DEF IndInv, PortDecided, Decided, Settled
      <3>2. /\ DOMAIN port_translation_map \subseteq Ports
            /\ port_translation_map \in [DOMAIN port_translation_map -> Ids]
        BY <2>1 DEF IndInv, TypeOK
      <3>3. DOMAIN port_translation_map = {q \in Ports : config_db[q] # NoId}
        BY <3>1, <3>2 DEF Agrees
      <3>4. \A q \in DOMAIN port_translation_map : port_translation_map[q] = config_db[q]
        BY <3>1, <3>2 DEF Agrees
      <3> QED BY <3>2, <3>3, <3>4 DEF ConfigIds
    <2> QED BY <2>2, <2>3 DEF SettledMapMatchesConfig
  <1> QED BY <1>1, AlwaysIndInv, PTL

\* Once every event is handled, and none was rejected, both P4RT_PORT_ID_TABLEs
\* hold the translations in use and no other row but those of ports that were
\* removed while the process was down.
THEOREM PortTablesHoldTheMap == Spec => []PortTableFollowsMap
  <1>1. IndInv => PortTableFollowsMap
    <2>1. SUFFICES ASSUME IndInv, Settled, ~rejected, NEW db \in DOMAIN port_table
                   PROVE  /\ \A p \in DOMAIN port_translation_map :
                               /\ p \in DOMAIN port_table[db]
                               /\ port_table[db][p] = port_translation_map[p]
                          /\ DOMAIN port_table[db] \subseteq DOMAIN port_translation_map \cup left_behind
      BY DEF PortTableFollowsMap
    <2>2. db \in Databases /\ DOMAIN port_translation_map \subseteq Ports
          /\ DOMAIN port_table[db] \subseteq Ports
      BY <2>1 DEF IndInv, TypeOK
    <2>3. \A p : ~Pending(events, p) /\ ~Pending(popped, p)
      BY <2>1 DEF Settled, Pending
    <2>4. \A p \in Ports : TableHas(p)
      BY <2>1, <2>3 DEF IndInv, TablesFollow, Settled
    <2> QED BY <2>2, <2>4 DEF TableHas
  <1> QED BY <1>1, AlwaysIndInv, PTL

\* As long as no cached id lost its port, state verification finds the cache
\* and the P4RT table in agreement, whatever events are pending.
THEOREM EntriesStayWhereTheyWere == Spec => []EntriesKeepTheirMeaning
  <1>1. IndInv => EntriesKeepTheirMeaning
    <2> DEFINE map == port_translation_map
    <2>1. SUFFICES ASSUME IndInv, up, moved = {} PROVE VerifyStateOk
      BY DEF EntriesKeepTheirMeaning
    <2>2. CacheIsTable /\ \A p, q \in DOMAIN map : map[p] = map[q] => p = q
      BY <2>1 DEF IndInv, EntriesMatch, OneIdPerPort
    <2>3. ASSUME NEW i \in entity_cache
          PROVE  \E n \in p4rt_table : TranslatePort("kForOrchAgent", map, i) = Ok(n)
      <3>1. PICK n \in DOMAIN map : map[n] = i
        BY <2>2, <2>3 DEF CacheIsTable, Range
      <3>2. n \in p4rt_table
        BY <2>2, <2>3, <3>1 DEF CacheIsTable
      <3> QED BY <2>2, <3>1, <3>2, NameOfId
    <2>4. ASSUME NEW n \in p4rt_table
          PROVE  \E i \in entity_cache : Ok(n) = TranslatePort("kForOrchAgent", map, i)
      <3>1. n \in DOMAIN map /\ map[n] \in entity_cache
        BY <2>2, <2>4 DEF CacheIsTable
      <3> QED BY <2>2, <3>1, NameOfId
    <2> QED BY <2>3, <2>4 DEF VerifyStateOk
  <1> QED BY <1>1, AlwaysIndInv, PTL

=============================================================================
