----------------------------- MODULE Sequencing -----------------------------
(***************************************************************************)
(* p4_infra/p4_pdpi/sequencing.cc: in what order updates are sent so that  *)
(* what an entity refers to is there before it and goes after it, and      *)
(* which entities nothing refers to any more.                              *)
(*                                                                         *)
(* An update is [type, entity].  Sequencing knows the @refers_to           *)
(* annotations only, a field at a time (the older IrMatchFieldReference);  *)
(* sorting and garbage collection use the table references.                *)
(*                                                                         *)
(* The first part has the library's operators, for any P4 program; the     *)
(* second calls them for one, Info, and a switch that holds one of         *)
(* EntitySets.  Requests of at most MaxUpdates updates delete what it      *)
(* holds and write entities of Writable; BatchSizes are the limits they    *)
(* are cut to.                                                             *)
(***************************************************************************)
EXTENDS References, LibraryCall, FiniteSetsExt

CONSTANTS Info, EntitySets, Writable, MaxUpdates, BatchSizes

-----------------------------------------------------------------------------
(* Batches.                                                                *)

\* GetRefersToAnnotations leaves out what refers to a built-in table.
RefersToAnnotations(annotations) == {r \in annotations : r[1] # MulticastTable}

IrReferences(info) == RefersToAnnotations(RefersToAnnotationsOf(info))

\* The values of an entity others may refer to: its vertices' indices.
ReferencedValues(info, e) ==
  {<<r[1], r[2], e.matches[r[2]]>> :
     r \in {q \in IrReferences(info) : q[1] = e.table /\ q[2] \in DOMAIN e.matches}}

\* The values an entity refers to, by its match fields and its actions.
ValuesReferredTo(info, e) ==
  (UNION {{<<r[1], r[2], e.matches[f]>> : r \in RefersToAnnotations(info.tables[e.table].fields[f].refers_to)} :
            f \in DOMAIN e.matches})
  \cup (UNION {UNION {{<<r[1], r[2], a.params[p]>> : r \in RefersToAnnotations(info.actions[a.name][p])} :
                        p \in DOMAIN a.params} :
                 a \in Range(e.actions)})

\* Mutation: a DELETE waits for nothing.
DependsOnInserted(info, updates, v, u) ==
  /\ updates[v].type \in {"INSERT", "MODIFY"}
  /\ updates[u].type = "INSERT"
  /\ ValuesReferredTo(info, updates[v].entity) \cap ReferencedValues(info, updates[u].entity) # {}

\* RecordDependenciesForReferencedValue: what is to happen first.
DependsOn(info, updates, v, u) ==
  LET referrer(x, y) == ValuesReferredTo(info, x.entity) \cap ReferencedValues(info, y.entity) # {}
  IN \/ /\ updates[v].type \in {"INSERT", "MODIFY"}
        /\ updates[u].type = "INSERT"
        /\ referrer(updates[v], updates[u])
     \/ /\ updates[v].type = "DELETE"
        /\ updates[u].type = "DELETE"
        /\ referrer(updates[u], updates[v])

BuildDependencyGraph(info, updates) ==
  {e \in (DOMAIN updates) \X (DOMAIN updates) : DependsOn(info, updates, e[2], e[1])}

\* A set of indices in ascending order: std::sort.
InOrder(S) ==
  CHOOSE f \in [1..Cardinality(S) -> S] : \A j, k \in DOMAIN f : j < k => f[j] < f[k]

\* An update joins the first batch after those of all it depends on, in the
\* order of the input.  An update that never can is in a cycle: an error.  A
\* packet replication entry has no table id: an error as well.
SequencePiUpdatesInPlace(info, updates) ==
  LET layer == Layers(DOMAIN updates, BuildDependencyGraph(info, updates))
      used == {k \in 1..Len(updates) : layer[k] # layer[k - 1]}
  IN IF \/ \E j \in DOMAIN updates : updates[j].entity.table = MulticastTable
        \/ layer[Len(updates)] # DOMAIN updates
     THEN [ok |-> FALSE]
     ELSE [ok |-> TRUE,
           batches |-> [k \in 1..Cardinality(used) |-> InOrder(layer[k] \ layer[k - 1])]]

\* A batch is cut into requests of at most max updates, the last with what is
\* left.
Pieces(batch, max) == (Len(batch) + max - 1) \div max
Piece(batch, max, j) ==
  SubSeq(batch, max * (j - 1) + 1, IF j = Pieces(batch, max) THEN Len(batch) ELSE max * j)
Cut(updates, batch, max) ==
  [j \in 1..Pieces(batch, max) |->
     [k \in DOMAIN Piece(batch, max, j) |-> updates[Piece(batch, max, j)[k]]]]

SequencePiUpdatesIntoWriteRequests(info, updates, max_batch_size) ==
  LET result == SequencePiUpdatesInPlace(info, updates)
  IN IF max_batch_size <= 0 \/ ~result.ok
     THEN [ok |-> FALSE]
     ELSE [ok |-> TRUE,
           requests |-> FlattenSeq([k \in DOMAIN result.batches |->
                                      Cut(updates, result.batches[k], max_batch_size)])]

\* The same cut for a request that is already in order.
ExtractWriteRequests(updates, max_write_request_size) ==
  IF Len(updates) <= max_write_request_size
  THEN [ok |-> TRUE, requests |-> <<updates>>]
  ELSE IF max_write_request_size < 1
  THEN [ok |-> FALSE]
  ELSE [ok |-> TRUE,
        requests |-> [j \in 1..((Len(updates) - 1) \div max_write_request_size) + 1 |->
                        [k \in 1..(IF j * max_write_request_size <= Len(updates)
                                   THEN max_write_request_size
                                   ELSE Len(updates) % max_write_request_size) |->
                           updates[(j - 1) * max_write_request_size + k]]]]

-----------------------------------------------------------------------------
(* Sorting by table.                                                       *)

\* Mutation: what is referred to comes last.
LessThanInDependencyOrder(rank, first, second) == rank[first.table] < rank[second.table]

GreaterThanInDependencyOrder(rank, first, second) == rank[first.table] > rank[second.table]

\* By descending rank, those of a rank in the order of the input: the place of
\* an entity is one more than there are entities to come first.
StableSortEntities(rank, entities) ==
  LET first(j, k) == \/ GreaterThanInDependencyOrder(rank, entities[j], entities[k])
                     \/ rank[entities[j].table] = rank[entities[k].table] /\ j < k
      place(k) == Cardinality({j \in DOMAIN entities : first(j, k)}) + 1
  IN [p \in DOMAIN entities |-> entities[CHOOSE k \in DOMAIN entities : place(k) = p]]

\* reverse_ordering negates the comparison, so equal ranks compare as less
\* both ways: the updates come out by rank, those of a rank in any order.
StableSortUpdates(rank, updates, reverse_ordering) ==
  IF reverse_ordering
  THEN {s \in {[j \in DOMAIN updates |-> updates[p[j]]] : p \in SetToSeqs(DOMAIN updates)} :
          \A j \in 1..(Len(s) - 1) : rank[s[j].entity.table] <= rank[s[j + 1].entity.table]}
  ELSE LET first(j, k) == \/ rank[updates[j].entity.table] > rank[updates[k].entity.table]
                          \/ rank[updates[j].entity.table] = rank[updates[k].entity.table] /\ j < k
           place(k) == Cardinality({j \in DOMAIN updates : first(j, k)}) + 1
       IN {[p \in DOMAIN updates |-> updates[CHOOSE k \in DOMAIN updates : place(k) = p]]}

-----------------------------------------------------------------------------
(* Garbage collection.                                                     *)

\* What the frontier reaches in k rounds: an entity of the pool one of whose
\* possible incoming references an entity already reached has.
ReachedInRounds(references, pool, frontier) ==
  LET reached[k \in 0..Cardinality(pool)] ==
        IF k = 0 THEN frontier
        ELSE LET before == reached[k - 1]
             IN before \cup {e \in pool : \E s \in before :
                                AllOutgoing(references, s) \cap AllIncoming(references, e) # {}}
  IN reached

Reached(references, pool, frontier) ==
  ReachedInRounds(references, pool, frontier)[Cardinality(pool)]

\* A root multicast group is passed over and reaches nothing.  An entity of a
\* table nothing refers to is unreachable; one whose table is referred to but
\* that yields no possible reference is in no list at all.
GetEntitiesUnreachableFromRoots(references, entities, roots) ==
  LET pool == {e \in entities \ roots : GetIncomingTableReferences(references, e.table) # {}}
      frontier == {e \in roots : e.table # MulticastTable}
      listed == {e \in pool : AllIncoming(references, e) # {}}
  IN IF \E e \in entities \ roots : e.table = MulticastTable
     THEN [ok |-> FALSE]
     ELSE [ok |-> TRUE,
           value |-> (((entities \ roots) \ pool) \cup listed) \ Reached(references, pool, frontier)]

-----------------------------------------------------------------------------
(* The calls, one at a time.                                               *)

TableReferences == ParseIrTableReferences(Info)
Ranks == DependencyRankByTableName(DOMAIN Info.tables, TableReferences)

\* What a switch holds has one entity per key.
OnePerKey(S) == \A e, f \in S : EntityKey(e) = EntityKey(f) => e = f

\* An entity of the destination has all the values the reference demands.
Satisfies(o, d) == o.destination = d.table /\ \A f \in o.fields : d.matches[f.destination] = f.value
RefersTo(e, d) == \E o \in AllOutgoing(TableReferences, e) : Satisfies(o, d)
Unmet(S, e) == {o \in AllOutgoing(TableReferences, e) : ~\E d \in S : Satisfies(o, d)}
Dangling(S) == {e \in S : Unmet(S, e) # {}}

\* A DELETE carries the entry it deletes: without an action it is refused.
Updates(S) ==
  [type : {"INSERT"}, entity : {e \in Writable : \A f \in S : EntityKey(e) # EntityKey(f)}]
  \cup [type : {"DELETE"}, entity : S]
  \cup [type : {"MODIFY"}, entity : {e \in Writable \ S : \E f \in S : EntityKey(e) = EntityKey(f)}]

AppliedTo(S, U) ==
  {e \in S : \A u \in U : EntityKey(u.entity) # EntityKey(e)}
    \cup {u.entity : u \in {v \in U : v.type # "DELETE"}}

\* Requests of up to MaxUpdates updates that leave no reference dangling in
\* the end.
Requests(S) ==
  {U \in {Range(f) : f \in [1..MaxUpdates -> Updates(S)]} \ {{}} :
     OnePerKey({u.entity : u \in U}) /\ Dangling(AppliedTo(S, U)) = {}}

\* The program has references without a cycle, and its entities are well
\* formed.
ASSUME ProgramAssumption ==
  /\ IsProgram(Info)
  /\ ~DependenciesFormACycle(DOMAIN Info.tables, TableReferences)

ASSUME EntitiesAssumption ==
  /\ \A S \in EntitySets : IsFiniteSet(S) /\ OnePerKey(S) /\ \A e \in S : IsEntity(Info, e)
  /\ IsFiniteSet(Writable) /\ \A e \in Writable : IsEntity(Info, e)

ASSUME BoundsAssumption == MaxUpdates \in Nat /\ BatchSizes \subseteq Int

CheckReferences ==
  \E S \in EntitySets : call' = [op |-> "references", entities |-> S]

SequenceUpdates ==
  \E S \in {T \in EntitySets : Dangling(T) = {}} : \E U \in Requests(S) : \E max \in BatchSizes :
    call' = [op |-> "sequence", held |-> S, updates |-> SetToSeq(U), max |-> max]

SortEntities ==
  \E S \in {T \in EntitySets : Dangling(T) = {}} : call' = [op |-> "sort", entities |-> S]

CollectGarbage ==
  \E S \in EntitySets : \E roots \in SUBSET S :
    call' = [op |-> "collect", entities |-> S, roots |-> roots]

SequencingNext ==
  \/ call = Idle /\ (CheckReferences \/ SequenceUpdates \/ SortEntities \/ CollectGarbage)
  \/ Return

SequencingSpec == call = Idle /\ [][SequencingNext]_call

-----------------------------------------------------------------------------
(* Properties.                                                             *)

\* UnsatisfiedOutgoingReferences, which compares whole references, finds just
\* the entities with a reference no entity of the destination table fits.
UnsatisfiedAreDangling ==
  call.op = "references" =>
    UnsatisfiedOutgoingReferences(TableReferences, call.entities) = Dangling(call.entities)

\* Everything reported unreachable is what no root reaches, directly or
\* through others, where a root multicast group counts as reaching nothing.
UnreachableAreGarbage ==
  call.op = "collect" =>
    LET result == GetEntitiesUnreachableFromRoots(TableReferences, call.entities, call.roots)
        garbage == call.entities \ call.roots
        closed(T) == \A e \in T, d \in garbage : RefersTo(e, d) => d \in T
        roots == {e \in call.roots : e.table # MulticastTable}
        reachable == {T \in SUBSET (garbage \cup roots) : roots \subseteq T /\ closed(T)}
    IN result.ok => result.value = {e \in garbage : \E T \in reachable : e \notin T}

\* What references.cc and the search of sequencing.cc say of a set of entities
\* is what its references mean: which dangle, and which no root needs.
ReferencesAreExact == UnsatisfiedAreDangling /\ UnreachableAreGarbage

\* What keeps a reference o of e unmet until all is sent: a MODIFY of e, still
\* to come, drops it, or what it named is deleted and what it will name still
\* to be inserted.  No edge orders such a MODIFY before the DELETE of what it
\* lets go, or an INSERT before the DELETE it makes up for.
IsExcused(e, o, done, all) ==
  \/ \E u \in all \ done : u.type = "MODIFY" /\ EntityKey(u.entity) = EntityKey(e)
  \/ \E u \in done, v \in all \ done : /\ u.type = "DELETE" /\ Satisfies(o, u.entity)
                                      /\ v.type = "INSERT" /\ Satisfies(o, v.entity)

\* Updates of tables are always put in order, each is sent once, and sent
\* request by request as SequencePiUpdatesIntoWriteRequests says, those of one
\* request in any order, they leave no reference unmet on the way but for the
\* excused.
SequencedUpdatesNeverDangle ==
  call.op = "sequence" =>
    LET result == SequencePiUpdatesIntoWriteRequests(Info, call.updates, call.max)
        sent(k) == UNION {Range(result.requests[j]) : j \in 1..k}
        all == Range(call.updates)
    IN /\ result.ok <=> call.max > 0 /\ \A u \in all : u.entity.table # MulticastTable
       /\ result.ok =>
            /\ sent(Len(result.requests)) = all
            /\ \A k \in DOMAIN result.requests :
                 /\ Len(result.requests[k]) \in 1..call.max
                 /\ Range(result.requests[k]) \cap sent(k - 1) = {}
                 /\ \A part \in SUBSET Range(result.requests[k]) :
                      LET done == sent(k - 1) \cup part
                          switch == AppliedTo(call.held, done)
                      IN \A e \in switch : \A o \in Unmet(switch, e) : IsExcused(e, o, done, all)

\* Entities inserted in the order of StableSortEntities, and deleted in any
\* order that StableSortUpdates may reverse it to, never leave a reference
\* dangling.
SortedUpdatesNeverDangle ==
  call.op = "sort" =>
    LET s == StableSortEntities(Ranks, SetToSeq(call.entities))
        deletes == StableSortUpdates(Ranks, [j \in DOMAIN s |-> [type |-> "DELETE", entity |-> s[j]]], TRUE)
    IN /\ Range(s) = call.entities /\ Len(s) = Cardinality(call.entities)
       /\ \A k \in DOMAIN s : Dangling({s[j] : j \in 1..k}) = {}
       /\ deletes # {}
       /\ \A d \in deletes : \A k \in DOMAIN d : Dangling({d[j].entity : j \in k..Len(d)}) = {}

\* Both of sequencing.cc's orders, by dependency and by rank, keep references
\* from dangling at every point on the way.
UpdatesNeverDangle == SequencedUpdatesNeverDangle /\ SortedUpdatesNeverDangle
=============================================================================
