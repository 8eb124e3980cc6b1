---------------------------- MODULE SwitchState ----------------------------
(***************************************************************************)
(* p4_fuzzer/switch_state and oracle_util: what the fuzzer believes is on  *)
(* the switch, and whether the switch's answers fit it.                    *)
(*                                                                         *)
(* An entity is [table, priority, matches, type, actions, metadata]:       *)
(*   matches a function from the fields it has to [type, value, mask,      *)
(*   prefix_len], type "none", "action" or "set", and actions the sequence *)
(*   of its action, the members of its set or a multicast group's replicas,*)
(*   each [name, params, weight].                                          *)
(* A value is written canonically, v, or with zeros in front, v + kPadded. *)
(* A program, info, is that of References with, for a table,               *)
(*   size, uses_oneshot, profile ([sum_of_members, max_member_weight,      *)
(*   max_group_size, size] or NoProfile), unsupported, for a field also    *)
(*   type, named_type and bitwidth (0: a string), params : action -> param *)
(*   -> [named_type, bitwidth], unsupported_actions, and the properties of *)
(*   the platform total_replicas, multicast_size, max_replicas.            *)
(***************************************************************************)
EXTENDS References, StatusOr

kPadded == 100
CanonicalValue(v) == v % kPadded

NoProfile == [size |-> -1]
HasProfile(table) == table.profile # NoProfile

IsMulticast(e) == e.table = MulticastTable
P4Tables(info) == DOMAIN info.tables \ {MulticastTable}

-----------------------------------------------------------------------------
(* The PI -> IR -> PI round trip that makes an entity canonical.           *)

ValueFits(d, v) == v >= 0 /\ (d.bitwidth = 0 \/ CanonicalValue(v) < 2^d.bitwidth)

MatchIsWellFormed(d, m) ==
  /\ ~d.unsupported /\ m.type = d.type /\ ValueFits(d, m.value)
  /\ m.type = "TERNARY" => m.mask > 0 /\ \A k \in 0..(d.bitwidth - 1) :
                             (m.value \div 2^k) % 2 = 1 => (m.mask \div 2^k) % 2 = 1
  /\ m.type = "LPM" => m.prefix_len \in 1..d.bitwidth /\ m.value % 2^(d.bitwidth - m.prefix_len) = 0

\* `duplicate` is a field the entity matches twice, "" for none.
EntityKeyIsWellFormed(info, e) ==
  LET table == info.tables[e.table]
      needed == {f \in DOMAIN table.fields : table.fields[f].type = "EXACT"}
  IN /\ ~table.unsupported /\ e.duplicate = ""
     /\ needed \subseteq DOMAIN e.matches /\ DOMAIN e.matches \subseteq DOMAIN table.fields
     /\ \A f \in DOMAIN e.matches : MatchIsWellFormed(table.fields[f], e.matches[f])
     /\ (e.priority > 0) = \E f \in DOMAIN table.fields : table.fields[f].type \in {"OPTIONAL", "TERNARY"}

MemberIsWellFormed(info, table, a) ==
  /\ a.name \in table.actions \ info.unsupported_actions
  /\ DOMAIN a.params = DOMAIN info.params[a.name]
  /\ \A p \in DOMAIN a.params : ValueFits(info.params[a.name][p], a.params[p])

EntityDataIsWellFormed(info, e) ==
  LET table == info.tables[e.table]
  IN /\ e.type = (IF table.uses_oneshot THEN "set" ELSE "action")
     /\ \A j \in DOMAIN e.actions : /\ MemberIsWellFormed(info, table, e.actions[j])
                                    /\ e.type = "set" => e.actions[j].weight > 0

ReplicasAreDistinct(e) ==
  e.actions = <<>> \/ \A j, k \in DOMAIN e.actions : j # k => e.actions[j].params # e.actions[k].params

CanonicalForm(e, key_only) ==
  [e EXCEPT !.matches = [f \in DOMAIN @ |-> [@[f] EXCEPT !.value = CanonicalValue(@)]],
            !.type = IF key_only THEN "none" ELSE @,
            !.metadata = IF key_only THEN 0 ELSE @,
            !.actions = IF key_only THEN <<>>
                        ELSE [j \in DOMAIN @ |->
                                [@[j] EXCEPT !.params = [p \in DOMAIN @ |-> CanonicalValue(@[p])]]]]

CanonicalizeTableEntry(info, e, key_only) ==
  OkIf(e.table \in P4Tables(info) /\ EntityKeyIsWellFormed(info, e) /\ (key_only \/ EntityDataIsWellFormed(info, e)),
       CanonicalForm(e, key_only))

CanonicalizeEntity(info, e, key_only) ==
  IF IsMulticast(e) THEN OkIf(key_only \/ ReplicasAreDistinct(e), CanonicalForm(e, key_only))
  ELSE CanonicalizeTableEntry(info, e, key_only)

-----------------------------------------------------------------------------
(* The state: every table twice, what it uses now and has used at most.    *)

NoStatistics == [entries |-> 0, total_members |-> 0, total_weight |-> 0]
NoPeak == [entries |-> 0, total_members |-> 0, max_members_per_group |-> 0,
           total_weight |-> 0, max_group_weight |-> 0]
EmptyTable == [k \in {} |-> k]

Cleared(info, s) ==
  [s EXCEPT !.ordered = [t \in P4Tables(info) |-> EmptyTable],
            !.unordered = [t \in P4Tables(info) |-> EmptyTable],
            !.statistics = [t \in P4Tables(info) |-> NoStatistics],
            !.ordered_multicast = EmptyTable, !.unordered_multicast = EmptyTable,
            !.current_entries = 0, !.multicast_statistics = NoStatistics]

ClearTableEntries(info, s) == Cleared(info, s)

NewSwitchState(info) ==
  Cleared(info, [ordered |-> EmptyTable, unordered |-> EmptyTable, statistics |-> EmptyTable, current_entries |-> 0,
                 peak |-> [t \in P4Tables(info) |-> NoPeak], peak_entries_seen |-> 0,
                 ordered_multicast |-> EmptyTable, unordered_multicast |-> EmptyTable,
                 multicast_statistics |-> NoStatistics, multicast_peak |-> NoPeak])

IsTableEmpty(s, t) == s.ordered[t] = EmptyTable
AllP4TablesEmpty(info, s) == \A t \in P4Tables(info) : IsTableEmpty(s, t)
GetNumTableEntries(s, t) == s.statistics[t].entries
CanAccommodateInserts(info, s, t, n) == info.tables[t].size - GetNumTableEntries(s, t) >= n
IsTableFull(info, s, t) == ~CanAccommodateInserts(info, s, t, 1)

\* The entity with this key, as a set of at most one: canonical or not.
FindEntity(table, key) == IF key \in DOMAIN table THEN {table[key]} ELSE {}

GetTableEntry(info, s, e) ==
  LET canonical == CanonicalizeTableEntry(info, e, TRUE)
      found == FindEntity(s.unordered[e.table], EntityKey(e))
  IN IF found # {} \/ ~canonical.ok THEN found ELSE FindEntity(s.unordered[e.table], EntityKey(canonical.value))

\* A multicast group id is a number: there is only one way to write it.
GetMulticastGroupEntry(s, e) == FindEntity(s.unordered_multicast, EntityKey(e))

GetEntity(info, s, e) == IF IsMulticast(e) THEN GetMulticastGroupEntry(s, e) ELSE GetTableEntry(info, s, e)

-----------------------------------------------------------------------------
(* Action profiles: a profile is limited in members or in weight.          *)

GetAllActionProfileResourceForTableEntry(e) ==
  IF e.type # "set" THEN [actions |-> 0, total_weight |-> 0]
  ELSE [actions |-> Len(e.actions),
        total_weight |-> FoldLeft(LAMBDA sum, a : sum + a.weight, 0, e.actions)]

GetAllActionProfileResourceForTable(table) ==
  LET Of(k) == GetAllActionProfileResourceForTableEntry(table[k])
  IN [actions |-> MapThenSumSet(LAMBDA k : Of(k).actions, DOMAIN table),
      total_weight |-> MapThenSumSet(LAMBDA k : Of(k).total_weight, DOMAIN table)]

ReasonActionProfileCanAccommodateTableEntry(profile, table, update) ==
  LET e == update.entity
      key == EntityKey(e)
      removed == IF update.type = "MODIFY" THEN GetAllActionProfileResourceForTableEntry(table[key])
                 ELSE [actions |-> 0, total_weight |-> 0]
      needed == GetAllActionProfileResourceForTableEntry(e)
      current == GetAllActionProfileResourceForTable(table)
      Use(r) == IF profile.sum_of_members THEN r.actions ELSE r.total_weight
  IN CASE update.type = "DELETE" -> "OK"
       [] update.type = "MODIFY" /\ key \notin DOMAIN table -> "INVALID_ARGUMENT"
       [] e.type = "set" /\ \E j \in DOMAIN e.actions :
            \/ e.actions[j].weight <= 0
            \/ /\ profile.sum_of_members /\ profile.max_member_weight # 0
               /\ e.actions[j].weight > profile.max_member_weight -> "INVALID_ARGUMENT"
       [] profile.max_group_size # 0 /\ Use(needed) > profile.max_group_size -> "INVALID_ARGUMENT"
       [] OTHER -> IF Use(current) + Use(needed) - Use(removed) <= profile.size
                   THEN "OK" ELSE "RESOURCE_EXHAUSTED"

TableExhaustionIsAllowed(info, s, update) ==
  LET table == info.tables[update.entity.table]
      entries == s.unordered[update.entity.table]
  IN \/ update.type = "INSERT" /\ Cardinality(DOMAIN entries) + 1 > table.size
     \/ /\ HasProfile(table)
        /\ ReasonActionProfileCanAccommodateTableEntry(table.profile, entries, update) = "RESOURCE_EXHAUSTED"

MulticastExhaustionIsAllowed(info, s, update) ==
  LET existing == GetMulticastGroupEntry(s, update.entity)
      replicas == Len(update.entity.actions)
      removed == IF update.type # "MODIFY" \/ existing = {} THEN [entries |-> 0, replicas |-> 0]
                 ELSE [entries |-> 1, replicas |-> Len((CHOOSE e \in existing : TRUE).actions)]
  IN /\ update.type = "MODIFY" => existing # {}
     /\ \/ s.multicast_statistics.total_members + replicas - removed.replicas > info.total_replicas
        \/ s.multicast_statistics.entries + 1 - removed.entries > info.multicast_size
        \/ replicas > info.max_replicas

\* Whether the switch may answer RESOURCE_EXHAUSTED.
ResourceExhaustedIsAllowed(info, s, update) ==
  /\ update.type # "DELETE"
  /\ IF IsMulticast(update.entity) THEN MulticastExhaustionIsAllowed(info, s, update)
     ELSE TableExhaustionIsAllowed(info, s, update)

-----------------------------------------------------------------------------
(* Applying an update: first the statistics, then the tables.              *)

LargerOf(a, b) == IF a > b THEN a ELSE b

\* The statistics of a table after n entries more (or -1) with resources r.
Counted(now, n, r) ==
  [now EXCEPT !.entries = @ + n, !.total_members = @ + n * r.actions, !.total_weight = @ + n * r.total_weight]

Peaked(peak, now, r) ==
  [entries |-> LargerOf(peak.entries, now.entries),
   total_members |-> LargerOf(peak.total_members, now.total_members),
   max_members_per_group |-> LargerOf(peak.max_members_per_group, r.actions),
   total_weight |-> LargerOf(peak.total_weight, now.total_weight),
   max_group_weight |-> LargerOf(peak.max_group_weight, r.total_weight)]

CountEntry(s, t, n, r) ==
  LET now == Counted(s.statistics[t], n, r)
  IN [s EXCEPT !.current_entries = @ + n, !.statistics[t] = now,
               !.peak_entries_seen = LargerOf(@, s.current_entries + n),
               !.peak[t] = Peaked(@, now, r)]

\* Only a table of one-shot action sets counts members and weights, and only
\* it looks for the entry that a DELETE removes.
UpdateResourceStatistics(info, s, e, type) ==
  LET oneshot == info.tables[e.table].uses_oneshot
      stored == FindEntity(s.unordered[e.table], EntityKey(e))
      Of(f) == IF oneshot THEN GetAllActionProfileResourceForTableEntry(f)
               ELSE [actions |-> 0, total_weight |-> 0]
      old == CHOOSE f \in stored : TRUE
  IN CASE type = "INSERT" -> Ok(CountEntry(s, e.table, 1, Of(e)))
       [] type = "DELETE" /\ oneshot -> OkIf(stored # {}, CountEntry(s, e.table, -1, Of(old)))
       [] type = "DELETE" /\ ~oneshot -> Ok(CountEntry(s, e.table, -1, Of(e)))
       [] type = "MODIFY" ->
            OkIf(stored # {}, CountEntry(CountEntry(s, e.table, -1, Of(old)), e.table, 1, Of(e)))

CountGroup(s, n, replicas, largest) ==
  LET now == Counted(s.multicast_statistics, n, [actions |-> replicas, total_weight |-> 0])
  IN [s EXCEPT !.current_entries = @ + n, !.multicast_statistics = now,
               !.peak_entries_seen = LargerOf(@, s.current_entries + n),
               !.multicast_peak = Peaked(@, now, [actions |-> largest, total_weight |-> 0])]

\* Mutation: what a DELETE removes is counted from the update.
GroupCountedByUpdate(s, e, type) ==
  LET stored == GetMulticastGroupEntry(s, e)
      old == Len((CHOOSE f \in stored : TRUE).actions)
      new == Len(e.actions)
  IN CASE type = "INSERT" -> Ok(CountGroup(s, 1, new, new))
       [] type = "DELETE" -> OkIf(stored # {}, CountGroup(s, -1, new, new))
       [] type = "MODIFY" -> OkIf(stored # {}, CountGroup(CountGroup(s, -1, old, old), 1, new, new))

UpdateMulticastResourceStatistics(s, e, type) ==
  LET stored == GetMulticastGroupEntry(s, e)
      old == Len((CHOOSE f \in stored : TRUE).actions)
      new == Len(e.actions)
  IN CASE type = "INSERT" -> Ok(CountGroup(s, 1, new, new))
       [] type = "DELETE" -> OkIf(stored # {}, CountGroup(s, -1, old, new))
       [] type = "MODIFY" -> OkIf(stored # {}, CountGroup(CountGroup(s, -1, old, old), 1, new, new))

\* insert, erase and insert_or_assign on one of the two copies of a table.
WithUpdate(table, e, type) ==
  LET key == EntityKey(e)
  IN CASE type = "INSERT" -> IF key \in DOMAIN table THEN table ELSE table @@ (key :> e)
       [] type = "DELETE" -> Restrict(table, DOMAIN table \ {key})
       [] type = "MODIFY" -> [k \in DOMAIN table \cup {key} |-> IF k = key THEN e ELSE table[k]]

\* An INSERT needs a key that is new, the others one that is there.
KeyFits(table, e, type) == (EntityKey(e) \in DOMAIN table) = (type # "INSERT")

Outcome(state, ok) == [state |-> state, ok |-> ok]

ApplyMulticastUpdate(info, s, update) ==
  LET canonical == CanonicalizeEntity(info, update.entity, update.type = "DELETE")
      e == canonical.value
      counted == UpdateMulticastResourceStatistics(s, e, update.type)
  IN IF ~canonical.ok \/ ~counted.ok THEN Outcome(s, FALSE)
     ELSE Outcome([counted.value EXCEPT !.ordered_multicast = WithUpdate(@, e, update.type),
                                        !.unordered_multicast = WithUpdate(@, e, update.type)],
                  KeyFits(s.ordered_multicast, e, update.type))

ApplyTableUpdate(info, s, update) ==
  LET canonical == CanonicalizeTableEntry(info, update.entity, update.type = "DELETE")
      e == canonical.value
      counted == UpdateResourceStatistics(info, s, e, update.type)
  IN IF ~canonical.ok \/ ~counted.ok THEN Outcome(s, FALSE)
     ELSE Outcome([counted.value EXCEPT !.ordered[e.table] = WithUpdate(@, e, update.type),
                                        !.unordered[e.table] = WithUpdate(@, e, update.type)],
                  KeyFits(s.ordered[e.table], e, update.type))

\* After an error the statistics are no longer those of the tables.
ApplyUpdate(info, s, update) ==
  IF IsMulticast(update.entity) THEN ApplyMulticastUpdate(info, s, update) ELSE ApplyTableUpdate(info, s, update)

\* Stops at the first entity that cannot be inserted.
SetEntities(info, s, entities) ==
  FoldLeft(LAMBDA o, e : IF o.ok THEN ApplyUpdate(info, o.state, [type |-> "INSERT", entity |-> e]) ELSE o,
           Outcome(ClearTableEntries(info, s), TRUE), entities)

-----------------------------------------------------------------------------
(* Comparisons, of the two copies and with what a read of the switch gave. *)

\* The actions of a set are in no order.
SameEntry(e, f) ==
  [e EXCEPT !.actions = <<>>] = [f EXCEPT !.actions = <<>>] /\ ToBag(e.actions) = ToBag(f.actions)

CopiesAgree(info, s, t) ==
  /\ Cardinality(DOMAIN s.ordered[t]) = Cardinality(DOMAIN s.unordered[t])
  /\ \A e \in Range(s.ordered[t]) : GetTableEntry(info, s, e) = {e}

CheckConsistency(info, s) ==
  /\ DOMAIN s.ordered = DOMAIN s.unordered
  /\ \A t \in DOMAIN s.ordered : CopiesAgree(info, s, t)
  /\ Cardinality(DOMAIN s.ordered_multicast) = Cardinality(DOMAIN s.unordered_multicast)
  /\ \A e \in Range(s.ordered_multicast) : GetMulticastGroupEntry(s, e) = {e}

\* The entities left when those of the switch are taken out by their keys as
\* the switch wrote them.
LeftOver(info, s, entries) ==
  UNION {{s.unordered[t][k] : k \in DOMAIN s.unordered[t] \ {EntityKey(e) : e \in Range(entries)}} :
           t \in DOMAIN s.unordered}

\* What is wrong with what the switch has, or Err when it cannot be read.
\* The entities of the tables known_bug may differ in all but their keys.
AssertEntriesAreEqualToState(info, s, entries, known_bug) ==
  LET canonical == AllOk([j \in DOMAIN entries |-> CanonicalizeTableEntry(info, entries[j], FALSE)])
      read == canonical.value
      Known(e) == GetTableEntry(info, s, e)
      extra == {j \in DOMAIN read : Known(read[j]) = {}}
      different == {j \in DOMAIN read \ extra : /\ read[j].table \notin known_bug
                                                /\ \A e \in Known(read[j]) : ~SameEntry(e, read[j])}
      miscounted == Len(entries) # s.current_entries - s.multicast_statistics.entries
      missing == IF Len(entries) # s.current_entries \/ extra # {} THEN LeftOver(info, s, entries) ELSE {}
  IN IF ~canonical.ok THEN Err
     ELSE Ok({x \in {"count", "only on switch", "different", "only in fuzzer"} :
                CASE x = "count" -> miscounted
                  [] x = "only on switch" -> extra # {}
                  [] x = "different" -> different # {}
                  [] x = "only in fuzzer" -> missing # {}})

-----------------------------------------------------------------------------
(* The oracle.  A MODIFY is beyond it: it gives up the process.            *)

IsWellformedUpdate(info, update) == CanonicalizeTableEntry(info, update.entity, FALSE).ok

UpdateOracle(info, update, code, s) ==
  LET exists == GetTableEntry(info, s, update.entity) # {}
  IN IF ~IsWellformedUpdate(info, update) THEN code = "INVALID_ARGUMENT"
     ELSE CASE update.type = "DELETE" -> code = (IF exists THEN "OK" ELSE "NOT_FOUND")
            [] update.type = "INSERT" ->
                 \/ exists /\ code = "ALREADY_EXISTS"
                 \/ ~exists /\ code = "OK"
                 \/ ~exists /\ code = "RESOURCE_EXHAUSTED" /\ IsTableFull(info, s, update.entity.table)

\* `updates` is a sequence of [update, code]; those with OK are applied.
SequenceOfUpdatesOracle(info, updates, s) ==
  FoldLeft(LAMBDA o, u :
             LET applied == ApplyUpdate(info, o.state, u.update)
                 right == o.ok /\ UpdateOracle(info, u.update, u.code, o.state)
             IN IF u.code = "OK" THEN Outcome(applied.state, right /\ applied.ok) ELSE Outcome(o.state, right),
           Outcome(s, TRUE), updates).ok

\* The updates of one key may have been done in any order.
SomeOrderIsLegal(info, updates, indices, s) ==
  \E order \in SetToSeqs(indices) : SequenceOfUpdatesOracle(info, [j \in DOMAIN order |-> updates[order[j]]], s)

\* The problems: keys whose updates have no legal order, and updates refused
\* for want of room in a table that had room for all that were inserted.
WriteRequestOracle(info, updates, s) ==
  LET Key(j) == EntityKey(updates[j].update.entity)
      judged == {j \in DOMAIN updates : updates[j].code # "RESOURCE_EXHAUSTED"}
      keys == {Key(j) : j \in judged}
      Inserts(t) == {j \in judged : /\ updates[j].code = "OK" /\ updates[j].update.type = "INSERT"
                                    /\ updates[j].update.entity.table = t}
  IN [flows |-> {k \in keys : ~SomeOrderIsLegal(info, updates, {j \in judged : Key(j) = k}, s)},
      refusals |-> {j \in DOMAIN updates \ judged :
                      LET t == updates[j].update.entity.table
                      IN CanAccommodateInserts(info, s, t, Cardinality(Inserts(t)) + 1)}]
=============================================================================
