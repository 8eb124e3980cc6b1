------------------------------ MODULE FuzzUtil ------------------------------
(***************************************************************************)
(* p4_fuzzer: the updates the fuzzer makes up (fuzz_util, constraints,     *)
(* fuzzer_config, annotation_util) and how it spoils them (mutation).  An  *)
(* operator that draws random numbers gives the set of what it may return; *)
(* a function that tries again has the outcomes of its last try.           *)
(*                                                                         *)
(* A config is [info, role, ports, qos_queues, disabled, non_modifiable,   *)
(* strict, buggy, ignore_constraints : sets, no_empty_groups], info that   *)
(* of SwitchState with, for a table, role, deprecated and constraint, a    *)
(* function from the fields it is about to the values it allows (or        *)
(* NoConstraint).  A disabled match field is <<table, field>>.             *)
(***************************************************************************)
EXTENDS SwitchState

\* What is drawn from large sets: strings, addresses, priorities, ids.
kRandomIds == {7, 8}
kNeighborIds == {9}
kUnicastQueue == 6
kMulticastQueue == 10
kPriorities == {1, 2}
kGroupIds == {1, 2}
kInstances == {0, 1}
kNoSuch == "no_such_name"

NoConstraint == [f \in {} |-> {}]

kActionProfileActionSetMaxCardinality == 32
kActionProfileMaxMemberWeight == 4095

\* Every way to pick one value for each x in S.
Choose(S, values) == {f \in [S -> UNION {values[x] : x \in S}] : \A x \in S : f[x] \in values[x]}

-----------------------------------------------------------------------------
(* Byte strings, most significant byte first.                              *)

kBitsInByte == 8
DivideRoundedUp(n, d) == IF n = 0 \/ d = 0 THEN 0 ELSE ((n - 1) \div d) + 1

SetUnusedBitsToZero(used_bits, data) ==
  LET unused_bytes == Len(data) - DivideRoundedUp(used_bits, kBitsInByte)
      overhanging_bits == used_bits % kBitsInByte
  IN [j \in DOMAIN data |->
        CASE j <= unused_bytes -> 0
          [] j = unused_bytes + 1 /\ overhanging_bits # 0 -> data[j] % 2^overhanging_bits
          [] OTHER -> data[j]]

ZeroNLeastSignificantBits(zero_bits, data) ==
  LET used_bits == Len(data) * kBitsInByte - zero_bits
      fully_used_bytes == used_bits \div kBitsInByte
      low == 2^(kBitsInByte - (used_bits % kBitsInByte))
  IN [j \in DOMAIN data |->
        CASE j <= fully_used_bytes -> data[j]
          [] j = fully_used_bytes + 1 /\ used_bits % kBitsInByte # 0 -> data[j] - (data[j] % low)
          [] OTHER -> 0]

BigEndian(v, length) == [j \in 1..length |-> (v \div 2^(kBitsInByte * (length - j))) % 2^kBitsInByte]
NumberOf(data) == FoldLeft(LAMBDA n, b : n * 2^kBitsInByte + b, 0, data)

\* As numbers: any byte string of `bytes`, its unused bits set to zero.
FuzzBits(bits) ==
  LET bytes == DivideRoundedUp(bits, kBitsInByte)
  IN {NumberOf(SetUnusedBitsToZero(bits, BigEndian(v, bytes))) : v \in 0..(2^(kBitsInByte * bytes) - 1)}

FuzzNonZeroBits(bits) == FuzzBits(bits) \ {0}

-----------------------------------------------------------------------------
(* The config, and what of the program may be fuzzed.                      *)

\* A reference to a router interface counts only from the neighbor table:
\* the other tables have it through the neighbor they refer to as well.
IsMasked(reference) ==
  reference.destination = "router_interface_table" /\ reference.source # "neighbor_table"

\* `references` in the order in which they are in the table's definition.
CheckReferenceAssumptions(references) ==
  /\ \A j \in DOMAIN references :
       /\ \/ \A f \in references[j].fields : f.action = ""
          \/ \A f \in references[j].fields : f.action # ""
       /\ \A f \in references[j].fields :
            ~IsMasked(references[j]) =>
              ~\E k \in 1..(j - 1) : \E g \in references[k].fields : <<g.action, g.source>> = <<f.action, f.source>>

HasP4RuntimeTranslatedType(d) == d.named_type # "" /\ d.bitwidth = 0

CheckConstraintAssumptions(config) ==
  \A t \in P4Tables(config.info) \ config.ignore_constraints :
    LET table == config.info.tables[t]
    IN table.constraint # NoConstraint =>
         \A f \in DOMAIN table.fields \cap DOMAIN table.constraint :
           ~(HasP4RuntimeTranslatedType(table.fields[f]) /\ table.fields[f].type = "EXACT")

OutgoingReferences(info, t) == GetOutgoingTableReferences(ParseIrTableReferences(info), t)

\* FuzzerConfig::Create, the references of a table in some order.
SetP4Info(config) ==
  /\ CheckConstraintAssumptions(config)
  /\ \A t \in DOMAIN config.info.tables :
       \E order \in SetToSeqs(OutgoingReferences(config.info, t)) : CheckReferenceAssumptions(order)

IsDisabledForFuzzing(config, name) == name \in config.disabled
IsModifiableTable(config, t) == t \notin config.non_modifiable

AllValidTablesForP4RtRole(config) ==
  {t \in P4Tables(config.info) :
     LET table == config.info.tables[t]
     IN /\ table.role = config.role /\ table.actions # {}
        /\ ~table.deprecated /\ ~table.unsupported /\ ~IsDisabledForFuzzing(config, t)}

AllValidActions(config, t) ==
  {a \in config.info.tables[t].actions :
     a \notin config.info.unsupported_actions /\ ~IsDisabledForFuzzing(config, a)}

IsFieldDisabled(config, t, f) == <<t, f>> \in config.disabled_fields

AllValidMatchFields(config, t) ==
  {f \in DOMAIN config.info.tables[t].fields :
     ~config.info.tables[t].fields[f].unsupported /\ ~IsFieldDisabled(config, t, f)}

UsesP4Constraints(config, t) ==
  config.info.tables[t].constraint # NoConstraint /\ t \notin config.ignore_constraints

-----------------------------------------------------------------------------
(* Values that refer to something: taken from an entity on the switch.     *)

\* An entity as References has it: its matches are just their values.
MatchValues(e) == [e EXCEPT !.matches = [f \in DOMAIN @ |-> @[f].value]]

MatchReferenceInfo(references) ==
  {r \in {[q EXCEPT !.fields = {f \in @ : f.action = ""}] : q \in references} : r.fields # {}}

ActionReferenceInfo(references, action) ==
  {r \in {[q EXCEPT !.fields = {f \in @ : f.action = action}] : q \in references} : r.fields # {}}

Installed(s, t) == IF t = MulticastTable THEN Range(s.ordered_multicast) ELSE Range(s.ordered[t])

\* From <<action, field>> to the value it takes; every referenced table must
\* have an entry, and no field is in two references (SetP4Info).
CreateReferenceMapping(s, references) ==
  LET used == {r \in references : ~IsMasked(r)}
      Values(r, e) ==
        UNION {c.fields : c \in PossibleIncomingConcreteTableReferences(r, MatchValues(e))}
      Map(choice) == LET all == UNION {Values(r, choice[r]) : r \in used}
                     IN [x \in {f.source : f \in all} |-> (CHOOSE f \in all : f.source = x).value]
  IN IF \E r \in used : Installed(s, r.destination) = {} THEN {Err}
     ELSE {Ok(Map(choice)) : choice \in Choose(used, [r \in used |-> Installed(s, r.destination)])}

\* An optional field is written as an exact one.
MatchFieldReferenceOverride(config, s, e) ==
  LET Override(map) ==
        [e EXCEPT !.matches = [f \in DOMAIN @ |->
           IF <<"", f>> \in DOMAIN map THEN [@[f] EXCEPT !.type = "EXACT", !.value = map[<<"", f>>]] ELSE @[f]]]
      Supports(map) == \A f \in DOMAIN e.matches : <<"", f>> \in DOMAIN map =>
                         config.info.tables[e.table].fields[f].type \in {"EXACT", "OPTIONAL"}
  IN {IF m.ok /\ Supports(m.value) THEN Ok(Override(m.value)) ELSE Err :
        m \in CreateReferenceMapping(s, MatchReferenceInfo(OutgoingReferences(config.info, e.table)))}

ActionParamReferenceOverride(config, s, t, a) ==
  LET Override(map) ==
        [a EXCEPT !.params = [p \in DOMAIN @ |->
           IF <<a.name, p>> \in DOMAIN map THEN map[<<a.name, p>>] ELSE @[p]]]
  IN {IF m.ok THEN Ok(Override(m.value)) ELSE Err :
        m \in CreateReferenceMapping(s, ActionReferenceInfo(OutgoingReferences(config.info, t), a.name))}

\* Mutation: what the actions refer to is left to chance.
OverridesMatchesOnly(config, s, e) == MatchFieldReferenceOverride(config, s, e)

ReferenceOverride(config, s, e) ==
  LET choices == Choose(DOMAIN e.actions,
                        [j \in DOMAIN e.actions |-> ActionParamReferenceOverride(config, s, e.table, e.actions[j])])
      With(m, actions) == IF m.ok /\ actions.ok THEN Ok([m.value EXCEPT !.actions = actions.value]) ELSE Err
  IN {With(m, AllOk(c)) : m \in MatchFieldReferenceOverride(config, s, e), c \in choices}

-----------------------------------------------------------------------------
(* Values, match fields and actions.                                       *)

IsPort(d, references) == d.named_type = "port_id_t"
IsUnknownQosOrCpuQueue(d, references) == d.named_type \in {"qos_queue_t", "cpu_queue_t"}
IsNeighbor(d, references) == d.named_type = "neighbor_id_t"
IsReferring(d, references) == references # {}

FuzzValue(config, d) ==
  CASE IsPort(d, {}) -> config.ports
    [] IsUnknownQosOrCpuQueue(d, {}) -> config.qos_queues
    [] d.named_type = "unicast_queue_t" -> {kUnicastQueue}
    [] d.named_type = "multicast_queue_t" -> {kMulticastQueue}
    [] IsNeighbor(d, {}) -> kNeighborIds
    [] OTHER -> IF d.bitwidth = 0 THEN kRandomIds ELSE FuzzBits(d.bitwidth)

FieldMatch(type, value, mask, prefix_len) ==
  [type |-> type, value |-> value, mask |-> mask, prefix_len |-> prefix_len]

Intersects(value, mask, k) == (value \div 2^k) % 2 = 1 /\ (mask \div 2^k) % 2 = 1

FuzzTernaryFieldMatch(bits) ==
  LET And(value, mask) == MapThenSumSet(LAMBDA k : IF Intersects(value, mask, k) THEN 2^k ELSE 0, 0..(bits - 1))
  IN {FieldMatch("TERNARY", And(value, mask), mask, 0) : value \in FuzzBits(bits), mask \in FuzzNonZeroBits(bits)}

\* Never /0: that is a wildcard.
FuzzLpmFieldMatch(bits) ==
  LET bytes == DivideRoundedUp(bits, kBitsInByte)
  IN {FieldMatch("LPM", NumberOf(ZeroNLeastSignificantBits(bits - n, BigEndian(value, bytes))), 0, n) :
        value \in FuzzBits(bits), n \in 1..bits}

FuzzFieldMatch(config, d) ==
  CASE d.type = "TERNARY" -> FuzzTernaryFieldMatch(d.bitwidth)
    [] d.type = "LPM" -> FuzzLpmFieldMatch(d.bitwidth)
    [] OTHER -> {FieldMatch(d.type, value, 0, 0) : value \in FuzzValue(config, d)}

FuzzActionOf(config, a) ==
  {[name |-> a, params |-> params, weight |-> 0] :
     params \in Choose(DOMAIN config.info.params[a],
                       [p \in DOMAIN config.info.params[a] |-> FuzzValue(config, config.info.params[a][p])])}

AnyAction(config, t) == UNION {FuzzActionOf(config, a) : a \in AllValidActions(config, t)}

\* Uniform over [1, max_weight), and 1 when that is empty.
WeightsBelow(max_weight) == IF max_weight <= 1 THEN {1} ELSE 1..(max_weight - 1)

FuzzActionProfileAction(config, t, weight) == {[a EXCEPT !.weight = weight] : a \in AnyAction(config, t)}

\* Every group of n members with weights that meet the condition.
Groups(config, t, weights) ==
  Choose(DOMAIN weights, [j \in DOMAIN weights |-> FuzzActionProfileAction(config, t, weights[j])])

SmallestGroup(config) == IF config.no_empty_groups THEN 1 ELSE 0

GroupsByMembers(config, t, profile) ==
  LET most == IF profile.max_group_size # 0 THEN profile.max_group_size ELSE kActionProfileActionSetMaxCardinality
      heaviest == IF profile.max_member_weight # 0 THEN profile.max_member_weight ELSE kActionProfileMaxMemberWeight
  IN UNION {UNION {Groups(config, t, weights) : weights \in [1..n -> WeightsBelow(heaviest)]} :
              n \in SmallestGroup(config)..most}

\* The weight there is for a group: its members get at least 1 each.
UnallocatedWeight(profile) ==
  LET most == IF profile.max_group_size = 0 THEN profile.size ELSE profile.max_group_size
  IN IF most < profile.size THEN most ELSE profile.size

GroupsByWeight(config, t, profile) ==
  LET all == UnallocatedWeight(profile)
      Before(weights, j) == SumFunctionOnSet(weights, 1..(j - 1))
      Skewed(n) == {w \in [1..n -> 1..all] :
                      \A j \in 1..n : w[j] \in WeightsBelow(all - Before(w, j) - (n - j))}
      most == IF all < kActionProfileActionSetMaxCardinality THEN all ELSE kActionProfileActionSetMaxCardinality
  IN UNION {UNION {Groups(config, t, weights) : weights \in Skewed(n)} : n \in SmallestGroup(config)..most}

FuzzActionProfileActionSet(config, t) ==
  LET table == config.info.tables[t]
  IN CASE ~HasProfile(table) -> {Err}
       [] HasProfile(table) /\ table.profile.sum_of_members ->
            {Ok(g) : g \in GroupsByMembers(config, t, table.profile)}
       [] OTHER -> IF UnallocatedWeight(table.profile) <= 0 THEN {Err}
                   ELSE {Ok(g) : g \in GroupsByWeight(config, t, table.profile)}

TableAction(type, actions) == [type |-> type, actions |-> actions]

FuzzAction(config, t) ==
  IF ~config.info.tables[t].uses_oneshot THEN {Ok(TableAction("action", <<a>>)) : a \in AnyAction(config, t)}
  ELSE {IF g.ok THEN Ok(TableAction("set", g.value)) ELSE Err : g \in FuzzActionProfileActionSet(config, t)}

-----------------------------------------------------------------------------
(* Entities.                                                               *)

IsOmittable(d) == d.type # "EXACT"

NeedsPriority(table) == \E f \in DOMAIN table.fields : table.fields[f].type \in {"OPTIONAL", "TERNARY"}

NewEntry(t, matches, action, priority, metadata) ==
  [table |-> t, priority |-> priority, matches |-> matches, duplicate |-> "",
   type |-> action.type, actions |-> action.actions, metadata |-> metadata]

\* The entries with these matches: any action, any priority.
EntriesWith(config, t, matches, metadata) ==
  {IF a.ok THEN Ok(NewEntry(t, matches, a.value, p, metadata)) ELSE Err :
     a \in FuzzAction(config, t), p \in IF NeedsPriority(config.info.tables[t]) THEN kPriorities ELSE {0}}

\* Matches on any of the omittable fields among `fields` and on all others.
MatchesOn(config, t, fields) ==
  LET defs == config.info.tables[t].fields
      omittable == {f \in fields : IsOmittable(defs[f])}
  IN UNION {Choose(fields \ omitted, [f \in fields \ omitted |-> FuzzFieldMatch(config, defs[f])]) :
              omitted \in SUBSET omittable}

FuzzValidUnconstrainedTableEntry(config, t) ==
  UNION {EntriesWith(config, t, m, 0) : m \in MatchesOn(config, t, AllValidMatchFields(config, t))}

\* The solver picks the constrained fields, but not those of translated
\* types; the rest is fuzzed, fields that are not supported as well.
FuzzValidConstrainedTableEntry(config, t, additional) ==
  LET table == config.info.tables[t]
      constraints == {table.constraint, additional} \ {NoConstraint}
      constrained == UNION {DOMAIN c : c \in constraints}
      skipped == {f \in DOMAIN table.fields : f \notin constrained \/ HasP4RuntimeTranslatedType(table.fields[f])}
      solved == constrained \ skipped
      Allowed(f) == {m \in UNION {c[f] : c \in {d \in constraints : f \in DOMAIN d}} :
                       \A c \in constraints : f \in DOMAIN c => m \in c[f]}
      Enabled(fields) == {f \in fields : ~IsFieldDisabled(config, t, f)}
      models == Choose(solved, [f \in solved |-> Allowed(f)])
  IN IF constraints = {} \/ models = {} THEN {Err}
     ELSE UNION {EntriesWith(config, t, Restrict(m, Enabled(solved)) @@ r, 1) :
                   m \in models, r \in MatchesOn(config, t, Enabled(skipped))}

FuzzValidTableEntry(config, s, t, additional) ==
  LET entries == IF additional # NoConstraint \/ UsesP4Constraints(config, t)
                 THEN FuzzValidConstrainedTableEntry(config, t, additional)
                 ELSE FuzzValidUnconstrainedTableEntry(config, t)
  IN UNION {IF e.ok THEN ReferenceOverride(config, s, e.value) ELSE {Err} : e \in entries}

FuzzReplica(config, s) ==
  LET Value(map, p, otherwise) ==
        IF <<Replica, p>> \in DOMAIN map THEN {map[<<Replica, p>>]} ELSE otherwise
      Replicas(map) ==
        {[name |-> Replica, params |-> [port |-> x, instance |-> i], weight |-> 0] :
           x \in Value(map, "port", config.ports), i \in Value(map, "instance", kInstances)}
  IN UNION {IF m.ok THEN {Ok(r) : r \in Replicas(m.value)} ELSE {Err} :
              m \in CreateReferenceMapping(s, OutgoingReferences(config.info, MulticastTable))}

kMaxReplicas == 2   \* the bound on the replicas of a group, 7 in the code

\* New replicas, every one once; none need be drawn.
FuzzReplicas(config, s, e) ==
  LET replicas == {r.value : r \in {q \in FuzzReplica(config, s) : q.ok}}
      lists == {l \in UNION {[1..n -> replicas] : n \in 0..kMaxReplicas} : IsInjective(l)}
  IN {Ok([e EXCEPT !.actions = l]) : l \in lists} \cup {r \in FuzzReplica(config, s) : ~r.ok}

\* A new action is not made to refer to what is there.
FuzzNonKeyFields(config, s, e) ==
  LET acted == {[e EXCEPT !.type = a.value.type, !.actions = a.value.actions] :
                  a \in {b \in FuzzAction(config, e.table) : b.ok}}
  IN IF IsMulticast(e) THEN FuzzReplicas(config, s, e)
     ELSE {Ok([f EXCEPT !.metadata = m]) : f \in {e} \cup acted, m \in {e.metadata, 0}}

FuzzValidMulticastGroupEntry(config, s) ==
  LET Group(id) ==
        NewEntry(MulticastTable, [multicast_group_id |-> FieldMatch("EXACT", id, 0, 0)], TableAction("action", <<>>), 0, 0)
  IN UNION {FuzzNonKeyFields(config, s, Group(id)) : id \in kGroupIds}

-----------------------------------------------------------------------------
(* Mutations.                                                              *)

Mutations ==
  {"INVALID_TABLE_ID", "INVALID_ACTION_ID", "INVALID_MATCH_FIELD_ID", "MISSING_MANDATORY_MATCH_FIELD",
   "DUPLICATE_MATCH_FIELD", "INVALID_TABLE_IMPLEMENTATION", "INVALID_ACTION_SELECTOR_WEIGHT",
   "DUPLICATE_INSERT", "NONEXISTING_DELETE", "NONEXISTING_MODIFY", "INVALID_PORT", "INVALID_QOS_QUEUE",
   "INVALID_NEIGHBOR_ID", "INVALID_REFERRING_ID", "DIFFERENT_ROLE"}

IsOfKind(mutation, d, references) ==
  CASE mutation = "INVALID_PORT" -> IsPort(d, references)
    [] mutation = "INVALID_QOS_QUEUE" -> IsUnknownQosOrCpuQueue(d, references)
    [] mutation = "INVALID_NEIGHBOR_ID" -> IsNeighbor(d, references)
    [] mutation = "INVALID_REFERRING_ID" -> IsReferring(d, references)

GetTableIdsWithValuePredicate(config, mutation) ==
  LET info == config.info
  IN {t \in AllValidTablesForP4RtRole(config) :
        \/ \E f \in DOMAIN info.tables[t].fields :
             IsOfKind(mutation, info.tables[t].fields[f], info.tables[t].fields[f].refers_to)
        \/ \E a \in info.tables[t].actions : \E p \in DOMAIN info.params[a] :
             IsOfKind(mutation, info.params[a][p], info.actions[a][p])}

MutationTableIds(config, mutation) ==
  LET valid == AllValidTablesForP4RtRole(config)
      tables == config.info.tables
  IN CASE mutation = "INVALID_ACTION_SELECTOR_WEIGHT" -> {t \in valid : tables[t].uses_oneshot}
       [] mutation = "MISSING_MANDATORY_MATCH_FIELD" ->
            {t \in valid : \E f \in DOMAIN tables[t].fields : tables[t].fields[f].type = "EXACT"}
       [] mutation \in {"INVALID_PORT", "INVALID_QOS_QUEUE", "INVALID_NEIGHBOR_ID", "INVALID_REFERRING_ID"} ->
            GetTableIdsWithValuePredicate(config, mutation)
       [] mutation = "DIFFERENT_ROLE" -> {t \in P4Tables(config.info) : tables[t].role # config.role}
       [] OTHER -> valid

WithoutMatch(e, f) == [e EXCEPT !.matches = Restrict(@, DOMAIN @ \ {f})]

MutateInvalidMatchFieldId(config, e) ==
  IF DOMAIN e.matches = {} \/ e.table \notin P4Tables(config.info) THEN {Err}
  ELSE {Ok([WithoutMatch(e, f) EXCEPT !.matches = @ @@ (kNoSuch :> e.matches[f])]) : f \in DOMAIN e.matches}

MutateMissingMandatoryMatchField(e) ==
  LET mandatory == {f \in DOMAIN e.matches : e.matches[f].type = "EXACT"}
  IN IF mandatory = {} THEN {Err} ELSE {Ok(WithoutMatch(e, f)) : f \in mandatory}

MutateDuplicateMatchField(e) ==
  IF DOMAIN e.matches = {} THEN {Err} ELSE {Ok([e EXCEPT !.duplicate = f]) : f \in DOMAIN e.matches}

\* One action of the entry; a set without actions is left as it is.
MutateInvalidActionId(e) ==
  IF e.actions = <<>> THEN {e} ELSE {[e EXCEPT !.actions[j].name = kNoSuch] : j \in DOMAIN e.actions}

MutateInvalidTableImplementation(config, e) ==
  LET With(type, actions) == [e EXCEPT !.type = type, !.actions = actions]
  IN CASE e.table \notin P4Tables(config.info) \/ e.type = "none" -> {Err}
       [] e.type = "set" -> {Ok(With("action", <<a>>)) : a \in AnyAction(config, e.table)}
       [] e.type = "action" -> {IF g.ok THEN Ok(With("set", g.value)) ELSE Err :
                                  g \in FuzzActionProfileActionSet(config, e.table)}

MutateInvalidActionSelectorWeight(config, e) ==
  CASE e.type # "set" -> {Err}
    [] e.actions = <<>> -> {Ok(e)}
    [] OTHER -> IF ~HasProfile(config.info.tables[e.table]) THEN {Err}
                ELSE {Ok([e EXCEPT !.actions[j].weight = w]) :
                        j \in DOMAIN e.actions, w \in {0, -1 * config.info.tables[e.table].profile.max_group_size}}

GenerateNonEmptyTableIds(config, s) == {t \in AllValidTablesForP4RtRole(config) : ~IsTableEmpty(s, t)}

MutateDuplicateInsert(config, s) ==
  IF AllP4TablesEmpty(config.info, s) THEN {Err}
  ELSE {Ok([type |-> "INSERT", entity |-> e]) :
          e \in UNION {Range(s.ordered[t]) : t \in GenerateNonEmptyTableIds(config, s)}}

MutateNonexistingModifyDelete(config, s, type) ==
  {IF e.ok /\ GetTableEntry(config.info, s, e.value) = {} THEN Ok([type |-> type, entity |-> e.value]) ELSE Err :
     e \in UNION {FuzzValidTableEntry(config, s, t, NoConstraint) : t \in AllValidTablesForP4RtRole(config)}}

\* The first match field, or else the first parameter, that is of the kind.
MutateInvalidValue(config, e, mutation) ==
  LET info == config.info
      fields == {f \in DOMAIN e.matches :
                   IsOfKind(mutation, info.tables[e.table].fields[f], info.tables[e.table].fields[f].refers_to)}
      params == {x \in UNION {{<<j, p>> : p \in DOMAIN e.actions[j].params} : j \in DOMAIN e.actions} :
                   LET a == e.actions[x[1]].name
                   IN IsOfKind(mutation, info.params[a][x[2]], info.actions[a][x[2]])}
  IN CASE fields # {} ->
            {IF e.matches[f].type \in {"EXACT", "OPTIONAL"} THEN Ok([e EXCEPT !.matches[f].value = v]) ELSE Err :
               f \in fields, v \in kRandomIds}
       [] fields = {} /\ params # {} ->
            {Ok([e EXCEPT !.actions[x[1]].params[x[2]] = v]) :
               x \in {y \in params : \A z \in params : y[1] <= z[1]}, v \in kRandomIds}
       [] OTHER -> {Err}

\* Mutations of the entry, of the whole update, or none at all.
MutateUpdate(config, s, update, mutation) ==
  LET e == update.entity
      Of(entries) == {IF f.ok THEN Ok([update EXCEPT !.entity = f.value]) ELSE Err : f \in entries}
  IN CASE mutation = "INVALID_TABLE_ID" -> {Ok([update EXCEPT !.entity.table = kNoSuch])}
       [] mutation = "INVALID_ACTION_ID" -> Of({Ok(f) : f \in MutateInvalidActionId(e)})
       [] mutation = "INVALID_MATCH_FIELD_ID" -> Of(MutateInvalidMatchFieldId(config, e))
       [] mutation = "MISSING_MANDATORY_MATCH_FIELD" -> Of(MutateMissingMandatoryMatchField(e))
       [] mutation = "DUPLICATE_MATCH_FIELD" -> Of(MutateDuplicateMatchField(e))
       [] mutation = "INVALID_TABLE_IMPLEMENTATION" -> Of(MutateInvalidTableImplementation(config, e))
       [] mutation = "INVALID_ACTION_SELECTOR_WEIGHT" -> Of(MutateInvalidActionSelectorWeight(config, e))
       [] mutation = "DUPLICATE_INSERT" -> MutateDuplicateInsert(config, s)
       [] mutation = "NONEXISTING_DELETE" -> MutateNonexistingModifyDelete(config, s, "DELETE")
       [] mutation = "NONEXISTING_MODIFY" -> MutateNonexistingModifyDelete(config, s, "MODIFY")
       [] mutation = "DIFFERENT_ROLE" -> {Ok(update)}
       [] OTHER -> Of(MutateInvalidValue(config, e, mutation))

-----------------------------------------------------------------------------
(* Updates and write requests.                                             *)

NoMutation == "none"

ModifiableTables(config, s) == {t \in GenerateNonEmptyTableIds(config, s) : IsModifiableTable(config, t)}

\* Tables of any role count as not empty here.
FuzzUpdateType(config, s, is_multicast) ==
  LET empty == IF is_multicast THEN s.ordered_multicast = EmptyTable ELSE AllP4TablesEmpty(config.info, s)
      modifiable == IF is_multicast THEN IsModifiableTable(config, MulticastTable)
                    ELSE ModifiableTables(config, s) # {}
  IN {"INSERT"} \cup (IF empty THEN {} ELSE {"DELETE"} \cup IF modifiable THEN {"MODIFY"} ELSE {})

FuzzInserts(config, s, tables) ==
  {IF e.ok THEN Ok([type |-> "INSERT", entity |-> e.value]) ELSE Err :
     e \in UNION {FuzzValidTableEntry(config, s, t, NoConstraint) : t \in tables}}

\* Updates of what is there: the key stays.
FuzzChanges(config, s, type, entities) ==
  {IF e.ok THEN Ok([type |-> type, entity |-> e.value]) ELSE Err :
     e \in UNION {FuzzNonKeyFields(config, s, f) : f \in entities}}

FuzzTableUpdate(config, s, type, insert_tables) ==
  CASE type = "INSERT" -> FuzzInserts(config, s, insert_tables)
    [] type = "DELETE" -> FuzzChanges(config, s, type,
                            UNION {Range(s.ordered[t]) : t \in GenerateNonEmptyTableIds(config, s)})
    [] type = "MODIFY" -> FuzzChanges(config, s, type,
                            UNION {Range(s.ordered[t]) : t \in ModifiableTables(config, s)})

FuzzMulticastUpdate(config, s, type) ==
  IF type = "INSERT"
  THEN {IF e.ok THEN Ok([type |-> type, entity |-> e.value]) ELSE Err : e \in FuzzValidMulticastGroupEntry(config, s)}
  ELSE FuzzChanges(config, s, type, Range(s.ordered_multicast))

\* Made canonical when it is well formed: the switch keeps what it is sent.
GetAnnotatedUpdate(config, update, mutation) ==
  LET canonical == CanonicalizeEntity(config.info, update.entity, FALSE)
  IN [update |-> IF canonical.ok THEN [update EXCEPT !.entity = canonical.value] ELSE update,
      mutation |-> mutation, has_ir |-> canonical.ok]

\* The mutation decides the table of an INSERT, and of nothing else.
FuzzUpdate(config, s) ==
  LET types == FuzzUpdateType(config, s, FALSE)
      valid == AllValidTablesForP4RtRole(config)
      Good(outcomes) == {o.value : o \in {p \in outcomes : p.ok}}
      tables == UNION {Good(FuzzTableUpdate(config, s, type, valid)) : type \in types}
      groups == UNION {Good(FuzzMulticastUpdate(config, s, type)) : type \in FuzzUpdateType(config, s, TRUE)}
      Mutated(m) ==
        UNION {UNION {Good(MutateUpdate(config, s, u, m)) :
                        u \in Good(FuzzTableUpdate(config, s, type, MutationTableIds(config, m)))} : type \in types}
  IN {GetAnnotatedUpdate(config, u, NoMutation) : u \in tables \cup groups}
       \cup UNION {{GetAnnotatedUpdate(config, u, m) : u \in Mutated(m)} :
                     m \in {n \in Mutations : MutationTableIds(config, n) # {}}}

\* An update that is bad though it was not mutated: a key that the request
\* has, an INSERT of what is there or of too much for a table, a known bug.
IsAccidentallyInvalidUpdate(config, s, request, candidate) ==
  LET e == candidate.update.entity
      Inserts(u) == u.has_ir /\ u.update.type = "INSERT" /\ u.update.entity.table = e.table
  IN /\ candidate.mutation = NoMutation
     /\ \/ \E u \in Range(request) : EntityKey(u.update.entity) = EntityKey(e)
        \/ candidate.update.type = "INSERT" /\ GetEntity(config.info, s, e) # {}
        \/ /\ candidate.has_ir /\ candidate.update.type = "INSERT" /\ e.table \in config.strict
           /\ ~CanAccommodateInserts(config.info, s, e.table, 1 + Cardinality({j \in DOMAIN request : Inserts(request[j])}))
        \/ e.table \in config.buggy

\* The requests with one update more.
FuzzWriteRequest(config, s, request) ==
  {Append(request, u) : u \in {v \in FuzzUpdate(config, s) : ~IsAccidentallyInvalidUpdate(config, s, request, v)}}

=============================================================================
