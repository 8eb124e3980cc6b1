------------------------------ MODULE MCFuzzer ------------------------------
(***************************************************************************)
(* The fuzzer's picture of a switch after a few updates, the answers of a  *)
(* switch to a request, and the updates it makes up for a program shaped   *)
(* after sai_p4.                                                           *)
(***************************************************************************)
EXTENDS FuzzUtil, LibraryCall

FuzzField(type, named_type, bitwidth, refers_to) ==
  [type |-> type, named_type |-> named_type, bitwidth |-> bitwidth, unsupported |-> FALSE,
   optional |-> type # "EXACT", refers_to |-> refers_to, referenced_by |-> {}]
FuzzTable(size, fields, actions) ==
  [size |-> size, fields |-> fields, actions |-> actions, default_only |-> {}, uses_oneshot |-> FALSE,
   profile |-> NoProfile, unsupported |-> FALSE, deprecated |-> FALSE, role |-> "sdn", constraint |-> NoConstraint]
Profile(sum_of_members, max_member_weight, max_group_size, size) ==
  [sum_of_members |-> sum_of_members, max_member_weight |-> max_member_weight,
   max_group_size |-> max_group_size, size |-> size]
OneShot(table, profile) == [table EXCEPT !.uses_oneshot = TRUE, !.profile = profile]
FuzzParam(named_type, bitwidth) == [named_type |-> named_type, bitwidth |-> bitwidth]

ExactOn(v) == FieldMatch("EXACT", v, 0, 0)
FuzzAct(name, params, weight) == [name |-> name, params |-> params, weight |-> weight]

GroupTable == FuzzTable(1, [multicast_group_id |-> FuzzField("EXACT", "", 2, {})], {Replica})
Parameterless == [p \in {} |-> p]

-----------------------------------------------------------------------------
(* A plain table, one limited in weight, one in members, and groups.       *)

StateInfo ==
  LET key == [key |-> FuzzField("EXACT", "", 2, {})]
  IN [tables |->
        [plain |-> FuzzTable(1, key, {"set"}),
         weights |-> OneShot(FuzzTable(2, key, {"set"}), Profile(FALSE, 0, 2, 3)),
         members |-> OneShot(FuzzTable(2, key, {"set"}), Profile(TRUE, 2, 2, 3)),
         multicast_group_table |-> GroupTable],
      actions |-> [set |-> [x |-> {}], replica |-> [port |-> {}, instance |-> {}]],
      params |-> [set |-> [x |-> FuzzParam("", 1)],
                  replica |-> [port |-> FuzzParam("port_id_t", 0), instance |-> FuzzParam("", 2)]],
      unsupported_actions |-> {}, total_replicas |-> 3, multicast_size |-> 1, max_replicas |-> 2]

StateEntry(t, key, type, actions) ==
  NewEntry(t, [key |-> ExactOn(key)], TableAction(type, actions), 0, 0)
GroupMember(weight) == FuzzAct("set", [x |-> 1], weight)
GroupEntry(id, replicas) ==
  NewEntry(MulticastTable, [multicast_group_id |-> ExactOn(id)],
           TableAction("action", [j \in 1..replicas |-> FuzzAct(Replica, [port |-> j, instance |-> 0], 0)]), 0, 0)

\* Key 1 with every action, key 2 with those that take room next to it.
PlainEntries ==
  {StateEntry("plain", k, "action", <<FuzzAct("set", [x |-> v], 0)>>) : k \in {1, kPadded + 1}, v \in 0..1}
    \cup {StateEntry("plain", 2, "action", <<FuzzAct("set", [x |-> 0], 0)>>)}
ProfileEntries ==
  LET Entry(t, k, w) == StateEntry(t, k, "set", [j \in DOMAIN w |-> GroupMember(w[j])])
  IN {Entry("weights", 1, w) : w \in {<<>>, <<2>>, <<1, 2>>, <<0>>}}
       \cup {Entry("weights", 2, w) : w \in {<<2>>, <<1, 2>>}}
       \cup {Entry("members", 1, w) : w \in {<<1, 2>>, <<3>>}} \cup {Entry("members", 2, <<1, 2>>)}
GroupEntries == {GroupEntry(1, n) : n \in {0, 2, 3}} \cup {GroupEntry(2, 2)}

StateUpdates == [type : {"INSERT", "MODIFY", "DELETE"}, entity : PlainEntries \cup ProfileEntries \cup GroupEntries]

kMaxStateUpdates == 3
Held(s) == UNION {Range(s.ordered[t]) : t \in DOMAIN s.ordered} \cup Range(s.ordered_multicast)

NewState == call' = [op |-> "state", state |-> NewSwitchState(StateInfo), most |-> 0, steps |-> 0]

\* `most` is how many entities the switch ever had.
UpdateState ==
  /\ call.op = "state" /\ call.steps < kMaxStateUpdates
  /\ \E u \in StateUpdates :
       LET after == ApplyUpdate(StateInfo, call.state, u)
       IN /\ after.ok
          /\ call' = [call EXCEPT !.state = after.state, !.steps = @ + 1,
                                  !.most = LargerOf(@, Cardinality(Held(after.state)))]

ResetState ==
  /\ call.op = "state" /\ call.steps = kMaxStateUpdates - 1
  /\ \E keep \in SUBSET Held(call.state) :
       call' = [call EXCEPT !.state = SetEntities(StateInfo, @, SetToSeq(keep)).state]

\* What the entities of a table use, counted anew.
Recounted(entities) ==
  LET Weight(e) == IF e.type = "set" THEN FoldLeft(LAMBDA n, a : n + a.weight, 0, e.actions) ELSE 0
      Members(e) == IF e.type = "set" \/ IsMulticast(e) THEN Len(e.actions) ELSE 0
  IN [entries |-> Cardinality(entities), total_members |-> MapThenSumSet(Members, entities),
      total_weight |-> MapThenSumSet(Weight, entities)]

\* More than there is sure to be room for, in the table or in its profile.
TooMany(entities, t) == Cardinality(entities) > StateInfo.tables[t].size
TooLarge(entities, t) ==
  LET use == Recounted(entities)
      profile == StateInfo.tables[t].profile
  IN IF t = MulticastTable
     THEN use.total_members > StateInfo.total_replicas \/ \E e \in entities : Len(e.actions) > StateInfo.max_replicas
     ELSE /\ profile # NoProfile
          /\ (IF profile.sum_of_members THEN use.total_members ELSE use.total_weight) > profile.size

\* A group no switch has to take, however empty it is.
NeverValid(e) ==
  LET profile == StateInfo.tables[e.table].profile
      use == Recounted({e})
  IN /\ e.type = "set"
     /\ \/ \E j \in DOMAIN e.actions : \/ e.actions[j].weight <= 0
                                       \/ profile.sum_of_members /\ e.actions[j].weight > profile.max_member_weight
        \/ (IF profile.sum_of_members THEN use.total_members ELSE use.total_weight) > profile.max_group_size

WithReplaced(s, e) == {f \in Installed(s, e.table) : EntityKey(f) # EntityKey(e)} \cup {e}

\* May be refused exactly when there would be more than must fit: one more
\* entry in a full table, or a group that is valid and too large by now.
\* Judged for keys as the fuzzer writes them, a MODIFY for what is there.
ExhaustionIsExact(s) ==
  \A u \in StateUpdates :
    LET e == u.entity
        there == \E f \in Installed(s, e.table) : EntityKey(f) = EntityKey(e)
        after == WithReplaced(s, e)
    IN (e.matches = CanonicalForm(e, FALSE).matches /\ there = (u.type # "INSERT")) =>
         ResourceExhaustedIsAllowed(StateInfo, s, u) =
           (/\ u.type # "DELETE"
            /\ \/ TooMany(after, e.table) /\ (u.type = "INSERT" \/ IsMulticast(e))
               \/ TooLarge(after, e.table) /\ ~NeverValid(e))

\* A read that shows what is there, in any spelling, is accepted; one with an
\* entry less, more or changed is not.  Groups take the spelling's place in
\* the count, so that with groups only the canonical spelling is accepted.
ReadsAreJudged(s) ==
  LET tables == UNION {Range(s.ordered[t]) : t \in DOMAIN s.ordered}
      Judged(entries) == AssertEntriesAreEqualToState(StateInfo, s, SetToSeq(entries), {}) = Ok({})
      Padded(e) == [e EXCEPT !.matches.key.value = @ + kPadded]
      Other(e) == [e EXCEPT !.matches.key.value = 3]
      Without(e) == tables \ {e}
  IN /\ Judged(tables)
     /\ \A e \in tables : /\ ~Judged(Without(e)) /\ ~Judged(Without(e) \cup {Other(e)})
                          /\ ~Judged(Without(e) \cup {[e EXCEPT !.metadata = 1]})
                          /\ Judged(Without(e) \cup {Padded(e)}) = (s.ordered_multicast = EmptyTable)

\* However entities come and go, what the fuzzer counts is what it holds: the
\* two copies of every table are the same, every table's entries, members and
\* weights are counted, and the peaks are the most there ever was.  An entry
\* is found in any spelling of its key; RESOURCE_EXHAUSTED is allowed exactly
\* when the tables or profiles would exceed what they guarantee; and a read
\* is accepted exactly when it shows what is held.
StateIsExact ==
  call.op = "state" =>
    LET s == call.state
    IN /\ CheckConsistency(StateInfo, s)
       /\ \A t \in DOMAIN s.ordered : s.statistics[t] = Recounted(Range(s.ordered[t]))
       /\ s.multicast_statistics = Recounted(Range(s.ordered_multicast))
       /\ s.current_entries = Cardinality(Held(s)) /\ s.peak_entries_seen = call.most
       /\ \A e \in Held(s) : CanonicalForm(e, FALSE) = e /\ GetEntity(StateInfo, s, e) = {e}
       /\ \A e \in PlainEntries : (GetEntity(StateInfo, s, e) # {}) =
                                    \E f \in Held(s) : EntityKey(f) = EntityKey(CanonicalForm(e, FALSE))
       /\ ExhaustionIsExact(s) /\ ReadsAreJudged(s)

-----------------------------------------------------------------------------
(* The answers to a request for the plain table, which has room for one.   *)

OracleUpdates ==
  {[type |-> type, entity |-> StateEntry("plain", k, "action", <<FuzzAct("set", [x |-> 0], 0)>>)] :
     type \in {"INSERT", "DELETE"}, k \in 1..2}
  \cup {[type |-> "INSERT", entity |-> StateEntry("plain", 1, "action", <<FuzzAct("set", [x |-> 2], 0)>>)]}

OracleCodes == {"OK", "INVALID_ARGUMENT", "NOT_FOUND", "ALREADY_EXISTS", "RESOURCE_EXHAUSTED"}

PlainState(keys) ==
  SetEntities(StateInfo, NewSwitchState(StateInfo),
              SetToSeq({StateEntry("plain", k, "action", <<FuzzAct("set", [x |-> 1], 0)>>) : k \in keys})).state

SendRequest ==
  \E keys \in {{}, {1}, {2}}, updates \in UNION {[1..n -> OracleUpdates] : n \in 1..3} :
    call' = [op |-> "oracle", keys |-> keys, updates |-> updates]

\* What a switch that holds the entries `keys` says to an update, and has then.
Answers(keys, u) ==
  LET k == u.entity.matches.key.value
  IN CASE u.entity.actions[1].params.x > 1 -> {[code |-> "INVALID_ARGUMENT", keys |-> keys]}
       [] u.type = "DELETE" -> {[code |-> IF k \in keys THEN "OK" ELSE "NOT_FOUND", keys |-> keys \ {k}]}
       [] OTHER -> IF k \in keys THEN {[code |-> "ALREADY_EXISTS", keys |-> keys]}
                   ELSE {[code |-> "OK", keys |-> keys \cup {k}]}
                          \cup (IF keys = {} THEN {} ELSE {[code |-> "RESOURCE_EXHAUSTED", keys |-> keys]})

\* The codes of the updates when the switch takes them in this order.
AnswersInOrder(keys, updates, order) ==
  LET start == {[codes |-> <<>>, keys |-> keys]}
      Next1(runs, u) == UNION {{[codes |-> Append(r.codes, a.code), keys |-> a.keys] : a \in Answers(r.keys, u)} : r \in runs}
      runs == FoldLeft(Next1, start, [j \in DOMAIN order |-> updates[order[j]]])
  IN {[j \in DOMAIN updates |-> r.codes[CHOOSE k \in DOMAIN order : order[k] = j]] : r \in runs}

\* A switch that takes the updates of a request one by one in some order, and
\* refuses an entry for want of room only when its table is full, is never
\* reported; and codes without a refusal that no order of the updates gives
\* always are.
OracleIsExact ==
  call.op = "oracle" =>
    LET s == PlainState(call.keys)
        possible == UNION {AnswersInOrder(call.keys, call.updates, order) : order \in SetToSeqs(DOMAIN call.updates)}
        Judged(codes) == WriteRequestOracle(StateInfo, [j \in DOMAIN codes |-> [update |-> call.updates[j], code |-> codes[j]]], s)
    IN /\ \A codes \in possible : Judged(codes) = [flows |-> {}, refusals |-> {}]
       /\ \A codes \in [DOMAIN call.updates -> OracleCodes \ {"RESOURCE_EXHAUSTED"}] \ possible : Judged(codes).flows # {}

\* The fuzzer's picture of the switch is that of the entities it has, and the
\* switch's answers are judged by it: none a correct switch may give is
\* reported, and none it may not give passes.
SwitchIsJudgedRightly == StateIsExact /\ OracleIsExact

-----------------------------------------------------------------------------
(* Programs to fuzz, each with a few entries the switch may have.          *)

Rif(v) == NewEntry("router_interface_table", [rif |-> ExactOn(v)],
                   TableAction("action", <<FuzzAct("set_port", [port |-> 1], 0)>>), 0, 0)
Neighbor(v) == NewEntry("neighbor_table", [rif |-> ExactOn(v), id |-> ExactOn(9)],
                        TableAction("action", <<FuzzAct("drop", Parameterless, 0)>>), 0, 0)
SetNeighbor(v, weight) == FuzzAct("set_neighbor", [rif |-> v, id |-> 9], weight)
Wcmp(actions) == NewEntry("wcmp", [group |-> ExactOn(1)], TableAction("set", actions), 0, 0)
Vrf(v) == NewEntry("vrf_table", [vrf |-> ExactOn(v)], TableAction("action", <<FuzzAct("drop", Parameterless, 0)>>), 0, 0)
Acl(matches) == NewEntry("acl", matches, TableAction("action", <<FuzzAct("drop", Parameterless, 0)>>), 1, 0)
Route(v) == NewEntry("route", [vrf |-> ExactOn(v)], TableAction("action", <<FuzzAct("drop", Parameterless, 0)>>), 0, 1)
Punt == NewEntry("punt", [queue |-> ExactOn(5)], TableAction("action", <<FuzzAct("drop", Parameterless, 0)>>), 0, 0)
Queued(v) == NewEntry("queued", [queue |-> ExactOn(v)], TableAction("action", <<FuzzAct("drop", Parameterless, 0)>>), 0, 0)
Rewrite(port) == NewEntry("rewrite", [port |-> ExactOn(port), instance |-> ExactOn(1)],
                          TableAction("action", <<FuzzAct("drop", Parameterless, 0)>>), 0, 0)
Group(id, replicas) ==
  NewEntry(MulticastTable, [multicast_group_id |-> ExactOn(id)],
           TableAction("action", [j \in 1..replicas |-> FuzzAct(Replica, [port |-> j, instance |-> 1], 0)]), 0, 0)

FuzzActions ==
  [drop |-> Parameterless, set_port |-> [port |-> FuzzParam("port_id_t", 0)],
   set_neighbor |-> [rif |-> FuzzParam("rif_t", 0), id |-> FuzzParam("neighbor_id_t", 0)],
   replica |-> [port |-> FuzzParam("port_id_t", 0), instance |-> FuzzParam("", 2)]]

Refers(f, by) == [f EXCEPT !.referenced_by = by]

FuzzTables ==
  LET rif == {<<"router_interface_table", "rif">>}
  IN [router_interface_table |-> FuzzTable(1, [rif |-> FuzzField("EXACT", "rif_t", 0, {})], {"set_port"}),
      neighbor_table |-> FuzzTable(2, [rif |-> FuzzField("EXACT", "rif_t", 0, rif),
                                       id |-> FuzzField("EXACT", "neighbor_id_t", 0, {})], {"drop"}),
      wcmp |-> OneShot(FuzzTable(2, [group |-> FuzzField("EXACT", "", 1, {})], {"set_neighbor"}), Profile(FALSE, 0, 2, 3)),
      members |-> OneShot(FuzzTable(2, [group |-> FuzzField("EXACT", "", 1, {})], {"set_port"}), Profile(TRUE, 3, 2, 3)),
      acl |-> FuzzTable(2, [dst |-> FuzzField("TERNARY", "", 1, {}), in_port |-> FuzzField("OPTIONAL", "port_id_t", 0, {}),
                            vrf |-> FuzzField("OPTIONAL", "vrf_t", 0, {<<"vrf_table", "vrf">>})], {"drop"}),
      vrf_table |-> FuzzTable(1, [vrf |-> FuzzField("EXACT", "vrf_t", 0, {})], {"drop"}),
      route |-> [FuzzTable(2, [vrf |-> FuzzField("EXACT", "", 2, {}), dst |-> FuzzField("LPM", "", 2, {})], {"drop"})
                   EXCEPT !.constraint = [vrf |-> {ExactOn(v) : v \in 1..2}]],
      punt |-> [FuzzTable(2, [queue |-> FuzzField("EXACT", "qos_queue_t", 0, {})], {"drop"}) EXCEPT !.role = "other"],
      queued |-> FuzzTable(1, [queue |-> FuzzField("EXACT", "qos_queue_t", 0, {})], {"drop"}),
      rewrite |-> FuzzTable(2, [port |-> Refers(FuzzField("EXACT", "port_id_t", 0, {}), {<<MulticastTable, "port">>}),
                                instance |-> Refers(FuzzField("EXACT", "", 1, {}), {<<MulticastTable, "instance">>})], {"drop"}),
      multicast_group_table |-> GroupTable]

FuzzProgram(tables) ==
  [info |-> [tables |-> Restrict(FuzzTables, tables \cup {MulticastTable}),
             actions |-> [drop |-> Parameterless, set_port |-> [port |-> {}],
                          set_neighbor |-> [rif |-> {<<"neighbor_table", "rif">>, <<"router_interface_table", "rif">>},
                                            id |-> {<<"neighbor_table", "id">>}],
                          replica |-> [port |-> {}, instance |-> {}]],
             params |-> FuzzActions, unsupported_actions |-> {},
             total_replicas |-> 3, multicast_size |-> 1, max_replicas |-> 2],
   role |-> "sdn", ports |-> {1, 2}, qos_queues |-> {5, 6}, disabled |-> {}, disabled_fields |-> {<<"acl", "in_port">>},
   non_modifiable |-> {"router_interface_table"}, strict |-> {"router_interface_table", "queued"}, buggy |-> {},
   ignore_constraints |-> {}, no_empty_groups |-> "members" \in tables]

\* The programs, and what the switch holds: all it refers to is there.
Situations ==
  {[tables |-> {"router_interface_table", "neighbor_table", "wcmp"}, held |-> h] :
     h \in {<<>>, <<Rif(7)>>, <<Rif(7), Neighbor(7)>>, <<Rif(7), Neighbor(7), Wcmp(<<SetNeighbor(7, 1)>>)>>,
            <<Rif(7), Neighbor(7), Wcmp(<<>>)>>}}
  \cup {[tables |-> {"vrf_table", "acl"}, held |-> h] :
          h \in {<<>>, <<Vrf(7)>>, <<Vrf(7), Acl([in_port |-> FieldMatch("OPTIONAL", 1, 0, 0)])>>}}
  \cup {[tables |-> {"route", "punt"}, held |-> h] : h \in {<<>>, <<Route(1)>>, <<Route(1), Punt>>}}
  \cup {[tables |-> {"members"}, held |-> <<>>]}
  \cup {[tables |-> {"queued"}, held |-> h] : h \in {<<>>, <<Queued(5)>>}}
  \cup {[tables |-> {"rewrite"}, held |-> h] : h \in {<<>>, <<Rewrite(1)>>, <<Rewrite(1), Rewrite(2)>>, <<Rewrite(1), Rewrite(2), Group(1, 2)>>}}

SituationState(x) == SetEntities(FuzzProgram(x.tables).info, NewSwitchState(FuzzProgram(x.tables).info), x.held)

\* Requests of several updates are made up for the smallest program only.
kMaxRequest(x) == IF x.tables = {"queued"} THEN 2 ELSE 1

StartFuzzing == \E x \in Situations : call' = [op |-> "fuzzing", situation |-> x, request |-> <<>>]

FuzzOneMore ==
  /\ call.op = "fuzzing" /\ Len(call.request) < kMaxRequest(call.situation)
  /\ \E r \in FuzzWriteRequest(FuzzProgram(call.situation.tables), SituationState(call.situation).state, call.request) :
       call' = [call EXCEPT !.request = r]

Bits ==
  \E value \in {0, 1, 128, 255, 256, 42405, 65535}, bits \in 0..16 :
    call' = [op |-> "bits", value |-> value, bits |-> bits]

\* An update that a switch with these entities has to refuse, whatever room
\* it has; a DELETE is about a key, so that its action is not looked at.
MustRefuse(config, entities, u) ==
  LET e == u.entity
      info == config.info
      keyed == {f \in entities : EntityKey(f) = EntityKey(e)}
      refs == AllOutgoing(ParseIrTableReferences(info), MatchValues(e))
      Here(o) == \E f \in entities : /\ f.table = o.destination
                                     /\ \A x \in o.fields : f.matches[x.destination].value = x.value
      Known(d, v) == CASE d.named_type = "port_id_t" -> v \in config.ports
                       [] d.named_type = "qos_queue_t" -> v \in config.qos_queues
                       [] d.named_type = "neighbor_id_t" -> v \in kNeighborIds
                       [] OTHER -> TRUE
      profile == info.tables[e.table].profile
      weight == FoldLeft(LAMBDA n, a : n + a.weight, 0, e.actions)
  IN \/ ~CanonicalizeEntity(info, e, u.type = "DELETE").ok
     \/ info.tables[e.table].role # config.role
     \/ (keyed = {}) = (u.type # "INSERT")
     \/ \E f \in DOMAIN e.matches : ~Known(info.tables[e.table].fields[f], e.matches[f].value)
     \/ /\ u.type # "DELETE"
        /\ \/ \E o \in refs : ~Here(o)
           \/ \E j \in DOMAIN e.actions : \E p \in DOMAIN e.actions[j].params :
                ~Known(info.params[e.actions[j].name][p], e.actions[j].params[p])
           \/ /\ profile # NoProfile
              /\ \/ (IF profile.sum_of_members THEN Len(e.actions) ELSE weight) > profile.max_group_size
                 \/ profile.sum_of_members /\ \E a \in Range(e.actions) : a.weight > profile.max_member_weight
                 \/ config.no_empty_groups /\ e.actions = <<>>
           \/ \E f \in DOMAIN info.tables[e.table].constraint : e.matches[f] \notin info.tables[e.table].constraint[f]

\* A field that refers to an entry and need not be there is written as one
\* that must: such an update is refused though nothing was mutated.
ExactForOptional(config, e) ==
  \E f \in DOMAIN e.matches : e.matches[f].type = "EXACT" /\ config.info.tables[e.table].fields[f].type = "OPTIONAL"

\* The mutations that leave an update good: another role's table is chosen
\* for an INSERT only; a set without members has no action or weight to
\* spoil; a DELETE has no use for an action; a random id may be one in use.
MayBeHarmless(u, entities) ==
  \/ u.mutation = "DIFFERENT_ROLE" /\ u.update.type # "INSERT"
  \/ u.mutation \in {"INVALID_ACTION_ID", "INVALID_ACTION_SELECTOR_WEIGHT"} /\ u.update.entity.actions = <<>>
  \/ /\ u.update.type = "DELETE"
     /\ u.mutation \in {"INVALID_ACTION_ID", "INVALID_ACTION_SELECTOR_WEIGHT", "INVALID_TABLE_IMPLEMENTATION",
                        "INVALID_PORT", "INVALID_NEIGHBOR_ID", "INVALID_REFERRING_ID"}
  \/ /\ u.mutation = "INVALID_REFERRING_ID" /\ {Rif(7), Vrf(7)} \cap entities # {}
     /\ \A f \in DOMAIN u.update.entity.matches : u.update.entity.matches[f].value # 8
     /\ \A a \in Range(u.update.entity.actions) : 8 \notin Range(a.params)

\* What the fuzzer says of an update is so: a switch accepts those that were
\* not mutated, references and constraints included, but for the new action
\* of a MODIFY, which may refer to nothing, and a reference by an optional
\* field; and it has to refuse the mutated ones.  No two updates of a request
\* that were not mutated share a key or fill a table the switch is strict
\* about, and bits are cut as arithmetic has it.
FuzzedUpdatesAreAsAnnotated ==
  /\ call.op = "fuzzing" =>
       LET config == FuzzProgram(call.situation.tables)
           entities == Range(call.situation.held)
           good == {j \in DOMAIN call.request : call.request[j].mutation = NoMutation}
           Update(j) == call.request[j].update
           Inserts(t) == {j \in good : Update(j).type = "INSERT" /\ Update(j).entity.table = t}
       IN /\ SetP4Info(config)
          /\ \A j \in DOMAIN call.request :
               IF j \in good
               THEN \/ Update(j).type = "MODIFY" \/ ExactForOptional(config, Update(j).entity)
                    \/ ~MustRefuse(config, entities, Update(j))
               ELSE \/ Update(j).entity.table \notin P4Tables(config.info)
                    \/ MustRefuse(config, entities, Update(j)) \/ MayBeHarmless(call.request[j], entities)
          /\ \A j, k \in good : j # k => EntityKey(Update(j).entity) # EntityKey(Update(k).entity)
          /\ \A t \in config.strict \cap DOMAIN config.info.tables :
               Inserts(t) # {} => Cardinality({e \in entities : e.table = t}) + Cardinality(Inserts(t)) <= config.info.tables[t].size
  /\ call.op = "bits" =>
       LET data == BigEndian(call.value, 2)
       IN /\ NumberOf(SetUnusedBitsToZero(call.bits, data)) = call.value % 2^call.bits
          /\ NumberOf(ZeroNLeastSignificantBits(call.bits, data)) = call.value - (call.value % 2^call.bits)
=============================================================================
