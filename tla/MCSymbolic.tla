----------------------------- MODULE MCSymbolic -----------------------------
(***************************************************************************)
(* P4-Symbolic on a router and on a program of nested conditionals, with   *)
(* concrete and symbolic entries: what it says of a packet is compared     *)
(* with a plain interpreter of the program, and the packets it synthesizes *)
(* are run through that interpreter.                                       *)
(***************************************************************************)
EXTENDS Integers, Sequences, SequencesExt, FiniteSets, LibraryCall

Sym == INSTANCE PacketSynthesizer

(* BMv2's documents.                                                       *)
JString(s) == [string |-> s]
JList(l) == [list |-> l]
JTyped(type, value) == [struct |-> [type |-> JString(type), value |-> value]]
JField(h, f) == JTyped("field", JList(<<JString(h), JString(f)>>))
JHex(n) == JTyped("hexstr", JString(n))
JParam(n) == JTyped("runtime_data", [number |-> n])
JHeader(h) == JTyped("header", JString(h))

Primitive(op, parameters) == [op |-> JString(op), parameters |-> JList(parameters)]
AssignTo(f, value) == Primitive("assign", <<f, value>>)
DropPrimitive == Primitive("mark_to_drop", <<JHeader("standard_metadata")>>)
ClonePrimitive == Primitive("clone_ingress_pkt_to_egress", <<>>)

JHeaderType(name, widths) ==
  LET names == Sym!InOrder(DOMAIN widths)
  IN [name |-> name,
      fields |-> [j \in DOMAIN names |-> <<JString(names[j]), [number |-> widths[names[j]]], [bool |-> FALSE]>>]]

IngressPort == JField("scalars", "userMetadata._ingress_port0")
Marked == JField("scalars", "userMetadata._marked_to_mirror1")
Seen == JField("scalars", "userMetadata._seen2")
EgressSpec == JField("standard_metadata", "egress_spec")

SymHeaderTypes ==
  <<JHeaderType("eth_t", [dst |-> 4, type |-> 4]), JHeaderType("ip_t", [addr |-> 4, ttl |-> 4]),
    JHeaderType("scalars_t", "userMetadata._ingress_port0" :> 9 @@ "userMetadata._marked_to_mirror1" :> 1
                               @@ "userMetadata._seen2" :> 2),
    JHeaderType("standard_metadata_t",
                [f \in Sym!kFieldsToBeInitialized |->
                   CASE f = "egress_spec" -> 9 [] f \in {"mcast_grp", "instance_type", "parser_error"} -> 4
                     [] OTHER -> 2]
                  @@ [f \in {"ingress_port", "egress_port"} |-> 9])>>

SymHeaders ==
  <<[name |-> "eth", header_type |-> "eth_t"], [name |-> "ip", header_type |-> "ip_t"],
    [name |-> "scalars", header_type |-> "scalars_t"],
    [name |-> "standard_metadata", header_type |-> "standard_metadata_t"]>>

JExtract(h) == [op |-> "extract", parameters |-> <<[type |-> JString("regular"), value |-> JString(h)]>>]
JSet(f, value) == [op |-> "set", parameters |-> <<f.struct, value.struct>>]
JDefault(next) == [type |-> "default", value |-> {}, mask |-> {}, next_state |-> next]
JOn(n, mask, next) == [type |-> "hexstr", value |-> {n}, mask |-> mask, next_state |-> next]
JState(name, ops, key, transitions) ==
  [name |-> name, parser_ops |-> ops, transition_key |-> key, transitions |-> transitions]
JKey(h, f) == [type |-> "field", value |-> <<JString(h), JString(f)>>]

InitialMetadata ==
  <<JSet(Seen, JHex(0)), JSet(Marked, JHex(0)), JSet(IngressPort, JField("standard_metadata", "ingress_port"))>>

\* The ways of an IP packet meet, and then those of all packets; where there is
\* no default the others end in an error.
RouterParser(has_default) ==
  [init_state |-> "start",
   parse_states |->
     <<JState("start", <<JExtract("eth")>> \o InitialMetadata, <<JKey("eth", "type")>>,
              <<JOn(8, {}, "parse_ip"), JOn(5, {12}, "parse_other")>>
                \o (IF has_default THEN <<JDefault("parse_end")>> ELSE <<>>)),
       JState("parse_other", <<JSet(Seen, JHex(1))>>, <<>>, <<JDefault("parse_end")>>),
       JState("parse_ip", <<JExtract("ip")>>, <<JKey("ip", "ttl"), JKey("eth", "dst")>>,
              <<JOn(1, {}, "parse_first"), JDefault("parse_last")>>),
       JState("parse_first", <<JSet(Seen, JHex(2))>>, <<>>, <<JDefault("parse_last")>>),
       JState("parse_last", <<JSet(JField("standard_metadata", "enq_qdepth"), Seen)>>, <<>>, <<JDefault("parse_end")>>),
       JState("parse_end", <<JSet(JField("standard_metadata", "priority"), JHex(1))>>, <<>>, <<JDefault("")>>)>>]

PlainParser ==
  [init_state |-> "start",
   parse_states |-> <<JState("start", <<JExtract("eth"), JExtract("ip")>> \o InitialMetadata, <<>>,
                             <<JDefault("")>>)>>]

JAction(id, name, params, primitives) ==
  [id |-> id, name |-> name, primitives |-> primitives,
   runtime_data |-> [j \in DOMAIN params |-> [name |-> params[j][1], bitwidth |-> params[j][2]]]]

SymActions ==
  <<JAction(0, "NoAction", <<>>, <<>>),
    JAction(1, "ingress.set_port", << <<"port", 9>> >>, <<AssignTo(EgressSpec, JParam(0))>>),
    JAction(2, "ingress.deny", <<>>, <<DropPrimitive>>),
    JAction(3, "ingress.punt", <<>>, <<ClonePrimitive, DropPrimitive>>),
    JAction(4, "ingress.mirror", << <<"flag", 1>> >>, <<AssignTo(Marked, JParam(0))>>),
    JAction(5, "ingress.set_group", << <<"group", 4>> >>,
            <<AssignTo(JField("standard_metadata", "mcast_grp"), JParam(0))>>),
    JAction(6, "ingress.init", <<>>, <<AssignTo(EgressSpec, JHex(1))>>),
    JAction(7, "ingress.count", <<>>,
            <<AssignTo(Seen, JTyped("expression", [struct |-> [op |-> JString("+"), left |-> Seen, right |-> JHex(1)]]))>>)>>

JTable(name, key, default, next) ==
  [name |-> name, type |-> "simple", default_entry |-> [action_id |-> default, action_data |-> <<>>],
   key |-> key, next_tables |-> next]
JMatch(name, type, target) == [name |-> name, match_type |-> type, target |-> target]
JToAll(actions, next) == [a \in actions |-> next]
HitOrMiss(hit, miss) == ("__HIT__" :> hit) @@ ("__MISS__" :> miss)
JIf(name, op, left, right, true_next, false_next) ==
  [name |-> name, true_next |-> true_next, false_next |-> false_next,
   expression |-> [type |-> JString("expression"),
                   value |-> [struct |-> [op |-> JString(op), left |-> left, right |-> right]]]]

EgressPipeline ==
  [name |-> "egress", init_table |-> "egress.acl_egress", conditionals |-> <<>>,
   tables |-> <<JTable("egress.acl_egress", <<JMatch("out_port", "exact", <<"standard_metadata", "egress_port">>)>>,
                       0, JToAll({"NoAction", "ingress.deny"}, ""))>>]

RouterDocument(has_default) ==
  [header_types |-> SymHeaderTypes, headers |-> SymHeaders, parsers |-> <<RouterParser(has_default)>>,
   deparsers |-> <<[order |-> <<"eth", "ip">>]>>, actions |-> SymActions,
   errors |-> << <<JString("NoError"), [number |-> 0]>>, <<JString("NoMatch"), [number |-> 2]>> >>,
   pipelines |->
     <<[name |-> "ingress", init_table |-> "tbl_ingress0",
        conditionals |-> <<JIf("if_ip", "d2b", [null |-> TRUE], JField("ip", "$valid$"), "ingress.route", "ingress.l2")>>,
        tables |->
          <<JTable("tbl_ingress0", <<>>, 6, JToAll({"ingress.init"}, "ingress.acl")),
            JTable("ingress.acl", <<JMatch("dst", "ternary", <<"eth", "dst">>),
                                    JMatch("in_port", "optional", <<"scalars", "userMetadata._ingress_port0">>)>>,
                   0, HitOrMiss("tbl_count", "if_ip")),
            JTable("tbl_count", <<>>, 7, JToAll({"ingress.count"}, "if_ip")),
            JTable("ingress.route", <<JMatch("addr", "lpm", <<"ip", "addr">>)>>, 2,
                   JToAll({"ingress.set_port", "ingress.set_group", "ingress.deny"}, "")),
            [JTable("ingress.l2", <<JMatch("dst", "exact", <<"eth", "dst">>)>>, 0,
                    JToAll({"ingress.set_port", "NoAction"}, "")) EXCEPT !.type = "indirect_ws"]>>],
       EgressPipeline>>]

\* Two ways lead to l2, one of them through both conditions, and all of them to
\* the table at the end.
NestedDocument ==
  [RouterDocument(TRUE) EXCEPT
     !.parsers = <<PlainParser>>,
     !.pipelines =
       <<[name |-> "ingress", init_table |-> "tbl_ingress0",
          conditionals |-> <<JIf("if_low", "<", JField("eth", "dst"), JHex(2), "if_ttl", "ingress.l2"),
                             JIf("if_ttl", "==", JField("ip", "ttl"), JHex(0), "ingress.route", "ingress.l2")>>,
          tables |->
            <<JTable("tbl_ingress0", <<>>, 6, JToAll({"ingress.init"}, "if_low")),
              JTable("ingress.route", <<JMatch("addr", "lpm", <<"ip", "addr">>)>>, 2,
                     JToAll({"ingress.set_port", "ingress.set_group", "ingress.deny"}, "ingress.acl")),
              JTable("ingress.l2", <<JMatch("dst", "exact", <<"eth", "dst">>)>>, 0,
                     JToAll({"ingress.set_port", "NoAction"}, "ingress.acl")),
              JTable("ingress.acl", <<JMatch("dst", "ternary", <<"eth", "dst">>),
                                      JMatch("in_port", "optional", <<"scalars", "userMetadata._ingress_port0">>)>>,
                     0, JToAll({"NoAction", "ingress.deny", "ingress.punt", "ingress.mirror"}, ""))>>],
         EgressPipeline>>]

-----------------------------------------------------------------------------
(* P4Info.                                                                 *)
SymParam(bitwidth, type_name) == [bitwidth |-> bitwidth, type_name |-> type_name]
SymAction(name, alias, id, params) == [name |-> name, alias |-> alias, id |-> id, params_by_name |-> params]
SymMatch(type, bitwidth, type_name) == [match_type |-> type, bitwidth |-> bitwidth, type_name |-> type_name]
SymTable(name, alias, id, actions, fields, has_profile) ==
  [name |-> name, alias |-> alias, id |-> id, entry_actions |-> actions, match_fields_by_name |-> fields,
   has_action_profile_id |-> has_profile]
SymNoParams == [p \in {} |-> SymParam(0, "")]

SymInfo ==
  [actions_by_name |->
     [NoAction |-> SymAction("NoAction", "NoAction", 1, SymNoParams),
      set_port |-> SymAction("ingress.set_port", "set_port", 2, [port |-> SymParam(0, "port_id_t")]),
      deny |-> SymAction("ingress.deny", "deny", 3, SymNoParams),
      punt |-> SymAction("ingress.punt", "punt", 4, SymNoParams),
      mirror |-> SymAction("ingress.mirror", "mirror", 5, [flag |-> SymParam(1, "")]),
      set_group |-> SymAction("ingress.set_group", "set_group", 6, [group |-> SymParam(4, "")])],
   tables_by_name |->
     [acl |-> SymTable("ingress.acl", "acl", 1, <<"ingress.deny", "ingress.punt", "ingress.mirror">>,
                       [dst |-> SymMatch("ternary", 4, ""), in_port |-> SymMatch("optional", 0, "port_id_t")], FALSE),
      route |-> SymTable("ingress.route", "route", 2, <<"ingress.set_port", "ingress.set_group", "ingress.deny">>,
                         [addr |-> SymMatch("lpm", 4, "")], FALSE),
      l2 |-> SymTable("ingress.l2", "l2", 3, <<"ingress.set_port">>, [dst |-> SymMatch("exact", 4, "")], TRUE),
      acl_egress |-> SymTable("egress.acl_egress", "acl_egress", 4, <<"ingress.deny">>,
                              [out_port |-> SymMatch("exact", 0, "port_id_t")], FALSE)]]

SymPrograms ==
  ("router" :> Sym!Bmv2AndP4infoToIr(RouterDocument(TRUE), SymInfo))
    @@ ("strict" :> Sym!Bmv2AndP4infoToIr(RouterDocument(FALSE), SymInfo))
    @@ ("nested" :> Sym!Bmv2AndP4infoToIr(NestedDocument, SymInfo))

-----------------------------------------------------------------------------
(* Entries, with the names of P4Info.                                      *)
SymInt(n) == [int |-> n]
SymPort(s) == [str |-> s]
SymDo(name, params) == [name |-> name, params |-> params]
ToPort(s) == SymDo("set_port", <<[name |-> "port", value |-> SymPort(s)]>>)
SymEntry(table, priority, matches, action) ==
  [table_entry |-> [table_name |-> table, priority |-> priority, matches |-> matches, action |-> action]]
SymWcmp(dst, ports) ==
  [table_entry |-> [table_name |-> "l2", priority |-> 0, matches |-> <<[name |-> "dst", exact |-> SymInt(dst)]>>,
                    action_set |-> [j \in DOMAIN ports |-> ToPort(ports[j])]]]
SymTernary(dst, mask) == [name |-> "dst", ternary |-> [value |-> SymInt(dst), mask |-> SymInt(mask)]]
InPort(s) == [name |-> "in_port", optional |-> SymPort(s)]
Prefix(addr, n) == <<[name |-> "addr", lpm |-> [value |-> SymInt(addr), prefix_length |-> n]]>>
OutPort(s) == <<[name |-> "out_port", exact |-> SymPort(s)]>>

\* The less specific entries first, so that their order is not their rank.
SymAclEntries ==
  <<SymEntry("acl", 1, <<SymTernary(0, 1)>>, SymDo("deny", <<>>)),
    SymEntry("acl", 5, <<SymTernary(2, 15)>>, SymDo("punt", <<>>)),
    SymEntry("acl", 3, <<SymTernary(2, 2), InPort("eth1")>>, SymDo("mirror", <<[name |-> "flag", value |-> SymInt(1)]>>))>>
RouteEntries ==
  <<SymEntry("route", 0, <<>>, SymDo("set_group", <<[name |-> "group", value |-> SymInt(3)]>>)),
    SymEntry("route", 0, Prefix(4, 2), ToPort("eth0")),
    SymEntry("route", 0, Prefix(4, 4), ToPort("eth1"))>>
OtherEntries ==
  <<SymWcmp(1, <<"eth1", "eth0">>), SymEntry("acl_egress", 0, OutPort("eth1"), SymDo("deny", <<>>)),
    [multicast_group_entry |-> [multicast_group_id |-> 3,
                                replicas |-> <<[port |-> "eth2", instance |-> 1], [port |-> "eth1", instance |-> 2]>>]]>>

SymConcrete(entities) == Sym!ParseTableEntries(SymInfo, entities).value

\* An acl entry of which the priority is known, and a route of which the prefix
\* length or the address is; others are concrete.
AnyAcl(index) == Sym!CreateSymbolicIrTableEntry(index, SymPrograms["router"].value.tables["ingress.acl"], 4, {}).value
AnyRoute(index) ==
  Sym!CreateSymbolicIrTableEntry(index, SymPrograms["router"].value.tables["ingress.route"], 0, {3}).value
HalfAcl(index) ==
  [index |-> index,
   symbolic_entry |-> [table_name |-> "ingress.acl", priority |-> 4,
                       matches |-> <<[name |-> "in_port", optional |-> {SymPort("eth1")}],
                                     [name |-> "dst", ternary |-> [value |-> {}, mask |-> {SymInt(3)}]]>>,
                       action |-> [name |-> "ingress.mirror", params |-> <<[name |-> "flag", value |-> SymInt(1)]>>]]]

SymbolicEntries(acl, route) ==
  LET concrete == SymConcrete(SymAclEntries \o RouteEntries \o OtherEntries)
  IN [concrete EXCEPT !["ingress.acl"] = Append(@, acl), !["ingress.route"] = Append(@, route)]

StaticPorts ==
  "port_id_t" :> [static_mapping |-> [eth0 |-> 1, eth1 |-> 2, eth2 |-> 3], dynamic_translation |-> FALSE]
DynamicPorts == "port_id_t" :> [static_mapping |-> [eth2 |-> 1], dynamic_translation |-> TRUE]

-----------------------------------------------------------------------------
(* Assignments to the variables.                                           *)
SymKeys == UNION {{<<h, f>> : f \in DOMAIN SymPrograms["router"].value.headers[h].fields} :
                    h \in DOMAIN SymPrograms["router"].value.headers}

PacketFields(dst, type, addr, ttl, port) ==
  (<<"eth", "dst">> :> dst) @@ (<<"eth", "type">> :> type) @@ (<<"ip", "addr">> :> addr) @@ (<<"ip", "ttl">> :> ttl)
    @@ (<<"standard_metadata", "ingress_port">> :> port)

\* All other fields are one.
Completed(a) == [a EXCEPT !.fields = @ @@ [k \in SymKeys |-> 1]]

NoVariables == [k \in {} |-> 0]
Assignment(fields, selector, replica) ==
  [fields |-> fields, hashes |-> NoVariables, selectors |-> (<<"ingress.l2", 0>> :> selector),
   replicas |-> (3 :> replica), matches |-> NoVariables, chosen |-> NoVariables, params |-> NoVariables]

\* The variables of the symbolic entries.
EntryVariables(a, dst, in_port, acl_actions, addr, route_actions, port) ==
  [a EXCEPT
     !.matches = (<<"ingress.acl", 3, "dst">> :> dst) @@ (<<"ingress.acl", 3, "in_port">> :> in_port)
                   @@ (<<"ingress.route", 3, "addr">> :> addr),
     !.chosen = (<<"ingress.acl", 3>> :> acl_actions) @@ (<<"ingress.route", 3>> :> route_actions),
     !.params = (<<"ingress.acl", 3, "ingress.mirror", "flag">> :> 1)
                  @@ (<<"ingress.route", 3, "ingress.set_port", "port">> :> port)
                  @@ (<<"ingress.route", 3, "ingress.set_group", "group">> :> 3)]
Masked(value, mask) == [value |-> value, mask |-> mask]

ConcreteAssignments ==
  {Assignment(PacketFields(dst, type, addr, 0, port), 0, 1) :
     dst \in 0..2, type \in {0, 5, 8}, addr \in {4, 5, 12}, port \in {1, 2}}
  \cup {Assignment(PacketFields(1, type, 12, 1, 2), selector, replica) : type \in {0, 8}, selector \in 0..2, replica \in 0..2}

AclAssignments ==
  {EntryVariables(Assignment(PacketFields(dst, 8, 5, 0, port), 0, 1), match, in_port, actions,
                  Masked(4, 14), {"ingress.set_port"}, 1) :
     dst \in 1..2, port \in {1, 2},
     match \in {Masked(0, 0), Masked(1, 15), Masked(3, 1)},
     in_port \in {Masked(0, 0), Masked(2, 511), Masked(2, 2)},
     actions \in {{"ingress.punt"}, {"ingress.mirror"}, {"ingress.deny", "ingress.punt"}}}
HalfAssignments ==
  {EntryVariables(Assignment(PacketFields(dst, 8, 5, 0, port), 0, 1), match, in_port, {"ingress.mirror"},
                  Masked(4, 14), {"ingress.set_port"}, 1) :
     dst \in 1..2, port \in 0..1,
     match \in {Masked(1, 3), Masked(2, 3), Masked(1, 15)},
     in_port \in {Masked(0, 0), Masked(0, 511), Masked(2, 511)}}
RouteAssignments ==
  {EntryVariables(Assignment(PacketFields(1, 8, addr, 0, 1), 0, 1), Masked(1, 15), Masked(1, 511), {"ingress.mirror"},
                  match, actions, port) :
     addr \in {4, 6, 12},
     match \in {Masked(4, 14), Masked(4, 12), Masked(6, 14), Masked(12, 10)},
     actions \in {{"ingress.set_port"}, {"ingress.set_group"}, {}}, port \in {0, 3}}

AssignmentsOf(name) ==
  CASE name \in {"router", "strict", "nested"} -> ConcreteAssignments
    [] name = "symbolic" -> AclAssignments \cup RouteAssignments
    [] name = "half" -> HalfAssignments

SymScenario(program, entries, ports, translations) ==
  [program |-> program, entries |-> entries, ports |-> ports, translations |-> translations]

SymScenarios ==
  LET concrete == SymConcrete(SymAclEntries \o RouteEntries \o OtherEntries)
      symbolic == SymbolicEntries(AnyAcl(3), AnyRoute(3))
      half == SymbolicEntries(HalfAcl(3), AnyRoute(3))
  IN ("router" :> SymScenario("router", concrete, {1, 2, 3}, StaticPorts))
       @@ ("strict" :> SymScenario("strict", concrete, {}, DynamicPorts))
       @@ ("nested" :> SymScenario("nested", concrete, {}, DynamicPorts))
       @@ ("symbolic" :> SymScenario("router", symbolic, {1, 2, 3}, StaticPorts))
       @@ ("half" :> SymScenario("router", half, {}, DynamicPorts))

-----------------------------------------------------------------------------
(* A plain interpreter: one packet, one path.  `translator` says which     *)
(* number a port is.                                                       *)
SymNumber(value, type, translator) ==
  IF "int" \in DOMAIN value THEN value.int
  ELSE LET ids == translator.allocators[type].string_to_id
       IN IF value.str \in DOMAIN ids THEN ids[value.str] ELSE CHOOSE n \in 0..511 : ToString(n) = value.str

ValueOf(headers, key) == headers[key].value
BitsOf(n, width) == {i \in 0..(width - 1) : (n \div 2^i) % 2 = 1}

RECURSIVE Parsed(_, _, _)
Parsed(program, name, headers) ==
  IF name = Sym!EndOfParser THEN headers
  ELSE
  LET state == program.parser.parse_states[name]
      after == Sym!EvaluateParserOperations(state, headers, program, TRUE).value
      key == FoldLeft(LAMBDA n, k : n * 16 + ValueOf(after, k), 0, state.transition_key_fields)
      Takes(t) == \/ t.default
                  \/ IF t.mask = {} THEN key = t.value.value
                     ELSE \A m \in t.mask : BitsOf(key, 8) \cap BitsOf(m.value, 8) = BitsOf(t.value.value, 8) \cap BitsOf(m.value, 8)
      taken == SelectSeq(state.transitions, Takes)
  IN IF taken = <<>> THEN (<<"standard_metadata", "parser_error">> :> Sym!BitVector(program.errors.NoMatch, 4)) @@ after
     ELSE Parsed(program, taken[1].next_state, after)

Fits(m, definition, number, translator) ==
  LET width == IF definition.bitwidth = 0 THEN 9 ELSE definition.bitwidth
      bits == BitsOf(number, width)
      Bits1(v) == BitsOf(SymNumber(v, definition.type_name, translator), width)
  IN CASE "exact" \in DOMAIN m -> bits = Bits1(m.exact)
       [] "optional" \in DOMAIN m -> bits = Bits1(m.optional)
       [] "lpm" \in DOMAIN m ->
            \A i \in (width - m.lpm.prefix_length)..(width - 1) : (i \in bits) = (i \in Bits1(m.lpm.value))
       [] "ternary" \in DOMAIN m -> bits \cap Bits1(m.ternary.mask) = Bits1(m.ternary.value)

PrefixLengthOf(entry) ==
  LET lpm == {m \in ToSet(entry.matches) : "lpm" \in DOMAIN m}
  IN IF lpm = {} THEN 0 ELSE (CHOOSE m \in lpm : TRUE).lpm.prefix_length

\* The entry of the highest priority or of the longest prefix.
Winner(table, entries, headers, translator) ==
  LET fields == table.table_definition.match_fields_by_name
      matching == {j \in DOMAIN entries :
                     \A m \in ToSet(entries[j].matches) :
                       Fits(m, fields[m.name], ValueOf(headers, table.match_name_to_field[m.name]), translator)}
      Beats(i, j) == \/ entries[i].priority > entries[j].priority
                     \/ PrefixLengthOf(entries[i]) > PrefixLengthOf(entries[j]) /\ entries[i].priority = entries[j].priority
  IN {j \in matching : \A i \in matching : ~Beats(i, j)}

Performed(program, action, headers, a, translator) ==
  LET definition == program.actions[action.name]
      scope == [p \in DOMAIN definition.parameter_to_bitwidth |->
                  LET arg == CHOOSE arg \in ToSet(action.params) : arg.name = p
                      parameter == definition.action_definition.params_by_name[p]
                  IN Sym!BitVector(SymNumber(arg.value, parameter.type_name, translator), definition.parameter_to_bitwidth[p])]
  IN Sym!EvaluateActionBody(definition, scope, [program |-> program, valuation |-> a], [headers |-> headers], TRUE).value.headers

Picked(seq, n) == seq[IF n + 1 \in DOMAIN seq THEN n + 1 ELSE Len(seq)]

\* The headers at the end of the pipeline and the entries that were hit.
RECURSIVE Applied(_, _, _, _, _, _)
Applied(program, entries, name, run, a, translator) ==
  CASE name = Sym!EndOfPipeline -> run
    [] name \in DOMAIN program.conditionals ->
         LET conditional == program.conditionals[name]
             holds == Sym!EvaluateRValue(conditional.condition, [headers |-> run.headers, scope |-> Sym!EmptyScope]).value.value
         IN Applied(program, entries, IF holds THEN conditional.if_branch ELSE conditional.else_branch, run, a, translator)
    [] name \in DOMAIN program.tables ->
         LET table == program.tables[name]
             of == IF name \in DOMAIN entries THEN [j \in DOMAIN entries[name] |-> entries[name][j].concrete_entry.table_entry]
                   ELSE <<>>
             winners == Winner(table, of, run.headers, translator)
             hit == CHOOSE j \in winners : \A i \in winners : j <= i
             action == CASE winners = {} -> [name |-> table.default_action, params |-> <<>>]
                         [] "action" \in DOMAIN of[hit] -> of[hit].action
                         [] OTHER -> Picked(of[hit].action_set, a.selectors[<<name, hit - 1>>])
             next == table.action_to_next_control
             after == Performed(program, action, run.headers, a, translator)
         IN Applied(program, entries,
                    IF "__HIT__" \in DOMAIN next THEN next[IF winners = {} THEN "__MISS__" ELSE "__HIT__"]
                    ELSE next[action.name],
                    [headers |-> after, hits |-> (name :> IF winners = {} THEN -1 ELSE hit - 1) @@ run.hits],
                    a, translator)

Replicated(program, entries, headers, a, translator) ==
  LET Of(f) == <<"standard_metadata", f>>
      groups == {e.concrete_entry.multicast_group_entry : e \in ToSet(entries[Sym!kMulticastGroupTable])}
      Number(f, n) == Of(f) :> Sym!BitVector(n, program.headers["standard_metadata"].fields[f])
      hit == {g \in groups : g.multicast_group_id = ValueOf(headers, Of("mcast_grp"))}
      group == CHOOSE g \in hit : TRUE
      replica == Picked(group.replicas, a.replicas[group.multicast_group_id])
  IN IF hit = {} THEN headers
     ELSE Number("instance_type", 5) @@ Number("egress_rid", replica.instance)
            @@ Number("egress_spec", SymNumber([str |-> replica.port], "port_id_t", translator)) @@ headers

Interpreted(program, entries, a, translator) ==
  LET spec == <<"standard_metadata", "egress_spec">>
      initial == Sym!InitializeIngressHeaders(program, Sym!FreeSymbolicHeaders(program, a)).value
      parsed == Parsed(program, program.parser.initial_state, initial)
      ingress == Applied(program, entries, program.pipeline["ingress"], [headers |-> parsed, hits |-> NoVariables], a, translator)
      replicated == Replicated(program, entries, ingress.headers, a, translator)
      sent == (<<"standard_metadata", "egress_port">> :> replicated[spec]) @@ replicated
      egress == IF ValueOf(replicated, spec) = 511 THEN [ingress EXCEPT !.headers = replicated]
                ELSE Applied(program, entries, program.pipeline["egress"], [ingress EXCEPT !.headers = sent], a, translator)
  IN [parsed |-> parsed, headers |-> egress.headers, hits |-> egress.hits,
      dropped |-> ValueOf(egress.headers, spec) = 511]

-----------------------------------------------------------------------------
ExecuteSymbolically ==
  \E name \in {"router", "strict", "nested", "symbolic", "half"} : \E a \in AssignmentsOf(name) :
    call' = [op |-> "execute", scenario |-> name, assignment |-> a]

\* The entries of a solution, given to the program again.
EntriesAgain(extracted) ==
  LET tables == Sym!InOrder(DOMAIN extracted)
      entities == FlattenSeq([j \in DOMAIN tables |->
                                [k \in DOMAIN extracted[tables[j]] |-> extracted[tables[j]][k].concrete_entry]])
  IN Sym!ParseTableEntries(SymInfo, entities)

SameValues(left, right) == /\ DOMAIN left = DOMAIN right
                           /\ \A k \in DOMAIN left : left[k].value = right[k].value
HitOf(run, t) == IF t \in DOMAIN run.hits THEN run.hits[t] ELSE -1

ExecutionIsExact(called) ==
  called.op = "execute" =>
    LET scenario == SymScenarios[called.scenario]
        assignment == Completed(called.assignment)
        program == SymPrograms[scenario.program].value
        result == Sym!EvaluateAt(program, scenario.entries, scenario.ports, scenario.translations, assignment)
        model == result.value.context
        state == [program |-> program, table_entries |-> scenario.entries, translator |-> result.value.translator]
        extracted == Sym!ExtractEntries(state, model)
        again == EntriesAgain(extracted.value)
        run == Interpreted(program, again.value, assignment, result.value.translator)
        symbolic == assignment.chosen # NoVariables
    IN /\ result.ok
       /\ (result.value.asserted \/ ~symbolic) =>
            /\ extracted.ok /\ again.ok
            /\ SameValues(model.parsed_headers, run.parsed)
            /\ SameValues(model.egress_headers, run.headers)
            /\ model.trace.dropped = run.dropped
            /\ DOMAIN run.hits \subseteq DOMAIN model.trace.matched_entries
            /\ \A t \in DOMAIN model.trace.matched_entries :
                 model.trace.matched_entries[t] = [matched |-> t \in DOMAIN run.hits, entry_index |-> HitOf(run, t)]

\* What the symbolic execution says of a packet is what becomes of it: where
\* what is asserted holds, the entries read back from the model are valid, and
\* the program, executed on one path with these entries, parses the packet
\* into the same headers, hits the same entry of the same tables, executes no
\* table twice or not at all that it is said to match, and leaves the same
\* headers at the end.
SymbolicExecutionIsExact == [][ExecutionIsExact(call')]_call

-----------------------------------------------------------------------------
(* Packets.  The criteria are those of coverage goals, and one that names  *)
(* a table without saying which of its entries is to be hit.               *)
SymState(name) ==
  LET scenario == SymScenarios[name]
  IN Sym!EvaluateP4Program(SymPrograms[scenario.program].value, scenario.entries, scenario.ports,
                           scenario.translations, {Completed(a) : a \in AssignmentsOf(name)}).value
SymStates == ("router" :> SymState("router")) @@ ("symbolic" :> SymState("symbolic"))

EntryGoal(tables) ==
  [tables |-> tables, table_exclusions |-> {}, cover_default_actions |-> TRUE, exclude_empty_tables |-> TRUE]
HeaderGoal(headers) ==
  [headers |-> headers, header_exclusions |-> {}, headers_to_prevent_unless_explicitly_covered |-> {"ip"},
   include_wildcard_header |-> FALSE]

SymGoals ==
  <<[cartesian_product_coverage |-> [packet_fate_coverage |-> [fates |-> <<"DROP", "NOT_DROP">>],
                                     entry_coverage |-> EntryGoal({"ingress.l2"}),
                                     header_coverage |-> HeaderGoal({"ip", "eth"})]],
    [entry_coverage |-> [EntryGoal({"*"}) EXCEPT !.table_exclusions = {"ingress.l2"}]],
    [custom_criteria_coverage |->
       <<[ingress_port_criteria |-> 2, output_criteria |-> FALSE],
         [input_packet_header_criteria |-> <<[name |-> <<"eth", "dst">>, negated |-> TRUE,
                                              match |-> [ternary |-> [value |-> 0, mask |-> 1]]]>>],
         [table_reachability_criteria |-> "ingress.acl"]>>]>>

SymCriteria == [name \in {"router", "symbolic"} |-> Sym!GenerateSynthesisCriteriaFor(SymGoals, SymStates[name]).value]

kMaxCriteria == 23   \* the most that the goals ask for
kMaxPackets == 3

ASSUME \A name \in DOMAIN SymCriteria : Len(SymCriteria[name]) <= kMaxCriteria

StartSynthesizer == \E name \in {"router", "symbolic"} : call' = [op |-> "synthesize", scenario |-> name, criteria |-> <<>>]

\* The third call asks for what one of the first two asked for, or for the first goal.
SynthesizeNext ==
  /\ call.op = "synthesize" /\ Len(call.criteria) < kMaxPackets
  /\ \E n \in 1..kMaxCriteria :
       /\ Len(call.criteria) = kMaxPackets - 1 => n = 1 \/ n \in ToSet(call.criteria)
       /\ call' = [call EXCEPT !.criteria = Append(@, n)]

\* The fields of a packet on the wire, and of the port it comes in on.
NumberAt(bits, from) == FoldLeft(LAMBDA n, b : 2 * n + b, 0, SubSeq(bits, from, from + 3))
FromWire(packet, model, translator) ==
  LET Field(h, f, at) == IF Len(packet.packet) >= at + 3 THEN <<h, f>> :> NumberAt(packet.packet, at) ELSE NoVariables
      port == SymNumber([str |-> packet.ingress_port], "port_id_t", translator)
      \* The order of the fields is that of the header's type.
      order == FlattenSeq(<<[j \in 1..2 |-> <<"eth", SymHeaderTypes[1].fields[j][1].string>>],
                            [j \in 1..2 |-> <<"ip", SymHeaderTypes[2].fields[j][1].string>>]>>)
  IN [model.valuation EXCEPT
        !.fields = (<<"standard_metadata", "ingress_port">> :> port)
                     @@ Field(order[1][1], order[1][2], 1) @@ Field(order[2][1], order[2][2], 5)
                     @@ Field(order[3][1], order[3][2], 9) @@ Field(order[4][1], order[4][2], 13)
                     @@ [k \in DOMAIN @ |-> 0]]

\* The packet of each model, and what the program does with it.
PacketsOf(name) ==
  LET state == SymStates[name]
      Packet(m) == Sym!SynthesizePacketFromZ3Model(state, m, <<>>, {})
      Run(m) == Interpreted(state.program, EntriesAgain(Sym!ExtractEntries(state, m).value).value,
                            FromWire(Packet(m).value, m, state.translator), state.translator)
  IN {[model |-> m, packet |-> Packet(m), run |-> IF Packet(m).ok THEN Run(m) ELSE {}] : m \in state.models}
SymPackets == ("router" :> PacketsOf("router")) @@ ("symbolic" :> PacketsOf("symbolic"))

MarkedBy(run) == run.headers[<<"scalars", "userMetadata._marked_to_mirror1">>].value = 1

PredictedRightly(p) ==
  /\ p.packet.ok
  /\ p.packet.value.mirror_expected = MarkedBy(p.run)
  /\ p.packet.value.drop_expected = (p.run.dropped /\ ~MarkedBy(p.run))
  /\ p.packet.value.punt_expected = (p.run.headers[<<"", "$got_cloned$">>].value /\ ~MarkedBy(p.run))

MeetsCriteria(criteria, run, model) ==
  LET Given(c) == c \in DOMAIN criteria
      Reads(k) == IF k[2] = "$valid$" THEN IF run.parsed[k].value THEN 1 ELSE 0 ELSE run.parsed[k].value
      Agrees(c) == IF "exact" \in DOMAIN c.match THEN Reads(c.name) = c.match.exact
                   ELSE BitsOf(Reads(c.name), 9) \cap BitsOf(c.match.ternary.mask, 9) = BitsOf(c.match.ternary.value, 9)
  IN /\ Given("output_criteria") => run.dropped = criteria.output_criteria
     /\ Given("ingress_port_criteria") => model.ingress_port.value = criteria.ingress_port_criteria
     /\ Given("table_reachability_criteria") => criteria.table_reachability_criteria \in DOMAIN run.hits
     /\ Given("table_entry_reachability_criteria") =>
          HitOf(run, criteria.table_entry_reachability_criteria.table_name)
            = criteria.table_entry_reachability_criteria.match_index
     /\ Given("input_packet_header_criteria") =>
          \A c \in ToSet(criteria.input_packet_header_criteria) : c.negated # Agrees(c)

\* The paths of a program whose parser has one; any of the entries may be there.
CoverPaths ==
  \E acl \in SUBSET (1..3), route \in SUBSET (1..3) : call' = [op |-> "paths", acl |-> acl, route |-> route]

PathAssignments ==
  {Completed(Assignment(PacketFields(dst, 0, addr, ttl, port), 0, 1)) : dst \in 0..2, addr \in {4, 5, 12}, ttl \in 0..1, port \in 1..2}

PathsAreCovered(called) ==
  called.op = "paths" =>
    LET program == SymPrograms["nested"].value
        Chosen(seq, S) == SelectSeq([j \in DOMAIN seq |-> [j |-> j, e |-> seq[j]]], LAMBDA x : x.j \in S)
        Entities(seq, S) == LET c == Chosen(seq, S) IN [j \in DOMAIN c |-> c[j].e]
        entries == SymConcrete(Entities(SymAclEntries, called.acl) \o Entities(RouteEntries, called.route)
                                 \o <<OtherEntries[1], OtherEntries[3]>>)
        results == Sym!SynthesizePacketsCoveringAllControlFlowPaths(program, entries, {}, StaticPorts, PathAssignments)
        translator == [allocators |-> "port_id_t" :> [string_to_id |-> StaticPorts["port_id_t"].static_mapping]]
        packets == UNION ToSet(results.value)
        Expected(a) ==
          LET run == Interpreted(program, entries, a, translator)
          IN [packet |-> Sym!DeparsePacket(run.parsed, program).value, mirror |-> MarkedBy(run),
              drop |-> run.dropped /\ ~MarkedBy(run)]
    IN /\ results.ok
       /\ {[packet |-> p.packet, mirror |-> p.mirror_expected, drop |-> p.drop_expected] : p \in packets}
            = {Expected(a) : a \in PathAssignments}

CriteriaAreMet(called) ==
  (called.op = "synthesize" /\ called.criteria # <<>> /\ ToSet(called.criteria) \subseteq DOMAIN SymCriteria[called.scenario]) =>
    LET criteria == [j \in DOMAIN called.criteria |-> SymCriteria[called.scenario][called.criteria[j]]]
        Call(before, c) == LET after == Sym!SynthesizePacket(before.synthesizer, c)
                           IN [after EXCEPT !.ok = @ /\ before.ok]
        results == FoldLeft(Call, [synthesizer |-> Sym!CreateSynthesizer(SymStates[called.scenario]), ok |-> TRUE], criteria)
        packets == {p \in SymPackets[called.scenario] : p.model \in results.models}
    IN results.ok =>
         /\ packets = {p \in SymPackets[called.scenario] : MeetsCriteria(Last(criteria), p.run, p.model)}
         /\ \A p \in packets : PredictedRightly(p)

\* Whatever packets were asked for before, and as long as none of the calls
\* failed, the packet that is synthesized, sent to the program on its port, has
\* the fate and hits the entry that the criteria ask for, and it is dropped,
\* punted and mirrored as predicted; and one is found whenever there is one.
\* Without criteria, the packets of all paths are those that can be told apart.
PacketsMeetTheirCriteria == [][CriteriaAreMet(call') /\ PathsAreCovered(call')]_call
=============================================================================
