------------------------------ MODULE MCAppDb ------------------------------
(***************************************************************************)
(* Calls of the switch's own libraries: the translation of entries to      *)
(* APPL_DB and back, state verification and Read, and the verification of  *)
(* a pushed P4Info.                                                        *)
(***************************************************************************)
EXTENDS Integers, Sequences, SequencesExt, FiniteSets, LibraryCall

-----------------------------------------------------------------------------
(* Entries of an ACL table, a routing table, a group table with weighted   *)
(* actions and the VRF and VLAN tables, and multicast groups, written to   *)
(* APPL_DB two at a time; caches against the rows of another cache with    *)
(* one foreign row among them; and Reads of up to three cached entities.   *)

Db == INSTANCE AppDbTranslation

-----------------------------------------------------------------------------
(* Entries with a port in a match, in a parameter and as a watch port, a   *)
(* queue in every form a string can have, and IPv6 masks on either half,   *)
(* written under one queue configuration and read back by a warm restart.  *)

Ir == INSTANCE IrTranslation

PortMap == [Ethernet0 |-> "1", Ethernet4 |-> "2"]

QueueStrings ==
  {Ir!Dec(0), Ir!Dec(3), Ir!Dec(12), Ir!Hex(3), Ir!Hex(18), Ir!HexWord(7), Ir!Word(1), Ir!Word(2)}

\* Rows with one pair, with two, with a repeated id, and with an id in hex.
QueueConfigs ==
  {<<<<Ir!Word(1), Ir!Dec(3)>>>>,
   <<<<Ir!HexWord(7), Ir!Dec(12)>>>>,
   <<<<Ir!Dec(3), Ir!Dec(18)>>, <<Ir!Word(1), Ir!Dec(0)>>>>,
   <<<<Ir!Word(1), Ir!Dec(3)>>, <<Ir!Word(2), Ir!Dec(3)>>>>,
   <<<<Ir!Word(1), Ir!Hex(3)>>>>}

\* What up to two events for a row of the queue table leave behind.
Translators ==
  LET none == [q \in {} |-> 0]
      after(translator) == {Ir!HandleQueueEvent(translator, "SET", pairs) : pairs \in QueueConfigs}
                             \cup {Ir!HandleQueueEvent(translator, "DEL", <<>>)}
  IN UNION {after(t) : t \in after(none)}

PortIds == {"1", "2", "3"}

PortMatches == [kind : {"exact", "optional", "ternary"}, type : {"port_id_t"}, value : PortIds,
                mask : {<<0, 0>>}]
Ipv6Matches == {m \in [kind : {"ternary"}, type : {"ipv6"}, value : {<<1, 0>>, <<0, 1>>, <<0, 0>>},
                       mask : {<<1, 0>>, <<0, 1>>, <<1, 1>>, <<0, 0>>}] :
                  \A h \in 1..2 : m.mask[h] = 0 => m.value[h] = 0}
UnknownField == [kind |-> "exact", type |-> "", value |-> "1", mask |-> <<0, 0>>]

PortParam(value) == [type |-> "port_id_t", value |-> value]
QueueParams == [type : {"cpu_queue_t"}, value : QueueStrings]
UnknownParam == [type |-> "", value |-> "1"]

Actions(params) == [params : params, watch_port : {"", "1", "3"}]

TableEntry(match, actions) ==
  [type |-> "table_entry", body |-> [matches |-> <<match>>, actions |-> actions]]
APortMatch == [kind |-> "exact", type |-> "port_id_t", value |-> "1", mask |-> <<0, 0>>]
AQueueAction == [params |-> <<[type |-> "cpu_queue_t", value |-> Ir!Word(1)]>>, watch_port |-> "1"]
AWatchedDrop == [params |-> <<>>, watch_port |-> "2"]

ReadsBack(translator, entity) ==
  call' = [op |-> "read_back", translator |-> translator, entity |-> entity]

\* Every match with one action, every action with one match.
WriteAndReadBack ==
  \E t \in Translators :
    \/ \E m \in PortMatches \cup {UnknownField} : ReadsBack(t, TableEntry(m, <<AQueueAction>>))
    \/ \E m \in Ipv6Matches : ReadsBack(t, TableEntry(m, <<AQueueAction>>))
    \/ \E a \in Actions({<<PortParam(v)>> : v \in PortIds} \cup {<<UnknownParam>>}) :
         ReadsBack(t, TableEntry(APortMatch, <<a>>)) \/ ReadsBack(t, TableEntry(APortMatch, <<a, AWatchedDrop>>))
    \/ \E a \in Actions({<<q>> : q \in QueueParams} \cup {<<q, PortParam("2")>> : q \in QueueParams}) :
         ReadsBack(t, TableEntry(APortMatch, <<a>>)) \/ ReadsBack(t, TableEntry(APortMatch, <<AWatchedDrop, a>>))
    \/ \E n \in 1..3 : \E r \in [1..n -> PortIds] : ReadsBack(t, [type |-> "multicast", body |-> <<r>>])

-----------------------------------------------------------------------------

\* An entry written to the P4RT table and read back by a warm restart with
\* the same ports and queues names the same ports and queues, and writing it
\* again gives the same row; an entry that names a queue nobody configured is
\* written as it is and cannot be read back at all.
NamesReadBackTheSame(called) ==
  called.op = "read_back" =>
    LET row == Ir!RowOf(PortMap, called.translator, called.entity)
        back == Ir!ReadBack(PortMap, called.translator, row.value)
    IN row.ok =>
         IF Ir!NamesAnUnknownQueue(called.translator, called.entity)
         THEN ~back.ok
         ELSE /\ back.ok
              /\ Ir!SameEntry(called.translator, called.entity, back.value)
              /\ Ir!RowOf(PortMap, called.translator, back.value) = row

-----------------------------------------------------------------------------
(* Rows, state verification and Reads.                                     *)

FieldDef(kind, format) == [kind |-> kind, format |-> format]
NoParams == [n \in {} |-> ""]

\* Id fields, the formats of their values, and the parameters of actions.
DbInfo ==
  [acl_table |-> [type |-> "ACL", role |-> "sdn",
                  matches |-> [src_ip |-> FieldDef("ternary", "IPV4"), in_port |-> FieldDef("optional", "STRING")],
                  actions |-> [trap |-> [queue |-> "STRING"], drop |-> NoParams]],
   ipv4_table |-> [type |-> "FIXED", role |-> "sdn",
                   matches |-> [vrf_id |-> FieldDef("exact", "STRING"), ipv4_dst |-> FieldDef("lpm", "IPV4")],
                   actions |-> [set_nexthop |-> [nexthop |-> "STRING"], drop |-> NoParams]],
   wcmp_table |-> [type |-> "FIXED", role |-> "sdn",
                   matches |-> [group |-> FieldDef("exact", "STRING")],
                   actions |-> [set_nexthop |-> [nexthop |-> "STRING"]]],
   mirror_table |-> [type |-> "FIXED", role |-> "packet_replication",
                     matches |-> [group |-> FieldDef("exact", "STRING")],
                     actions |-> [drop |-> NoParams]]]

Value(format, text) == [format |-> format, text |-> text]
Unset == Value("FORMAT_NOT_SET", "")
Exact(format, text) == [kind |-> "exact", value |-> Value(format, text)]
Lpm(text, length) == [kind |-> "lpm", value |-> Value("IPV4", text), prefix_length |-> length]
Ternary(text, mask) == [kind |-> "ternary", value |-> Value("IPV4", text), mask |-> Value("IPV4", mask)]
Optional(value) == [kind |-> "optional", value |-> value]

Action(name, params) == [name |-> name, params |-> params, weight |-> 0, watch_port |-> ""]
Member(nexthop, weight, port) ==
  [name |-> "set_nexthop", params |-> [nexthop |-> Value("STRING", nexthop)], weight |-> weight, watch_port |-> port]
Trap(queue) == Action("trap", [queue |-> Value("STRING", queue)])
DropAction == Action("drop", NoParams)

Entry(table, matches, actions) ==
  [kind |-> "table_entry", table_name |-> table, priority |-> 0, matches |-> matches, type |-> "action",
   actions |-> actions, meter_config |-> Db!NoMeter, controller_metadata |-> ""]

Meter(cir, pir) == [cir |-> cir, cburst |-> cir, pir |-> pir, pburst |-> pir]

AclEntries ==
  {[Entry("acl_table", m, <<a>>) EXCEPT !.priority = p, !.meter_config = c, !.controller_metadata = d] :
     m \in {[src_ip |-> Ternary("a", "b")], [src_ip |-> Ternary("b", "a")],
            [src_ip |-> Ternary("a", "b"), in_port |-> Optional(Value("STRING", "Ethernet0"))],
            [src_ip |-> Ternary("a", "b"), in_port |-> Optional(Unset)]},
     a \in {Trap("q"), DropAction}, p \in {1, 2}, c \in {Db!NoMeter, Meter(0, 0), Meter(0, 1), Meter(1, 1)},
     d \in {"", "m"}}

Routes ==
  {Entry("ipv4_table", [vrf_id |-> Exact("STRING", v), ipv4_dst |-> Lpm(t, l)], <<a>>) :
     v \in {"vrf-1", "vrf-2"}, t \in {"a", "b"}, l \in {8, 16},
     a \in {DropAction, Action("set_nexthop", [nexthop |-> Value("STRING", "n")])}}
  \cup {Entry("ipv4_table", [vrf_id |-> Exact("STRING", "vrf-1")], <<DropAction>>),
        Entry("ipv4_table", [vrf_id |-> [kind |-> "exact", value |-> Unset]], <<DropAction>>),
        Entry("unknown_table", [vrf_id |-> Exact("STRING", "vrf-1")], <<DropAction>>)}

Members == {Member(n, w, p) : n \in {"n", "o"}, w \in {1, 2}, p \in {"", "Ethernet0"}}

WcmpGroups ==
  {[Entry("wcmp_table", [group |-> Exact("STRING", "g")], s) EXCEPT !.type = "action_set"] :
     s \in {<<>>} \cup {<<a>> : a \in Members} \cup {<<a, b>> : a, b \in Members}}

ReplicasOfTwoPorts == [port : {"Ethernet0", "Ethernet4"}, instance : {0, 1}]
WithBackups(replica, backups) == [port |-> replica.port, instance |-> replica.instance, backups |-> backups]
ReplicaOne == [port |-> "Ethernet8", instance |-> 1]

MulticastGroups ==
  {[kind |-> "multicast", multicast_group_id |-> i, replicas |-> r, controller_metadata |-> d] :
     i \in {1, 2}, d \in {"", "m"},
     r \in {<<>>} \cup {<<WithBackups(a, b)>> : a \in ReplicasOfTwoPorts, b \in {<<>>, <<ReplicaOne>>}}
           \cup {<<WithBackups(ReplicaOne, b), WithBackups(a, <<>>)>> :
                    a \in ReplicasOfTwoPorts, b \in {<<>>, <<ReplicaOne>>} \cup {<<c, c>> : c \in ReplicasOfTwoPorts}}}

VrfsAndVlans ==
  {[Entry("vrf_table", [vrf_id |-> Exact("STRING", v)], <<Action("no_action", NoParams)>>)
      EXCEPT !.controller_metadata = d] : v \in {"", "vrf-1", "vrf-2"}, d \in {"", "m"}}
  \cup {[Entry("vlan_table", [vlan_id |-> Exact("HEX_STRING", Db!Hex(i))], <<Action("no_action", NoParams)>>)
            EXCEPT !.controller_metadata = d] : i \in {0, 1, 4094, 4095}, d \in {"", "m"}}
  \cup {[Entry("vlan_membership_table",
                [vlan_id |-> Exact("HEX_STRING", Db!Hex(i)), port |-> Exact("STRING", p)], <<Action(a, NoParams)>>)
            EXCEPT !.controller_metadata = d] :
          i \in {0, 1, 2}, p \in {"", "Ethernet0", "Ethernet4"}, a \in {"make_tagged_member", "make_untagged_member"},
          d \in {"", "m"}}

\* Two entities of one kind, one of which may take the other's row.
WriteRows ==
  \/ \E a \in AclEntries : \E b \in {e \in AclEntries : e.meter_config = Db!NoMeter /\ e.actions = <<DropAction>>} :
       call' = [op |-> "rows", a |-> a, b |-> b]
  \/ \E a, b \in Routes : call' = [op |-> "rows", a |-> a, b |-> b]
  \/ \E a \in WcmpGroups : call' = [op |-> "rows", a |-> a, b |-> CHOOSE b \in WcmpGroups : b.actions = <<>>]
  \/ \E a \in MulticastGroups : \E b \in {g \in MulticastGroups : g.replicas = <<>>} :
       call' = [op |-> "rows", a |-> a, b |-> b]
  \/ \E a, b \in VrfsAndVlans : a.table_name = b.table_name /\ call' = [op |-> "rows", a |-> a, b |-> b]

-----------------------------------------------------------------------------

SomeAclEntry == [Entry("acl_table", [src_ip |-> Ternary("a", "b")], <<DropAction>>) EXCEPT !.priority = 1]
SomeGroup(replicas) ==
  [kind |-> "multicast", multicast_group_id |-> 1, replicas |-> replicas, controller_metadata |-> ""]
SomeVrf == Entry("vrf_table", [vrf_id |-> Exact("STRING", "vrf-1")], <<Action("no_action", NoParams)>>)
TwoReplicas == <<WithBackups(ReplicaOne, <<>>), WithBackups([port |-> "Ethernet0", instance |-> 0], <<>>)>>

\* At most one entity of each key.
Caches ==
  {a \cup g \cup v :
     a \in {{}, {SomeAclEntry}, {[SomeAclEntry EXCEPT !.meter_config = Meter(0, 0)]},
            {[SomeAclEntry EXCEPT !.meter_config = Meter(0, 1)], [SomeAclEntry EXCEPT !.priority = 2]},
            {[SomeAclEntry EXCEPT !.actions = <<Trap("q")>>]}},
     g \in {{}, {SomeGroup(TwoReplicas)}, {SomeGroup(Reverse(TwoReplicas))}, {SomeGroup(Tail(TwoReplicas))},
            {SomeGroup(<<WithBackups(ReplicaOne, <<ReplicaOne>>), TwoReplicas[2]>>)},
            {[SomeGroup(TwoReplicas) EXCEPT !.controller_metadata = "m"]}},
     v \in {{}, {SomeVrf}}}

RowsOf(entities) == {Db!CreateAppDbUpdate(DbInfo, "INSERT", e).value.row : e \in entities}

\* A definition, an entry of a table the P4Info does not have, and a group
\* whose backups are not as many as its replicas.
Json(replica) == Db!ReplicaToJson(replica)
ForeignRows ==
  {<<"P4RT", <<"ACL_TABLE_DEFINITION_TABLE", "ACL_acl_table">>, Db!NoFields>>,
   <<"P4RT", <<"ACL", "unknown_table", Db!NoFields>>, [f \in {<<"action">>} |-> <<"drop">>]>>,
   <<"P4RT", <<Db!Replication, Db!Hex(2)>>,
     [f \in {<<"replicas">>, <<"backups">>} |->
        IF f = <<"replicas">> THEN <<Json(ReplicaOne)>> ELSE <<<<Json(ReplicaOne)>>, <<>>>>]>>,
   <<"HASH_TABLE", <<"hash_ipv4_config">>, Db!NoFields>>}

VerifyTables ==
  \E cache, written \in Caches : \E foreign \in {{}} \cup {{row} : row \in ForeignRows} :
    \E applied \in {{}, RowsOf({SomeVrf})} :
      call' = [op |-> "verify", cache |-> cache, app_db |-> RowsOf(written) \cup foreign, app_state_db |-> applied]

-----------------------------------------------------------------------------

Cached(entity, translates) == [entity |-> entity, translates |-> translates]
Mirror == Entry("mirror_table", [group |-> Exact("STRING", "g")], <<DropAction>>)
Metered == [SomeAclEntry EXCEPT !.priority = 2, !.meter_config = Meter(0, 1)]

ReadCaches ==
  LET cached == {Cached(SomeAclEntry, TRUE), Cached(SomeAclEntry, FALSE), Cached(Metered, TRUE),
                 Cached(Mirror, TRUE), Cached(SomeGroup(TwoReplicas), TRUE)}
  IN {s \in SeqOf(cached, 3) : Cardinality({s[j].entity : j \in DOMAIN s}) = Len(s)}

ReadRequests == [kind : {"table_entry", "multicast", "counter"}, filtered : BOOLEAN]
Counters ==
  {[k \in {} |-> Db!NoFields],
   [k \in {Db!RedisKey(DbInfo, e).value : e \in {SomeAclEntry, Metered}} |->
      [packets |-> 1, bytes |-> Db!NotANumber, red_bytes |-> 2]]}

ReadCache ==
  \E cache \in ReadCaches : \E role \in {"", "sdn"} : \E batch_size \in {1, 2, 3} : \E counters \in Counters :
    \E requests \in {<<a>> : a \in ReadRequests} \cup {<<a, b>> : a, b \in {r \in ReadRequests : ~r.filtered}} :
      call' = [op |-> "read", cache |-> cache, role |-> role, batch_size |-> batch_size, counters |-> counters,
               requests |-> requests]

-----------------------------------------------------------------------------

\* An entity as the database can hold it: neither an optional match without
\* a value, nor a meter configured with zeros, nor the metadata of a VRF.
AsRestored(e) ==
  IF e.kind = "multicast" THEN e
  ELSE LET valued == {n \in DOMAIN e.matches : ~Db!HasNoValue(e.matches[n])}
       IN [e EXCEPT !.matches = [n \in valued |-> e.matches[n]],
                    !.meter_config = IF @ = Meter(0, 0) THEN Db!NoMeter ELSE @,
                    !.controller_metadata = IF e.table_name = "vrf_table" THEN "" ELSE @]

SameKey(a, b) ==
  IF a.kind = "multicast" THEN a.multicast_group_id = b.multicast_group_id
  ELSE /\ a.table_name = b.table_name /\ a.priority = b.priority
       /\ AsRestored(a).matches = AsRestored(b).matches

\* What the switch was told is what it finds in APPL_DB when it restarts, up
\* to what AsRestored leaves out; two entities share a row when and only when
\* they are one entity; an entity is deleted under the key it was inserted
\* with, and modified, where it may be, to the row an insert would write.
RowsReadBackTheSame(called) ==
  called.op = "rows" =>
    LET update(type, e) == Db!CreateAppDbUpdate(DbInfo, type, e)
        a == update("INSERT", called.a)
        b == update("INSERT", called.b)
        fixed == a.value.row[1] \in {"VRF_TABLE", "VLAN_TABLE"}
    IN a.ok => /\ Db!ReadRow(DbInfo, a.value.row) = Db!Ok(AsRestored(called.a))
               /\ update("DELETE", called.a).value.row[2] = a.value.row[2]
               /\ IF fixed THEN ~update("MODIFY", called.a).ok ELSE update("MODIFY", called.a) = a
               /\ b.ok => (SubSeq(a.value.row, 1, 2) = SubSeq(b.value.row, 1, 2) <=> SameKey(called.a, called.b))

\* A warm restart reads back the names of ports and queues, and the rows.
EntriesReadBackTheSame == [][NamesReadBackTheSame(call') /\ RowsReadBackTheSame(call')]_call

\* ReplicasOfTwoPorts without their order and their backups.
AsVerified(e) ==
  IF e.kind = "multicast"
  THEN [e EXCEPT !.replicas = <<{<<r.port, r.instance>> : r \in ToSet(@)}>>]
  ELSE AsRestored(e)

\* State verification passes exactly when a restart would rebuild from the
\* P4RT table the entities that are cached, with the replicas of a group in
\* any order and with any backups, and APPL_STATE_DB has the other tables as
\* APPL_DB has them; a multicast group that cannot be read ends the process.
VerifyIsExact(called) ==
  called.op = "verify" =>
    LET result == Db!VerifyState(DbInfo, called.app_db, called.app_state_db, called.cache)
        p4rt == {row \in called.app_db : row[1] = "P4RT"}
        rebuilt == Db!RebuildEntityEntryCache(DbInfo, p4rt)
        cached == {e \in called.cache : Db!GetAppDbTableType(e) = "P4RT"}
    IN IF \E row \in p4rt : row[2][1] = Db!Replication /\ ~Db!ReadRow(DbInfo, row).ok
       THEN result = Db!Aborted
       ELSE result = "ok" <=> /\ rebuilt.ok
                              /\ {AsVerified(e) : e \in rebuilt.value} = {AsVerified(e) : e \in cached}
                              /\ called.app_db \ p4rt = called.app_state_db

\* A Read answers, for each of its requests, every entity of the kind that
\* the role may see, once and with its counters, in one response unless the
\* batch size is one; a cached ACL entry whose port has lost its translation
\* makes the whole Read fail.
ReadIsExact(called) ==
  called.op = "read" =>
    LET result == Db!ReadAllEntitiesInBatches(
                    DbInfo, called.batch_size, called.role, called.requests, called.cache, called.counters)
        visible(c, kind) == /\ c.entity.kind = kind
                            /\ kind = "table_entry" /\ called.role # "" => DbInfo[c.entity.table_name].role = called.role
        answer == FlattenSeq([j \in DOMAIN called.requests |->
                    SelectSeq(called.cache, LAMBDA c : visible(c, called.requests[j].kind))])
        supported == \A j \in DOMAIN called.requests :
                       ~called.requests[j].filtered /\ called.requests[j].kind # "counter"
        answered == FlattenSeq(result.value)
    IN /\ result.ok <=> supported /\ \A j \in DOMAIN answer : answer[j].translates
       /\ result.ok =>
            /\ [j \in DOMAIN answered |-> answered[j].entity] = [j \in DOMAIN answer |-> answer[j].entity]
            /\ \A j \in DOMAIN answered :
                 "red_bytes" \in DOMAIN answered[j].counters <=>
                   called.counters # [k \in {} |-> Db!NoFields] /\ answered[j].entity = Metered
            /\ \/ Len(result.value) = 1
               \/ called.batch_size = 1 /\ \A j \in DOMAIN result.value : Len(result.value[j]) <= 1

\* State verification and Read answer neither more nor less than they are to.
ReadAndVerifyAreExact == [][VerifyIsExact(call') /\ ReadIsExact(call')]_call

-----------------------------------------------------------------------------
(* Configs with a routing table, up to two ACL tables and hash settings,   *)
(* good and bad ones, pushed to a switch on which another config is in     *)
(* force, whose action profile is used up to some weight.                  *)

Vf == INSTANCE P4InfoVerification

Lower(letters) == <<letters, "lower">>

\* Annotations of match fields.
OtherAnnotation == [label |-> "", sai_field |-> "", udf |-> <<>>, elements |-> <<>>]
SaiField(field) == [OtherAnnotation EXCEPT !.label = "sai_field", !.sai_field = field]
Part(name, text, number) == [name |-> name, text |-> text, number |-> number]
SaiUdf(length) ==
  [OtherAnnotation EXCEPT !.label = "sai_udf",
                !.udf = <<Part("base", "L3", Vf!NotAnInteger), Part("offset", "2", 2), Part("length", "n", length)>>]
Composite(elements) == [OtherAnnotation EXCEPT !.label = "composite_field", !.elements = elements]

FieldOf(format, bitwidth, annotations) ==
  [format |-> format, bitwidth |-> bitwidth, match_type |-> "TERNARY", annotations |-> annotations,
   unsupported |-> FALSE]

AclFields ==
  {FieldOf("IPV4", 32, <<SaiField("SRC_IP")>>), FieldOf("STRING", 0, <<SaiField("IN_PORT")>>),
   FieldOf("IPV4", 32, <<SaiField("")>>), FieldOf("IPV4", 32, <<>>),
   FieldOf("IPV4", 32, <<OtherAnnotation, SaiField("SRC_IP")>>), FieldOf("IPV4", 32, <<SaiField("SRC_IP"), SaiUdf(4)>>),
   [FieldOf("IPV4", 32, <<>>) EXCEPT !.unsupported = TRUE]}
  \cup {FieldOf("HEX_STRING", w, <<SaiUdf(n)>>) : w \in {0, 16}, n \in {Vf!NotAnInteger, 2, 4}}
  \cup {FieldOf("HEX_STRING", 16, <<[SaiUdf(2) EXCEPT !.udf[1].name = "length"]>>)}
  \cup {FieldOf(f, 64, <<Composite(e)>>) :
          f \in {"IPV6", "STRING"},
          e \in {<<SaiField("IPV6_WORD3"), SaiField("IPV6_WORD2")>>, <<SaiField("IPV6_WORD3"), SaiUdf(4)>>,
                 <<SaiUdf(4), SaiUdf(4)>>, <<SaiUdf(8), SaiUdf(4)>>, <<SaiField("IN_PORT"), SaiUdf(8)>>,
                 <<SaiField("UNKNOWN"), SaiUdf(8)>>, <<>>}}

\* Actions of ACL tables.
ActionOf(sai_action, params) ==
  [name |-> Lower("act"), unsupported |-> FALSE, sai_action |-> sai_action, params |-> params]
ParamOf(sai_action_param, object_type) ==
  [name |-> Lower("par"), format |-> "STRING", bitwidth |-> 0, sai_action_param |-> sai_action_param,
   object_type |-> object_type]

ForwardAction == ActionOf(<<<<"FORWARD">>>>, <<>>)
RedirectAction == ActionOf(<<>>, <<ParamOf(<<<<"REDIRECT">>>>, <<<<"SAI_OBJECT_TYPE_PORT">>>>)>>)

AclActions ==
  {ForwardAction, RedirectAction, ActionOf(<<>>, <<>>), [ForwardAction EXCEPT !.unsupported = TRUE],
   ActionOf(<<<<"COPY", "SAI_PACKET_COLOR_GREEN">>, <<"DROP", "SAI_PACKET_COLOR_RED">>>>, <<>>),
   ActionOf(<<<<"COPY", "BLUE">>>>, <<>>),
   ActionOf(<<>>, <<ParamOf(<<>>, <<>>)>>),
   ActionOf(<<>>, <<ParamOf(<<<<"REDIRECT">>>>, <<<<"SAI_OBJECT_TYPE_VLAN">>>>)>>),
   ActionOf(<<>>, <<ParamOf(<<<<"REDIRECT">>>>, <<<<"SAI_OBJECT_TYPE_PORT">>, <<"SAI_OBJECT_TYPE_PORT">>>>)>>)}

TableOf(sai_acl, field, actions) ==
  [sai_acl |-> sai_acl, id_is_extended |-> FALSE, matches |-> [m \in {Lower("field")} |-> field],
   actions |-> actions, counter |-> "UNSPECIFIED", meter |-> "UNSPECIFIED", size |-> 8, priority |-> <<>>,
   unsupported |-> FALSE, reinstall_during_upgrade |-> FALSE, nonessential_for_upgrade |-> FALSE]

\* How a table stands to be reinstalled when the config changes.
Replaced(reinstall, nonessential, table) ==
  [table EXCEPT !.reinstall_during_upgrade = reinstall, !.nonessential_for_upgrade = nonessential]

SourceIp == FieldOf("IPV4", 32, <<SaiField("SRC_IP")>>)
AclOf(stage) == TableOf(<<<<stage>>>>, SourceIp, <<ForwardAction>>)
Ingress == AclOf("INGRESS")

\* Changes of one table, and of one thing of it.
AclVariants ==
  {[Ingress EXCEPT !.matches = [m \in {Lower("field")} |-> f]] : f \in AclFields}
  \cup {[Ingress EXCEPT !.actions = <<a>>] : a \in AclActions}
  \cup {[Ingress EXCEPT !.sai_acl = s] :
          s \in {<<<<"EGRESS">>>>, <<<<"LOOKUP">>>>, <<<<"INGRESS", "EGRESS">>>>, <<<<"INGRESS">>, <<"INGRESS">>>>}}
  \cup {[Ingress EXCEPT !.priority = p] : p \in {<<<<4>>>>, <<<<Vf!NotAnInteger>>>>, <<<<4>>, <<5>>>>}}
  \cup {[Ingress EXCEPT !.size = 16], [Ingress EXCEPT !.meter = "BYTES"], [Ingress EXCEPT !.unsupported = TRUE],
        [Ingress EXCEPT !.matches = [m \in {} |-> SourceIp]], [Ingress EXCEPT !.actions = <<>>]}
  \cup {Replaced(TRUE, n, Ingress) : n \in BOOLEAN}
  \cup {Replaced(FALSE, TRUE, [Ingress EXCEPT !.size = 16])}

\* The routing table and what the switch supports of it.
RouteField(bitwidth, match_type) ==
  [format |-> "HEX_STRING", bitwidth |-> bitwidth, match_type |-> match_type, annotations |-> <<>>,
   unsupported |-> FALSE]
Router == TableOf(<<>>, RouteField(8, "EXACT"), <<RedirectAction>>)
RouterVariants ==
  {[Router EXCEPT !.matches = [m \in {Lower("field")} |-> RouteField(w, t)]] :
     w \in {0, 4, 12}, t \in {"EXACT", "OPTIONAL", "LPM", "RANGE"}}
  \cup {[Router EXCEPT !.actions = a] : a \in {<<>>, <<ForwardAction>>}}
  \cup {[Router EXCEPT !.counter = "BYTES"], [Router EXCEPT !.matches = [m \in {} |-> SourceIp]]}

PacketInHeader(bitwidth, annotations) ==
  [id |-> 1, metadata |-> {[id |-> 1, bitwidth |-> bitwidth, annotations |-> annotations]}]

EnvOfSwitch ==
  [fixed_tables |-> {<<"router", "upper">>},
   schema |-> [n \in {Lower("router")} |->
     [matches |-> [m \in {Lower("field")} |-> [format |-> "HEX_STRING", bitwidth |-> 8, type |-> "EXACT"]],
      actions |-> [a \in {Lower("act")} |-> [p \in {Lower("par")} |-> [format |-> "STRING", bitwidth |-> 0]]]]],
   packet_io |-> {PacketInHeader(9, {})},
   sai_fields |-> [SRC_IP |-> [format |-> "IPV4", bitwidth |-> 32], IN_PORT |-> [format |-> "STRING", bitwidth |-> 0],
                   IPV6_WORD2 |-> [format |-> "IPV6", bitwidth |-> 32],
                   IPV6_WORD3 |-> [format |-> "IPV6", bitwidth |-> 32]]]

\* Hash settings, in the actions that compute hashes.
HashAction(fields, type, params) == 
  [hash_fields |-> fields, hash_type |-> type, hash_params |-> params, unsupported |-> FALSE]
HashParam(label, value) == [label |-> label, value |-> value]
Seed(value) == <<HashParam("seed", value)>>
SourceHash == <<<<"SAI_NATIVE_HASH_FIELD_SRC_IPV4">>>>
PortHash == <<<<"SAI_NATIVE_HASH_FIELD_SRC_IPV4">>, <<"SAI_NATIVE_HASH_FIELD_L4_SRC_PORT">>>>

HashSettings ==
  {[compute_ecmp_hash_ipv4 |-> HashAction(f, "ecmp", p)] :
     f \in {<<>>, SourceHash, PortHash}, p \in {<<>>, Seed("1"), Seed("2")}}
  \cup {[compute_ecmp_hash_ipv4 |-> HashAction(SourceHash, "ecmp", Seed("1")),
         compute_lag_hash_ipv4 |-> HashAction(f, t, p)] :
          f \in {SourceHash, PortHash, <<<<"UNKNOWN">>>>}, t \in {"ecmp", "lag", "other"},
          p \in {Seed("1"), <<HashParam("algorithm", "SAI_HASH_ALGORITHM_CRC")>>,
                 <<HashParam("algorithm", "UNKNOWN")>>, <<HashParam("depth", "1")>>}}
  \cup {[compute_other_hash |-> [HashAction(SourceHash, "ecmp", <<>>) EXCEPT !.unsupported = u]] : u \in BOOLEAN}

NoHash == [a \in {} |-> HashAction(<<>>, "", <<>>)]

ConfigOf(tables, actions) == [tables |-> tables, actions |-> actions, packet_io |-> {PacketInHeader(9, {})}]
TablesWith(acls, table) == [n \in acls \cup {Lower("router")} |-> IF n \in acls THEN table ELSE Router]

\* Configs the switch may have in force, and those that are pushed.
ConfigsInForce ==
  {ConfigOf(TablesWith(n, t), NoHash) :
     n \in {{}, {Lower("acl")}, {Lower("acl"), Lower("tcl")}}, t \in {Ingress, AclOf("EGRESS")}}
  \cup {ConfigOf(TablesWith({}, Router), h) : h \in HashSettings}

PushedConfigs ==
  ConfigsInForce
  \cup {ConfigOf(TablesWith({Lower("acl")}, t), NoHash) : t \in AclVariants}
  \cup {ConfigOf(TablesWith({n}, Ingress), NoHash) : n \in {<<"acl", "upper">>, Vf!Unnamed}}
  \cup {ConfigOf([n \in {Lower("router")} |-> r], NoHash) : r \in RouterVariants}
  \cup {ConfigOf([n \in {Lower("ext")} |-> [Router EXCEPT !.id_is_extended = e]], NoHash) : e \in BOOLEAN}
  \cup {[ConfigOf(TablesWith({}, Router), NoHash) EXCEPT !.packet_io = p] :
          p \in {{}, {PacketInHeader(8, {})}, {PacketInHeader(9, {"doc"})}}}

Profiles(semantics) == [semantics : semantics, size : {0, 2, 3}, max_group_size : {1, 2}]
WeighedProfiles == [semantics : {"sum_of_weights"}, size : {3}, max_group_size : {2}, current_total_weight : {0, 3}]

\* A switch that started with a config is given another.
PushConfig ==
  \E from \in ConfigsInForce, to \in PushedConfigs : call' = [op |-> "push_config", from |-> from, to |-> to]

PushCapacities ==
  \E in_use \in WeighedProfiles, pushed \in Profiles({"sum_of_weights", "sum_of_members"}), known \in BOOLEAN :
    call' = [op |-> "push_capacities", pushed |-> pushed, in_use |-> in_use, known |-> known,
             updated |-> Vf!GetUpdatedResourceCapacities(
                           [group |-> pushed], IF known THEN [group |-> in_use] ELSE [other |-> in_use])]

-----------------------------------------------------------------------------
\* The stage OrchAgent is told, if the table is an ACL table with a single one.
StagesIn(config) ==
  {<<n, config.tables[n].sai_acl[1]>> : n \in {n \in DOMAIN config.tables : config.tables[n].sai_acl # <<>>}}

PushedCapacitiesHoldGroups(called) ==
  called.op = "push_capacities" /\ called.updated.ok =>
    LET old == called.in_use
        new == called.updated.value.group
    IN IF called.known
       THEN /\ new.current_total_weight = old.current_total_weight
            /\ old.current_total_weight > 0 => new.max_group_size >= old.max_group_size
            /\ new.semantics = "sum_of_weights" /\ new.size # 0 => new.current_total_weight <= new.size
       ELSE new.current_total_weight = 0

PushedConfigsCommit(called) ==
  called.op = "push_config" =>
    LET pushed == Vf!PreprocessConfig(EnvOfSwitch, called.to)
        from == Vf!PreprocessConfig(EnvOfSwitch, called.from).value
        to == pushed.value
        transition == Vf!CalculateTransition(EnvOfSwitch, from, to)
        rows == Vf!TransitionedRows(EnvOfSwitch, Vf!ConfiguredRows(EnvOfSwitch, from), transition.value, to)
        target == Vf!ConfiguredRows(EnvOfSwitch, to)
        moved == \E x \in StagesIn(from), y \in StagesIn(to) : x[1] = y[1] /\ x[2] # y[2]
    IN (Vf!ValidateP4Info(EnvOfSwitch, called.from) /\ pushed.ok) =>
         /\ \A n \in DOMAIN Vf!AclDefinitions(EnvOfSwitch, to) : Vf!AclDefinitions(EnvOfSwitch, to)[n].ok
         /\ transition.ok <=> ~moved
         /\ transition.ok =>
              /\ rows.acl = target.acl
              /\ rows.hash = target.hash
              /\ \A k \in DOMAIN target.switch : k \in DOMAIN rows.switch /\ rows.switch[k] = target.switch[k]

(* A config that passes verification can be put in force from any other:   *)
(* each of its ACL tables has a definition, also after what the switch     *)
(* changes in the config for OrchAgent (PreprocessConfig); the transition  *)
(* is refused only for an ACL table that changes its stage; and the rows   *)
(* it leaves, deletions and additions in the order of the code, are those  *)
(* a switch has that starts with the new config (CalculateTransition,      *)
(* TransitionAcls, TransitionHashConfig).  The row of SWITCH_TABLE alone   *)
(* may keep fields of the old config.  Groups that are there fit the new   *)
(* capacities: no weight is forgotten (GetUpdatedResourceCapacities).      *)
VerifiedConfigsCommit == [][PushedCapacitiesHoldGroups(call') /\ PushedConfigsCommit(call')]_call
=============================================================================
