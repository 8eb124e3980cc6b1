------------------------------- MODULE MCPdpi -------------------------------
(***************************************************************************)
(* Calls of the PDPI library: the translation between PI and IR, what is   *)
(* read from a P4Info, and the translation between PI and PD.              *)
(***************************************************************************)
EXTENDS PdpiIr, IrP4Info, PdpiPd, LibraryCall

-----------------------------------------------------------------------------
(* Match fields of every type and format, with byte strings that are       *)
(* canonical, padded, empty and too long; entries, packets and statuses    *)
(* well formed and not.  P4Infos: one with a reference, a table with       *)
(* action profile, a counter, a meter, an optional field and unsupported   *)
(* parts, what two changes make of it, each a mistake a program or a       *)
(* compiler could make, and the unions of two.                             *)

\* A width that is no whole number of bytes, and IPv6 addresses cut short.
Widths ==
  {<<"HEX_STRING", kNumBitsInByte + 3>>, <<"IPV4", kNumBitsInIpv4>>, <<"MAC", kNumBitsInMac>>,
   <<"IPV6", kNumBitsInIpv6>>, <<"IPV6", kNumBitsInIpv6 - kNumBitsInByte>>, <<"STRING", 0>>}

\* A string is matched exactly or optionally: ValidateMatchFieldDefinition.
Definitions ==
  {d \in {[type |-> t, format |-> w[1], bitwidth |-> w[2], unsupported |-> u] :
            t \in {"EXACT", "OPTIONAL", "LPM", "TERNARY"}, w \in Widths, u \in BOOLEAN} :
     d.format = "STRING" => d.type \in {"EXACT", "OPTIONAL"}}

\* Every bit by itself, runs of ones from the top and from the bottom.
Numbers == {2^k : k \in 0..7} \cup {2^k - 1 : k \in 0..8} \cup {256 - 2^k : k \in 0..7}
             \cup {2^11, 2^12 - 2^4, 2^12 - 1}
Bytes == {b \in [value : Numbers, length : 0..3] : b.value < 2^(kNumBitsInByte * b.length)}
           \cup {[value |-> 0, length |-> 0]}
FewBytes == {b \in Bytes : b.value \in {0, 1, 64, 112, 128, 240, 255}}

AllOptions == [allow_unsupported : BOOLEAN, key_only : BOOLEAN, allow_arbitrary_format : BOOLEAN]
Strict == [allow_unsupported |-> FALSE, key_only |-> FALSE, allow_arbitrary_format |-> FALSE]

Match(name, type, value, mask, prefix_len) ==
  [name |-> name, type |-> type, value |-> value, mask |-> mask, prefix_len |-> prefix_len]

NoMask == [value |-> 0, length |-> 0]

PiMatches(d) ==
  CASE d.type \in {"EXACT", "OPTIONAL"} -> {Match("f", d.type, b, NoMask, 0) : b \in Bytes}
    [] d.type = "LPM" ->
         {Match("f", d.type, b, NoMask, n) : b \in Bytes, n \in 0..(d.bitwidth + 1)}
    [] d.type = "TERNARY" -> {Match("f", d.type, b, c, 0) : b \in Bytes, c \in FewBytes}

\* HEX values with too few digits and the right number, addresses in range,
\* and a value that was never set.
IrValues ==
  [format : {"HEX_STRING"}, value : {0, 1, 64, 112, 127}, digits : 3..4]
    \cup [format : {"IPV4", "MAC"}, value : {0, 1, 64, 240, 255}, digits : {0}]
    \cup [format : {"IPV6"}, value : {0, 1, 16, 2048, 3840, 4095}, digits : {0}]
    \cup {[format |-> "STRING", value |-> 1, digits |-> n] : n \in 1..2} \cup {IrValue("STRING", 0)}
    \cup {IrValue("FORMAT_NOT_SET", 0)}

IrMatches(d) ==
  CASE d.type \in {"EXACT", "OPTIONAL"} -> {Match("f", d.type, v, NoMask, 0) : v \in IrValues}
    [] d.type = "LPM" -> {Match("f", d.type, v, NoMask, n) : v \in IrValues, n \in 0..(d.bitwidth + 1)}
    [] d.type = "TERNARY" -> {Match("f", d.type, v, w, 0) : v, w \in IrValues}

TranslatePiMatch ==
  \E d \in Definitions : \E m \in PiMatches(d) \cup {Match("f", "EXACT", [value |-> 1, length |-> 1], NoMask, 0)} :
    call' = [op |-> "pi_match", definition |-> d, match |-> m]

TranslateIrMatch ==
  \E d \in Definitions : \E m \in IrMatches(d) : \E arbitrary \in BOOLEAN :
    call' = [op |-> "ir_match", definition |-> d, match |-> m,
             options |-> [Strict EXCEPT !.allow_arbitrary_format = arbitrary]]

\* Widths of one byte, two and more than four, and numbers around them.
TranslateUint ==
  \E bitwidth \in {-1, 0, 1, 3, 4, 5, 7, 8, 9, 15, 16, 17, 32, 33}, n \in Numbers \cup {2^16, 2^16 + 1, 2^20 - 1} :
    call' = [op |-> "uint", bitwidth |-> bitwidth, number |-> n]

-----------------------------------------------------------------------------
(* Entries: an exact table with a counter and a single action, a ternary   *)
(* one with a meter and one-shot action sets, one with no action at all,   *)
(* and one that is not supported.                                          *)

Def(type, format, bitwidth) ==
  [type |-> type, format |-> format, bitwidth |-> bitwidth, unsupported |-> FALSE]

TableDef(fields, actions, oneshot, meter, counter, unsupported) ==
  [fields |-> fields, actions |-> actions, uses_oneshot |-> oneshot, has_meter |-> meter,
   has_counter |-> counter, unsupported |-> unsupported]

P4Info ==
  LET exact == [f |-> Def("EXACT", "HEX_STRING", 7)]
  IN [tables |->
        [exact |-> TableDef(exact, {"set"}, FALSE, FALSE, TRUE, FALSE),
         ternary |-> TableDef([f |-> Def("TERNARY", "HEX_STRING", 7), g |-> Def("OPTIONAL", "STRING", 0)],
                              {"set", "drop"}, TRUE, TRUE, FALSE, FALSE),
         bare |-> TableDef(exact, {}, FALSE, FALSE, FALSE, FALSE),
         old |-> TableDef(exact, {"set"}, FALSE, FALSE, FALSE, TRUE)],
      actions |->
        [set |-> [params |-> [a |-> Def("EXACT", "HEX_STRING", 4), b |-> Def("EXACT", "STRING", 0)],
                  unsupported |-> FALSE],
         drop |-> [params |-> <<>>, unsupported |-> TRUE]]]

Byte(v) == [value |-> v, length |-> 1]
Param(name, v) == [name |-> name, value |-> Byte(v)]

PiActions ==
  [name : {"set"}, params : {<<Param("a", 1), Param("b", 2)>>, <<Param("b", 9), Param("a", 1)>>,
                             <<Param("a", 1)>>, <<Param("a", 1), Param("a", 1)>>,
                             <<Param("b", 2), [name |-> "a", value |-> [value |-> 3, length |-> 2]]>>}]
    \cup {[name |-> "drop", params |-> <<>>], [name |-> "none", params |-> <<>>]}

ActionSets ==
  {<<>>} \cup {<<m>> : m \in [weight : 0..1, watch_port : {"", "1"}, action : PiActions]}
    \cup {<<[weight |-> 1, watch_port |-> "", action |-> a], [weight |-> 2, watch_port |-> "1", action |-> a]>> :
            a \in PiActions}

MatchLists ==
  LET f(type, v) == Match("f", type, v, Byte(12), 0)
      g == Match("g", "OPTIONAL", Byte(1), NoMask, 0)
  IN {<<>>, <<f("EXACT", Byte(4))>>, <<f("EXACT", [value |-> 4, length |-> 3])>>, <<f("TERNARY", Byte(4))>>,
      <<g, f("TERNARY", Byte(4))>>, <<f("TERNARY", Byte(2))>>, <<g, g>>, <<f("EXACT", Byte(4)), g>>}

\* Data of meters and counters is there or not.
AnyData == {<<>>, <<"data">>}

PiTableEntries ==
  {e \in [table : {"exact", "ternary", "bare", "old", "unknown"}, matches : MatchLists, priority : 0..1,
          type : {"none"}, action : {<<>>}, metadata : 0..1,
          meter_config : AnyData, meter_counter : AnyData, counter : AnyData]
           \cup [table : {"exact", "ternary", "bare", "old"}, matches : MatchLists, priority : 0..1,
                 type : {"action"}, action : PiActions, metadata : {1},
                 meter_config : {<<>>}, meter_counter : {<<>>}, counter : AnyData]
           \cup [table : {"exact", "ternary"}, matches : MatchLists, priority : 0..1,
                 type : {"action_set"}, action : ActionSets, metadata : {0},
                 meter_config : AnyData, meter_counter : AnyData, counter : {<<>>}] :
     e.type = "none" => (e.table = "bare" \/ e.matches = <<>>)}

\* A replica's own and its backups' ports.
Replicas ==
  LET r(p, i) == <<p, i>>
  IN {<<>>, <<<<r("1", 0)>>>>, <<<<r("1", 0)>>, <<r("1", 1)>>>>, <<<<r("1", 0)>>, <<r("1", 0)>>>>,
      <<<<r("1", 0), r("2", 0)>>>>, <<<<r("1", 0), r("1", 1)>>>>, <<<<r("1", 0), r("2", 0)>>, <<r("2", 0)>>>>,
      <<<<r(UnsetPort, 0)>>>>}

PiEntities ==
  [type : {"table_entry"}, body : PiTableEntries]
    \cup [type : {"multicast"}, body : [id : 0..1, metadata : 0..1, replicas : Replicas]]
    \cup [type : {"clone_session"},
          body : [id : {1}, class_of_service : 0..1, packet_length : 0..1, replicas : Replicas]]
    \cup [type : {"counter_entry"}, body : {<<>>}]

TranslatePiEntity ==
  \E e \in PiEntities, options \in {o \in AllOptions : ~o.allow_arbitrary_format} :
    call' = [op |-> "pi_entity", entity |-> e, options |-> options]

-----------------------------------------------------------------------------
(* Packets with an ingress port, a string and padding.                     *)

MetadataDefs ==
  [port |-> [format |-> "HEX_STRING", bitwidth |-> 7, padding |-> FALSE],
   target |-> [format |-> "STRING", bitwidth |-> 0, padding |-> FALSE],
   pad |-> [format |-> "HEX_STRING", bitwidth |-> 4, padding |-> TRUE]]

Metadata == {[name |-> n, value |-> b] : n \in DOMAIN MetadataDefs \cup {"other"},
                                         b \in {Byte(0), Byte(1), [value |-> 16, length |-> 3],
                                                [value |-> 0, length |-> 0]}}

TranslatePiPacket ==
  \E n \in 0..3 : \E s \in [1..n -> Metadata] :
    call' = [op |-> "pi_packet", packet |-> [payload |-> "payload", metadata |-> s]]

-----------------------------------------------------------------------------

UpdateStatuses == UNION {[1..n -> [code : {OK, 5, 15, 16}, message : BOOLEAN]] : n \in 0..2}

GrpcStatuses ==
  [code : {OK, UNKNOWN, 5, 16}, message : BOOLEAN,
   details : [kind : {"none", "unparsable"}]
               \cup [kind : {"status"}, code : {OK, UNKNOWN, 5}, statuses : UpdateStatuses]]

TranslateStatus ==
  \E s \in GrpcStatuses, n \in 0..2 : call' = [op |-> "status", status |-> s, updates |-> n]

-----------------------------------------------------------------------------
(* Properties.                                                             *)

\* What a match says, without the library: the bits beyond a prefix are zero,
\* those outside a mask are zero, and something is matched at all.
MatchIsExact(d, m) ==
  CASE d.type = "LPM" -> m.prefix_len \in 1..d.bitwidth /\ m.value.value % 2^(d.bitwidth - m.prefix_len) = 0
    [] d.type = "TERNARY" ->
         /\ m.mask.value # 0
         /\ \A k \in 0..(d.bitwidth - 1) :
              (m.mask.value \div 2^k) % 2 = 0 => (m.value.value \div 2^k) % 2 = 0
    [] OTHER -> TRUE

FitsDefinition(d, bytes) ==
  bytes.length > 0 /\ IF d.format = "STRING" THEN IsStructurallyValid(bytes) ELSE bytes.value < 2^d.bitwidth

\* What PiMatchFieldToIr accepts: just the matches that fit the field's width and
\* match no bit they mask out, but for prefixes shorter than the part of the
\* field that does not fill a byte: PrefixLenToMask masks that part whole.
AcceptedAsItShouldBe(d, m) ==
  LET accepted == PiMatchFieldToIr(Strict, d, m).ok
      right == /\ ~d.unsupported /\ m.type = d.type
               /\ FitsDefinition(d, m.value)
               /\ d.type = "TERNARY" => FitsDefinition(d, m.mask)
               /\ MatchIsExact(d, m)
  IN IF d.type = "LPM" /\ m.type = "LPM" /\ m.prefix_len < d.bitwidth % kNumBitsInByte
     THEN right => accepted
     ELSE accepted = right

\* A short IPv6 prefix comes back padded to a whole address, longer than its
\* mask.
HasNoWayBack(d, m) == d.type = "LPM" /\ d.format = "IPV6" /\ NumBytes(d.bitwidth) < NumBytes(kNumBitsInIpv6)

\* The same bytes, written with as few of them as the number needs.
Canonical(format, b) == IF format = "STRING" THEN b ELSE ArbitraryToCanonicalByteString(b)

CanonicalMatch(d, m) ==
  [m EXCEPT !.value = Canonical(d.format, @),
            !.mask = IF d.type = "TERNARY" THEN Canonical(d.format, @) ELSE @]

CanonicalAction(a) ==
  [a EXCEPT !.params = [j \in DOMAIN @ |->
     [@[j] EXCEPT !.value = Canonical(P4Info.actions[a.name].params[a.params[j].name].format, @)]]]

CanonicalEntry(e) ==
  [e EXCEPT !.matches = [j \in DOMAIN @ |-> CanonicalMatch(P4Info.tables[e.table].fields[@[j].name], @[j])],
            !.action = CASE e.type = "none" -> @
                         [] e.type = "action" -> CanonicalAction(@)
                         [] e.type = "action_set" ->
                              [j \in DOMAIN @ |-> [@[j] EXCEPT !.action = CanonicalAction(@)]]]

\* Strings have no width to be padded to.
HasString(e) ==
  \/ \E j \in DOMAIN e.matches : P4Info.tables[e.table].fields[e.matches[j].name].format = "STRING"
  \/ LET uses(a) == \E j \in DOMAIN a.params : P4Info.actions[a.name].params[a.params[j].name].format = "STRING"
     IN (e.type = "action" /\ uses(e.action)) \/ (e.type = "action_set" /\ \E j \in DOMAIN e.action : uses(e.action[j].action))

KeyOf(e) ==
  CASE e.type = "table_entry" -> [e EXCEPT !.body = KeyOnly(@)]
    [] e.type = "multicast" -> [e EXCEPT !.body.replicas = <<>>, !.body.metadata = 0]
    [] OTHER -> [e EXCEPT !.body.replicas = <<>>, !.body.class_of_service = 0, !.body.packet_length = 0]

CanonicalEntity(e) == IF e.type = "table_entry" THEN [e EXCEPT !.body = CanonicalEntry(@)] ELSE e

ComesBack(called) ==
  /\ called.op = "pi_match" => AcceptedAsItShouldBe(called.definition, called.match)
  /\ called.op = "pi_match" =>
       LET ir == PiMatchFieldToIr(Strict, called.definition, called.match)
       IN ir.ok => IrMatchFieldToPi(Strict, called.definition, ir.value) =
                     IF HasNoWayBack(called.definition, called.match) THEN Err
                     ELSE Ok(CanonicalMatch(called.definition, called.match))
  /\ called.op = "pi_entity" =>
       LET ir == PiEntityToIr(P4Info, called.entity, called.options)
           asked == IF called.options.key_only THEN KeyOf(called.entity) ELSE called.entity
           padded == ZeroPadPiTableEntry(P4Info, called.entity.body)
       IN ir.ok =>
            /\ IrEntityToPi(P4Info, ir.value, called.options) = Ok(CanonicalEntity(asked))
            /\ called.entity.type = "table_entry" /\ ~called.options.key_only =>
                 /\ padded.ok = ~HasString(called.entity.body)
                 /\ padded.ok => PiEntityToIr(P4Info, [called.entity EXCEPT !.body = padded.value], called.options) = ir
  /\ called.op = "uint" =>
       LET bytes == UintToNormalizedByteString(called.number, called.bitwidth)
           back == ArbitraryByteStringToUint(bytes.value, called.bitwidth)
           kept == {n \in {1, 2, 4} : called.bitwidth <= n * kNumBitsInByte}
       IN /\ called.bitwidth \in 1..(kMaxUintBytes * kNumBitsInByte) /\ (called.bitwidth > 20 \/ called.number < 2^called.bitwidth) => bytes.ok
          /\ bytes.ok => /\ bytes.value.length = NumBytes(called.bitwidth)
                         /\ back.ok /\ \/ back.value = called.number
                                       \/ \E n \in kept : back.value = called.number % 2^(n * kNumBitsInByte)
  /\ called.op = "pi_packet" =>
       LET ir == PiPacketIoToIr(MetadataDefs, called.packet)
           shown == SelectSeq(called.packet.metadata, LAMBDA m : m.name # "pad")
       IN ir.ok =>
            IrPacketIoToPi(MetadataDefs, ir.value, Strict) =
              Ok([called.packet EXCEPT !.metadata =
                    Append([j \in DOMAIN shown |->
                              [shown[j] EXCEPT !.value = Canonical(MetadataDefs[shown[j].name].format, @)]],
                           [name |-> "pad", value |-> Byte(0)])])
  /\ called.op = "ir_match" =>
       LET pi == IrMatchFieldToPi(called.options, called.definition, called.match)
       IN pi.ok /\ ~called.options.allow_arbitrary_format =>
            PiMatchFieldToIr(called.options, called.definition, pi.value) = Ok(called.match)
  /\ called.op = "status" =>
       LET ir == GrpcStatusToIrWriteRpcStatus(called.status, called.updates)
           back == IrWriteRpcStatusToGrpcStatus(ir.value)
           seen == WriteRpcGrpcStatusToAbslStatus(called.status, called.updates)
       IN ir.ok =>
            /\ back.ok
            /\ GrpcStatusToIrWriteRpcStatus(back.value, called.updates) = ir
            /\ seen.ok /\ (seen.value = OK) = (called.status.code = OK)

\* An entity the switch accepts and translates to IR is translated back to
\* the same entity with canonical byte strings, or to its key when only that
\* was asked for; so is a match field, with one exception; and a packet comes
\* back with its padding last.  An entry means the same when its byte strings
\* are padded to their fields, and a number comes back from a byte string, cut
\* to the container if it does not fit.  The other way round, an IR match that becomes
\* a message is what the message becomes, when every value has the format of
\* its field.  A status of a Write that is accepted survives too, and the caller
\* is told of success just when the Write succeeded.
TranslationsAreInverse == [][ComesBack(call')]_call

-----------------------------------------------------------------------------
Element(id, name, bitwidth, type, kind) ==
  [id |-> id, name |-> name, bitwidth |-> bitwidth, type |-> type, formats |-> <<>>, refers_to |-> {},
   referenced_by |-> {}, kind |-> kind, marked |-> FALSE]

ActionInfo(id, name, params) ==
  [id |-> id, name |-> name, params |-> params, unsupported |-> FALSE, oneshot |-> FALSE, roles |-> <<>>]

EntryRef(id) == [id |-> id, scope |-> "TABLE_ONLY", proto_ids |-> <<id>>]
DefaultRef(id) == [id |-> id, scope |-> "DEFAULT_ONLY", proto_ids |-> <<>>]

TableInfo(id, name, fields, action_refs) ==
  [id |-> id, name |-> name, unsupported |-> FALSE, oneshot |-> FALSE, roles |-> <<"sdn">>, fields |-> fields,
   implementation_id |-> 0, action_refs |-> action_refs, const_default_action_id |-> 0, size |-> 8]

BaseP4Info ==
  [pkg |-> [names |-> <<"program">>, arch |-> "v1model", multicast_group_table_size |-> 4],
   externs |-> FALSE,
   types |-> [port_t |-> TRUE, queue_t |-> FALSE],
   actions |->
     <<ActionInfo(1, "set", <<[Element(1, "port", 0, "port_t", "") EXCEPT !.refers_to = {<<"port", "id">>}],
                          Element(2, "queue", 7, "queue_t", "")>>),
       ActionInfo(2, "drop", <<>>), ActionInfo(3, "trap", <<>>)>>,
   action_profiles |-> <<[id |-> 9, name |-> "selector", table_ids |-> {2}, size |-> 4, max_group_size |-> 2]>>,
   tables |->
     <<TableInfo(1, "port", <<Element(1, "id", 0, "port_t", "EXACT"), Element(2, "mac", kNumBitsInMac, "", "OPTIONAL")>>, <<EntryRef(2)>>),
       [TableInfo(2, "group", <<Element(1, "id", 7, "", "EXACT")>>, <<EntryRef(1)>>) EXCEPT !.oneshot = TRUE, !.implementation_id = 9],
       [TableInfo(3, "route", <<[Element(1, "group", 7, "", "EXACT") EXCEPT !.refers_to = {<<"group", "id">>}],
                            [Element(2, "dst", kNumBitsInIpv4, "", "LPM") EXCEPT !.formats = <<"IPV4">>]>>,
              <<EntryRef(1), DefaultRef(2)>>) EXCEPT !.const_default_action_id = 2]>>,
   metadata |-> <<[id |-> 1, name |-> "packet_in", fields |-> <<Element(1, "ingress", 0, "port_t", "")>>],
                  [id |-> 2, name |-> "packet_out", fields |-> <<[Element(1, "pad", 7, "", "") EXCEPT !.marked = TRUE]>>]>>,
   counters |-> <<[id |-> 1, table_id |-> 1, unit |-> "BOTH"]>>,
   meters |-> <<[id |-> 2, table_id |-> 3, unit |-> "BYTES"]>>]

\* The P4Infos one change away.
Changed(p) ==
  {[p EXCEPT !.tables[3].fields[2].kind = k] : k \in {"TERNARY", "RANGE", "EXACT"}}
    \cup {[p EXCEPT !.tables[3].fields[2].formats = f] : f \in {<<>>, <<"IPV6">>, <<"MAC">>, <<"IPV4", "IPV4">>, <<"other">>}}
    \cup {[p EXCEPT !.tables[1].fields[1].formats = <<"MAC">>], [p EXCEPT !.tables[1].fields[1].type = "no_t"],
          [p EXCEPT !.tables[1].fields[1].kind = "TERNARY"]}
    \cup {[p EXCEPT !.tables[j].unsupported = TRUE] : j \in 1..3}
    \cup {[p EXCEPT !.tables[1].fields[2].marked = TRUE], [p EXCEPT !.actions[1].unsupported = TRUE],
          [p EXCEPT !.actions[2].unsupported = TRUE]}
    \cup {[p EXCEPT !.tables[3].fields[1].refers_to = r] :
            r \in {{}, {<<"group", "no_field">>}, {<<"port", "mac">>}, {<<MulticastTable, "multicast_group_id">>},
                   {<<"route", "group">>}, {<<"set", "port">>}, {<<CloneSessionTable, "id">>}}}
    \cup {[p EXCEPT !.tables[1].fields[j].referenced_by = r] :
            j \in 1..2, r \in {{<<MulticastTable, "port">>}, {<<"route", "group">>}, {<<MulticastTable, "group">>}}}
    \cup {[p EXCEPT !.actions[1].params[1].referenced_by = {<<MulticastTable, "port">>}],
          [p EXCEPT !.actions[1].params[1].refers_to = {}],
          [p EXCEPT !.actions[1].params[2].id = 1], [p EXCEPT !.actions[2].name = "set"],
          [p EXCEPT !.tables[1].fields[1].refers_to = {<<"route", "group">>}]}
    \cup {[p EXCEPT !.tables[2].oneshot = FALSE], [p EXCEPT !.tables[2].implementation_id = 8],
          [p EXCEPT !.action_profiles[1].table_ids = {2, 3}], [p EXCEPT !.action_profiles[1].table_ids = {}]}
    \cup {[p EXCEPT !.tables[3].id = 2], [p EXCEPT !.tables[3].id = 4], [p EXCEPT !.tables[3].name = "group"],
          [p EXCEPT !.tables[3].const_default_action_id = 7], [p EXCEPT !.tables[3].action_refs[1] = DefaultRef(1)],
          [p EXCEPT !.tables[3].action_refs[1].id = 7], [p EXCEPT !.tables[3].action_refs[1].proto_ids = <<1, 1>>],
          [p EXCEPT !.tables[3].action_refs = Append(@, EntryRef(3))], [p EXCEPT !.tables[3].size = 9]}
    \cup {[p EXCEPT !.metadata[2].name = "packet_in"], [p EXCEPT !.metadata[1].fields = <<>>],
          [p EXCEPT !.metadata[1].name = "digest"]}
    \cup {[p EXCEPT !.counters[1].table_id = t] : t \in 2..4}
    \cup {[p EXCEPT !.types.queue_t = TRUE], [p EXCEPT !.action_profiles[1].size = 5],
          [p EXCEPT !.tables[2].roles = <<"acl">>], [p EXCEPT !.pkg.arch = "other"], [p EXCEPT !.externs = TRUE]}

ReadP4Info ==
  \E p \in {BaseP4Info} \cup Changed(BaseP4Info) : \E q \in {p} \cup Changed(p) :
    call' = [op |-> "ir_p4info", p4info |-> q]

UniteP4Infos ==
  \E p, q \in {BaseP4Info} \cup Changed(BaseP4Info) : call' = [op |-> "union", p4infos |-> <<p, q>>]

-----------------------------------------------------------------------------
(* Properties.                                                             *)

SameMaps(by_id, by_name) ==
  /\ \A i \in DOMAIN by_id : by_id[i].id = i /\ by_id[i].name \in DOMAIN by_name /\ by_name[by_id[i].name] = by_id[i]
  /\ \A n \in DOMAIN by_name : by_name[n].name = n /\ by_name[n].id \in DOMAIN by_id

\* All tables, the built-in ones too, by name.
AllTables(info) == [n \in DOMAIN info.tables_by_name |->
                      [outgoing |-> info.tables_by_name[n].outgoing, incoming |-> info.tables_by_name[n].incoming]]
                     @@ [n \in DOMAIN info.built_in_tables |->
                           [outgoing |-> info.built_in_tables[n].outgoing, incoming |-> info.built_in_tables[n].incoming]]

DefinitionsAgree(info) ==
  /\ SameMaps(info.tables_by_id, info.tables_by_name)
  /\ SameMaps(info.actions_by_id, info.actions_by_name)
  /\ \A t \in Range(info.tables_by_id) :
       /\ SameMaps(t.fields.by_id, t.fields.by_name)
       /\ t.entry_actions \cup t.default_only_actions \subseteq DOMAIN info.actions_by_id
       /\ t.uses_oneshot = (\E p \in Range(info.profiles_by_id) : p.id = t.action_profile_id /\ t.id \in p.table_ids)
  /\ DOMAIN AllTables(info) = DOMAIN info.dependency_rank_by_table_name
  /\ \A n \in DOMAIN AllTables(info) :
       /\ \A r \in AllTables(info)[n].incoming : r.source \in DOMAIN AllTables(info) /\ r \in AllTables(info)[r.source].outgoing
       /\ \A r \in AllTables(info)[n].outgoing :
            \/ r.destination \notin DOMAIN AllTables(info)
            \/ /\ r \in AllTables(info)[r.destination].incoming
               /\ info.dependency_rank_by_table_name[n] < info.dependency_rank_by_table_name[r.destination]

\* As maps by id: the order of the elements does not matter.
Unordered(p) ==
  [tables |-> MapById([j \in DOMAIN p.tables |->
                [p.tables[j] EXCEPT !.fields = Range(@), !.action_refs = Range(@), !.roles = Range(@)]]),
   actions |-> MapById(p.actions), profiles |-> MapById(p.action_profiles), counters |-> MapById(p.counters),
   meters |-> MapById(p.meters), metadata |-> MapById(p.metadata), types |-> p.types]

Includes(p, q) ==
  \A t \in Range(q.tables) : \E u \in Range(p.tables) :
    /\ u.id = t.id /\ u.name = t.name /\ u.size >= t.size
    /\ Range(t.fields) \subseteq Range(u.fields) /\ Range(t.action_refs) \subseteq Range(u.action_refs)

IsConsistent(called) ==
  /\ called.op = "ir_p4info" =>
       LET ir == CreateIrP4Info(called.p4info)
           less == RemoveUnsupportedEntities(ir.value)
       IN ir.ok =>
            /\ DefinitionsAgree(ir.value)
            /\ \A t \in Range(AllTables(ir.value)) : \A r \in t.outgoing : r.destination \in DOMAIN AllTables(ir.value)
            /\ DefinitionsAgree(less)
            /\ \A t \in Range(less.tables_by_name) : ~t.is_unsupported
            /\ \A n \in DOMAIN AllTables(less) :
                 AllTables(less)[n].outgoing =
                   {r \in AllTables(ir.value)[n].outgoing :
                      \A f \in r.fields : f.action \in {"", Replica} \/ ~ir.value.actions_by_name[f.action].is_unsupported}
  /\ called.op = "union" =>
       LET p == called.p4infos[1]
           q == called.p4infos[2]
           union == UnionP4info(called.p4infos)
           other == UnionP4info(<<q, p>>)
       IN /\ union.ok = other.ok
          /\ union.ok => /\ Unordered(union.value) = Unordered(other.value)
                         /\ Includes(union.value, p) /\ Includes(union.value, q)
          /\ p = q /\ union.ok /\ CreateIrP4Info(p).ok =>
               CreateIrP4Info(union.value) = CreateIrP4Info(p)

\* The two maps of an IrP4Info say the same of every table, action and field,
\* its references are known at both ends and go from lower to higher ranks,
\* and profiles and tables agree; all of this still holds when unsupported
\* parts are gone, except that a reference to an unsupported table stays.  The
\* union of two P4Infos does not depend on which is first, holds both, and a
\* P4Info united with itself is itself.
P4InfoIsConsistent == [][IsConsistent(call')]_call

-----------------------------------------------------------------------------
(* Calls between PI and PD: entries of a table with one action, of one     *)
(* with an action set, and of one with a meter and a counter, under the    *)
(* schema of the roles that have them; PD messages nobody translated; and  *)
(* the requests and stream messages around them.                           *)

PdDef(id, type, format, bitwidth) ==
  [id |-> id, type |-> type, format |-> format, bitwidth |-> bitwidth, unsupported |-> FALSE]

PdTable(fields, proto_ids, oneshot, meter, counter, role) ==
  [fields |-> fields, proto_ids |-> proto_ids, actions |-> DOMAIN proto_ids, uses_oneshot |-> oneshot,
   has_meter |-> meter # "none", meter_unit |-> meter, has_counter |-> counter # "none",
   counter_unit |-> counter, unsupported |-> FALSE, role |-> role]

PdInfo(meter, counter) ==
  [tables |->
     [route |-> PdTable([dst |-> PdDef(2, "LPM", "IPV4", kNumBitsInIpv4), vrf |-> PdDef(1, "EXACT", "STRING", 0)],
                        [set |-> 1], FALSE, "none", "none", "sdn"),
      wcmp |-> PdTable([group |-> PdDef(1, "EXACT", "HEX_STRING", 7)], [set |-> 1, drop |-> 2], TRUE,
                       "none", "none", "sdn"),
      acl |-> PdTable([ttl |-> PdDef(1, "TERNARY", "HEX_STRING", 7), port |-> PdDef(2, "OPTIONAL", "STRING", 0)],
                      [set |-> 1, drop |-> 3], FALSE, meter, counter, "acl")],
   actions |->
     [set |-> [params |-> [a |-> PdDef(1, "EXACT", "HEX_STRING", 4), b |-> PdDef(2, "EXACT", "STRING", 0)],
               unsupported |-> FALSE],
      drop |-> [params |-> <<>>, unsupported |-> TRUE]],
   packet_in |-> [port |-> [format |-> "HEX_STRING", bitwidth |-> 7, padding |-> FALSE]],
   packet_out |-> [port |-> [format |-> "HEX_STRING", bitwidth |-> 7, padding |-> FALSE],
                   pad |-> [format |-> "HEX_STRING", bitwidth |-> 4, padding |-> TRUE]]]

Infos == {PdInfo(u[1], u[2]) : u \in {<<"BYTES", "BOTH">>, <<"PACKETS", "PACKETS">>, <<"none", "BYTES">>,
                                      <<"BYTES", "none">>, <<"PACKETS", "UNSPECIFIED">>}}

PdGenOptions ==
  {[roles |-> {}, multicast |-> TRUE], [roles |-> {"sdn"}, multicast |-> FALSE],
   [roles |-> {"sdn", "acl"}, multicast |-> TRUE]}

PdOptions == [allow_unsupported : BOOLEAN, key_only : BOOLEAN, allow_arbitrary_format : {FALSE}]
PdStrict == [allow_unsupported |-> FALSE, key_only |-> FALSE, allow_arbitrary_format |-> FALSE]

-----------------------------------------------------------------------------

PiByte(v) == [value |-> v, length |-> 1]
NoBytes == [value |-> 0, length |-> 0]
PiMatch(name, type, value, mask, prefix_len) ==
  [name |-> name, type |-> type, value |-> value, mask |-> mask, prefix_len |-> prefix_len]

PdKeys ==
  LET vrf == PiMatch("vrf", "EXACT", PiByte(1), NoBytes, 0)
      dst == PiMatch("dst", "LPM", [value |-> 16, length |-> 2], NoBytes, 4)
      ttl == PiMatch("ttl", "TERNARY", PiByte(4), PiByte(12), 0)
      port == PiMatch("port", "OPTIONAL", PiByte(1), NoBytes, 0)
  IN {<<"route", <<vrf, dst>>, 0>>, <<"route", <<dst, vrf>>, 0>>, <<"route", <<vrf>>, 0>>,
      <<"wcmp", <<PiMatch("group", "EXACT", PiByte(3), NoBytes, 0)>>, 0>>,
      <<"acl", <<port, ttl>>, 1>>, <<"acl", <<>>, 1>>, <<"acl", <<ttl>>, 0>>}

PdPiActions ==
  LET a == [name |-> "a", value |-> PiByte(1)]
      b == [name |-> "b", value |-> PiByte(2)]
  IN {[name |-> "set", params |-> <<b, a>>], [name |-> "set", params |-> <<a>>], [name |-> "drop", params |-> <<>>]}

PdPiSets ==
  {<<>>} \cup {<<[weight |-> w, watch_port |-> "1", action |-> a]>> : w \in 0..1, a \in PdPiActions}
    \cup {<<[weight |-> 1, watch_port |-> "", action |-> a], [weight |-> 2, watch_port |-> "1", action |-> b]>> :
            a, b \in PdPiActions}

Meters == {<<>>} \cup {<<[cir |-> c, pir |-> p, cburst |-> 0, pburst |-> 0]>> : c, p \in 0..1}
CounterData == [byte_count : 0..1, packet_count : 0..1]
ColorData == {<<>>, << <<>> >>} \cup {<<[green |-> d]>> : d \in CounterData} \cup {<<[red |-> d, yellow |-> d]>> : d \in CounterData}

PdPiEntities ==
  LET entry(k, type, action, meter, colors, counter) ==
        [type |-> "table_entry",
         body |-> [table |-> k[1], matches |-> k[2], priority |-> k[3], type |-> type, action |-> action,
                   metadata |-> 1, meter_config |-> meter, meter_counter |-> colors, counter |-> counter]]
      set == [name |-> "set", params |-> <<[name |-> "b", value |-> PiByte(2)], [name |-> "a", value |-> PiByte(1)]>>]
  IN {entry(k, "action", a, <<>>, <<>>, <<>>) : k \in PdKeys, a \in PdPiActions}
       \cup {entry(k, "action_set", s, <<>>, <<>>, <<>>) : k \in {j \in PdKeys : j[1] = "wcmp"}, s \in PdPiSets}
       \cup {entry(k, "action", set, meter, colors, counter) :
               k \in {j \in PdKeys : j[1] = "acl" /\ j[3] = 1}, meter \in Meters, colors \in ColorData,
               counter \in {<<>>} \cup {<<c>> : c \in CounterData}}
       \cup [type : {"multicast"},
             body : [id : {1, 65537}, metadata : 0..1,
                     replicas : {<<>>, << <<<<"1", 0>>>> >>, << <<<<"1", 0>>>>, <<<<"1", 65536>>>> >>,
                                 << <<<<"1", 0>>, <<"2", 0>>>> >>}]]
       \cup {[type |-> "clone_session",
              body |-> [id |-> 1, class_of_service |-> 0, packet_length |-> 0, replicas |-> <<>>]]}

TranslatePiToPd ==
  \E info \in Infos, gen \in PdGenOptions, options \in PdOptions : \E e \in PdPiEntities :
    call' = [op |-> "pi_pd", info |-> info, gen |-> gen, options |-> options, entity |-> e]

-----------------------------------------------------------------------------
(* PD messages as a test or a tool writes them.                            *)

PdText(notation, value, digits) == [notation |-> notation, value |-> value, digits |-> digits]

PdMatches ==
  LET vrf == PdMatch(PdText("STRING", 1, 1), EmptyText, 0)
      dst == PdMatch(PdText("IPV4", 16, 0), EmptyText, 4)
      long == [dst EXCEPT !.prefix_length = kNumBitsInIpv4 + 1]
      ttl == PdMatch(PdText("HEX_STRING", 4, 4), PdText("HEX_STRING", 12, 4), 0)
      mac == PdMatch(PdText("MAC", 4, 0), PdText("HEX_STRING", 12, 4), 0)
  IN {<<"route", [vrf |-> vrf, dst |-> dst]>>, <<"route", [dst |-> dst]>>, <<"route", [vrf |-> vrf, dst |-> long]>>,
      <<"route", [vrf |-> vrf, dst |-> UnsetMatch]>>,
      <<"acl", [ttl |-> ttl]>>, <<"acl", [ttl |-> mac]>>, <<"acl", [port |-> vrf]>>, <<"acl", [port |-> UnsetMatch]>>}

PdActions ==
  LET a == PdText("HEX_STRING", 1, 2)
      b == PdText("STRING", 2, 1)
  IN {NoAction, [set |-> [a |-> a, b |-> b]], [set |-> [a |-> a]], [set |-> [a |-> b, b |-> a]], [drop |-> <<>>]}

PdMessages ==
  {[type |-> "table_entry",
    body |-> [PdTableEntry(m[1], m[2]) EXCEPT !.priority = IF m[1] = "acl" THEN p ELSE 0, !.metadata = 1,
                                              !.action = a, !.meter_config = meter, !.counter = counter]] :
     m \in PdMatches, p \in 0..1, a \in PdActions,
     meter \in {<<>>, <<[rate |-> 1, burst |-> 0]>>}, counter \in {<<>>} \cup {<<c>> : c \in CounterData}}
    \cup [type : {"multicast"},
          body : [match : BOOLEAN, action : BOOLEAN, id : {1}, metadata : 0..1,
                  replicas : {<<>>, <<<<"1", 0>>>>, <<<<"1", 0>>, <<"1", 0>>>>}]]

\* A message has no other fields than those of its schema.
FitsTheSchema(info, pd) ==
  pd.type = "table_entry" =>
    /\ pd.body.meter_config # <<>> => info.tables[pd.body.table].has_meter
    /\ pd.body.counter # <<>> => info.tables[pd.body.table].has_counter

TranslatePd ==
  \E info \in Infos : \E pd \in PdMessages, options \in PdOptions :
    /\ FitsTheSchema(info, pd)
    /\ call' = [op |-> "pd_pi", info |-> info, pd |-> pd, options |-> options]

-----------------------------------------------------------------------------
(* Requests and stream messages.                                           *)

SomeUpdates ==
  {[type |-> t, entity |-> e] :
     t \in {"INSERT", "DELETE", "UNSPECIFIED"},
     e \in {f \in PdPiEntities : f.type = "multicast" \/ (f.type = "table_entry" /\ f.body.table = "route")}}

PiRequests ==
  [message : {"write"},
   body : [device_id : {0, 5}, role_id : 0..1, atomicity : {"CONTINUE_ON_ERROR", "ROLLBACK_ON_ERROR"},
           election_id : 0..1, updates : {<<>>} \cup {<<u>> : u \in SomeUpdates}]]
    \cup [message : {"read"},
          body : [device_id : {0, 5},
                  entities : {<<>>} \cup {<<e>> : e \in [type : {"table_entry", "multicast"}, wildcard : BOOLEAN,
                                                         meter_config : {"absent", "empty", "full"},
                                                         counter_data : {"absent", "empty", "full"}]}]]

PdPackets == [payload : {"payload"},
              metadata : {<<>>} \cup {<<m>> : m \in [name : {"port", "pad"}, value : {PiByte(0), [value |-> 3, length |-> 2]}]}
                           \cup {<<[name |-> "pad", value |-> PiByte(v)], [name |-> "port", value |-> PiByte(1)]>> : v \in 0..1}]

PiStreams ==
  [message : {"stream_request", "stream_response"},
   body : [update : {"arbitration"}, body : {[device_id |-> 5, election_id |-> 1, code |-> 6]}]
            \cup [update : {"packet"}, body : PdPackets]
            \cup [update : {"digest"}, body : {0}]]
    \cup [message : {"stream_response"},
          body : [update : {"error"}, body : [status : {3}, details : {"packet_out", "digest"}, packet : PdPackets]]]

PdStatuses ==
  {[message |-> "status", body |-> [code |-> c, message |-> c # OK, details |-> d]] :
     c \in {OK, UNKNOWN, 5, 16},
     d \in {[kind |-> "none"]} \cup [kind : {"status"}, code : {UNKNOWN}, statuses : [1..2 -> [code : {OK, 5, 16}, message : BOOLEAN]]]}

TranslateMessage ==
  \E m \in PiRequests \cup PiStreams \cup PdStatuses :
    call' = [op |-> "message", message |-> m.message, body |-> m.body]

-----------------------------------------------------------------------------
(* Properties.                                                             *)

SortedById(defs, s) == [j \in DOMAIN s |-> Named(s, ById(defs, NamesOf(s))[j])]

WellOrderedAction(info, a) == [a EXCEPT !.params = SortedById(info.actions[a.name].params, @)]

PdCanonical(format, b) == IF format = "STRING" THEN b ELSE ArbitraryToCanonicalByteString(b)

CanonicalParams(info, a) ==
  [a EXCEPT !.params = [j \in DOMAIN @ |->
     [@[j] EXCEPT !.value = PdCanonical(info.actions[a.name].params[a.params[j].name].format, @)]]]

\* Counters in another unit than the table's are not kept, nor are zeros.
KeptCounter(table, s) ==
  IF s = <<>> \/ NothingCounted(table.counter_unit, s[1]) THEN <<>> ELSE <<Counts(table.counter_unit, s[1])>>

\* What is left of an entity: its matches and parameters in the order of
\* their ids with canonical byte strings, counters in the table's unit, and
\* of a replica only itself.
NormalEntity(info, e, options) ==
  IF e.type = "table_entry"
  THEN LET table == info.tables[e.body.table]
           body == [e.body EXCEPT
                      !.matches = [j \in DOMAIN @ |->
                                     LET m == SortedById(table.fields, @)[j]
                                     IN [m EXCEPT !.value = PdCanonical(table.fields[m.name].format, @)]],
                      !.action = IF e.body.type = "action_set"
                                 THEN [j \in DOMAIN @ |-> [@[j] EXCEPT !.action = CanonicalParams(info, WellOrderedAction(info, @))]]
                                 ELSE CanonicalParams(info, WellOrderedAction(info, @)),
                      !.meter_counter = IF @ = <<>> THEN @ ELSE <<ColorCounts(table.counter_unit, @[1])>>,
                      !.counter = KeptCounter(table, @)]
       IN [e EXCEPT !.body = IF options.key_only THEN KeyOnly(body) ELSE body]
  ELSE [e EXCEPT !.body.id = To16Bits(@),
                 !.body.metadata = IF options.key_only THEN 0 ELSE @,
                 !.body.replicas = IF options.key_only THEN <<>> ELSE [j \in DOMAIN @ |-> <<<<@[j][1][1], To16Bits(@[j][1][2])>>>>]]

\* What PD has no room for: two rates, meter counters of a table without a
\* counter, clone sessions.
Expressible(pdproto, info, e, options) ==
  CASE e.type = "table_entry" ->
         /\ e.body.table \in DOMAIN pdproto.tables
         /\ options.key_only \/
              /\ \A j \in DOMAIN e.body.meter_config :
                   LET m == e.body.meter_config[j] IN m.cir = m.pir /\ m.cburst = m.pburst
              /\ e.body.meter_counter # <<>> => info.tables[e.body.table].has_counter
    [] e.type = "multicast" -> pdproto.multicast
    [] OTHER -> FALSE

\* Two instances that agree in their low 16 bits are one in PD.
InstancesCollide(e) ==
  /\ e.type = "multicast"
  /\ ~IsInjective([j \in DOMAIN e.body.replicas |-> <<e.body.replicas[j][1][1], To16Bits(e.body.replicas[j][1][2])>>])

\* The schema pdgen makes for a P4Info has a place for every entity the
\* P4Info allows, but for those PD cannot express, and a PD message turned
\* back into PI is that entity again.  A PD message that is accepted says
\* what it is translated to and nothing else, and the key PdTableEntryToOnlyKeyPd
\* makes of a table entry is the key the translation makes of it.
EntitiesSayTheSame(called) ==
  /\ called.op = "pi_pd" =>
       LET pdproto == IrP4InfoToPdProto(called.info, called.gen)
           accepted == PiEntityToIr(called.info, called.entity, called.options).ok
           pd == PiEntityToPdTableEntry(pdproto.value, called.info, called.entity, called.options)
       IN pdproto.ok =>
            /\ pd.ok = (accepted /\ Expressible(pdproto.value, called.info, called.entity, called.options))
            /\ pd.ok => PdTableEntryToPiEntity(pdproto.value, called.info, pd.value, called.options) =
                          IF InstancesCollide(called.entity) /\ ~called.options.key_only THEN Err
                          ELSE Ok(NormalEntity(called.info, called.entity, called.options))
  /\ called.op = "pd_pi" =>
       LET pdproto == IrP4InfoToPdProto(called.info, [roles |-> {"sdn", "acl"}, multicast |-> TRUE])
           pi == PdTableEntryToPiEntity(pdproto.value, called.info, called.pd, called.options)
           back == PiEntityToPdTableEntry(pdproto.value, called.info, pi.value, called.options)
           asked == CASE called.pd.type = "table_entry" /\ called.options.key_only ->
                           [called.pd EXCEPT !.body.metadata = 0, !.body.action = NoAction,
                                           !.body.meter_config = <<>>, !.body.counter = <<>>]
                      [] called.pd.type = "table_entry" /\ ~called.options.key_only ->
                           [called.pd EXCEPT !.body.counter = KeptCounter(called.info.tables[called.pd.body.table], @)]
                      [] called.pd.type = "multicast" /\ called.options.key_only ->
                           [called.pd EXCEPT !.body.action = FALSE, !.body.metadata = 0, !.body.replicas = <<>>]
                      [] OTHER -> called.pd
           key == PdTableEntryToOnlyKeyPd(called.info, called.pd)
       IN pdproto.ok /\ pi.ok =>
            /\ back = Ok(asked)
            /\ called.pd.type = "table_entry" /\ called.options.key_only /\ key.ok => key = back

\* A request or stream message that is translated to PD comes back as it was,
\* with what PD has no field for at the one value that is accepted.
MessagesComeBack(called) ==
  called.op = "message" =>
    LET info == PdInfo("BYTES", "BOTH")
        ir == GrpcStatusToIrWriteRpcStatus(called.body, 2)
        pdproto == IrP4InfoToPdProto(info, [roles |-> {"sdn", "acl"}, multicast |-> TRUE]).value
        pd == CASE called.message = "write" -> PiWriteRequestToPd(pdproto, info, called.body, PdStrict)
                [] called.message = "read" -> PiReadRequestToPd(called.body)
                [] called.message = "stream_request" -> PiStreamMessageRequestToPd(pdproto, info, called.body)
                [] called.message = "stream_response" -> PiStreamMessageResponseToPd(pdproto, info, called.body)
                [] called.message = "status" -> GrpcStatusToPd(called.body, 2)
        pi == CASE called.message = "write" -> PdWriteRequestToPi(pdproto, info, pd.value, PdStrict)
                [] called.message = "read" -> PdReadRequestToPi(pd.value)
                [] called.message = "stream_request" -> PdStreamMessageRequestToPi(pdproto, info, pd.value, PdStrict)
                [] called.message = "stream_response" -> PdStreamMessageResponseToPi(pdproto, info, pd.value, PdStrict)
                [] called.message = "status" -> PdWriteRpcStatusToGrpcStatus(pd.value)
        normal(metadata) == [j \in DOMAIN metadata |->
                               IF metadata[j].name = "pad" THEN metadata[j]
                               ELSE [metadata[j] EXCEPT !.value = ArbitraryToCanonicalByteString(@)]]
        same(p, q) == p.payload = q.payload /\ Range(p.metadata) = Range(normal(q.metadata))
    IN pd.ok =>
         CASE called.message = "write" ->
                IF \E u \in Range(called.body.updates) : InstancesCollide(u.entity) THEN ~pi.ok
                ELSE pi = Ok([called.body EXCEPT !.updates = [j \in DOMAIN @ |->
                                [@[j] EXCEPT !.entity = NormalEntity(info, @, PdStrict)]]])
           [] called.message = "status" ->
                pi.ok /\ GrpcStatusToIrWriteRpcStatus(pi.value, 2) = ir
           [] called.message \in {"stream_request", "stream_response"} /\ called.body.update = "packet" ->
                pi.ok /\ same(pi.value.body, called.body.body)
           [] called.message \in {"stream_request", "stream_response"} /\ called.body.update = "error" ->
                pi.ok /\ same(pi.value.body.packet, called.body.body.packet)
           [] OTHER -> pi = Ok(called.body)

\* An entity, a request, a stream message or a status that goes to PD and
\* comes back is the one that left, and the schema pdgen makes of a P4Info
\* (pdgenlib.cc) has a place for all the translation of pd.cc writes.
PdSaysTheSame == [][EntitiesSayTheSame(call') /\ MessagesComeBack(call')]_call
=============================================================================
