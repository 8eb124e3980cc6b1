------------------------------- MODULE PdpiIr -------------------------------
(***************************************************************************)
(* p4_infra/p4_pdpi/ir.cc and ir_utils.cc: P4Runtime messages (PI) checked *)
(* against the P4Info and turned into the readable form (IR), and back.    *)
(*                                                                         *)
(* A byte string is [value, length]: the number it encodes and how many    *)
(* bytes it has, so the canonical one is the shortest.  An IR value is     *)
(* [format, value, digits], digits the number of hex digits or characters. *)
(* Widths are parameters: the interesting ones (a field as wide as an      *)
(* address, narrower, not a whole number of bytes) fit in a few bits.      *)
(* Ids and names are one thing: CreateIrP4Info refuses a P4Info in which   *)
(* they do not correspond.                                                 *)
(***************************************************************************)
EXTENDS Integers, Sequences, FiniteSets, SequencesExt, Functions, Bitwise, StatusOr

CONSTANTS
  kNumBitsInByte,
  kNumBitsInMac,
  kNumBitsInIpv4,
  kNumBitsInIpv6

\* A hex digit stands for half a byte.
HexDigits(bitwidth) ==
  LET nibble == kNumBitsInByte \div 2 IN (bitwidth + nibble - 1) \div nibble

NumBytes(bitwidth) == (bitwidth + kNumBitsInByte - 1) \div kNumBitsInByte

GetBitwidthOfByteString(bytes) ==
  CHOOSE n \in 0..(kNumBitsInByte * bytes.length) :
    bytes.value < 2^n /\ (n > 0 => bytes.value >= 2^(n - 1))

-----------------------------------------------------------------------------
(* Values.                                                                 *)

\* The shortest string for the number, one zero byte for 0.
ArbitraryToCanonicalByteString(bytes) ==
  LET needed == NumBytes(GetBitwidthOfByteString(bytes))
  IN [bytes EXCEPT !.length = IF needed = 0 THEN 1 ELSE needed]

ArbitraryToNormalizedByteString(bytes, bitwidth) ==
  OkIf(bytes.length > 0 /\ GetBitwidthOfByteString(bytes) <= bitwidth,
       [bytes EXCEPT !.length = NumBytes(bitwidth)])

\* A number of at most 8 bytes; as wide as the container it is put into.
kMaxUintBytes == 8

ArbitraryByteStringToUint(bytes, bitwidth) ==
  LET normalized == ArbitraryToNormalizedByteString(bytes, bitwidth)
  IN IF bitwidth <= kMaxUintBytes * kNumBitsInByte /\ normalized.ok THEN Ok(normalized.value.value) ELSE Err

\* Cut to 1, 2 or 4 bytes before it is compared with its width.
UintToNormalizedByteString(value, bitwidth) ==
  LET fitting == {n \in {1, 2, 4} : bitwidth <= n * kNumBitsInByte}
      length == CHOOSE n \in fitting : \A k \in fitting : n <= k
  IN CASE bitwidth <= 0 \/ bitwidth > kMaxUintBytes * kNumBitsInByte -> Err
       [] bitwidth > 0 /\ fitting # {} ->
            ArbitraryToNormalizedByteString([value |-> value % 2^(length * kNumBitsInByte), length |-> length], bitwidth)
       [] OTHER -> ArbitraryToNormalizedByteString([value |-> value, length |-> kMaxUintBytes], bitwidth)

\* Leading bytes an address has no room for must be zero.
ByteStringToBitset(bytes, num_bits) ==
  OkIf(bytes.length > 0 /\ bytes.value < 2^num_bits, bytes.value)

BitsetToPaddedByteString(value, num_bits) == [value |-> value, length |-> NumBytes(num_bits)]

IrValue(format, value) == [format |-> format, value |-> value, digits |-> 0]

\* An ASCII string is valid UTF-8; a byte with its top bit is not by itself.
IsStructurallyValid(bytes) ==
  \A j \in 0..(bytes.length - 1) :
    (bytes.value \div 2^(kNumBitsInByte * j)) % 2^kNumBitsInByte < 2^(kNumBitsInByte - 1)

ArbitraryByteStringToIrValue(format, bitwidth, bytes) ==
  LET address(num_bits) == ByteStringToBitset(bytes, num_bits)
  IN CASE bytes.length = 0 -> Err
       [] bytes.length > 0 /\ format = "MAC" ->
            OkIf(address(kNumBitsInMac).ok, IrValue("MAC", bytes.value))
       [] bytes.length > 0 /\ format = "IPV4" ->
            OkIf(address(kNumBitsInIpv4).ok, IrValue("IPV4", bytes.value))
       [] bytes.length > 0 /\ format = "IPV6" ->  \* in the upper bits
            OkIf(address(kNumBitsInIpv6).ok /\ bytes.value < 2^bitwidth,
                 IrValue("IPV6", bytes.value * 2^(kNumBitsInIpv6 - bitwidth)))
       [] bytes.length > 0 /\ format = "STRING" ->
            OkIf(IsStructurallyValid(bytes), [format |-> "STRING", value |-> bytes.value, digits |-> bytes.length])
       [] bytes.length > 0 /\ format = "HEX_STRING" ->
            OkIf(ArbitraryToNormalizedByteString(bytes, bitwidth).ok,
                 [format |-> "HEX_STRING", value |-> bytes.value, digits |-> HexDigits(bitwidth)])

ValidateIrValueFormat(value, format, options) ==
  value.format = format \/ options.allow_arbitrary_format

\* The text of an address is one; digits is Unreadable in one that is not.
Unreadable == -1
IsAddress(v) == v.digits # Unreadable

IrValueToNormalizedByteString(v, bitwidth) ==
  CASE v.format = "MAC" -> OkIf(IsAddress(v), BitsetToPaddedByteString(v.value, kNumBitsInMac))
    [] v.format = "IPV4" -> OkIf(IsAddress(v), BitsetToPaddedByteString(v.value, kNumBitsInIpv4))
    [] v.format = "IPV6" ->  \* MinimumMaskLength() <= bitwidth; padded to a whole address
         OkIf(IsAddress(v) /\ v.value % 2^(kNumBitsInIpv6 - bitwidth) = 0,
              BitsetToPaddedByteString(v.value \div 2^(kNumBitsInIpv6 - bitwidth), kNumBitsInIpv6))
    [] v.format = "STRING" -> OkIf(v.digits > 0, [value |-> v.value, length |-> v.digits])
    [] v.format = "HEX_STRING" ->
         IF v.digits = HexDigits(bitwidth)
         THEN ArbitraryToNormalizedByteString(
                [value |-> v.value, length |-> NumBytes(v.digits * (kNumBitsInByte \div 2))], bitwidth)
         ELSE Err
    [] v.format = "FORMAT_NOT_SET" -> Err

IsAllZeros(bytes) == bytes.value = 0

Intersection(left, right) ==
  OkIf(left.length = right.length, [left EXCEPT !.value = left.value & right.value])

\* The bits that do not fill a byte are masked whatever prefix_len is.
PrefixLenToMask(prefix_len, bitwidth) ==
  LET first == bitwidth % kNumBitsInByte
      ones == IF prefix_len > first THEN prefix_len ELSE first
  IN OkIf(prefix_len <= bitwidth,
          [value |-> (2^ones - 1) * 2^(bitwidth - ones), length |-> NumBytes(bitwidth)])

\* Mutation: byte strings are sent as long as their fields.
ToPiNormalized(format, bytes) == bytes

\* What goes into a message: strings as they are, the rest canonical.
ToPi(format, bytes) == IF format = "STRING" THEN bytes ELSE ArbitraryToCanonicalByteString(bytes)

-----------------------------------------------------------------------------
(* Zero padding (pi.cc): every byte string as long as its field is wide.   *)

PadFieldMatch(table, m) ==
  LET d == table.fields[m.name]
      value == ArbitraryToNormalizedByteString(m.value, d.bitwidth)
      mask == IF m.type = "TERNARY" THEN ArbitraryToNormalizedByteString(m.mask, d.bitwidth) ELSE Ok(m.mask)
  IN IF m.name \in DOMAIN table.fields /\ value.ok /\ mask.ok
     THEN Ok([m EXCEPT !.value = value.value, !.mask = mask.value]) ELSE Err

PadAction(info, action) ==
  LET params == info.actions[action.name].params
      pad(p) == IF p.name \in DOMAIN params THEN ArbitraryToNormalizedByteString(p.value, params[p.name].bitwidth) ELSE Err
      values == AllOk([j \in DOMAIN action.params |-> pad(action.params[j])])
  IN IF action.name \in DOMAIN info.actions /\ values.ok
     THEN Ok([action EXCEPT !.params = [j \in DOMAIN @ |-> [@[j] EXCEPT !.value = values.value[j]]]]) ELSE Err

ZeroPadPiTableEntry(info, e) ==
  LET matches == AllOk([j \in DOMAIN e.matches |-> PadFieldMatch(info.tables[e.table], e.matches[j])])
      members == AllOk([j \in DOMAIN e.action |-> PadAction(info, e.action[j].action)])
      action == CASE e.type = "none" -> Ok(e.action)
                  [] e.type = "action" -> PadAction(info, e.action)
                  [] e.type = "action_set" ->
                       IF members.ok THEN Ok([j \in DOMAIN e.action |-> [e.action[j] EXCEPT !.action = members.value[j]]])
                       ELSE Err
  IN IF e.table \in DOMAIN info.tables /\ matches.ok /\ action.ok
     THEN Ok([e EXCEPT !.matches = matches.value, !.action = action.value]) ELSE Err

-----------------------------------------------------------------------------
(* Match fields.  A definition d is [type, format, bitwidth, unsupported]; *)
(* a match is [name, type, value, mask, prefix_len].                       *)

Supported(d, options) == ~d.unsupported \/ options.allow_unsupported

PiMatchFieldToIr(options, d, m) ==
  LET value == ArbitraryToNormalizedByteString(m.value, d.bitwidth)
      mask == IF d.type = "LPM" THEN PrefixLenToMask(m.prefix_len, d.bitwidth)
                                ELSE ArbitraryToNormalizedByteString(m.mask, d.bitwidth)
      ir(bytes) == ArbitraryByteStringToIrValue(d.format, d.bitwidth, bytes)
      masked == IF value.ok /\ mask.ok THEN Intersection(value.value, mask.value) ELSE Err
  IN CASE ~Supported(d, options) \/ m.type # d.type -> Err
       [] Supported(d, options) /\ m.type = d.type /\ d.type \in {"EXACT", "OPTIONAL"} ->
            IF ir(m.value).ok THEN Ok([m EXCEPT !.value = ir(m.value).value]) ELSE Err
       [] Supported(d, options) /\ m.type = d.type /\ d.type = "LPM" ->
            IF /\ m.prefix_len # 0
               /\ masked.ok /\ masked = value
               /\ ir(value.value).ok
            THEN Ok([m EXCEPT !.value = ir(value.value).value])
            ELSE Err
       [] Supported(d, options) /\ m.type = d.type /\ d.type = "TERNARY" ->
            IF /\ mask.ok /\ ~IsAllZeros(mask.value)
               /\ masked.ok /\ masked = value
               /\ ir(value.value).ok /\ ir(mask.value).ok
            THEN Ok([m EXCEPT !.value = ir(value.value).value, !.mask = ir(mask.value).value])
            ELSE Err

IrMatchFieldToPi(options, d, m) ==
  LET bytes(v) == IF ValidateIrValueFormat(v, d.format, options)
                  THEN IrValueToNormalizedByteString(v, d.bitwidth) ELSE Err
      value == bytes(m.value)
      mask == IF d.type = "LPM" THEN PrefixLenToMask(m.prefix_len, d.bitwidth) ELSE bytes(m.mask)
      masked == IF value.ok /\ mask.ok THEN Intersection(value.value, mask.value) ELSE Err
  IN CASE ~Supported(d, options) \/ m.type # d.type -> Err
       [] Supported(d, options) /\ m.type = d.type /\ d.type \in {"EXACT", "OPTIONAL"} ->
            IF value.ok THEN Ok([m EXCEPT !.value = ToPi(d.format, value.value)]) ELSE Err
       [] Supported(d, options) /\ m.type = d.type /\ d.type = "LPM" ->
            IF m.prefix_len # 0 /\ masked.ok /\ masked = value
            THEN Ok([m EXCEPT !.value = ArbitraryToCanonicalByteString(value.value)])
            ELSE Err
       [] Supported(d, options) /\ m.type = d.type /\ d.type = "TERNARY" ->
            IF mask.ok /\ ~IsAllZeros(mask.value) /\ masked.ok /\ masked = value
            THEN Ok([m EXCEPT !.value = ArbitraryToCanonicalByteString(value.value),
                              !.mask = ArbitraryToCanonicalByteString(mask.value)])
            ELSE Err

-----------------------------------------------------------------------------
(* Actions: [name, params], params a sequence of [name, value].            *)

AllDifferent(s) == \A j, k \in DOMAIN s : j # k => s[j].name # s[k].name

\* Every parameter once and none that is not defined; the action is one an
\* entry of the table may have.
ActionIsWellFormed(info, options, valid_actions, action) ==
  /\ action.name \in DOMAIN info.actions
  /\ action.name \in valid_actions
  /\ Supported(info.actions[action.name], options)
  /\ AllDifferent(action.params)
  /\ {p.name : p \in Range(action.params)} = DOMAIN info.actions[action.name].params

PiParamToIr(d, p) ==
  LET v == ArbitraryByteStringToIrValue(d.format, d.bitwidth, p.value)
  IN IF v.ok THEN Ok([p EXCEPT !.value = v.value]) ELSE Err

IrParamToPi(options, d, p) ==
  LET v == IrValueToNormalizedByteString(p.value, d.bitwidth)
  IN IF ValidateIrValueFormat(p.value, d.format, options) /\ v.ok
     THEN Ok([p EXCEPT !.value = ToPi(d.format, v.value)]) ELSE Err

WithParams(action, params) == IF params.ok THEN Ok([action EXCEPT !.params = params.value]) ELSE Err

PiActionToIr(info, options, valid_actions, action) ==
  IF ActionIsWellFormed(info, options, valid_actions, action)
  THEN WithParams(action, AllOk([j \in DOMAIN action.params |->
         PiParamToIr(info.actions[action.name].params[action.params[j].name], action.params[j])]))
  ELSE Err

IrActionInvocationToPi(info, options, valid_actions, action) ==
  IF ActionIsWellFormed(info, options, valid_actions, action)
  THEN WithParams(action, AllOk([j \in DOMAIN action.params |->
         IrParamToPi(options, info.actions[action.name].params[action.params[j].name],
                     action.params[j])]))
  ELSE Err

\* An action of a set has a weight and a watch port ("" for none).
WithAction(member, action) ==
  IF action.ok /\ member.weight >= 1 THEN Ok([member EXCEPT !.action = action.value]) ELSE Err

PiActionSetToIr(info, options, valid_actions, set) ==
  AllOk([j \in DOMAIN set |->
           WithAction(set[j], PiActionToIr(info, options, valid_actions, set[j].action))])

IrActionSetToPi(info, options, valid_actions, set) ==
  AllOk([j \in DOMAIN set |->
           WithAction(set[j], IrActionInvocationToPi(info, options, valid_actions, set[j].action))])

-----------------------------------------------------------------------------
(* Table entries: [table, matches, priority, type, action, metadata,       *)
(* meter_config, meter_counter, counter].  type is "none", "action" or     *)
(* "action_set", with action <<>>, an action or a sequence of set members; *)
(* the last three hold such data, which is copied, or are <<>> for none.   *)

RequiresPriority(table) ==
  \E f \in DOMAIN table.fields : table.fields[f].type \in {"OPTIONAL", "TERNARY"}

GetMandatoryMatches(table) == {f \in DOMAIN table.fields : table.fields[f].type = "EXACT"}

KeyIsWellFormed(options, table, e) ==
  /\ Supported(table, options)
  /\ AllDifferent(e.matches)
  /\ \A m \in Range(e.matches) : m.name \in DOMAIN table.fields
  /\ GetMandatoryMatches(table) \subseteq {m.name : m \in Range(e.matches)}
  /\ IF RequiresPriority(table) THEN e.priority > 0 ELSE e.priority = 0

DataIsWellFormed(table, e) ==
  /\ (e.type = "none") = (table.actions = {})
  /\ e.type # "none" => (e.type = "action_set") = table.uses_oneshot
  /\ e.meter_config # <<>> => table.has_meter
  /\ e.meter_counter # <<>> => table.has_meter /\ e.meter_config # <<>>
  /\ e.counter # <<>> => table.has_counter

\* Only the key is translated for a DELETE; the rest is left out.
KeyOnly(e) ==
  [e EXCEPT !.type = "none", !.action = <<>>, !.metadata = 0,
            !.meter_config = <<>>, !.meter_counter = <<>>, !.counter = <<>>]

WithMatchesAndAction(options, e, matches, action) ==
  CASE options.key_only /\ matches.ok -> Ok([KeyOnly(e) EXCEPT !.matches = matches.value])
    [] ~options.key_only /\ matches.ok /\ action.ok ->
         Ok([e EXCEPT !.matches = matches.value, !.action = action.value])
    [] OTHER -> Err

PiTableEntryToIr(info, e, options) ==
  IF e.table \notin DOMAIN info.tables THEN Err
  ELSE LET table == info.tables[e.table]
           matches == AllOk([j \in DOMAIN e.matches |->
                        PiMatchFieldToIr(options, table.fields[e.matches[j].name], e.matches[j])])
           action == CASE e.type = "none" -> Ok(<<>>)
                       [] e.type = "action" -> PiActionToIr(info, options, table.actions, e.action)
                       [] e.type = "action_set" -> PiActionSetToIr(info, options, table.actions, e.action)
       IN IF KeyIsWellFormed(options, table, e) /\ (options.key_only \/ DataIsWellFormed(table, e))
          THEN WithMatchesAndAction(options, e, matches, action) ELSE Err

IrTableEntryToPi(info, e, options) ==
  IF e.table \notin DOMAIN info.tables THEN Err
  ELSE LET table == info.tables[e.table]
           matches == AllOk([j \in DOMAIN e.matches |->
                        IrMatchFieldToPi(options, table.fields[e.matches[j].name], e.matches[j])])
           action == CASE e.type = "none" -> Ok(<<>>)
                       [] e.type = "action" -> IrActionInvocationToPi(info, options, table.actions, e.action)
                       [] e.type = "action_set" -> IrActionSetToPi(info, options, table.actions, e.action)
       IN IF KeyIsWellFormed(options, table, e) /\ (options.key_only \/ DataIsWellFormed(table, e))
          THEN WithMatchesAndAction(options, e, matches, action) ELSE Err

-----------------------------------------------------------------------------
(* Packet replication: a multicast group is [id, metadata, replicas], a    *)
(* clone session [id, class_of_service, packet_length, replicas]; a        *)
(* replica is the sequence of its own and its backups' <<port, instance>>. *)

UnsetPort == "unset"   \* the replica has no `port`, but an older port kind

\* No <<port, instance>> twice in the group, no port twice in a replica.
ReplicasAreWellFormed(replicas) ==
  /\ IsInjective(FlattenSeq(replicas))
  /\ \A r \in Range(replicas) : IsInjective([j \in DOMAIN r |-> r[j][1]])

PiReplicaToIr(replica) == OkIf(replica[1][1] # UnsetPort, replica)

\* A key keeps its metadata on the way to IR, and loses it on the way back.
PiMulticastGroupEntryToIr(e, options) ==
  IF options.key_only
  THEN Ok([e EXCEPT !.replicas = <<>>])
  ELSE OkIf(/\ \A r \in Range(e.replicas) : PiReplicaToIr(r).ok
            /\ ReplicasAreWellFormed(e.replicas), e)

IrMulticastGroupEntryToPi(e, options) ==
  IF options.key_only
  THEN Ok([e EXCEPT !.replicas = <<>>, !.metadata = 0])
  ELSE OkIf(ReplicasAreWellFormed(e.replicas), e)

\* A clone session's replicas may repeat.
PiCloneSessionEntryToIr(e, options) ==
  IF options.key_only
  THEN Ok([e EXCEPT !.replicas = <<>>, !.class_of_service = 0, !.packet_length = 0])
  ELSE OkIf(\A r \in Range(e.replicas) : PiReplicaToIr(r).ok, e)

IrCloneSessionEntryToPi(e, options) ==
  IF options.key_only
  THEN Ok([e EXCEPT !.replicas = <<>>, !.class_of_service = 0, !.packet_length = 0])
  ELSE Ok(e)

-----------------------------------------------------------------------------
(* Entities: [type, body].                                                 *)

PiEntityToIr(info, entity, options) ==
  LET body == CASE entity.type = "table_entry" -> PiTableEntryToIr(info, entity.body, options)
                [] entity.type = "multicast" -> PiMulticastGroupEntryToIr(entity.body, options)
                [] entity.type = "clone_session" -> PiCloneSessionEntryToIr(entity.body, options)
                [] OTHER -> Err
  IN IF body.ok THEN Ok([entity EXCEPT !.body = body.value]) ELSE Err

IrEntityToPi(info, entity, options) ==
  LET body == CASE entity.type = "table_entry" -> IrTableEntryToPi(info, entity.body, options)
                [] entity.type = "multicast" -> IrMulticastGroupEntryToPi(entity.body, options)
                [] entity.type = "clone_session" -> IrCloneSessionEntryToPi(entity.body, options)
                [] OTHER -> Err
  IN IF body.ok THEN Ok([entity EXCEPT !.body = body.value]) ELSE Err

-----------------------------------------------------------------------------
(* Packets: [payload, metadata], metadata a sequence of [name, value];     *)
(* defs maps a name to [format, bitwidth, padding].                        *)

Padding(defs) == {n \in DOMAIN defs : defs[n].padding}

PiPacketIoToIr(defs, packet) ==
  LET shown == SelectSeq(packet.metadata, LAMBDA m : m.name \notin Padding(defs))
      values == AllOk([j \in DOMAIN shown |-> PiParamToIr(defs[shown[j].name], shown[j])])
  IN IF /\ AllDifferent(packet.metadata)
        /\ {m.name : m \in Range(packet.metadata)} = DOMAIN defs
        /\ \A m \in Range(packet.metadata) : m.name \in Padding(defs) => IsAllZeros(m.value)
     THEN IF values.ok THEN Ok([packet EXCEPT !.metadata = values.value]) ELSE Err
     ELSE Err

\* Padding is added behind the rest.
IrPacketIoToPi(defs, packet, options) ==
  LET values == AllOk([j \in DOMAIN packet.metadata |->
                         IrParamToPi(options, defs[packet.metadata[j].name], packet.metadata[j])])
      zero == [value |-> 0, length |-> 1]
      padding == SetToSeq({[name |-> n, value |-> zero] : n \in Padding(defs)})
  IN IF /\ AllDifferent(packet.metadata)
        /\ {m.name : m \in Range(packet.metadata)} = DOMAIN defs \ Padding(defs)
     THEN IF values.ok THEN Ok([packet EXCEPT !.metadata = values.value \o padding]) ELSE Err
     ELSE Err

-----------------------------------------------------------------------------
(* Requests, responses and stream messages.  A read request is             *)
(* [device_id, entities], of each entity its type, whether anything but    *)
(* the following is set, and whether meter_config and counter_data are     *)
(* absent, empty or full.  A write request is [device_id, role_id,         *)
(* atomicity, election_id, updates], election_id 0 for none, an update     *)
(* [type, entity]; a stream message is [update, body], body an             *)
(* arbitration, a packet, or an error [status, details, packet].           *)

UpdateTypes == {"INSERT", "MODIFY", "DELETE"}   \* and UNSPECIFIED

PiEntitiesToIr(info, entities, options) ==
  AllOk([j \in DOMAIN entities |-> PiEntityToIr(info, entities[j], options)])

IrEntitiesToPi(info, entities, options) ==
  AllOk([j \in DOMAIN entities |-> IrEntityToPi(info, entities[j], options)])

\* Only everything can be read at once.
PiReadRequestToIr(request) ==
  LET e == request.entities[1]
  IN IF /\ request.device_id # 0
        /\ Len(request.entities) = 1
        /\ e.type = "table_entry" /\ e.wildcard
        /\ e.meter_config # "full" /\ e.counter_data # "full"
     THEN Ok([device_id |-> request.device_id,
              read_meter_configs |-> e.meter_config = "empty",
              read_counter_data |-> e.counter_data = "empty"])
     ELSE Err

IrReadRequestToPi(request) ==
  LET empty(read) == IF read THEN "empty" ELSE "absent"
  IN OkIf(request.device_id # 0,
          [device_id |-> request.device_id,
           entities |-> <<[type |-> "table_entry", wildcard |-> TRUE,
                           meter_config |-> empty(request.read_meter_configs),
                           counter_data |-> empty(request.read_counter_data)]>>])

PiUpdateToIr(info, update, options) ==
  LET entity == PiEntityToIr(info, update.entity, options)
  IN IF update.type # "UNSPECIFIED" /\ entity.ok
     THEN Ok([update EXCEPT !.entity = entity.value]) ELSE Err

IrUpdateToPi(info, update, options) ==
  LET entity == IrEntityToPi(info, update.entity, options)
  IN IF update.type \in UpdateTypes /\ entity.ok
     THEN Ok([update EXCEPT !.entity = entity.value]) ELSE Err

PiWriteRequestToIr(info, request, options) ==
  LET updates == AllOk([j \in DOMAIN request.updates |->
                          PiUpdateToIr(info, request.updates[j], options)])
  IN IF request.role_id = 0 /\ request.atomicity = "CONTINUE_ON_ERROR" /\ updates.ok
     THEN Ok([device_id |-> request.device_id, election_id |-> request.election_id,
              updates |-> updates.value])
     ELSE Err

IrWriteRequestToPi(info, request, options) ==
  LET updates == AllOk([j \in DOMAIN request.updates |->
                          IrUpdateToPi(info, request.updates[j], options)])
  IN IF updates.ok
     THEN Ok([device_id |-> request.device_id, role_id |-> 0, atomicity |-> "CONTINUE_ON_ERROR",
              election_id |-> request.election_id, updates |-> updates.value])
     ELSE Err

WithBody(message, body) == IF body.ok THEN Ok([message EXCEPT !.body = body.value]) ELSE Err

PiStreamMessageRequestToIr(info, message) ==
  CASE message.update = "arbitration" -> Ok(message)
    [] message.update = "packet" -> WithBody(message, PiPacketIoToIr(info.packet_out, message.body))
    [] OTHER -> Err

IrStreamMessageRequestToPi(info, message, options) ==
  CASE message.update = "arbitration" -> Ok(message)
    [] message.update = "packet" ->
         WithBody(message, IrPacketIoToPi(info.packet_out, message.body, options))
    [] OTHER -> Err

\* An error returns the packet that could not be sent; no other is known.
WithPacket(error, packet) ==
  IF error.details = "packet_out" /\ packet.ok THEN Ok([error EXCEPT !.packet = packet.value]) ELSE Err

PiStreamMessageResponseToIr(info, message) ==
  CASE message.update = "arbitration" -> Ok(message)
    [] message.update = "packet" -> WithBody(message, PiPacketIoToIr(info.packet_in, message.body))
    [] message.update = "error" ->
         WithBody(message, WithPacket(message.body, PiPacketIoToIr(info.packet_out, message.body.packet)))
    [] OTHER -> Err

IrStreamMessageResponseToPi(info, message, options) ==
  CASE message.update = "arbitration" -> Ok(message)
    [] message.update = "packet" ->
         WithBody(message, IrPacketIoToPi(info.packet_in, message.body, options))
    [] message.update = "error" ->
         WithBody(message, WithPacket(message.body,
                                      IrPacketIoToPi(info.packet_out, message.body.packet, options)))
    [] OTHER -> Err

-----------------------------------------------------------------------------
(* The status of a Write.  A gRPC status is [code, message, details]:      *)
(* whether it has a message, and its details: "none", "unparsable", or the *)
(* statuses of the updates under a code.  An IR status is [type, statuses] *)
(* with type "rpc_response", or [type, code, message], "rpc_wide_error".   *)

OK == 0
UNKNOWN == 2

IsGoogleRpcCode(code) == code \in 0..15
ValidateGenericUpdateStatus(s) == s.code = OK => ~s.message
StatusIsValid(s) == IsGoogleRpcCode(s.code) /\ ValidateGenericUpdateStatus(s)

RpcResponse(statuses) == [type |-> "rpc_response", statuses |-> statuses]
RpcWideError(s) == [type |-> "rpc_wide_error", statuses |-> <<s>>]

GrpcStatusToIrWriteRpcStatus(s, n) ==
  CASE s.code = OK ->
         OkIf(~s.message /\ s.details.kind = "none",
              RpcResponse([j \in 1..n |-> [code |-> OK, message |-> FALSE]]))
    [] s.code # OK /\ s.details.kind = "none" ->
         LET error == [code |-> s.code, message |-> s.message]
         IN OkIf(StatusIsValid(error), RpcWideError(error))
    [] s.code # OK /\ s.details.kind # "none" ->
         OkIf(/\ s.code = UNKNOWN
              /\ s.details.kind = "status"
              /\ s.details.code = s.code
              /\ Len(s.details.statuses) = n
              /\ \A u \in Range(s.details.statuses) : StatusIsValid(u)
              /\ \E u \in Range(s.details.statuses) : u.code # OK,
              RpcResponse(s.details.statuses))

GrpcStatus(code, message, details) == [code |-> code, message |-> message, details |-> details]

IrWriteResponseToGrpcStatus(statuses) ==
  OkIf(\A u \in Range(statuses) : StatusIsValid(u),
       GrpcStatus(UNKNOWN, TRUE, [kind |-> "status", code |-> UNKNOWN, statuses |-> statuses]))

IrWriteRpcStatusToGrpcStatus(s) ==
  CASE s.type = "rpc_response" ->
         IF \A u \in Range(s.statuses) : u.code = OK /\ ~u.message
         THEN Ok(GrpcStatus(OK, FALSE, [kind |-> "none"]))
         ELSE IrWriteResponseToGrpcStatus(s.statuses)
    [] s.type = "rpc_wide_error" ->
         OkIf(s.statuses[1].code # OK /\ StatusIsValid(s.statuses[1]),
              GrpcStatus(s.statuses[1].code, s.statuses[1].message, [kind |-> "none"]))
    [] OTHER -> Err

\* What a caller of Write sees in the end: a code, or nothing it can read.
WriteRpcGrpcStatusToAbslStatus(s, n) ==
  LET status == GrpcStatusToIrWriteRpcStatus(s, n)
  IN CASE ~status.ok -> Err
       [] status.ok /\ status.value.type = "rpc_wide_error" -> Ok(status.value.statuses[1].code)
       [] status.ok /\ status.value.type = "rpc_response" ->
            Ok(IF \A u \in Range(status.value.statuses) : u.code = OK THEN OK ELSE UNKNOWN)
=============================================================================
