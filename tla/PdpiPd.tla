------------------------------- MODULE PdpiPd -------------------------------
(***************************************************************************)
(* p4_infra/p4_pdpi/pd.cc and pdgenlib.cc: the protobuf schema generated   *)
(* for a P4 program (PD), and the translation between IR and PD messages.  *)
(*                                                                         *)
(* A field of a message that holds its default is as good as absent, so a  *)
(* PD message here has the fields that are set: the match fields, actions  *)
(* and parameters are functions on those names.  Every value of a field is *)
(* a text: [notation, value, digits], EmptyText when absent.               *)
(* A schema may hold more than the P4Info it is used with: it is generated *)
(* for the tables of all roles.  What both hold has the same type.         *)
(***************************************************************************)
EXTENDS PdpiIr, TLC

-----------------------------------------------------------------------------
(* The schema.  A table of the P4Info has a role, the units of its meter   *)
(* and its counter, and proto_ids, the field number of each entry action.  *)

GetMatchFieldDeclaration(d) ==
  CASE d.type = "EXACT" -> Ok("string")
    [] d.type = "LPM" -> Ok("Lpm")
    [] d.type = "TERNARY" -> Ok("Ternary")
    [] d.type = "OPTIONAL" -> Ok("Optional")
    [] OTHER -> Err

GetTableMatchMessage(table) ==
  AllOk([f \in DOMAIN table.fields |-> GetMatchFieldDeclaration(table.fields[f])])

GetTableActionMessage(table) == OkIf(IsInjective(table.proto_ids), table.actions)

MeterUnits == {"BYTES", "PACKETS"}
CounterUnits == {"BYTES", "PACKETS", "BOTH"}

\* The fields next to match and action or wcmp_actions.
TableMessageFields(table) ==
  {"controller_metadata"}
    \cup (IF \E f \in DOMAIN table.fields : table.fields[f].type \in {"TERNARY", "OPTIONAL", "RANGE"}
          THEN {"priority"} ELSE {})
    \cup (IF table.has_meter THEN {"meter_config"} ELSE {})
    \cup (IF table.has_counter THEN {"counter_data"} ELSE {})
    \cup (IF table.has_meter /\ table.has_counter THEN {"meter_counter_data"} ELSE {})

GetTableMessage(table) ==
  LET match == GetTableMatchMessage(table)
      action == GetTableActionMessage(table)
  IN IF /\ match.ok /\ action.ok
        /\ table.has_meter => table.meter_unit \in MeterUnits
        /\ table.has_counter => table.counter_unit \in CounterUnits
     THEN Ok([match |-> match.value, action |-> action.value,
              wcmp_actions |-> table.uses_oneshot, fields |-> TableMessageFields(table)])
     ELSE Err

GetActionMessage(action) == DOMAIN action.params

GetPacketIoMessage(defs) == DOMAIN defs \ Padding(defs)

IsActionUnused(info, action, tables) == \A t \in tables : action \notin info.tables[t].actions

\* options are the roles whose tables are wanted, and whether multicast
\* groups are.
IrP4InfoToPdProto(info, options) ==
  LET tables == {t \in DOMAIN info.tables : info.tables[t].role \in options.roles}
      messages == AllOk([t \in tables |-> GetTableMessage(info.tables[t])])
      used == {a \in DOMAIN info.actions : ~IsActionUnused(info, a, tables)}
  IN IF tables # {} /\ DOMAIN info.actions # {} /\ messages.ok
     THEN Ok([tables |-> messages.value,
              actions |-> [a \in used |-> GetActionMessage(info.actions[a])],
              multicast |-> options.multicast,
              packet_in |-> GetPacketIoMessage(info.packet_in),
              packet_out |-> GetPacketIoMessage(info.packet_out)])
     ELSE Err

-----------------------------------------------------------------------------
(* Texts.                                                                  *)

EmptyText == [notation |-> "", value |-> 0, digits |-> 0]

IrValueString(v) ==
  IF v.format = "FORMAT_NOT_SET" \/ (v.format = "STRING" /\ v.digits = 0)
  THEN EmptyText
  ELSE [notation |-> v.format, value |-> v.value, digits |-> v.digits]

\* Reads the oneof of the given format, whatever the value has.
IrValueToFormattedString(v, format) == IF v.format = format THEN IrValueString(v) ELSE EmptyText

\* Any text is a value of any format; what it is worth shows on the way to PI.
FormattedStringToIrValue(text, format) ==
  [format |-> format,
   value |-> text.value,
   digits |-> CASE text.notation = format -> text.digits
                [] text.notation # format /\ format # "STRING" -> Unreadable
                [] text.notation # format /\ format = "STRING" ->
                     IF text = EmptyText THEN 0 ELSE text.digits + 1]

\* The set fields of a message of strings: setting "" leaves a field unset.
SetFields(texts) == [f \in {g \in DOMAIN texts : texts[g] # EmptyText} |-> texts[f]]

GetStringField(message, f) == IF f \in DOMAIN message THEN message[f] ELSE EmptyText

\* Set one after the other, the last of a name stays.
Named(s, name) == s[CHOOSE j \in DOMAIN s : s[j].name = name /\ \A k \in (j + 1)..Len(s) : s[k].name # name]
NamesOf(s) == {s[j].name : j \in DOMAIN s}

-----------------------------------------------------------------------------
(* Matches.                                                                *)

PdMatch(value, mask, prefix_len) == [value |-> value, mask |-> mask, prefix_length |-> prefix_len]
UnsetMatch == PdMatch(EmptyText, EmptyText, 0)

\* A match of another type than the definition's is read as an unset one.
IrMatchToPd(d, m) ==
  IF m.type # d.type THEN UnsetMatch
  ELSE PdMatch(IrValueString(m.value), IF d.type = "TERNARY" THEN IrValueString(m.mask) ELSE EmptyText,
               IF d.type = "LPM" THEN m.prefix_len ELSE 0)

\* A field the P4Info does not have is left out without an error; an exact
\* field, a plain string, is not set by "".
IrMatchEntryToPd(schema, table, options, matches) ==
  LET known == NamesOf(matches) \cap DOMAIN table.fields
      pd == [f \in known |-> IrMatchToPd(table.fields[f], Named(matches, f))]
      set == {f \in known : table.fields[f].type # "EXACT" \/ pd[f] # UnsetMatch}
  IN OkIf(/\ known \subseteq DOMAIN schema.match
          /\ \A f \in known : Supported(table.fields[f], options),
          [f \in set |-> pd[f]])

\* In the order of their ids.
ById(defs, names) == SetToSortSeq(names, LAMBDA a, b : defs[a].id < defs[b].id)

PdMatchToIr(name, d, m) ==
  LET value(text) == FormattedStringToIrValue(text, d.format)
  IN OkIf(m.prefix_length \in 0..d.bitwidth \/ d.type # "LPM",
          [name |-> name, type |-> d.type, value |-> value(m.value),
           mask |-> IF d.type = "TERNARY" THEN value(m.mask) ELSE [value |-> 0, length |-> 0],
           prefix_len |-> IF d.type = "LPM" THEN m.prefix_length ELSE 0])

\* An absent exact field is "".  The schema has the fields of the P4Info.
PdMatchEntryToIr(schema, table, options, match) ==
  LET read == {f \in DOMAIN table.fields : f \in DOMAIN match \/ table.fields[f].type = "EXACT"}
      order == ById(table.fields, read)
      ir == AllOk([j \in DOMAIN order |->
                     PdMatchToIr(order[j], table.fields[order[j]],
                                 IF order[j] \in DOMAIN match THEN match[order[j]] ELSE UnsetMatch)])
  IN IF /\ DOMAIN match \subseteq DOMAIN table.fields
        /\ DOMAIN table.fields \subseteq DOMAIN schema.match
        /\ \A f \in read : Supported(table.fields[f], options)
     THEN ir ELSE Err

-----------------------------------------------------------------------------
(* Actions: a function from the one action that is set to its parameters.  *)

NoAction == <<>>   \* no field set: the function on the empty set

IrActionInvocationToPd(pdproto, schema, info, options, action) ==
  IF /\ action.name \in DOMAIN info.actions
     /\ action.name \in schema.action
     /\ Supported(info.actions[action.name], options)
     /\ NamesOf(action.params) \subseteq pdproto.actions[action.name]
  THEN Ok(action.name :> SetFields([p \in NamesOf(action.params) |->
                                      IrValueString(Named(action.params, p).value)]))
  ELSE Err

PdActionInvocationToIr(info, options, invocation) ==
  LET name == CHOOSE a \in DOMAIN invocation : TRUE
      params == invocation[name]
      defs == info.actions[name].params
      order == ById(defs, DOMAIN params)
  IN IF /\ Cardinality(DOMAIN invocation) = 1
        /\ name \in DOMAIN info.actions
        /\ Supported(info.actions[name], options)
        /\ DOMAIN params \subseteq DOMAIN defs
     THEN Ok([name |-> name,
              params |-> [j \in DOMAIN order |->
                            [name |-> order[j],
                             value |-> FormattedStringToIrValue(params[order[j]], defs[order[j]].format)]]])
     ELSE Err

\* A member of a set: [action, weight, watch_port].
WithActionOf(member, action) == IF action.ok THEN Ok([member EXCEPT !.action = action.value]) ELSE Err

IrActionSetToPd(pdproto, schema, info, options, set) ==
  IF schema.wcmp_actions
  THEN AllOk([j \in DOMAIN set |->
                WithActionOf(set[j], IrActionInvocationToPd(pdproto, schema, info, options, set[j].action))])
  ELSE Err

\* The name of an action that is not there is "".
Nothing == [name |-> "", params |-> <<>>]

PdActionSetToIr(info, options, member) ==
  IF member.action = NoAction THEN Ok([member EXCEPT !.action = Nothing])
  ELSE WithActionOf(member, PdActionInvocationToIr(info, options, member.action))

-----------------------------------------------------------------------------
(* Meters and counters.  In IR a meter config is [cir, pir, cburst,        *)
(* pburst], counter data [byte_count, packet_count], and meter counters a  *)
(* function from the colors that have some to counter data.                *)

Counts(unit, c) ==
  [byte_count |-> IF unit \in {"BYTES", "BOTH"} THEN c.byte_count ELSE 0,
   packet_count |-> IF unit \in {"PACKETS", "BOTH"} THEN c.packet_count ELSE 0]

ColorCounts(unit, counters) == [c \in DOMAIN counters |-> Counts(unit, counters[c])]

\* Mutation: the peak rate and burst are not looked at.
AnyRates(table, config) ==
  OkIf(table.meter_unit \in MeterUnits, [rate |-> config.cir, burst |-> config.cburst])

\* [rate, burst]; there is one rate and one burst for both of IR's.
IrMeterConfigToPd(table, config) ==
  OkIf(/\ config.cir = config.pir
       /\ config.cburst = config.pburst
       /\ table.meter_unit \in MeterUnits, [rate |-> config.cir, burst |-> config.cburst])

PdMeterConfigToIr(table, config) ==
  OkIf(table.meter_unit \in MeterUnits,
       [cir |-> config.rate, pir |-> config.rate, cburst |-> config.burst, pburst |-> config.burst])

AddIrMeterCounterDataToPdEntry(table, counters) ==
  OkIf(table.has_counter /\ table.counter_unit \in CounterUnits, ColorCounts(table.counter_unit, counters))

AddPdMeterCounterDataToIrEntry(table, counters) ==
  OkIf(table.counter_unit \in CounterUnits, ColorCounts(table.counter_unit, counters))

\* Ok(<<>>) when there is nothing to translate.
IfAny(s, translated) == CASE s = <<>> -> Ok(<<>>)
                          [] s # <<>> /\ translated.ok -> Ok(<<translated.value>>)
                          [] OTHER -> Err

-----------------------------------------------------------------------------
(* Table entries in PD: [table, match, priority, metadata, action, wcmp,   *)
(* meter_config, meter_counter, counter].                                  *)

PdTableEntry(table, match) ==
  [table |-> table, match |-> match, priority |-> 0, metadata |-> 0, action |-> NoAction,
   wcmp |-> <<>>, meter_config |-> <<>>, meter_counter |-> <<>>, counter |-> <<>>]

IrTableEntryToPd(pdproto, info, e, options) ==
  IF e.table \notin DOMAIN info.tables \/ e.table \notin DOMAIN pdproto.tables THEN Err
  ELSE
    LET table == info.tables[e.table]
        schema == pdproto.tables[e.table]
        match == IrMatchEntryToPd(schema, table, options, e.matches)
        action == IF table.uses_oneshot \/ e.type # "action" THEN Ok(NoAction)
                  ELSE IrActionInvocationToPd(pdproto, schema, info, options, e.action)
        wcmp == IF ~table.uses_oneshot THEN Ok(<<>>)
                ELSE IrActionSetToPd(pdproto, schema, info, options,
                                     IF e.type = "action_set" THEN e.action ELSE <<>>)
        metered == table.has_meter /\ e.meter_config # <<>>
        meter == IF metered THEN IfAny(e.meter_config, IrMeterConfigToPd(table, e.meter_config[1])) ELSE Ok(<<>>)
        colors == IF metered
                  THEN IfAny(e.meter_counter, AddIrMeterCounterDataToPdEntry(table, e.meter_counter[1]))
                  ELSE Ok(<<>>)
        counter == IF table.has_counter
                   THEN IfAny(e.counter, OkIf(table.counter_unit \in CounterUnits,
                                              Counts(table.counter_unit, e.counter[1])))
                   ELSE Ok(<<>>)
        key == [PdTableEntry(e.table, match.value) EXCEPT !.priority = e.priority]
    IN IF /\ Supported(table, options)
          /\ match.ok
          /\ e.priority # 0 => "priority" \in schema.fields
       THEN CASE options.key_only -> Ok(key)
              [] ~options.key_only /\ action.ok /\ wcmp.ok /\ meter.ok /\ colors.ok /\ counter.ok ->
                   Ok([key EXCEPT !.metadata = e.metadata, !.action = action.value, !.wcmp = wcmp.value,
                                  !.meter_config = meter.value, !.meter_counter = colors.value,
                                  !.counter = counter.value])
              [] OTHER -> Err
       ELSE Err

\* Counters of zero are taken for none.
NothingCounted(unit, c) == Counts(unit, c) = [byte_count |-> 0, packet_count |-> 0]

PartialPdTableEntryToIrTableEntry(pdproto, info, pd, options) ==
  IF pd.table \notin DOMAIN info.tables THEN Err
  ELSE
    LET table == info.tables[pd.table]
        schema == pdproto.tables[pd.table]
        matches == PdMatchEntryToIr(schema, table, options, pd.match)
        key == [table |-> pd.table, matches |-> matches.value, priority |-> pd.priority, type |-> "none",
                action |-> <<>>, metadata |-> 0, meter_config |-> <<>>, meter_counter |-> <<>>, counter |-> <<>>]
        type == CASE table.uses_oneshot -> "action_set"
                  [] ~table.uses_oneshot /\ pd.action # NoAction -> "action"
                  [] OTHER -> "none"
        action == CASE type = "action_set" ->
                         AllOk([j \in DOMAIN pd.wcmp |-> PdActionSetToIr(info, options, pd.wcmp[j])])
                    [] type = "action" -> PdActionInvocationToIr(info, options, pd.action)
                    [] type = "none" -> Ok(<<>>)
        meter == IF table.has_meter THEN IfAny(pd.meter_config, PdMeterConfigToIr(table, pd.meter_config[1]))
                                    ELSE OkIf(pd.meter_config = <<>>, <<>>)
        counted == pd.counter # <<>> /\ ~NothingCounted(table.counter_unit, pd.counter[1])
        counter == IF table.has_counter
                   THEN OkIf(pd.counter = <<>> \/ table.counter_unit \in CounterUnits,
                             IF counted THEN <<Counts(table.counter_unit, pd.counter[1])>> ELSE <<>>)
                   ELSE OkIf(pd.counter = <<>>, <<>>)
        colors == IF table.has_meter /\ table.has_counter
                  THEN IfAny(pd.meter_counter, AddPdMeterCounterDataToIrEntry(table, pd.meter_counter[1]))
                  ELSE Ok(<<>>)
    IN IF Supported(table, options) /\ matches.ok
       THEN CASE options.key_only -> Ok(key)
              [] ~options.key_only /\ action.ok /\ meter.ok /\ counter.ok /\ colors.ok ->
                   Ok([key EXCEPT !.type = type, !.action = action.value, !.metadata = pd.metadata,
                                  !.meter_config = meter.value, !.meter_counter = colors.value,
                                  !.counter = counter.value])
              [] OTHER -> Err
       ELSE Err

\* Clears fields no message has when the table has a meter or a counter: they
\* are called meter_config and counter_data.
PdTableEntryToOnlyKeyPd(info, pd) ==
  IF pd.type = "multicast"
  THEN Ok([pd EXCEPT !.body.action = FALSE, !.body.replicas = <<>>])
  ELSE IF pd.body.table \in DOMAIN info.tables
       THEN LET table == info.tables[pd.body.table]
            IN OkIf(~table.has_meter /\ ~table.has_counter,
                    [pd EXCEPT !.body.metadata = 0,
                               !.body.wcmp = IF table.uses_oneshot THEN <<>> ELSE @,
                               !.body.action = IF table.uses_oneshot THEN @ ELSE NoAction])
       ELSE Err

-----------------------------------------------------------------------------
(* Multicast groups in PD: [match, action, id, metadata, replicas], match  *)
(* and action whether those messages are set, a replica its <<port,        *)
(* instance>>: there are no backups yet.  Ids and instances become hex     *)
(* strings of 16 bits, whatever they were.                                 *)

To16Bits(n) == n % 2^16

IrReplicaToPd(replica) == <<replica[1][1], To16Bits(replica[1][2])>>
PdReplicaToIr(replica) == <<replica>>

IrMulticastGroupEntryToPd(e, options) ==
  LET key == [match |-> TRUE, action |-> FALSE, id |-> To16Bits(e.id), metadata |-> 0, replicas |-> <<>>]
  IN IF options.key_only THEN Ok(key)
     ELSE OkIf(ReplicasAreWellFormed(e.replicas),
               [key EXCEPT !.action = TRUE, !.metadata = e.metadata,
                           !.replicas = [j \in DOMAIN e.replicas |-> IrReplicaToPd(e.replicas[j])]])

PdMulticastGroupEntryToIr(pd, options) ==
  LET replicas == [j \in DOMAIN pd.replicas |-> PdReplicaToIr(pd.replicas[j])]
  IN CASE ~pd.match -> Err
       [] pd.match /\ options.key_only -> Ok([id |-> pd.id, metadata |-> 0, replicas |-> <<>>])
       [] pd.match /\ ~options.key_only ->
            OkIf(pd.action /\ ReplicasAreWellFormed(replicas),
                 [id |-> pd.id, metadata |-> pd.metadata, replicas |-> replicas])

-----------------------------------------------------------------------------
(* Entities, requests, responses and stream messages.                      *)

IrPacketReplicationEngineEntryToPd(pdproto, entity, options) ==
  IF entity.type = "multicast" /\ pdproto.multicast
  THEN IrMulticastGroupEntryToPd(entity.body, options) ELSE Err

IrEntityToPdTableEntry(pdproto, info, entity, options) ==
  WithBody(entity, IF entity.type = "table_entry"
                   THEN IrTableEntryToPd(pdproto, info, entity.body, options)
                   ELSE IrPacketReplicationEngineEntryToPd(pdproto, entity, options))

PdTableEntryToIrEntity(pdproto, info, pd, options) ==
  WithBody(pd, IF pd.type = "multicast" THEN PdMulticastGroupEntryToIr(pd.body, options)
               ELSE PartialPdTableEntryToIrTableEntry(pdproto, info, pd.body, options))

IrEntitiesToPdTableEntries(pdproto, info, entities, options) ==
  AllOk([j \in DOMAIN entities |-> IrEntityToPdTableEntry(pdproto, info, entities[j], options)])

PdTableEntriesToIrEntities(pdproto, info, entries, options) ==
  AllOk([j \in DOMAIN entries |-> PdTableEntryToIrEntity(pdproto, info, entries[j], options)])

IrReadRequestToPd(request) == OkIf(request.device_id # 0, request)
PdReadRequestToIr(request) == OkIf(request.device_id # 0, request)

WithEntity(update, entity) == IF entity.ok THEN Ok([update EXCEPT !.entity = entity.value]) ELSE Err

\* The type is copied, UNSPECIFIED too; one that is no type is seen on the way back.
IrUpdateToPd(pdproto, info, update, options) ==
  WithEntity(update, IrEntityToPdTableEntry(pdproto, info, update.entity, options))

PdUpdateToIr(pdproto, info, update, options) ==
  IF update.type \in UpdateTypes \cup {"UNSPECIFIED"}
  THEN WithEntity(update, PdTableEntryToIrEntity(pdproto, info, update.entity, options)) ELSE Err

WithUpdates(request, updates) == IF updates.ok THEN Ok([request EXCEPT !.updates = updates.value]) ELSE Err

IrWriteRequestToPd(pdproto, info, request, options) ==
  WithUpdates(request, AllOk([j \in DOMAIN request.updates |->
                                IrUpdateToPd(pdproto, info, request.updates[j], options)]))

PdWriteRequestToIr(pdproto, info, request, options) ==
  WithUpdates(request, AllOk([j \in DOMAIN request.updates |->
                                PdUpdateToIr(pdproto, info, request.updates[j], options)]))

\* A packet in PD: [payload, metadata], metadata a function on what is set.
IrPacketIoToPd(message, defs, packet) ==
  OkIf(NamesOf(packet.metadata) \subseteq (DOMAIN defs \ Padding(defs)) \cap message,
       [payload |-> packet.payload,
        metadata |-> SetFields([n \in NamesOf(packet.metadata) |->
                       IrValueToFormattedString(Named(packet.metadata, n).value, defs[n].format)])])

\* All of them, in the order of their names: an absent one is "".
PdPacketIoToIr(message, defs, packet) ==
  LET names == SetToSeq(DOMAIN defs \ Padding(defs))
  IN OkIf(DOMAIN defs \ Padding(defs) \subseteq message,
          [payload |-> packet.payload,
           metadata |-> [j \in DOMAIN names |->
                           [name |-> names[j],
                            value |-> FormattedStringToIrValue(GetStringField(packet.metadata, names[j]),
                                                               defs[names[j]].format)]]])

IrArbitrationToPd(message) == Ok(message)
PdArbitrationToIr(message) == Ok(message)

IrStreamMessageRequestToPd(pdproto, info, message) ==
  CASE message.update = "arbitration" -> IrArbitrationToPd(message)
    [] message.update = "packet" ->
         WithBody(message, IrPacketIoToPd(pdproto.packet_out, info.packet_out, message.body))
    [] OTHER -> Err

PdStreamMessageRequestToIr(pdproto, info, message) ==
  CASE message.update = "arbitration" -> PdArbitrationToIr(message)
    [] message.update = "packet" ->
         WithBody(message, PdPacketIoToIr(pdproto.packet_out, info.packet_out, message.body))
    [] OTHER -> Err

IrStreamMessageResponseToPd(pdproto, info, message) ==
  CASE message.update = "arbitration" -> IrArbitrationToPd(message)
    [] message.update = "packet" ->
         WithBody(message, IrPacketIoToPd(pdproto.packet_in, info.packet_in, message.body))
    [] message.update = "error" ->
         WithBody(message, WithPacket(message.body,
           IrPacketIoToPd(pdproto.packet_out, info.packet_out, message.body.packet)))
    [] OTHER -> Err

PdStreamMessageResponseToIr(pdproto, info, message) ==
  CASE message.update = "arbitration" -> PdArbitrationToIr(message)
    [] message.update = "packet" ->
         WithBody(message, PdPacketIoToIr(pdproto.packet_in, info.packet_in, message.body))
    [] message.update = "error" ->
         WithBody(message, WithPacket(message.body,
           PdPacketIoToIr(pdproto.packet_out, info.packet_out, message.body.packet)))
    [] OTHER -> Err

-----------------------------------------------------------------------------
(* The status of a Write.                                                  *)

\* google.rpc.Code has UNAUTHENTICATED, 16, too.
IsEnumValue(code) == code \in 0..16

IrUpdateStatusToPd(s) == OkIf(IsEnumValue(s.code), s)
PdUpdateStatusToIr(s) == OkIf(IsEnumValue(s.code), s)

WithStatuses(status, statuses) == IF statuses.ok THEN Ok([status EXCEPT !.statuses = statuses.value]) ELSE Err

IrWriteRpcStatusToPd(status) ==
  CASE status.type = "rpc_response" ->
         WithStatuses(status, AllOk([j \in DOMAIN status.statuses |-> IrUpdateStatusToPd(status.statuses[j])]))
    [] status.type = "rpc_wide_error" -> Ok(status)
    [] OTHER -> Err

PdWriteRpcStatusToIr(status) ==
  CASE status.type = "rpc_response" ->
         WithStatuses(status, AllOk([j \in DOMAIN status.statuses |-> PdUpdateStatusToIr(status.statuses[j])]))
    [] status.type = "rpc_wide_error" -> Ok(status)
    [] OTHER -> Err

-----------------------------------------------------------------------------
(* From PI to PD and back, through IR.                                     *)

PiEntityToPdTableEntry(pdproto, info, entity, options) ==
  LET ir == PiEntityToIr(info, entity, options)
  IN IF ir.ok THEN IrEntityToPdTableEntry(pdproto, info, ir.value, options) ELSE Err

PdTableEntryToPiEntity(pdproto, info, pd, options) ==
  LET ir == PdTableEntryToIrEntity(pdproto, info, pd, options)
  IN IF ir.ok THEN IrEntityToPi(info, ir.value, options) ELSE Err

PiWriteRequestToPd(pdproto, info, request, options) ==
  LET ir == PiWriteRequestToIr(info, request, options)
  IN IF ir.ok THEN IrWriteRequestToPd(pdproto, info, ir.value, options) ELSE Err

PdWriteRequestToPi(pdproto, info, request, options) ==
  LET ir == PdWriteRequestToIr(pdproto, info, request, options)
  IN IF ir.ok THEN IrWriteRequestToPi(info, ir.value, options) ELSE Err

PiReadRequestToPd(request) ==
  LET ir == PiReadRequestToIr(request) IN IF ir.ok THEN IrReadRequestToPd(ir.value) ELSE Err

PdReadRequestToPi(request) ==
  LET ir == PdReadRequestToIr(request) IN IF ir.ok THEN IrReadRequestToPi(ir.value) ELSE Err

PiStreamMessageRequestToPd(pdproto, info, message) ==
  LET ir == PiStreamMessageRequestToIr(info, message)
  IN IF ir.ok THEN IrStreamMessageRequestToPd(pdproto, info, ir.value) ELSE Err

PdStreamMessageRequestToPi(pdproto, info, message, options) ==
  LET ir == PdStreamMessageRequestToIr(pdproto, info, message)
  IN IF ir.ok THEN IrStreamMessageRequestToPi(info, ir.value, options) ELSE Err

PiStreamMessageResponseToPd(pdproto, info, message) ==
  LET ir == PiStreamMessageResponseToIr(info, message)
  IN IF ir.ok THEN IrStreamMessageResponseToPd(pdproto, info, ir.value) ELSE Err

PdStreamMessageResponseToPi(pdproto, info, message, options) ==
  LET ir == PdStreamMessageResponseToIr(pdproto, info, message)
  IN IF ir.ok THEN IrStreamMessageResponseToPi(info, ir.value, options) ELSE Err

GrpcStatusToPd(s, n) ==
  LET ir == GrpcStatusToIrWriteRpcStatus(s, n) IN IF ir.ok THEN IrWriteRpcStatusToPd(ir.value) ELSE Err

PdWriteRpcStatusToGrpcStatus(status) ==
  LET ir == PdWriteRpcStatusToIr(status) IN IF ir.ok THEN IrWriteRpcStatusToGrpcStatus(ir.value) ELSE Err
=============================================================================
