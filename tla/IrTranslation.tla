--------------------------- MODULE IrTranslation ---------------------------
(***************************************************************************)
(* p4runtime/ir_translation.cc and p4runtime/queue_translator.cc: how the  *)
(* ports, queues and IPv6 masks of an IR entry are rewritten between what  *)
(* the controller uses (port ids, queue names) and what OrchAgent uses     *)
(* (SONiC port names, queue ids in hex).                                   *)
(*                                                                         *)
(* The operators are pure.  A result is Ok(v) or Err.                      *)
(***************************************************************************)
EXTENDS Integers, Sequences, SequencesExt, Functions, StatusOr

-----------------------------------------------------------------------------
(* Ports.  A port map is an injective function from names to ids: the left *)
(* and the right view of a boost::bimap.                                   *)

\* A bimap holds the pair unless one of its two sides is taken.
BimapInsert(map, name, id) ==
  IF name \in DOMAIN map \/ id \in Range(map)
  THEN map
  ELSE [n \in DOMAIN map \cup {name} |-> IF n = name THEN id ELSE map[n]]

BimapErase(map, name) == [n \in DOMAIN map \ {name} |-> map[n]]

TranslatePort(direction, port_map, key) ==
  CASE direction = "kForController" ->
         IF key \in DOMAIN port_map THEN Ok(port_map[key]) ELSE Err
    [] direction = "kForOrchAgent" ->
         IF key \in Range(port_map)
         THEN Ok(CHOOSE n \in DOMAIN port_map : port_map[n] = key)
         ELSE Err

-----------------------------------------------------------------------------
(* Queues.  A queue string is a decimal number, a number in hex with its   *)
(* 0x, a word whose letters all are hex digits (AF1) or another word, each  *)
(* with its number.                                                        *)

Dec(n) == [form |-> "dec", n |-> n]
Hex(n) == [form |-> "hex", n |-> n]
HexWord(n) == [form |-> "hexword", n |-> n]
Word(w) == [form |-> "word", n |-> w]

\* "%#x": 0 has no prefix.
FormatHex(n) == IF n = 0 THEN Dec(0) ELSE Hex(n)

\* absl::SimpleHexAtoi reads the digits of a decimal number as hex digits.
HexAtoi(s) ==
  CASE s.form = "word" -> Err
    [] s.form = "dec" -> Ok(16 * (s.n \div 10) + (s.n % 10))
    [] OTHER -> Ok(s.n)

\* A later pair may repeat neither a name nor an id.
QueueTranslatorCreate(pairs) ==
  IF /\ \A p \in Range(pairs) : p[2].form = "dec"
     /\ \A j, k \in DOMAIN pairs :
          j # k => pairs[j][1] # pairs[k][1] /\ pairs[j][2] # pairs[k][2]
  THEN Ok([name \in {p[1] : p \in Range(pairs)} |->
             (CHOOSE p \in Range(pairs) : p[1] = name)[2].n])
  ELSE Err

OptionallyTranslateIdToName(translator, value) ==
  LET id == HexAtoi(value)
  IN CASE ~id.ok -> Err
       [] id.ok /\ id.value \in Range(translator) ->
            Ok(CHOOSE name \in DOMAIN translator : translator[name] = id.value)
       [] OTHER -> Ok(value)

\* Mutation: the id of a name is written in decimal.
NameToIdInDecimal(translator, value) ==
  CASE value \in DOMAIN translator -> Dec(translator[value])
    [] value \notin DOMAIN translator /\ value.form = "dec" -> FormatHex(value.n)
    [] value \notin DOMAIN translator /\ value.form # "dec" ->
         IF HexAtoi(value).ok THEN FormatHex(HexAtoi(value).value) ELSE value

OptionallyTranslateNameToIdInHexString(translator, value) ==
  CASE value \in DOMAIN translator -> FormatHex(translator[value])
    [] value \notin DOMAIN translator /\ value.form = "dec" -> FormatHex(value.n)
    [] value \notin DOMAIN translator /\ value.form # "dec" ->
         IF HexAtoi(value).ok THEN FormatHex(HexAtoi(value).value) ELSE value

\* ConfigDbQueueTableEventHandler::HandleEvent for the key "CPU" or
\* "FRONT_PANEL": pairs that cannot be used leave the translator as it was.
HandleQueueEvent(translator, operation, pairs) ==
  CASE operation = "DEL" -> [q \in {} |-> 0]
    [] operation # "DEL" /\ QueueTranslatorCreate(pairs).ok ->
         QueueTranslatorCreate(pairs).value
    [] OTHER -> translator

-----------------------------------------------------------------------------
(* Entries.  A field is a match or an action parameter with its P4 type, "" *)
(* when the P4Info does not define it.  An IPv6 field holds two halves.    *)

IsPortType(type) == type = "port_id_t"
IsCpuQueue(type) == type \in {"qos_queue_t", "cpu_queue_t"}
IsFrontPanelQueue(type) == type \in {"unicast_queue_t", "multicast_queue_t"}

OptionallyTranslateQueue(direction, translator, value) ==
  CASE direction = "kForController" -> OptionallyTranslateIdToName(translator, value)
    [] direction = "kForOrchAgent" ->
         Ok(OptionallyTranslateNameToIdInHexString(translator, value))

WithValue(field, result) ==
  IF result.ok THEN Ok([field EXCEPT !.value = result.value]) ELSE Err

\* o: the options [direction, translate_port_ids, port_map, cpu, front_panel].
TranslateParam(o, param) ==
  CASE param.type = "" -> Err
    [] o.translate_port_ids /\ IsPortType(param.type) ->
         WithValue(param, TranslatePort(o.direction, o.port_map, param.value))
    [] IsCpuQueue(param.type) ->
         WithValue(param, OptionallyTranslateQueue(o.direction, o.cpu, param.value))
    [] IsFrontPanelQueue(param.type) ->
         WithValue(param, OptionallyTranslateQueue(o.direction, o.front_panel, param.value))
    [] OTHER -> Ok(param)

\* One action, or one of an action set: then it may have a watch port.
TranslateAction(o, action) ==
  LET params == AllOk([j \in DOMAIN action.params |-> TranslateParam(o, action.params[j])])
      watch == IF o.translate_port_ids /\ action.watch_port # ""
               THEN TranslatePort(o.direction, o.port_map, action.watch_port)
               ELSE Ok(action.watch_port)
  IN IF params.ok /\ watch.ok
     THEN Ok([params |-> params.value, watch_port |-> watch.value])
     ELSE Err

\* A port is matched exactly or optionally, and by nothing else.
TranslateMatchField(o, match) ==
  CASE match.type = "" -> Err
    [] o.translate_port_ids /\ IsPortType(match.type) ->
         IF match.kind \in {"exact", "optional"}
         THEN WithValue(match, TranslatePort(o.direction, o.port_map, match.value))
         ELSE Err
    [] OTHER -> Ok(match)

TranslateTableEntry(o, entry) ==
  LET matches == AllOk([j \in DOMAIN entry.matches |-> TranslateMatchField(o, entry.matches[j])])
      actions == AllOk([j \in DOMAIN entry.actions |-> TranslateAction(o, entry.actions[j])])
  IN IF matches.ok /\ actions.ok
     THEN Ok([matches |-> matches.value, actions |-> actions.value])
     ELSE Err

\* A replica is the sequence of its port and its backups' ports.
TranslatePacketReplicationEntry(o, replicas) ==
  AllOk([j \in DOMAIN replicas |->
           IF o.translate_port_ids
           THEN AllOk([k \in DOMAIN replicas[j] |->
                         TranslatePort(o.direction, o.port_map, replicas[j][k])])
           ELSE Ok(replicas[j])])

\* A ternary IPv6 match whose mask has no bit in the upper half is taken for
\* one that was shifted right by 64 bits, and shifted back.
Convert64BitIpv6(match) ==
  IF match.kind = "ternary" /\ match.type = "ipv6" /\ match.mask[1] = 0
  THEN [match EXCEPT !.value = <<match.value[2], 0>>, !.mask = <<match.mask[2], 0>>]
  ELSE match

\* An entity is a table entry or the replicas of a multicast group.
TranslateEntity(o, entity) ==
  LET result == IF entity.type = "table_entry"
                THEN TranslateTableEntry(o, entity.body)
                ELSE TranslatePacketReplicationEntry(o, entity.body)
  IN IF result.ok THEN Ok([entity EXCEPT !.body = result.value]) ELSE Err

UpdateIrEntityForOrchAgent(o, entity) ==
  TranslateEntity([o EXCEPT !.direction = "kForOrchAgent"],
    IF entity.type = "table_entry"
    THEN [entity EXCEPT !.body.matches = [j \in DOMAIN @ |-> Convert64BitIpv6(@[j])]]
    ELSE entity)

-----------------------------------------------------------------------------
(* An entry written, and read back by a warm restart, with the same queue  *)
(* translator.                                                             *)

Options(port_map, translator, direction) ==
  [direction |-> direction, translate_port_ids |-> TRUE, port_map |-> port_map,
   cpu |-> translator, front_panel |-> [q \in {} |-> 0]]

RowOf(port_map, translator, e) ==
  UpdateIrEntityForOrchAgent(Options(port_map, translator, "kForOrchAgent"), e)

ReadBack(port_map, translator, row) ==
  TranslateEntity(Options(port_map, translator, "kForController"), row)

\* The queue a string stands for, in the controller's and in OrchAgent's
\* form, said without the translator's two functions.
QueueMeaning(translator, s) ==
  CASE s \in DOMAIN translator -> translator[s]
    [] s \notin DOMAIN translator /\ s.form # "word" -> s.n
    [] OTHER -> s

SameParam(translator, p, q) ==
  /\ p.type = q.type
  /\ IF IsCpuQueue(p.type)
     THEN QueueMeaning(translator, p.value) = QueueMeaning(translator, q.value)
     ELSE p.value = q.value

\* An IPv6 match is read back as the switch has it, shifted.
SameTableEntry(translator, e, r) ==
  /\ r.matches = [j \in DOMAIN e.matches |-> Convert64BitIpv6(e.matches[j])]
  /\ DOMAIN e.actions = DOMAIN r.actions
  /\ \A j \in DOMAIN e.actions :
       /\ e.actions[j].watch_port = r.actions[j].watch_port
       /\ DOMAIN e.actions[j].params = DOMAIN r.actions[j].params
       /\ \A k \in DOMAIN e.actions[j].params :
            SameParam(translator, e.actions[j].params[k], r.actions[j].params[k])

SameEntry(translator, e, r) ==
  /\ e.type = r.type
  /\ IF e.type = "table_entry" THEN SameTableEntry(translator, e.body, r.body) ELSE e = r

NamesAnUnknownQueue(translator, e) ==
  e.type = "table_entry" /\
    \E j \in DOMAIN e.body.actions : \E k \in DOMAIN e.body.actions[j].params :
      LET p == e.body.actions[j].params[k]
      IN IsCpuQueue(p.type) /\ p.value.form = "word" /\ p.value \notin DOMAIN translator
=============================================================================
