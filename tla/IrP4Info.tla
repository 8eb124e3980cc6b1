------------------------------ MODULE IrP4Info ------------------------------
(***************************************************************************)
(* p4_infra/p4_pdpi: from the P4Info a compiler writes to the IrP4Info the *)
(* translations work with (ir.cc, CreateIrP4Info), the same without what   *)
(* the switch does not support (RemoveUnsupportedEntities), and the union  *)
(* of the P4Infos of several roles (p4info_union_lib.cc).                  *)
(*                                                                         *)
(* A P4Info is a record of sequences: nothing keeps two elements from      *)
(* having the same id or name.  The preamble of an element is its id, its  *)
(* name and its annotations, each in a field of its own.  The elements of  *)
(* tables, actions and metadata are                                        *)
(*   [id, name, bitwidth, type, formats, refers_to, referenced_by, kind,   *)
(*    marked]                                                              *)
(* type "" when it has none, formats the @format annotations, kind the     *)
(* match type, marked whether @unsupported or, for metadata, @padding.     *)
(***************************************************************************)
EXTENDS References, PdpiIr, TLC

CloneSessionTable == "clone_session_table"
IsBuiltInTable(name) == name \in {MulticastTable, CloneSessionTable}

-----------------------------------------------------------------------------
(* Elements.                                                               *)

\* Two annotations conflict, and so do one and the format of an SDN string.
GetFormat(formats, bitwidth, is_sdn_string) ==
  LET format == CASE is_sdn_string -> "STRING"
                  [] ~is_sdn_string /\ formats = <<>> -> "HEX_STRING"
                  [] ~is_sdn_string /\ formats # <<>> -> formats[1]
  IN OkIf(/\ Len(formats) <= (IF is_sdn_string THEN 0 ELSE 1)
          /\ format \in {"STRING", "HEX_STRING", "MAC", "IPV4", "IPV6"}
          /\ format = "MAC" => bitwidth = kNumBitsInMac
          /\ format = "IPV4" => bitwidth = kNumBitsInIpv4
          /\ format = "IPV6" => bitwidth <= kNumBitsInIpv6, format)

\* types says which of the named types is translated to an SDN string.
GetFormatForP4InfoElement(types, e) ==
  IF e.type = "" THEN GetFormat(e.formats, e.bitwidth, FALSE)
  ELSE IF e.type \in DOMAIN types THEN GetFormat(e.formats, e.bitwidth, types[e.type]) ELSE Err

ValidateMatchFieldDefinition(kind, format) ==
  \/ kind \in {"EXACT", "OPTIONAL"}
  \/ kind \in {"LPM", "TERNARY"} /\ format # "STRING"

TableAliasToId(p4info, alias) ==
  LET named == {j \in DOMAIN p4info.tables : p4info.tables[j].name = alias}
  IN IF named = {} THEN Err ELSE Ok(p4info.tables[CHOOSE j \in named : \A k \in named : j <= k].id)

\* In any of the tables with that id.
MatchFieldNameToId(p4info, table_id, name) ==
  \E j \in DOMAIN p4info.tables :
    p4info.tables[j].id = table_id /\ \E f \in Range(p4info.tables[j].fields) : f.name = name

\* What an element refers to exists; built-in tables are looked at later.
GetRefersToAnnotations(p4info, e) ==
  \A r \in e.refers_to :
    \/ IsBuiltInTable(r[1])
    \/ LET id == TableAliasToId(p4info, r[1]) IN id.ok /\ MatchFieldNameToId(p4info, id.value, r[2])

IdsAndNamesAreUnique(s) ==
  \A j, k \in DOMAIN s : j # k => s[j].id # s[k].id /\ s[j].name # s[k].name

MapById(s) == [i \in {s[j].id : j \in DOMAIN s} |-> s[CHOOSE j \in DOMAIN s : s[j].id = i]]
MapByName(s) == [n \in {s[j].name : j \in DOMAIN s} |-> s[CHOOSE j \in DOMAIN s : s[j].name = n]]

\* The elements with their formats, in a map by id and one by name.
Defined(p4info, s) ==
  LET formats == AllOk([j \in DOMAIN s |-> GetFormatForP4InfoElement(p4info.types, s[j])])
      ir == [j \in DOMAIN s |-> [element |-> s[j], format |-> formats.value[j], id |-> s[j].id, name |-> s[j].name]]
  IN IF /\ formats.ok
        /\ \A j \in DOMAIN s : GetRefersToAnnotations(p4info, s[j])
        /\ IdsAndNamesAreUnique(s)
     THEN Ok([by_id |-> MapById(ir), by_name |-> MapByName(ir)]) ELSE Err

-----------------------------------------------------------------------------
(* Actions and tables.                                                     *)

IrActionDefinition(p4info, a) ==
  LET params == Defined(p4info, a.params)
  IN IF params.ok THEN Ok([id |-> a.id, name |-> a.name, params |-> params.value, is_unsupported |-> a.unsupported])
     ELSE Err

\* Once, and a number.
GetNumberInAnnotation(proto_ids) == OkIf(Len(proto_ids) = 1 /\ proto_ids[1] >= 0, proto_ids[1])

DefaultActions(t) == {t.action_refs[j].id : j \in {k \in DOMAIN t.action_refs : t.action_refs[k].scope = "DEFAULT_ONLY"}}
EntryActions(t) == {t.action_refs[j].id : j \in {k \in DOMAIN t.action_refs : t.action_refs[k].scope # "DEFAULT_ONLY"}}

\* actions is the map of the actions by id; 0 is no id.
IrTableDefinition(p4info, actions, t) ==
  LET fields == Defined(p4info, t.fields)
      kinds == {f.kind : f \in Range(t.fields)}
  IN IF /\ fields.ok
        /\ \A f \in Range(fields.value.by_id) : ValidateMatchFieldDefinition(f.element.kind, f.format)
        /\ (t.implementation_id # 0) = t.oneshot
        /\ \A r \in Range(t.action_refs) :
             /\ r.id \in DOMAIN actions
             /\ r.scope # "DEFAULT_ONLY" => GetNumberInAnnotation(r.proto_ids).ok
        /\ t.const_default_action_id # 0 => t.const_default_action_id \in DefaultActions(t) \cup EntryActions(t)
     THEN Ok([id |-> t.id, name |-> t.name, fields |-> fields.value,
              requires_priority |-> kinds \cap {"OPTIONAL", "RANGE", "TERNARY"} # {},
              uses_oneshot |-> t.oneshot, action_profile_id |-> t.implementation_id,
              entry_actions |-> EntryActions(t), default_only_actions |-> DefaultActions(t),
              const_default_action |-> t.const_default_action_id,
              role |-> IF t.roles = <<>> THEN "" ELSE Last(t.roles),
              size |-> t.size, is_unsupported |-> t.unsupported,
              counter |-> "none", meter |-> "none", outgoing |-> {}, incoming |-> {}])
     ELSE Err

-----------------------------------------------------------------------------
(* Packet I/O metadata, counters and meters.                               *)

\* The second of a kind is an error, unless the first was empty.
ProcessPacketIoMetadataDefinition(p4info, kind) ==
  LET of == SelectSeq(p4info.metadata, LAMBDA d : d.name = kind)
      some == SelectSeq(of, LAMBDA d : d.fields # <<>>)
  IN CASE some = <<>> -> Ok([by_id |-> <<>>, by_name |-> <<>>])
       [] some # <<>> /\ Last(of) = some[1] /\ Len(some) = 1 -> Defined(p4info, some[1].fields)
       [] OTHER -> Err

\* Mutation: the counter is put into the table of one map only.
CounterById(info, c) == [info EXCEPT !.tables_by_id[c.table_id].counter = c.unit]

\* Tables are in two maps.
SetCounter(info, c) ==
  LET name == info.tables_by_id[c.table_id].name
  IN [info EXCEPT !.tables_by_id[c.table_id].counter = c.unit, !.tables_by_name[name].counter = c.unit]

SetMeter(info, m) ==
  LET name == info.tables_by_id[m.table_id].name
  IN [info EXCEPT !.tables_by_id[m.table_id].meter = m.unit, !.tables_by_name[name].meter = m.unit]

-----------------------------------------------------------------------------
(* Validation across elements.                                             *)

ReferencesAreToKeys(info) ==
  LET elements == UNION {Range(t.fields.by_id) : t \in Range(info.tables_by_id)}
                    \cup UNION {Range(a.params.by_id) : a \in Range(info.actions_by_id)}
  IN \A e \in elements : \A r \in e.element.refers_to :
       \/ IsBuiltInTable(r[1])
       \/ info.tables_by_name[r[1]].fields.by_name[r[2]].element.kind \in {"EXACT", "OPTIONAL"}

ProfilesAndTablesAgree(info) ==
  /\ \A t \in Range(info.tables_by_id) :
       t.action_profile_id # 0 =>
         /\ t.action_profile_id \in DOMAIN info.profiles_by_id
         /\ t.id \in info.profiles_by_id[t.action_profile_id].table_ids
  /\ \A p \in Range(info.profiles_by_id) : \A id \in p.table_ids :
       id \in DOMAIN info.tables_by_id /\ info.tables_by_id[id].action_profile_id = p.id

\* The program as References sees it.
ReferenceInfo(info) ==
  LET field(f) == [optional |-> f.element.kind = "OPTIONAL",
                   refers_to |-> f.element.refers_to, referenced_by |-> f.element.referenced_by]
      names(ids) == {info.actions_by_id[i].name : i \in ids}
      table(t) == [fields |-> [n \in DOMAIN t.fields.by_name |-> field(t.fields.by_name[n])],
                   actions |-> names(t.entry_actions), default_only |-> names(t.default_only_actions)]
      group == [fields |-> [multicast_group_id |-> [optional |-> FALSE, refers_to |-> {}, referenced_by |-> {}]],
                actions |-> {Replica}, default_only |-> {}]
  IN [tables |-> (MulticastTable :> group) @@ [n \in DOMAIN info.tables_by_name |-> table(info.tables_by_name[n])],
      actions |-> [a \in DOMAIN info.actions_by_name |->
                     [p \in DOMAIN info.actions_by_name[a].params.by_name |->
                        info.actions_by_name[a].params.by_name[p].element.refers_to]]]

\* A field that refers or is referred to is exact or optional, parameters are
\* not referred to, and neither are actions.
CreateIrFieldFromRefersTo(info) ==
  /\ \A t \in Range(info.tables_by_name) : \A f \in Range(t.fields.by_name) :
       f.element.refers_to \cup f.element.referenced_by # {} => f.element.kind \in {"EXACT", "OPTIONAL"}
  /\ \A a \in Range(info.actions_by_name) : \A p \in Range(a.params.by_name) :
       p.element.referenced_by = {} /\ \A r \in p.element.refers_to : r[1] \notin DOMAIN info.actions_by_name
  /\ \A t \in Range(info.tables_by_name) : \A f \in Range(t.fields.by_name) :
       \A r \in f.element.refers_to : r[1] \notin DOMAIN info.actions_by_name

InsertOutgoingReferenceInfo(tables, references) ==
  [k \in DOMAIN tables |-> [tables[k] EXCEPT !.outgoing = GetOutgoingTableReferences(references, tables[k].name)]]

InsertIncomingReferenceInfo(tables, references) ==
  [k \in DOMAIN tables |-> [tables[k] EXCEPT !.incoming = GetIncomingTableReferences(references, tables[k].name)]]

WithReferences(info, references) ==
  LET with(tables) == InsertIncomingReferenceInfo(InsertOutgoingReferenceInfo(tables, references), references)
      built_in == [n \in {MulticastTable, CloneSessionTable} |-> [name |-> n, outgoing |-> {}, incoming |-> {}]]
  IN [info EXCEPT !.tables_by_id = with(@), !.tables_by_name = with(@), !.built_in_tables = with(built_in)]

-----------------------------------------------------------------------------

\* The maps before anything is looked at across them; each or an error.
IrDefinitions(p4info) ==
  LET actions == AllOk([j \in DOMAIN p4info.actions |-> IrActionDefinition(p4info, p4info.actions[j])])
      tables == AllOk([j \in DOMAIN p4info.tables |->
                         IrTableDefinition(p4info, MapById(actions.value), p4info.tables[j])])
      packet_in == ProcessPacketIoMetadataDefinition(p4info, "packet_in")
      packet_out == ProcessPacketIoMetadataDefinition(p4info, "packet_out")
  IN IF /\ actions.ok /\ IdsAndNamesAreUnique(p4info.actions)
        /\ IdsAndNamesAreUnique(p4info.action_profiles)
        /\ tables.ok /\ IdsAndNamesAreUnique(p4info.tables)
        /\ \A d \in Range(p4info.metadata) : d.name \in {"packet_in", "packet_out"}
        /\ packet_in.ok /\ packet_out.ok
     THEN Ok([actions_by_id |-> MapById(actions.value), actions_by_name |-> MapByName(actions.value),
              profiles_by_id |-> MapById(p4info.action_profiles),
              profiles_by_name |-> MapByName(p4info.action_profiles),
              tables_by_id |-> MapById(tables.value), tables_by_name |-> MapByName(tables.value),
              packet_in |-> packet_in.value, packet_out |-> packet_out.value,
              built_in_tables |-> <<>>, dependency_rank_by_table_name |-> <<>>])
     ELSE Err

CreateIrP4Info(p4info) ==
  LET defined == IrDefinitions(p4info)
      metered == FoldLeft(SetMeter, FoldLeft(SetCounter, defined.value, p4info.counters), p4info.meters)
      refs == ReferenceInfo(metered)
      references == ParseIrTableReferences(refs)
      info == WithReferences(metered, references)
      tables == DOMAIN refs.tables \cup {CloneSessionTable}
  IN IF ~defined.ok THEN Err
     ELSE IF /\ \A r \in Range(p4info.counters) \cup Range(p4info.meters) : r.table_id \in DOMAIN defined.value.tables_by_id
             /\ ReferencesAreToKeys(defined.value)
             /\ ProfilesAndTablesAgree(defined.value)
             /\ CreateIrFieldFromRefersTo(defined.value)
             /\ AnnotationsAreSupported(ReferenceInfo(defined.value))
     THEN OkIf(~DependenciesFormACycle(tables, references),
               [info EXCEPT !.dependency_rank_by_table_name = DependencyRankByTableName(tables, references)])
     ELSE Err

-----------------------------------------------------------------------------
(* Without the unsupported.                                                *)

SupportedOnly(map) == [k \in {j \in DOMAIN map : ~map[j].is_unsupported} |-> map[k]]

SupportedFields(map) == [k \in {j \in DOMAIN map : ~map[j].element.marked} |-> map[k]]

RemoveUnsupportedActions(info, t) ==
  LET supported == {i \in DOMAIN info.actions_by_id : ~info.actions_by_id[i].is_unsupported}
  IN [t EXCEPT !.entry_actions = @ \cap supported, !.default_only_actions = @ \cap supported]

RemoveUnsupportedMatchFields(t) ==
  [t EXCEPT !.fields = [by_id |-> SupportedFields(@.by_id), by_name |-> SupportedFields(@.by_name)]]

\* From a table or an action that is not there any more.
IsDanglingReference(info, r) ==
  \/ ~IsBuiltInTable(r.source) /\ r.source \notin DOMAIN info.tables_by_name
  \/ \E f \in r.fields : f.action \notin {"", Replica} /\ f.action \notin DOMAIN info.actions_by_name

RemoveDanglingReferences(info, t) ==
  LET kept(references) == {r \in references : ~IsDanglingReference(info, r)}
  IN [t EXCEPT !.incoming = kept(@), !.outgoing = kept(@)]

RemoveUnsupportedEntities(info) ==
  LET left(tables) == [k \in DOMAIN SupportedOnly(tables) |->
                         RemoveUnsupportedMatchFields(RemoveUnsupportedActions(info, tables[k]))]
      cut == [info EXCEPT !.tables_by_id = left(@), !.tables_by_name = left(@),
                          !.actions_by_id = SupportedOnly(@), !.actions_by_name = SupportedOnly(@)]
      clear(tables) == [k \in DOMAIN tables |-> RemoveDanglingReferences(cut, tables[k])]
      ranked == {n \in DOMAIN info.dependency_rank_by_table_name :
                   IsBuiltInTable(n) \/ n \in DOMAIN cut.tables_by_name}
  IN [cut EXCEPT !.tables_by_id = clear(@), !.tables_by_name = clear(@), !.built_in_tables = clear(@),
                 !.dependency_rank_by_table_name = [n \in ranked |-> @[n]]]

-----------------------------------------------------------------------------
(* The union of P4Infos.  A table, an action or an action profile that two *)
(* of them have, which is to say its id, is put together; anything else    *)
(* must be the same in both.                                               *)

ContainsUnsupportedField(infos) == \E i \in Range(infos) : i.externs

SetUnionFirstRepeatedFieldIntoSecond(s, unioned) ==
  LET step(acc, x) == IF x \in Range(acc) THEN acc ELSE Append(acc, x) IN FoldLeft(step, unioned, s)

Larger(a, b) == IF a > b THEN a ELSE b

\* The preamble is unioned in place: names must be equal.
UnionFirstPreambleIntoSecond(f, unioned) ==
  OkIf(f.name = unioned.name,
       [unioned EXCEPT !.unsupported = @ \/ f.unsupported, !.oneshot = @ \/ f.oneshot,
                       !.roles = SetUnionFirstRepeatedFieldIntoSecond(f.roles, @)])

UnionActions(f, unioned) ==
  IF f.params = unioned.params THEN UnionFirstPreambleIntoSecond(f, unioned) ELSE Err

UnionActionProfiles(f, unioned) ==
  OkIf([f EXCEPT !.size = 0, !.max_group_size = 0] = [unioned EXCEPT !.size = 0, !.max_group_size = 0],
       [unioned EXCEPT !.size = Larger(@, f.size), !.max_group_size = Larger(@, f.max_group_size)])

RECURSIVE MapUnionFirstRepeatedFieldIntoSecondById(_, _, _)

UnionTables(f, unioned) ==
  LET preamble == UnionFirstPreambleIntoSecond(f, unioned)
      fields == MapUnionFirstRepeatedFieldIntoSecondById("match field", f.fields, unioned.fields)
      refs == MapUnionFirstRepeatedFieldIntoSecondById("action ref", f.action_refs, unioned.action_refs)
  IN IF /\ f.const_default_action_id = unioned.const_default_action_id
        /\ f.implementation_id = unioned.implementation_id
        /\ preamble.ok /\ fields.ok /\ refs.ok
     THEN Ok([preamble.value EXCEPT !.size = Larger(@, f.size), !.fields = fields.value, !.action_refs = refs.value])
     ELSE Err

\* By default the two must be identical.
UnionFirstFieldIntoSecondAssertingIdenticalId(what, f, unioned) ==
  CASE what = "table" -> UnionTables(f, unioned)
    [] what = "action" -> UnionActions(f, unioned)
    [] what = "action profile" -> UnionActionProfiles(f, unioned)
    [] OTHER -> OkIf(f = unioned, unioned)

MapUnionFirstRepeatedFieldIntoSecondById(what, s, unioned) ==
  LET step(acc, f) ==
        IF ~acc.ok THEN acc
        ELSE LET same == {j \in DOMAIN acc.value : acc.value[j].id = f.id}
                 j == CHOOSE k \in same : \A n \in same : k <= n
                 union == UnionFirstFieldIntoSecondAssertingIdenticalId(what, f, acc.value[j])
             IN CASE same = {} -> Ok(Append(acc.value, f))
                  [] same # {} /\ union.ok -> Ok([acc.value EXCEPT ![j] = union.value])
                  [] OTHER -> Err
  IN FoldLeft(step, Ok(unioned), s)

UnionFirstTypeInfoIntoSecond(types, unioned) ==
  OkIf(\A n \in DOMAIN types \cap DOMAIN unioned : types[n] = unioned[n], types @@ unioned)

\* Names and versions are listed, sizes the largest, the rest equal.
UnionFirstPkgInfoIntoSecond(pkg, unioned) ==
  OkIf(pkg.arch = unioned.arch,
       [unioned EXCEPT !.names = @ \o pkg.names, !.multicast_group_table_size = Larger(@, pkg.multicast_group_table_size)])

UnionOfTwo(info, unioned) ==
  LET of(what, s, t) == MapUnionFirstRepeatedFieldIntoSecondById(what, s, t)
      pkg == UnionFirstPkgInfoIntoSecond(info.pkg, unioned.pkg)
      tables == of("table", info.tables, unioned.tables)
      actions == of("action", info.actions, unioned.actions)
      profiles == of("action profile", info.action_profiles, unioned.action_profiles)
      counters == of("counter", info.counters, unioned.counters)
      meters == of("meter", info.meters, unioned.meters)
      metadata == of("metadata", info.metadata, unioned.metadata)
      types == UnionFirstTypeInfoIntoSecond(info.types, unioned.types)
  IN IF pkg.ok /\ tables.ok /\ actions.ok /\ profiles.ok /\ counters.ok /\ meters.ok /\ metadata.ok /\ types.ok
     THEN Ok([unioned EXCEPT !.pkg = pkg.value, !.tables = tables.value, !.actions = actions.value,
                             !.action_profiles = profiles.value, !.counters = counters.value,
                             !.meters = meters.value, !.metadata = metadata.value, !.types = types.value])
     ELSE Err

\* The first one is unioned into the empty P4Info: its repeated elements too.
UnionP4info(infos) ==
  LET nothing == [infos[1] EXCEPT !.pkg.names = <<>>, !.tables = <<>>, !.actions = <<>>, !.action_profiles = <<>>,
                                  !.counters = <<>>, !.meters = <<>>, !.metadata = <<>>, !.types = <<>>]
      step(acc, info) == IF acc.ok THEN UnionOfTwo(info, acc.value) ELSE Err
  IN IF ContainsUnsupportedField(infos) THEN Err ELSE FoldLeft(step, Ok(nothing), infos)
=============================================================================
