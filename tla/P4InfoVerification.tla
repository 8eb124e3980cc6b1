------------------------- MODULE P4InfoVerification -------------------------
(***************************************************************************)
(* What of a P4Info the switch accepts, and what it makes of it: the       *)
(* verification of a config (p4info_verification.cc and its schema), the   *)
(* definitions of ACL tables in APPL_DB (app_db_acl_def_table_manager.cc), *)
(* hash settings (hashing.cc) and the difference between two configs       *)
(* (p4info_reconcile.cc), whose steps PipelineConfig takes one by one.     *)
(*                                                                         *)
(* A P4Info has tables, actions and action profiles by name and the        *)
(* headers of packet I/O.  A name is its letters and their case.  The      *)
(* annotations of one label are the sequence of their argument lists; an   *)
(* annotation of a match field has its label and all kinds of contents.    *)
(***************************************************************************)
EXTENDS Integers, Sequences, SequencesExt, FiniteSets, FiniteSetsExt, StatusOr

AsciiStrToUpper(name) == <<name[1], "upper">>
Unnamed == <<"", "lower">>

\* pdpi::GetAnnotationAsArgList: an error unless there is exactly one.
GetAnnotation(arg_lists) == OkIf(Len(arg_lists) = 1, arg_lists[1])

Empty == [f \in {} |-> ""]
Overlay(f, g) == [x \in DOMAIN f \cup DOMAIN g |-> IF x \in DOMAIN g THEN g[x] ELSE f[x]]
AllOkIn(f) == OkIf(\A x \in DOMAIN f : f[x].ok, [x \in DOMAIN f |-> f[x].value])

-----------------------------------------------------------------------------
(* The kind of a table.                                                    *)

\* With @sai_acl twice there is no type.
GetTableType(fixed_tables, name, table) ==
  CASE Len(table.sai_acl) = 1 -> Ok("ACL")
    [] Len(table.sai_acl) = 0 ->
         Ok(IF AsciiStrToUpper(name) \in fixed_tables \/ ~table.id_is_extended THEN "FIXED" ELSE "EXT")
    [] OTHER -> Err

TablesOfType(fixed_tables, info, type) ==
  {n \in DOMAIN info.tables : GetTableType(fixed_tables, n, info.tables[n]) = Ok(type)}

-----------------------------------------------------------------------------
(* The supported schema.                                                   *)

ToSchemaMatchType(match_type) ==
  CASE match_type \in {"EXACT", "OPTIONAL"} -> Ok("EXACT")
    [] match_type \in {"LPM", "TERNARY"} -> Ok(match_type)
    [] OTHER -> Err

\* Only a HEX_STRING has a width, and must have one.
SchemaBitwidth(format, bitwidth) ==
  IF format = "HEX_STRING" THEN OkIf(bitwidth > 0, bitwidth) ELSE Ok(0)

ToMatchSchema(match) ==
  LET type == ToSchemaMatchType(match.match_type)
      bitwidth == SchemaBitwidth(match.format, match.bitwidth)
  IN IF type.ok THEN OkIf(bitwidth.ok, [format |-> match.format, bitwidth |-> bitwidth.value, type |-> type.value])
     ELSE Err

ToParamSchema(param) ==
  LET bitwidth == SchemaBitwidth(param.format, param.bitwidth)
  IN OkIf(bitwidth.ok, [format |-> param.format, bitwidth |-> bitwidth.value])

ToActionSchema(action) ==
  AllOkIn([n \in {action.params[j].name : j \in DOMAIN action.params} |->
             ToParamSchema(action.params[CHOOSE j \in DOMAIN action.params : action.params[j].name = n])])

ToTableSchema(table) ==
  LET matches == AllOkIn([n \in DOMAIN table.matches |-> ToMatchSchema(table.matches[n])])
      actions == AllOkIn([n \in {table.actions[j].name : j \in DOMAIN table.actions} |->
                   ToActionSchema(table.actions[CHOOSE j \in DOMAIN table.actions : table.actions[j].name = n])])
  IN IF table.counter # "UNSPECIFIED" \/ table.meter # "UNSPECIFIED" \/ DOMAIN table.matches = {} \/ ~matches.ok
     THEN Err
     ELSE OkIf(actions.ok, [matches |-> matches.value, actions |-> actions.value])

FormatIsCompatible(schema, supported) ==
  schema.format = supported.format /\ schema.bitwidth <= supported.bitwidth

MatchSchemaIsCompatible(schema, supported) ==
  FormatIsCompatible(schema, supported) /\ schema.type = supported.type

\* Unlike the match fields of a table, the parameters must be all there.
ActionSchemaIsCompatible(schema, supported) ==
  /\ DOMAIN schema = DOMAIN supported
  /\ \A p \in DOMAIN schema : FormatIsCompatible(schema[p], supported[p])

\* Extension tables have to have a schema, but no particular one.
IsSupportedBySchema(fixed_tables, info, supported) ==
  LET tables == TablesOfType(fixed_tables, info, "FIXED") \cup TablesOfType(fixed_tables, info, "EXT")
      schemas == AllOkIn([n \in tables |-> ToTableSchema(info.tables[n])])
      fits(schema, known) ==
        /\ \A m \in DOMAIN schema.matches :
             m \in DOMAIN known.matches /\ MatchSchemaIsCompatible(schema.matches[m], known.matches[m])
        /\ \A a \in DOMAIN schema.actions :
             a \in DOMAIN known.actions /\ ActionSchemaIsCompatible(schema.actions[a], known.actions[a])
  IN /\ \A n \in DOMAIN info.tables : GetTableType(fixed_tables, n, info.tables[n]).ok
     /\ schemas.ok
     /\ \A n \in TablesOfType(fixed_tables, info, "FIXED") :
          n \in DOMAIN supported /\ fits(schemas.value[n], supported[n])

-----------------------------------------------------------------------------
(* Definitions of ACL tables.  What a match field or an action maps to is  *)
(* not held against the schema of SAI: those checks are commented out.     *)

\* Two tables whose names differ in case share a key.
GenerateSonicDbKey(name) == <<"ACL", AsciiStrToUpper(name)>>

Stages == {"PRE_INGRESS", "INGRESS", "EGRESS"}

StageTuple(table) ==
  LET args == GetAnnotation(table.sai_acl)
  IN IF args.ok THEN OkIf(Len(args.value) = 1, args.value[1]) ELSE Err

\* A STRING has no width.
WidthOf(format, bitwidth) == IF format = "STRING" THEN Empty ELSE [bitwidth |-> bitwidth]

GenerateBasicMatchJson(match, annotation) ==
  OkIf(annotation.sai_field # "",
       Overlay([kind |-> "sai_field", format |-> match.format, sai_field |-> annotation.sai_field],
               WidthOf(match.format, match.bitwidth)))

\* absl::SimpleAtoi fails.
NotAnInteger == -100

\* Base, offset and length, each once; bytes are turned into bits.
GenerateUdfMatchFieldJson(match, annotation) ==
  LET udf == annotation.udf
      named(n) == {j \in DOMAIN udf : udf[j].name = n}
      component(n) == udf[CHOOSE j \in named(n) : TRUE]
      complete == /\ Len(udf) = 3 /\ \A n \in {"base", "offset", "length"} : Cardinality(named(n)) = 1
                  /\ component("offset").number >= 0 /\ component("length").number >= 0
      bitwidth == component("length").number * 8
  IN IF ~complete THEN Err
     ELSE OkIf(match.bitwidth \in {0, bitwidth},
               [kind |-> "udf", format |-> match.format, base |-> component("base").text,
                offset |-> component("offset").number, bitwidth |-> bitwidth])

\* The field of an element comes from the schema of SAI, sai_fields; an
\* element or a whole without a width makes the JSON library throw.
ElementJson(sai_fields, element) ==
  LET known == element.sai_field \in DOMAIN sai_fields
      json == CASE element.label = "sai_field" /\ known ->
                     GenerateBasicMatchJson(sai_fields[element.sai_field], element)
                [] element.label = "sai_udf" ->
                     GenerateUdfMatchFieldJson([format |-> "HEX_STRING", bitwidth |-> 0], element)
                [] OTHER -> Err
  IN IF json.ok THEN OkIf("bitwidth" \in DOMAIN json.value,
                          [f \in DOMAIN json.value \ {"format"} |-> json.value[f]])
     ELSE Err

GenerateCompositeMatchFieldJson(sai_fields, match, annotation) ==
  LET elements == AllOk([j \in DOMAIN annotation.elements |-> ElementJson(sai_fields, annotation.elements[j])])
      total == FoldLeft(LAMBDA sum, e : sum + e.bitwidth, 0, elements.value)
  IN IF elements.ok
     THEN OkIf(match.format # "STRING" /\ total = match.bitwidth,
               [kind |-> "composite", format |-> match.format, bitwidth |-> match.bitwidth,
                elements |-> elements.value])
     ELSE Err

\* Exactly one annotation says what a match field is.
MatchTuple(sai_fields, name, match) ==
  LET labels == {"sai_field", "composite_field", "sai_udf"}
      annotations == SelectSeq(match.annotations, LAMBDA a : a.label \in labels)
      annotation == annotations[1]
  IN IF name = Unnamed \/ Len(annotations) # 1 THEN Err
     ELSE CASE annotation.label = "sai_field" -> GenerateBasicMatchJson(match, annotation)
            [] annotation.label = "sai_udf" -> GenerateUdfMatchFieldJson(match, annotation)
            [] OTHER -> GenerateCompositeMatchFieldJson(sai_fields, match, annotation)

Colors == {"SAI_PACKET_COLOR_GREEN", "SAI_PACKET_COLOR_YELLOW", "SAI_PACKET_COLOR_RED"}
RedirectObjectTypes == {"SAI_OBJECT_TYPE_IPMC_GROUP", "SAI_OBJECT_TYPE_NEXT_HOP", "SAI_OBJECT_TYPE_PORT"}

\* (action[, color])
ExtractActionAndColor(args) ==
  LET sai_action == [action |-> args[1], param |-> Unnamed, object_type |-> "",
                     color |-> IF Len(args) = 2 THEN args[2] ELSE ""]
  IN IF Len(args) \in 1..2 THEN OkIf(Len(args) = 1 \/ args[2] \in Colors, sai_action) ELSE Err

ExtractActionParamSaiObjectType(args) ==
  IF Len(args) = 0 THEN Ok("") ELSE OkIf(Len(args) = 1 /\ args[1] \in RedirectObjectTypes, args[1])

\* An object type given twice counts as none.
ParseActionParam(param) ==
  LET args == GetAnnotation(param.sai_action_param)
      sai_action == ExtractActionAndColor(args.value)
      type_args == GetAnnotation(param.object_type)
      object_type == IF type_args.ok THEN ExtractActionParamSaiObjectType(type_args.value) ELSE Ok("")
  IN IF args.ok /\ param.name # Unnamed /\ object_type.ok
     THEN OkIf(sai_action.ok, [sai_action.value EXCEPT !.param = param.name, !.object_type = object_type.value])
     ELSE Err

\* Those of the action first, then its parameters in the order of their ids.
ParseAction(action) ==
  LET own == AllOk([j \in DOMAIN action.sai_action |-> ExtractActionAndColor(action.sai_action[j])])
      params == AllOk([j \in DOMAIN action.params |-> ParseActionParam(action.params[j])])
  IN IF action.name # Unnamed /\ own.ok THEN OkIf(params.ok, own.value \o params.value) ELSE Err

ActionTuple(action) ==
  LET sai_actions == ParseAction(action)
  IN IF sai_actions.ok THEN OkIf(sai_actions.value # <<>>, sai_actions.value) ELSE Err

\* The priority must be an integer, if it is there once.
GenerateSonicDbValues(sai_fields, table) ==
  LET stage == StageTuple(table)
      matches == AllOkIn([n \in DOMAIN table.matches |-> MatchTuple(sai_fields, n, table.matches[n])])
      actions == AllOk([j \in DOMAIN table.actions |-> ActionTuple(table.actions[j])])
      by_name == [n \in {table.actions[j].name : j \in DOMAIN table.actions} |->
                    actions.value[CHOOSE j \in DOMAIN table.actions : table.actions[j].name = n]]
      priority == GetAnnotation(table.priority)
  IN IF ~stage.ok \/ DOMAIN table.matches = {} \/ table.actions = <<>> \/ ~matches.ok \/ ~actions.ok
     THEN Err
     ELSE OkIf(stage.value \in Stages /\ (priority.ok => priority.value # <<NotAnInteger>>),
               [stage |-> stage.value, match |-> matches.value, action |-> by_name, size |-> table.size,
                meter |-> table.meter, counter |-> table.counter,
                priority |-> IF priority.ok THEN priority.value ELSE <<>>])

AppDbAclTableDefinition(sai_fields, name, table) ==
  LET values == GenerateSonicDbValues(sai_fields, table)
  IN IF name = Unnamed THEN Err ELSE OkIf(values.ok, [key |-> GenerateSonicDbKey(name), values |-> values.value])

-----------------------------------------------------------------------------
(* Hash settings: actions named for what they configure.                   *)

FieldNames ==
  [SAI_NATIVE_HASH_FIELD_SRC_IPV4 |-> "src_ip", SAI_NATIVE_HASH_FIELD_SRC_IPV6 |-> "src_ip",
   SAI_NATIVE_HASH_FIELD_DST_IPV4 |-> "dst_ip", SAI_NATIVE_HASH_FIELD_L4_SRC_PORT |-> "l4_src_port"]
SwitchTableKeys ==
  [compute_ecmp_hash_ipv4 |-> "ecmp_hash_ipv4", compute_ecmp_hash_ipv6 |-> "ecmp_hash_ipv6",
   compute_lag_hash_ipv4 |-> "lag_hash_ipv4"]
Algorithms == [SAI_HASH_ALGORITHM_CRC |-> "crc", SAI_HASH_ALGORITHM_XOR |-> "xor"]

HashPacketFieldConfigFromAction(name, arg_lists) ==
  OkIf(/\ name \in DOMAIN SwitchTableKeys
       /\ \A j \in DOMAIN arg_lists : Len(arg_lists[j]) = 1 /\ arg_lists[j][1] \in DOMAIN FieldNames,
       {FieldNames[arg_lists[j][1]] : j \in DOMAIN arg_lists})

ExtractHashPacketFieldConfigs(info) ==
  AllOkIn([n \in {n \in DOMAIN info.actions : info.actions[n].hash_fields # <<>>} |->
             HashPacketFieldConfigFromAction(n, info.actions[n].hash_fields)])

\* ecmp_hash_seed and the like, given at most once over all actions.
ParamConfigs(info) ==
  {<<n, j>> : n \in DOMAIN info.actions, j \in 1..3} \cap
  UNION {{<<n, j>> : j \in DOMAIN info.actions[n].hash_params} : n \in DOMAIN info.actions}

ExtractHashParamConfigs(info) ==
  LET given == ParamConfigs(info)
      param(g) == info.actions[g[1]].hash_params[g[2]]
      key(g) == <<info.actions[g[1]].hash_type, param(g).label>>
      valid(g) == /\ info.actions[g[1]].hash_type \in {"lag", "ecmp"}
                  /\ param(g).label \in {"seed", "offset", "algorithm"}
                  /\ param(g).label = "algorithm" => param(g).value \in DOMAIN Algorithms
      value(g) == IF param(g).label = "algorithm" THEN Algorithms[param(g).value] ELSE param(g).value
  IN OkIf(/\ \A g \in given : valid(g)
          /\ \A g, h \in given : key(g) = key(h) => g = h,
          [k \in {key(g) : g \in given} |-> value(CHOOSE g \in given : key(g) = k)])

-----------------------------------------------------------------------------
(* Verification, and what PreprocessConfig makes of a config afterwards.   *)

\* The order of headers and metadata, and the annotations of metadata, do
\* not matter.
ValidatePacketIo(info, expected) ==
  LET comparable(h) == [id |-> h.id, metadata |-> {[id |-> m.id, bitwidth |-> m.bitwidth] : m \in h.metadata}]
  IN {comparable(h) : h \in info.packet_io} = {comparable(h) : h \in expected}

\* pdpi::RemoveUnsupportedEntities; references between tables are in References.
Supported(f) == [n \in {n \in DOMAIN f : ~f[n].unsupported} |-> f[n]]
RemoveUnsupportedEntities(info) ==
  [info EXCEPT !.actions = Supported(@),
               !.tables = [n \in DOMAIN Supported(@) |->
                  [@[n] EXCEPT !.actions = SelectSeq(@, LAMBDA a : ~a.unsupported), !.matches = Supported(@)]]]

\* env: the fixed tables, the supported schema, packet I/O and SAI's fields.
ValidateP4Info(env, p4info) ==
  LET info == RemoveUnsupportedEntities(p4info)
  IN /\ ValidatePacketIo(p4info, env.packet_io)
     /\ IsSupportedBySchema(env.fixed_tables, info, env.schema)
     /\ ExtractHashPacketFieldConfigs(info).ok
     /\ ExtractHashParamConfigs(info).ok
     /\ \A n \in TablesOfType(env.fixed_tables, info, "ACL") :
          AppDbAclTableDefinition(env.sai_fields, n, info.tables[n]).ok

\* A field put together from UDFs only is a HEX_STRING for OrchAgent.
SetCompositeUdfFieldFormatToHexString(match) ==
  LET composites == SelectSeq(match.annotations, LAMBDA a : a.label = "composite_field")
      elements == composites[1].elements
  IN IF Len(composites) = 1 /\ elements # <<>> /\ \A j \in DOMAIN elements : elements[j].label = "sai_udf"
     THEN [match EXCEPT !.format = "HEX_STRING"] ELSE match

TranslateIrP4InfoForOrchAgent(info) ==
  [info EXCEPT !.tables = [n \in DOMAIN @ |->
     [@[n] EXCEPT !.matches = [m \in DOMAIN @ |-> SetCompositeUdfFieldFormatToHexString(@[m])]]]]

PreprocessConfig(env, p4info) ==
  OkIf(ValidateP4Info(env, p4info), TranslateIrP4InfoForOrchAgent(RemoveUnsupportedEntities(p4info)))

-----------------------------------------------------------------------------
(* The difference between two configs, and the rows it leaves.             *)

AclDefinitions(env, info) ==
  [n \in TablesOfType(env.fixed_tables, info, "ACL") |-> AppDbAclTableDefinition(env.sai_fields, n, info.tables[n])]

IsReinstalled(env, from, to, n) ==
  AclDefinitions(env, from)[n] # AclDefinitions(env, to)[n] \/ to.tables[n].reinstall_during_upgrade

\* Mutation: a key that is about to be replaced is deleted as well.
DeleteReplacedToo(env, from, to) ==
  LET f == ExtractHashPacketFieldConfigs(from).value
      t == ExtractHashPacketFieldConfigs(to).value
  IN [to_delete |-> {k \in DOMAIN f : k \notin DOMAIN t \/ f[k] # t[k]},
      to_set |-> {k \in DOMAIN t : k \notin DOMAIN f \/ f[k] # t[k]},
      update_switch_table |-> f # t \/ ExtractHashParamConfigs(from) # ExtractHashParamConfigs(to)]

\* Configs are ordered by key and equal by all they have: a changed one is
\* both added and deleted, and its deletion is skipped.
CalculateHashingDifference(env, from, to) ==
  LET f == ExtractHashPacketFieldConfigs(from).value
      t == ExtractHashPacketFieldConfigs(to).value
      to_delete == DOMAIN f \ DOMAIN t
      to_set == {k \in DOMAIN t : k \notin DOMAIN f \/ f[k] # t[k]}
  IN [to_delete |-> to_delete, to_set |-> to_set,
      update_switch_table |-> \/ to_delete # {} \/ to_set # {}
                              \/ ExtractHashParamConfigs(from) # ExtractHashParamConfigs(to)]

CalculateTransition(env, from, to) ==
  LET f == AclDefinitions(env, from)
      t == AclDefinitions(env, to)
      modified == {n \in DOMAIN f \cap DOMAIN t : IsReinstalled(env, from, to, n)}
  IN IF \E n \in DOMAIN f \cap DOMAIN t : ~f[n].ok \/ ~t[n].ok THEN Err
     ELSE OkIf(\A n \in DOMAIN f \cap DOMAIN t : f[n].value.values.stage = t[n].value.values.stage,
               [add |-> DOMAIN t \ DOMAIN f, delete |-> DOMAIN f \ DOMAIN t,
                essential |-> {n \in modified : ~to.tables[n].nonessential_for_upgrade},
                nonessential |-> {n \in modified : to.tables[n].nonessential_for_upgrade},
                hash |-> CalculateHashingDifference(env, from, to)])

\* ConfigureAppDbTables and ProgramSwitchTable.
ConfiguredRows(env, info) ==
  LET definitions == AclDefinitions(env, info)
      hash == ExtractHashPacketFieldConfigs(info).value
      tables == DOMAIN definitions
  IN [acl |-> [k \in {definitions[n].value.key : n \in tables} |->
                 (CHOOSE d \in {definitions[n].value : n \in tables} : d.key = k).values],
      hash |-> hash,
      switch |-> Overlay(ExtractHashParamConfigs(info).value,
                         [s \in {<<SwitchTableKeys[k], "">> : k \in DOMAIN hash} |->
                            CHOOSE k \in DOMAIN hash : SwitchTableKeys[k] = s[1]])]

\* TransitionHashConfig writes all configs when one is to be set, deletes, and
\* writes over the row of SWITCH_TABLE; TransitionAcls deletes before it adds.
TransitionedRows(env, rows, transition, to) ==
  LET target == ConfiguredRows(env, to)
      gone == {GenerateSonicDbKey(n) : n \in transition.delete}
      written == {GenerateSonicDbKey(n) : n \in transition.add \cup transition.essential \cup transition.nonessential}
      hash == IF transition.hash.to_set = {} THEN rows.hash ELSE Overlay(rows.hash, target.hash)
  IN [acl |-> [k \in (DOMAIN rows.acl \ gone) \cup written |->
                 IF k \in written THEN target.acl[k] ELSE rows.acl[k]],
      hash |-> [k \in DOMAIN hash \ transition.hash.to_delete |-> hash[k]],
      switch |-> IF transition.hash.update_switch_table THEN Overlay(rows.switch, target.switch) ELSE rows.switch]

-----------------------------------------------------------------------------
(* Capacities of action profiles.                                          *)

\* The usage is kept.  It must fit a limit on the sum of weights, and a
\* profile that is used may not get a smaller group size; limits on members
\* are not looked at.
GetUpdatedResourceCapacities(profiles, original) ==
  LET usage(n) == IF n \in DOMAIN original THEN original[n].current_total_weight ELSE 0
      fits(n) == profiles[n].semantics = "sum_of_weights" /\ profiles[n].size # 0 => usage(n) <= profiles[n].size
      shrinks(n) == usage(n) > 0 /\ profiles[n].max_group_size < original[n].max_group_size
  IN OkIf(\A n \in DOMAIN profiles : fits(n) /\ ~shrinks(n),
          [n \in DOMAIN profiles |->
             [semantics |-> profiles[n].semantics, size |-> profiles[n].size,
              max_group_size |-> profiles[n].max_group_size, current_total_weight |-> usage(n)]])
=============================================================================
