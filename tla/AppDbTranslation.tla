-------------------------- MODULE AppDbTranslation --------------------------
(***************************************************************************)
(* How entities are laid out in the tables of APPL_DB (the translators of  *)
(* p4rt_app/sonic), read back from them by a warm restart, compared with   *)
(* them by state verification, and answered to a Read.                     *)
(*                                                                         *)
(* A string of a database is the sequence of its parts, a name or a number *)
(* with what delimits it.  A JSON object and a Redis hash are functions    *)
(* from field names, so that their order is gone, as it is in the code     *)
(* (nlohmann::json sorts, Redis does not keep it).  An entity is the IR    *)
(* for OrchAgent, with matches and parameters by name, and has passed PDPI: *)
(* formats and names are those of the P4Info.                              *)
(*                                                                         *)
(* Constant of every operator that reads: the P4Info, with the type, the   *)
(* role, the match fields and the actions of every table.                  *)
(***************************************************************************)
EXTENDS Integers, Sequences, SequencesExt, FiniteSets, StatusOr

NoMeter == <<>>
MeterFields == {"cir", "cburst", "pir", "pburst"}
NoFields == [f \in {} |-> <<>>]

\* A function with one more argument.
WithEntry(f, key, value) == [k \in DOMAIN f \cup {key} |-> IF k = key THEN value ELSE f[k]]
Overlaid(f, g) == [k \in DOMAIN f \cup DOMAIN g |-> IF k \in DOMAIN g THEN g[k] ELSE f[k]]

\* A string put together around a delimiter, and absl::StrSplit of it.
Joined(left, delimiter, right) == <<left, delimiter, right>>
SplitInTwo(string, delimiter) == OkIf(Len(string) = 3 /\ string[2] = delimiter, <<string[1], string[3]>>)

-----------------------------------------------------------------------------
(* Table entries of the P4RT table.                                        *)

IrValueToAppDbString(value) == OkIf(value.format # "FORMAT_NOT_SET", <<value.text>>)

FormattedStringToIrValue(string, format) == [format |-> format, text |-> string[1]]

\* An optional match without a value is left out of the key.
IrMatchToAppDbString(match) ==
  LET value == IrValueToAppDbString(match.value)
      mask == IrValueToAppDbString(match.mask)
  IN CASE match.kind \in {"exact", "optional"} -> value
       [] match.kind = "lpm" -> OkIf(value.ok, Joined(value.value, "/", <<match.prefix_length>>))
       [] match.kind = "ternary" -> OkIf(value.ok /\ mask.ok, Joined(value.value, "&", mask.value))
       [] OTHER -> Err

HasNoValue(match) == match.kind = "optional" /\ match.value.format = "FORMAT_NOT_SET"

IrTableEntryToAppDbKey(entry) ==
  LET names == {n \in DOMAIN entry.matches : ~HasNoValue(entry.matches[n])}
      strings == [n \in names |-> IrMatchToAppDbString(entry.matches[n])]
      json == [f \in {<<"match", n>> : n \in names} |-> strings[f[2]].value]
  IN OkIf(\A n \in names : strings[n].ok,
          IF entry.priority > 0 THEN WithEntry(json, <<"priority">>, <<entry.priority>>) ELSE json)

\* An action, or one of an action set, with its parameters.
IrActionInvocationToAppDbValues(action) ==
  LET strings == [n \in DOMAIN action.params |-> IrValueToAppDbString(action.params[n])]
      params == [f \in {<<"param", n>> : n \in DOMAIN action.params} |-> strings[f[2]].value]
  IN OkIf(\A n \in DOMAIN strings : strings[n].ok, WithEntry(params, <<"action">>, <<action.name>>))

IrActionSetInvocationToJsonValue(action) ==
  LET values == IrActionInvocationToAppDbValues(action)
      json == WithEntry(values.value, <<"weight">>, <<action.weight>>)
  IN OkIf(values.ok, IF action.watch_port = "" THEN json
                     ELSE WithEntry(json, <<"watch_port">>, <<action.watch_port>>))

\* A value of zero is not written.
P4MeterConfigToAppDbValues(meter_config) ==
  IF meter_config = NoMeter THEN NoFields
  ELSE [f \in {<<"meter", n>> : n \in {n \in MeterFields : meter_config[n] # 0}} |-> <<meter_config[f[2]]>>]

MetadataValues(metadata) ==
  IF metadata = "" THEN NoFields ELSE WithEntry(NoFields, <<"controller_metadata">>, <<metadata>>)

IrTableEntryToAppDbValues(entry) ==
  LET sets == AllOk([j \in DOMAIN entry.actions |-> IrActionSetInvocationToJsonValue(entry.actions[j])])
      actions == CASE entry.type = "action" -> IrActionInvocationToAppDbValues(entry.actions[1])
                   [] entry.type = "action_set" ->
                        OkIf(sets.ok, WithEntry(NoFields, <<"actions">>, sets.value))
                   [] OTHER -> Err
  IN OkIf(actions.ok, Overlaid(Overlaid(actions.value, P4MeterConfigToAppDbValues(entry.meter_config)),
                               MetadataValues(entry.controller_metadata)))

\* <table_type>_<table_name>:<json_key>
GetRedisP4rtTableKey(info, entry) ==
  LET json_key == IrTableEntryToAppDbKey(entry)
  IN IF entry.table_name \notin DOMAIN info THEN Err
     ELSE OkIf(json_key.ok, <<info[entry.table_name].type, entry.table_name, json_key.value>>)

AppDbKeyValueStringsToIrMatch(fields, name, string) ==
  LET field == fields[name]
      exact == [kind |-> field.kind, value |-> FormattedStringToIrValue(string, field.format)]
      lpm == SplitInTwo(string, "/")
      ternary == SplitInTwo(string, "&")
  IN CASE name \notin DOMAIN fields -> Err
       [] name \in DOMAIN fields /\ field.kind \in {"exact", "optional"} -> Ok(exact)
       [] name \in DOMAIN fields /\ field.kind = "lpm" ->
            OkIf(lpm.ok, [kind |-> "lpm", value |-> FormattedStringToIrValue(lpm.value[1], field.format),
                          prefix_length |-> lpm.value[2][1]])
       [] name \in DOMAIN fields /\ field.kind = "ternary" ->
            OkIf(ternary.ok, [kind |-> "ternary", value |-> FormattedStringToIrValue(ternary.value[1], field.format),
                              mask |-> FormattedStringToIrValue(ternary.value[2], field.format)])

AppDbKeyToIrTableEntry(info, table_name, json_key) ==
  LET names == {f[2] : f \in {f \in DOMAIN json_key : f[1] = "match"}}
      fields == info[table_name].matches
      matches == [n \in names |-> AppDbKeyValueStringsToIrMatch(fields, n, json_key[<<"match", n>>])]
  IN IF table_name \notin DOMAIN info \/ \E f \in DOMAIN json_key : f[1] \notin {"match", "priority"} THEN Err
     ELSE OkIf(\A n \in names : matches[n].ok,
               [matches |-> [n \in names |-> matches[n].value],
                priority |-> IF <<"priority">> \in DOMAIN json_key THEN json_key[<<"priority">>][1] ELSE 0])

\* The parameters among the fields of an action, or of a whole entry.
AppDbNameValueStringsToIrActionParams(actions, name, values) ==
  LET names == {f[2] : f \in {f \in DOMAIN values : f[1] = "param"}}
  IN OkIf(names # {} => name \in DOMAIN actions /\ names \subseteq DOMAIN actions[name],
          [n \in names |-> FormattedStringToIrValue(values[<<"param", n>>], actions[name][n])])

\* Name and weight must be there, a watch port may be.
AppDbValueToIrActionSet(actions, json) ==
  AllOk([j \in DOMAIN json |->
    LET params == AppDbNameValueStringsToIrActionParams(actions, json[j][<<"action">>][1], json[j])
        required == {<<"action">>, <<"weight">>}
        others == DOMAIN json[j] \ (required \cup {<<"watch_port">>})
    IN IF required \subseteq DOMAIN json[j] /\ \A f \in others : f[1] = "param"
       THEN OkIf(params.ok,
                 [name |-> json[j][<<"action">>][1], params |-> params.value, weight |-> json[j][<<"weight">>][1],
                  watch_port |-> IF <<"watch_port">> \in DOMAIN json[j] THEN json[j][<<"watch_port">>][1] ELSE ""])
       ELSE Err])

\* A field that is not there is zero in a config that is.
AppDbMeterData(values) ==
  LET names == {f[2] : f \in {f \in DOMAIN values : f[1] = "meter"}}
  IN IF names = {} THEN NoMeter
     ELSE [n \in MeterFields |-> IF n \in names THEN values[<<"meter", n>>][1] ELSE 0]

Metadata(values) ==
  IF <<"controller_metadata">> \in DOMAIN values THEN values[<<"controller_metadata">>][1] ELSE ""

IsKnownField(f) ==
  \/ f \in {<<"action">>, <<"actions">>, <<"controller_metadata">>}
  \/ f[1] = "param"
  \/ f[1] = "meter" /\ f[2] \in MeterFields

\* A parameter without an action, an unknown field, and an action beside an
\* action set are errors; neither of the two is not.
AppDbKeyAndValuesToIrTableEntry(info, key, values) ==
  LET entry == AppDbKeyToIrTableEntry(info, key[2], key[3])
      actions == info[key[2]].actions
      has_action == <<"action">> \in DOMAIN values
      has_action_set == <<"actions">> \in DOMAIN values
      set == AppDbValueToIrActionSet(actions, values[<<"actions">>])
      name == values[<<"action">>][1]
      params == AppDbNameValueStringsToIrActionParams(actions, name, values)
      action == [name |-> name, params |-> params.value, weight |-> 0, watch_port |-> ""]
      translated == CASE has_action /\ ~has_action_set -> OkIf(params.ok, <<action>>)
                      [] ~has_action /\ has_action_set -> set
                      [] ~has_action /\ ~has_action_set -> Ok(<<>>)
                      [] OTHER -> Err
      no_orphans == has_action \/ \A f \in DOMAIN values : f[1] # "param"
  IN IF key[1] \notin {"ACL", "FIXED", "EXT"} \/ ~entry.ok \/ ~no_orphans
          \/ \E f \in DOMAIN values : ~IsKnownField(f)
     THEN Err
     ELSE OkIf(translated.ok,
               [kind |-> "table_entry", table_name |-> key[2], priority |-> entry.value.priority,
                matches |-> entry.value.matches, actions |-> translated.value,
                type |-> IF has_action THEN "action" ELSE IF has_action_set THEN "action_set" ELSE "none",
                meter_config |-> AppDbMeterData(values), controller_metadata |-> Metadata(values)])

-----------------------------------------------------------------------------
(* Multicast groups, in the P4RT table too.                                *)

Replication == "REPLICATION_IP_MULTICAST_TABLE"

Hex(n) == <<"0x", n>>
SimpleHexAtoi(string) == OkIf(Len(string) = 2 /\ string[1] = "0x", string[2])

\* <table_name>:<multicast_group_id>
GetRedisPacketReplicationTableKey(entry) == <<Replication, Hex(entry.multicast_group_id)>>

ReplicaToJson(replica) ==
  [multicast_replica_port |-> replica.port, multicast_replica_instance |-> Hex(replica.instance)]

\* The backups of all replicas are a field of their own, if there are any.
CreateFieldValues(entry) ==
  LET replicas == [j \in DOMAIN entry.replicas |-> ReplicaToJson(entry.replicas[j])]
      backups == [j \in DOMAIN entry.replicas |->
                    [k \in DOMAIN entry.replicas[j].backups |-> ReplicaToJson(entry.replicas[j].backups[k])]]
      values == WithEntry(MetadataValues(entry.controller_metadata), <<"replicas">>, replicas)
  IN IF \E j \in DOMAIN backups : backups[j] # <<>> THEN WithEntry(values, <<"backups">>, backups) ELSE values

ParseJsonReplica(json) ==
  LET instance == SimpleHexAtoi(json.multicast_replica_instance)
  IN IF {"multicast_replica_port", "multicast_replica_instance"} \subseteq DOMAIN json
     THEN OkIf(instance.ok, [port |-> json.multicast_replica_port, instance |-> instance.value])
     ELSE Err

\* The backups, when there are any, must be of as many replicas.
ReadPacketReplicationEntry(key, values) ==
  LET field(f) == IF f \in DOMAIN values THEN values[f] ELSE <<>>
      parsed(json) == AllOk([j \in DOMAIN json |-> ParseJsonReplica(json[j])])
      group_id == SimpleHexAtoi(key[2])
      replicas == parsed(field(<<"replicas">>))
      backups == AllOk([j \in DOMAIN field(<<"backups">>) |-> parsed(field(<<"backups">>)[j])])
      with(j) == [port |-> replicas.value[j].port, instance |-> replicas.value[j].instance,
                  backups |-> IF backups.value = <<>> THEN <<>> ELSE backups.value[j]]
  IN IF group_id.ok /\ replicas.ok /\ backups.ok
     THEN OkIf(backups.value = <<>> \/ Len(backups.value) = Len(replicas.value),
               [kind |-> "multicast", multicast_group_id |-> group_id.value,
                replicas |-> [j \in DOMAIN replicas.value |-> with(j)], controller_metadata |-> Metadata(values)])
     ELSE Err

-----------------------------------------------------------------------------
(* The VRF and VLAN tables: one table entry of fixed form per row.         *)

TextOf(entry, name) == entry.matches[name].value.text

\* The default VRF, the empty string, is not to be touched.
GetVrfTableKey(entry) ==
  IF "vrf_id" \in DOMAIN entry.matches THEN OkIf(TextOf(entry, "vrf_id") # "", <<TextOf(entry, "vrf_id")>>) ELSE Err

GetVrfValues == [f \in {<<"v4">>, <<"v6">>} |-> <<"true">>]

GetVlanTableKey(entry) ==
  LET id == SimpleHexAtoi(TextOf(entry, "vlan_id"))
  IN IF "vlan_id" \in DOMAIN entry.matches /\ id.ok THEN OkIf(id.value \in 1..4094, <<"Vlan", id.value>>) ELSE Err

GetVlanValues(entry) == WithEntry(MetadataValues(entry.controller_metadata), <<"source">>, <<"P4">>)

GetVlanMemberTableKey(entry) ==
  LET vlan == GetVlanTableKey(entry)
  IN IF "port" \in DOMAIN entry.matches /\ vlan.ok
     THEN OkIf(TextOf(entry, "port") # "", Joined(vlan.value, ":", <<TextOf(entry, "port")>>)) ELSE Err

\* Everything but "make_tagged_member" is untagged.
GetVlanMemberValues(entry) ==
  WithEntry(GetVlanValues(entry), <<"tagging_mode">>,
            IF entry.actions[1].name = "make_tagged_member" THEN <<"tagged">> ELSE <<"untagged">>)

FixedEntry(table_name, matches, action, values) ==
  [kind |-> "table_entry", table_name |-> table_name, priority |-> 0, matches |-> matches, type |-> "action",
   actions |-> <<[name |-> action, params |-> [n \in {} |-> <<>>], weight |-> 0, watch_port |-> ""]>>,
   meter_config |-> NoMeter, controller_metadata |-> Metadata(values)]

ExactMatch(format, text) == [kind |-> "exact", value |-> [format |-> format, text |-> text]]

\* Nothing of the values is read, the metadata neither.
ReadVrfTableEntry(key) ==
  Ok(FixedEntry("vrf_table", [vrf_id |-> ExactMatch("STRING", key[1])], "no_action", NoFields))

StripVlanPrefixAndReturnHexString(key) == OkIf(key[1] = "Vlan" /\ key[2] <= 4095, Hex(key[2]))

ReadVlanTableEntry(key, values) ==
  LET id == StripVlanPrefixAndReturnHexString(key)
  IN OkIf(id.ok, FixedEntry("vlan_table", [vlan_id |-> ExactMatch("HEX_STRING", id.value)], "no_action", values))

ReadVlanMemberTableEntry(key, values) ==
  LET parts == SplitInTwo(key, ":")
      id == StripVlanPrefixAndReturnHexString(parts.value[1])
      tagged == <<"tagging_mode">> \in DOMAIN values /\ values[<<"tagging_mode">>] = <<"tagged">>
  IN IF ~parts.ok THEN Err
     ELSE OkIf(id.ok, FixedEntry("vlan_membership_table",
                                 [vlan_id |-> ExactMatch("HEX_STRING", id.value),
                                  port |-> ExactMatch("STRING", parts.value[2][1])],
                                 IF tagged THEN "make_tagged_member" ELSE "make_untagged_member", values))

-----------------------------------------------------------------------------
(* Updates, and the rows they leave: <<table, key, values>>.               *)

GetAppDbTableType(entity) ==
  CASE entity.kind = "table_entry" /\ entity.table_name = "vrf_table" -> "VRF_TABLE"
    [] entity.kind = "table_entry" /\ entity.table_name = "vlan_table" -> "VLAN_TABLE"
    [] entity.kind = "table_entry" /\ entity.table_name = "vlan_membership_table" -> "VLAN_MEMBER_TABLE"
    [] OTHER -> "P4RT"

RedisKey(info, entity) ==
  CASE GetAppDbTableType(entity) = "VRF_TABLE" -> GetVrfTableKey(entity)
    [] GetAppDbTableType(entity) = "VLAN_TABLE" -> GetVlanTableKey(entity)
    [] GetAppDbTableType(entity) = "VLAN_MEMBER_TABLE" -> GetVlanMemberTableKey(entity)
    [] OTHER -> IF entity.kind = "table_entry" THEN GetRedisP4rtTableKey(info, entity)
                ELSE Ok(GetRedisPacketReplicationTableKey(entity))

RedisValues(entity) ==
  CASE GetAppDbTableType(entity) = "VRF_TABLE" -> Ok(GetVrfValues)
    [] GetAppDbTableType(entity) = "VLAN_TABLE" -> Ok(GetVlanValues(entity))
    [] GetAppDbTableType(entity) = "VLAN_MEMBER_TABLE" -> Ok(GetVlanMemberValues(entity))
    [] OTHER -> IF entity.kind = "table_entry" THEN IrTableEntryToAppDbValues(entity)
                ELSE Ok(CreateFieldValues(entity))

\* A VRF and a VLAN cannot be modified.
CreateAppDbUpdate(info, update_type, entity) ==
  LET table == GetAppDbTableType(entity)
      key == RedisKey(info, entity)
      values == RedisValues(entity)
  IN CASE ~key.ok \/ (update_type = "MODIFY" /\ table \in {"VRF_TABLE", "VLAN_TABLE"}) -> Err
       [] key.ok /\ update_type = "DELETE" -> Ok([op |-> "DEL", row |-> <<table, key.value, NoFields>>])
       [] OTHER -> OkIf(values.ok, [op |-> "SET", row |-> <<table, key.value, values.value>>])

\* RebuildEntityEntryCache of one row; ReadP4TableEntry also reads counters,
\* which the cache does not keep.
ReadRow(info, row) ==
  CASE row[1] = "VRF_TABLE" -> ReadVrfTableEntry(row[2])
    [] row[1] = "VLAN_TABLE" -> ReadVlanTableEntry(row[2], row[3])
    [] row[1] = "VLAN_MEMBER_TABLE" -> ReadVlanMemberTableEntry(row[2], row[3])
    [] OTHER -> IF row[2][1] = Replication THEN ReadPacketReplicationEntry(row[2], row[3])
                ELSE AppDbKeyAndValuesToIrTableEntry(info, row[2], row[3])

\* The definitions of ACL and extension tables are not entries, the rows of
\* the hash and switch tables are not read.
Definitions == {"ACL_TABLE_DEFINITION_TABLE", "TABLES_DEFINITION_TABLE"}
IsEntryRow(row) ==
  /\ row[1] \notin {"HASH_TABLE", "SWITCH_TABLE"}
  /\ row[1] = "P4RT" => row[2][1] \notin Definitions

RebuildEntityEntryCache(info, rows) ==
  LET entities == {ReadRow(info, row) : row \in {row \in rows : IsEntryRow(row)}}
  IN OkIf(\A e \in entities : e.ok, {e.value : e \in entities})

-----------------------------------------------------------------------------
(* State verification.  A Redis table is a function from keys to values.   *)

RedisTable(rows) == [key \in {row[2] : row \in rows} |-> (CHOOSE row \in rows : row[2] = key)[3]]

\* The keys that only one of the tables has, and those of different values.
CompareTables(a, b) ==
  {key \in DOMAIN a \cup DOMAIN b :
     \/ key \notin DOMAIN a \cap DOMAIN b
     \/ key \in DOMAIN a \cap DOMAIN b /\ a[key] # b[key]}

\* An entity without a key is left out, one without values never matches.
TranslateP4rtIrEntitiesIntoRedisTable(info, entities) ==
  LET keyed == {e \in entities : e.kind = "table_entry" /\ RedisKey(info, e).ok}
      entity(key) == CHOOSE e \in keyed : RedisKey(info, e).value = key
  IN [key \in {RedisKey(info, e).value : e \in keyed} |->
        IF RedisValues(entity(key)).ok THEN RedisValues(entity(key)).value ELSE NoFields]

VerifyP4rtTableWithCacheEntities(info, rows, entities) ==
  LET entries == {row \in rows : row[1] = "P4RT" /\ IsEntryRow(row) /\ row[2][1] # Replication}
  IN CompareTables(RedisTable(entries), TranslateP4rtIrEntitiesIntoRedisTable(info, entities))

\* Of a group the metadata and the set of its replicas count, the backups of
\* a replica do not.
ComparableGroup(group) ==
  [controller_metadata |-> group.controller_metadata,
   replicas |-> {<<r.port, r.instance>> : r \in ToSet(group.replicas)}]

\* Mutation: groups that only the cache has are not looked for.
CompareGroupsOfAppDb(app_db, cache) ==
  {g \in app_db : ~\E h \in cache : /\ h.multicast_group_id = g.multicast_group_id
                                     /\ ComparableGroup(h) = ComparableGroup(g)}

ComparePacketReplicationTableEntries(app_db, cache) ==
  LET missing(a, b) == {g \in a : ~\E h \in b : /\ h.multicast_group_id = g.multicast_group_id
                                                /\ ComparableGroup(h) = ComparableGroup(g)}
  IN missing(app_db, cache) \cup missing(cache, app_db)

\* Entries that cannot be read are dereferenced all the same: absl::StatusOr
\* ends the process.
Aborted == "aborted"
VerifyPacketReplicationWithCacheEntities(rows, entities) ==
  LET groups == {ReadPacketReplicationEntry(row[2], row[3]) :
                   row \in {row \in rows : row[1] = "P4RT" /\ row[2][1] = Replication}}
  IN IF \E g \in groups : ~g.ok THEN Aborted
     ELSE IF ComparePacketReplicationTableEntries({g.value : g \in groups}, {e \in entities : e.kind = "multicast"}) = {}
          THEN "ok" ELSE "failed"

\* The tables other than P4RT: what APPL_DB has of them is compared with what
\* APPL_STATE_DB has, the cache is not looked at.
OtherTables == {"VRF_TABLE", "VLAN_TABLE", "VLAN_MEMBER_TABLE", "HASH_TABLE", "SWITCH_TABLE"}

VerifyState(info, app_db, app_state_db, cache) ==
  LET entities == {e \in cache : GetAppDbTableType(e) = "P4RT"}
      table(db, name) == RedisTable({row \in db : row[1] = name})
      groups == VerifyPacketReplicationWithCacheEntities(app_db, entities)
  IN CASE groups = Aborted -> Aborted
       [] groups # Aborted /\ VerifyP4rtTableWithCacheEntities(info, app_db, entities) = {} /\ groups = "ok"
            /\ \A name \in OtherTables :
                 CompareTables(table(app_db, name), table(app_state_db, name)) = {} -> "ok"
       [] OTHER -> "failed"

-----------------------------------------------------------------------------
(* Read.  A cached entity has, beside its IR, whether its ports still have *)
(* a translation.                                                          *)

kCounterFields == {"packets", "bytes"}
kMeterCounterFields ==
  {"green_packets", "green_bytes", "yellow_packets", "yellow_bytes", "red_packets", "red_bytes"}

\* absl::SimpleAtoi fails.
NotANumber == -1

\* What CountersDb has that is a number; colors count for a meter only.
AppendCounterData(entry, counters) ==
  LET numbers == {f \in DOMAIN counters : counters[f] # NotANumber}
      known == IF entry.meter_config = NoMeter THEN kCounterFields ELSE kCounterFields \cup kMeterCounterFields
  IN [f \in numbers \cap known |-> counters[f]]

\* Requests for anything but everything of a kind are not supported.
SupportedRequest(request) == request.kind \in {"table_entry", "multicast"} /\ ~request.filtered

\* What a cached entity adds to the response: nothing when the table is not
\* the role's.
ReadEntity(info, role, counter_db, cached) ==
  LET entity == cached.entity
      key == RedisKey(info, entity).value
      counters == IF key \in DOMAIN counter_db THEN counter_db[key] ELSE NoFields
      is_acl == entity.kind = "table_entry" /\ info[entity.table_name].type = "ACL"
  IN CASE entity.kind = "table_entry" /\ role # "" /\ info[entity.table_name].role # role -> Ok(<<>>)
       [] ~(entity.kind = "table_entry" /\ role # "" /\ info[entity.table_name].role # role) /\ is_acl ->
            OkIf(cached.translates, <<[entity |-> entity, counters |-> AppendCounterData(entity, counters)]>>)
       [] OTHER -> Ok(<<[entity |-> entity, counters |-> NoFields]>>)

\* The batch size is compared with the number of responses, not with what the
\* last of them holds; a response left empty at the end is dropped.
ReadAllEntitiesInBatches(info, batch_size, role, requests, cache, counter_db) ==
  LET all == FlattenSeq([j \in DOMAIN requests |->
               SelectSeq(cache, LAMBDA c : c.entity.kind = requests[j].kind)])
      read == [j \in DOMAIN all |-> ReadEntity(info, role, counter_db, all[j])]
      append(responses, entities) ==
        LET filled == [responses EXCEPT ![Len(responses)] = @ \o entities]
        IN IF Len(filled) >= batch_size THEN Append(filled, <<>>) ELSE filled
      responses == FoldLeft(append, <<<<>>>>, [j \in DOMAIN read |-> read[j].value])
  IN IF \A j \in DOMAIN requests : SupportedRequest(requests[j])
     THEN OkIf(\A j \in DOMAIN read : read[j].ok,
               IF Len(responses) > 1 /\ Last(responses) = <<>> THEN Front(responses) ELSE responses)
     ELSE Err
=============================================================================
