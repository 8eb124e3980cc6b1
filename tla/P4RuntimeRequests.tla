-------------------------- MODULE P4RuntimeRequests --------------------------
(***************************************************************************)
(* What p4_runtime_session.cc and p4_runtime_session_extras.cc do with a   *)
(* session's unary RPCs: updates cut into requests and sent until one      *)
(* fails, entities installed, read and cleared, configs fetched and pushed.*)
(*                                                                         *)
(* The switch is a record: its config (no tables: none), the entities it   *)
(* holds, their counters, the RPCs it still answers before it goes down,   *)
(* and the requests it got, which are history.  A function that talks to   *)
(* it returns [ok, switch], and a value when it has one.  The batch size   *)
(* of 5000 that most calls use is max_batch_size.                          *)
(***************************************************************************)
EXTENDS Sequencing

Answer(ok, switch) == [ok |-> ok, switch |-> switch]
AnswerWith(ok, switch, value) == [ok |-> ok, switch |-> switch, value |-> value]

-----------------------------------------------------------------------------
(* The switch, as far as the session needs it: it takes the updates of a   *)
(* request in order, refuses one that leaves a reference dangling, and     *)
(* says OK when all were taken.  From the version on that fails on the     *)
(* first it takes none after the first it refuses.                         *)

NoConfig == [tables |-> {}, version |-> 0, references |-> {}]
kFailOnFirst == 1

Takes(references, held, u) ==
  LET same == {e \in held : EntityKey(e) = EntityKey(u.entity)}
  IN /\ IF u.type = "INSERT" THEN same = {} ELSE same # {}
     /\ UnsatisfiedOutgoingReferences(
          references, IF u.type = "DELETE" THEN held \ same ELSE (held \ same) \cup {u.entity}) = {}

WriteRpc(switch, updates) ==
  LET step(state, u) ==
        IF \/ state.failed /\ switch.config.version >= kFailOnFirst
           \/ ~Takes(switch.config.references, state.held, u)
        THEN [state EXCEPT !.failed = TRUE]
        ELSE [state EXCEPT
                !.held = {e \in @ : EntityKey(e) # EntityKey(u.entity)}
                           \cup (IF u.type = "DELETE" THEN {} ELSE {u.entity})]
      end == FoldLeft(step, [held |-> switch.held, failed |-> FALSE], updates)
  IN IF switch.rpcs_left = 0
     THEN Answer(FALSE, switch)
     ELSE Answer(~end.failed,
                 [switch EXCEPT !.rpcs_left = @ - 1, !.held = end.held, !.requests = Append(@, updates)])

\* A Read or GetForwardingPipelineConfig.
Rpc(switch, value) ==
  IF switch.rpcs_left = 0 THEN Answer(FALSE, switch)
  ELSE AnswerWith(TRUE, [switch EXCEPT !.rpcs_left = @ - 1], value)

-----------------------------------------------------------------------------
(* Updates and requests.                                                   *)

CreatePiUpdates(entities, type) == [j \in DOMAIN entities |-> [type |-> type, entity |-> entities[j]]]

\* Up to the first that fails.
SetMetadataAndSendPiWriteRequests(switch, requests) ==
  LET step(answer, request) == IF answer.ok THEN WriteRpc(answer.switch, request) ELSE answer
  IN FoldLeft(step, Answer(TRUE, switch), requests)

\* The requests of SendPiUpdates: full ones, and a last one with the rest,
\* which is empty when nothing is left.
FullRequests(updates, max_batch_size) ==
  LET full == Len(updates) \div max_batch_size
  IN [j \in 1..(full + 1) |-> SubSeq(updates, (j - 1) * max_batch_size + 1,
                                    IF j > full THEN Len(updates) ELSE j * max_batch_size)]

SendPiUpdates(switch, updates, max_batch_size) ==
  IF max_batch_size <= 0 THEN Answer(FALSE, switch)
  ELSE SetMetadataAndSendPiWriteRequests(switch, FullRequests(updates, max_batch_size))

\* The requests of SplitSortedUpdatesIntoBatchesAndSend: one rank each, and a
\* new one when the last has grown larger than max_batch_size.
SplitSortedUpdates(rank, updates, max_batch_size) ==
  LET step(requests, u) ==
        LET last == requests[Len(requests)]
            of(v) == rank[v.entity.table]
        IN IF last # <<>> /\ (of(last[Len(last)]) # of(u) \/ Len(last) > max_batch_size)
           THEN Append(requests, <<u>>)
           ELSE [requests EXCEPT ![Len(requests)] = Append(@, u)]
  IN FoldLeft(step, <<<<>>>>, updates)

-----------------------------------------------------------------------------
(* Reading.                                                                *)

GetForwardingPipelineConfig(switch) == Rpc(switch, switch.config)

\* GetP4Info: an empty P4Info is an error.
GetP4Info(switch) ==
  LET r == GetForwardingPipelineConfig(switch)
  IN IF r.ok /\ r.value.tables = {} THEN Answer(FALSE, r.switch) ELSE r

ReadPiEntities(switch) == Rpc(switch, switch.held)

\* An entity that is no table entry is not expected among them: the request
\* asked for table entries only.
ReadPiTableEntries(switch) == Rpc(switch, {e \in switch.held : e.table # MulticastTable})

\* GetPiTableEntryFromSwitch: all table entries are read and searched.
ReadPiCounterData(switch, key) ==
  LET r == ReadPiTableEntries(switch)
      found == {e \in r.value : EntityKey(e) = key}
  IN IF ~r.ok \/ found = {} THEN Answer(FALSE, r.switch)
     ELSE AnswerWith(TRUE, r.switch, switch.counters[CHOOSE e \in found : TRUE])

\* CheckNoEntities and CheckNoTableEntries, by what is read.
CheckNone(switch, tables_only) ==
  LET config == GetForwardingPipelineConfig(switch)
      left == IF tables_only THEN ReadPiTableEntries(config.switch) ELSE ReadPiEntities(config.switch)
  IN IF ~config.ok THEN config
     ELSE IF config.value = NoConfig THEN Answer(TRUE, config.switch)
     ELSE Answer(left.ok /\ left.value = {}, left.switch)

-----------------------------------------------------------------------------
(* Clearing and installing.                                                *)

\* What is deleted, in which requests: the order of installation reversed,
\* and cut by rank too for a switch that does not fail on the first.
ClearRequests(config, rank, entities, max_batch_size) ==
  LET updates == CreatePiUpdates(Reverse(StableSortEntities(rank, entities)), "DELETE")
  IN IF config.version >= kFailOnFirst THEN FullRequests(updates, max_batch_size)
     ELSE SplitSortedUpdates(rank, updates, max_batch_size)

\* On an error the first ten entities are quoted, whether there are ten or
\* not; that, and execute_on_failure, the caller's, are left out.
ClearEntities(switch, rank, max_batch_size) ==
  LET config == GetForwardingPipelineConfig(switch)
      entities == ReadPiEntities(config.switch)
      order == SetToSeq(entities.value)
      requests == ClearRequests(config.value, rank, order, max_batch_size)
      sent == SetMetadataAndSendPiWriteRequests(entities.switch, requests)
  IN IF ~config.ok THEN config
     ELSE IF config.value = NoConfig THEN Answer(TRUE, config.switch)
     ELSE IF ~entities.ok \/ entities.value = {} THEN Answer(entities.ok, entities.switch)
     ELSE IF ~sent.ok THEN sent
     ELSE CheckNone(sent.switch, FALSE)

\* ClearTableEntries: sequenced by dependency instead; no packet replication.
ClearTableEntriesOf(switch, info, max_batch_size) ==
  LET config == GetForwardingPipelineConfig(switch)
      entries == ReadPiTableEntries(config.switch)
      requests == SequencePiUpdatesIntoWriteRequests(
                    info, CreatePiUpdates(SetToSeq(entries.value), "DELETE"), max_batch_size)
      sent == SetMetadataAndSendPiWriteRequests(entries.switch, requests.requests)
  IN IF ~config.ok THEN config
     ELSE IF config.value = NoConfig THEN Answer(TRUE, config.switch)
     ELSE IF ~entries.ok \/ entries.value = {} THEN Answer(entries.ok, entries.switch)
     ELSE IF ~requests.ok THEN Answer(FALSE, entries.switch)
     ELSE IF ~sent.ok THEN sent
     ELSE CheckNone(sent.switch, TRUE)

RequestInstallation(switch, rank, entities, max_batch_size) ==
  SendPiUpdates(switch, CreatePiUpdates(StableSortEntities(rank, entities), "INSERT"), max_batch_size)

\* InstallPiEntities of the extras: the config is fetched first.
InstallPiEntities(switch, rank, entities, max_batch_size) ==
  LET config == GetP4Info(switch)
  IN IF ~config.ok THEN Answer(FALSE, config.switch)
     ELSE RequestInstallation(config.switch, rank, entities, max_batch_size)

\* DeletePiEntities: in the order of the caller.
DeletePiEntities(switch, entities, max_batch_size) ==
  SendPiUpdates(switch, CreatePiUpdates(entities, "DELETE"), max_batch_size)

SetForwardingPipelineConfig(switch, config) ==
  LET r == Rpc(switch, config)
  IN IF r.ok THEN Answer(TRUE, [r.switch EXCEPT !.config = config]) ELSE r

\* A config without tables counts as none.
GetOrSetP4Info(switch, config) ==
  LET r == GetForwardingPipelineConfig(switch)
  IN IF ~r.ok \/ r.value.tables # {} THEN r ELSE SetForwardingPipelineConfig(r.switch, config)

\* CreateWithP4InfoAndClearTables, of a session that is there.
PushConfigToClearedSwitch(switch, rank, config, max_batch_size) ==
  LET cleared == ClearEntities(switch, rank, max_batch_size)
      pushed == SetForwardingPipelineConfig(cleared.switch, config)
  IN IF ~cleared.ok THEN cleared
     ELSE IF ~pushed.ok THEN Answer(FALSE, pushed.switch)
     ELSE CheckNone(pushed.switch, FALSE)

-----------------------------------------------------------------------------
(* Counters: of an entry, and of its meter by colour.                      *)

\* A counter is bytes and packets; a part that is not there is not in the
\* domain.
ClearCounters(counters) == [part \in DOMAIN counters |-> <<0, 0>>]

HasCounted(counters) == \E part \in DOMAIN counters : counters[part] # <<0, 0>>

\* One MODIFY of every table entry that counted something, in one request,
\* and no request when none did.
ClearTableEntryCounters(switch) ==
  LET entities == ReadPiEntities(switch)
      counted == {e \in entities.value : e.table # MulticastTable /\ HasCounted(switch.counters[e])}
      sent == WriteRpc(entities.switch, CreatePiUpdates(SetToSeq(counted), "MODIFY"))
  IN IF ~entities.ok \/ counted = {} THEN Answer(entities.ok, entities.switch)
     ELSE IF ~sent.ok THEN sent
     ELSE Answer(TRUE, [sent.switch EXCEPT
                          !.counters = [e \in DOMAIN @ |-> IF e \in counted THEN ClearCounters(@[e]) ELSE @[e]]])
=============================================================================
