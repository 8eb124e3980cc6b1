--------------------------- MODULE PipelineConfig ---------------------------
(***************************************************************************)
(* The forwarding pipeline config of P4RuntimeImpl (p4runtime_impl.cc,     *)
(* p4info_reconcile.cc, sonic/hashing.cc, app_db_acl_def_table_manager.cc):*)
(* SetForwardingPipelineConfig, the reconciliation of ACL tables and hash  *)
(* settings with a new config, its copy on disk, and the rebuilding of the *)
(* software state after a warm restart.                                    *)
(*                                                                         *)
(* A reconciliation is a sequence of requests to OrchAgent, each of which  *)
(* OrchAgent may refuse.  It runs under server_state_lock_, so no Write    *)
(* comes in between, but each of its steps takes effect in the hardware at *)
(* once, and what was done before a refused step stays done.               *)
(***************************************************************************)
EXTENDS Naturals, FiniteSets, SequencesExt

CONSTANTS
  AclTables,         \* ACL table names
  Definitions,       \* AppDb representations of an ACL table
  Stage,             \* [Definitions -> stages]
  Nonessential,      \* tables annotated @nonessential_for_upgrade
  Reinstall,         \* tables annotated @reinstall_during_upgrade
  PreIngress,        \* tables IsSupportedTransition rejects updates of
  HashFields,        \* keys of hash packet field configs
  LagHashFields,     \* those IsSupportedTransition refuses to delete
  HashValues,        \* contents of a hash packet field config
  P4Infos,           \* valid configs a controller may push
  Entries,           \* [AclTables -> sets of entries a controller may write]
  None               \* absent

Copies == {"original", "duplicate"}

P4InfoType == [acl  : [AclTables -> Definitions \cup {None}],
               hash : [HashFields -> HashValues \cup {None}]]

ASSUME PipelineConstants ==
  /\ IsFiniteSet(AclTables)
  /\ P4Infos \subseteq P4InfoType
  /\ Nonessential \cup Reinstall \cup PreIngress \subseteq AclTables
  /\ LagHashFields \subseteq HashFields
  /\ DOMAIN Entries = AclTables
  /\ Definitions \subseteq DOMAIN Stage
  /\ None \notin Definitions
  /\ None \notin HashValues
  /\ None \notin P4Infos

VARIABLES
  ir_p4info,      \* ir_p4info_, and with it forwarding_pipeline_config_
  entity_cache,   \* entity_cache_, by ACL table
  saved_config,   \* the file forwarding_config_full_path_
  configured,     \* HOST_STATS "CONFIG" in STATE_DB has a timestamp
  acl_def,        \* ACL table definitions in hardware
  acl_entries,    \* ACL entries in hardware
  hash_table,     \* HASH_TABLE
  switch_table,   \* hash fields SWITCH_TABLE refers to
  pc,             \* "idle", or the SetForwardingPipelineConfig action
  target,         \* the config being applied
  steps,          \* what is left to do for it
  critical,       \* EnterCriticalState has been called
  save_failed,    \* SavePipelineConfig has failed
  interrupted,    \* the process was replaced in the middle of a transition
  acknowledged    \* entries a controller has written and not deleted again

vars == <<ir_p4info, entity_cache, saved_config, configured, acl_def,
          acl_entries, hash_table, switch_table, pc, target, steps, critical,
          save_failed, interrupted, acknowledged>>

software == <<ir_p4info, entity_cache, saved_config, configured>>
hardware == <<acl_def, acl_entries, hash_table, switch_table>>
history  == <<interrupted, acknowledged>>

Init ==
  /\ ir_p4info = None
  /\ entity_cache = [t \in AclTables |-> {}]
  /\ saved_config = None
  /\ configured = FALSE
  /\ acl_def = [t \in AclTables |-> [c \in Copies |-> None]]
  /\ acl_entries = [t \in AclTables |-> [c \in Copies |-> {}]]
  /\ hash_table = [f \in HashFields |-> None]
  /\ switch_table = {}
  /\ pc = "idle"
  /\ target = None
  /\ steps = <<>>
  /\ critical = FALSE
  /\ save_failed = FALSE
  /\ interrupted = FALSE
  /\ acknowledged = [t \in AclTables |-> {}]

-----------------------------------------------------------------------------
(* CalculateTransition and IsSupportedTransition.                          *)

Tables(p) == {t \in AclTables : p.acl[t] # None}
Fields(p) == {f \in HashFields : p.hash[f] # None}

AclTablesToDelete(from, to) == Tables(from) \ Tables(to)
AclTablesToAdd(from, to)    == Tables(to) \ Tables(from)

\* IsValidModification: tables may not change stage.
StagesAgree(from, to) ==
  \A t \in Tables(from) \cap Tables(to) : Stage[from.acl[t]] = Stage[to.acl[t]]

AclTablesToModify(from, to) ==
  {t \in Tables(from) \cap Tables(to) :
     from.acl[t] # to.acl[t] \/ t \in Reinstall}

\* Keys that get another value are not deleted first.
HashFieldsToDelete(from, to) == Fields(from) \ Fields(to)
HashFieldsToSet(from, to) == {f \in Fields(to) : from.hash[f] # to.hash[f]}

IsSupportedTransition(from, to) ==
  /\ StagesAgree(from, to)
  /\ PreIngress \cap (AclTablesToDelete(from, to)
                        \cup AclTablesToModify(from, to)) = {}
  /\ LagHashFields \cap HashFieldsToDelete(from, to) = {}

-----------------------------------------------------------------------------
(* The steps of a transition.  Tables are visited in an order that is      *)
(* fixed (sorted by name or by size), which one does not matter here.      *)

InsertTable(t, c, def)  == [op |-> "insert_table", table |-> t, copy |-> c, def |-> def]
RemoveTable(t, c)       == [op |-> "remove_table", table |-> t, copy |-> c]
InsertEntries(t, c, es) == [op |-> "insert_entries", table |-> t, copy |-> c, entries |-> es]
DeleteEntries(t, c, es) == [op |-> "delete_entries", table |-> t, copy |-> c, entries |-> es]
SetHash(fields)         == [op |-> "set_hash", fields |-> fields]
DeleteHash(fields)      == [op |-> "delete_hash", fields |-> fields]
SetSwitch(fields)       == [op |-> "set_switch", fields |-> fields]
PublishExtTables        == [op |-> "publish_ext_tables"]

OrderTables(tables) == SetToSeq(tables)

ForAll(tables, Steps(_)) ==
  LET order == OrderTables(tables)
  IN  FlattenSeq([i \in DOMAIN order |-> Steps(order[i])])

\* TransitionHashConfig: every field of the new config is set again.
TransitionHashConfig(from, to) ==
  IF HashFieldsToSet(from, to) \cup HashFieldsToDelete(from, to) = {} THEN <<>>
  ELSE (IF HashFieldsToSet(from, to) = {} THEN <<>> ELSE <<SetHash(Fields(to))>>)
       \o (IF HashFieldsToDelete(from, to) = {} THEN <<>>
           ELSE <<DeleteHash(HashFieldsToDelete(from, to))>>)
       \o (IF Fields(to) = {} THEN <<>> ELSE <<SetSwitch(Fields(to))>>)

\* RemoveAclTableFromAppDb
RemoveAclTable(t) ==
  (IF entity_cache[t] = {} THEN <<>>
   ELSE <<DeleteEntries(t, "original", entity_cache[t])>>)
  \o <<RemoveTable(t, "original")>>

\* Mutation: the original goes first, the duplicate is filled afterwards.
ReplaceInPlace(t, from, to) ==
  LET es == entity_cache[t]
  IN  <<InsertTable(t, "duplicate", from.acl[t]),
        DeleteEntries(t, "original", es),
        InsertEntries(t, "duplicate", es),
        RemoveTable(t, "original"),
        InsertTable(t, "original", to.acl[t]),
        InsertEntries(t, "original", es),
        DeleteEntries(t, "duplicate", es),
        RemoveTable(t, "duplicate")>>

ReplaceTableInAppDb(t, from, to) ==
  LET es == entity_cache[t]
  IN  <<InsertTable(t, "duplicate", from.acl[t]),
        InsertEntries(t, "duplicate", es),
        DeleteEntries(t, "original", es),
        RemoveTable(t, "original"),
        InsertTable(t, "original", to.acl[t]),
        InsertEntries(t, "original", es),
        DeleteEntries(t, "duplicate", es),
        RemoveTable(t, "duplicate")>>

\* Mutation: a table that was emptied to be modified stays empty.
AddEmptyTable(t, to) == <<InsertTable(t, "original", to.acl[t])>>

\* A table to add, with the entries it had if it was removed to be modified.
AddAclTable(t, to) ==
  <<InsertTable(t, "original", to.acl[t])>>
  \o (IF entity_cache[t] = {} THEN <<>>
      ELSE <<InsertEntries(t, "original", entity_cache[t])>>)

TransitionAcls(from, to) ==
  LET modify       == AclTablesToModify(from, to)
      nonessential == modify \cap Nonessential
      empty        == {t \in modify \ Nonessential : entity_cache[t] = {}}
      populated    == (modify \ Nonessential) \ empty
      RemoveDefinition(t) == <<RemoveTable(t, "original")>>
      Replace(t) == ReplaceTableInAppDb(t, from, to)
      AddNew(t)  == <<InsertTable(t, "original", to.acl[t])>>
      Add(t)     == AddAclTable(t, to)
  IN  ForAll(AclTablesToDelete(from, to), RemoveDefinition)
      \o ForAll(nonessential, RemoveAclTable)
      \o ForAll(empty, RemoveDefinition)
      \o ForAll(populated, Replace)
      \o ForAll(AclTablesToAdd(from, to), AddNew)
      \o ForAll(nonessential \cup empty, Add)

ConfigureAppDbTables(to) ==
  LET Add(t) == <<InsertTable(t, "original", to.acl[t]), PublishExtTables>>
  IN  ForAll(Tables(to), Add)
      \o (IF Fields(to) = {} THEN <<>>
          ELSE <<SetHash(Fields(to)), SetSwitch(Fields(to))>>)

-----------------------------------------------------------------------------
(* SetForwardingPipelineConfig.                                            *)

\* ReconcileAndCommitPipelineConfig up to its first request to OrchAgent.  An
\* unsupported transition changes nothing.
Reconcile(action, p) ==
  /\ pc = "idle"
  /\ ir_p4info \notin {None, p} => IsSupportedTransition(ir_p4info, p)
  /\ pc' = action
  /\ target' = p
  /\ steps' = IF ir_p4info = None THEN ConfigureAppDbTables(p)
              ELSE IF ir_p4info = p THEN <<>>
              ELSE TransitionHashConfig(ir_p4info, p) \o TransitionAcls(ir_p4info, p)
  /\ UNCHANGED <<software, hardware, critical, save_failed, history>>

ReconcileAndCommit(p) == Reconcile("RECONCILE_AND_COMMIT", p)

\* There is no clearing of forwarding state, so only a first config is taken.
VerifyAndCommit(p) == ir_p4info = None /\ Reconcile("VERIFY_AND_COMMIT", p)

\* COMMIT loads the saved config.
Commit == saved_config # None /\ VerifyAndCommit(saved_config)

\* OrchAgent carries out a step; what each step needs to succeed.
StepSucceeds(s) ==
  CASE s.op = "insert_table" ->
         /\ acl_def' = [acl_def EXCEPT ![s.table][s.copy] = s.def]
         /\ UNCHANGED <<acl_entries, hash_table, switch_table>>
    [] s.op = "remove_table" ->
         /\ acl_def[s.table][s.copy] # None
         /\ acl_entries[s.table][s.copy] = {}
         /\ acl_def' = [acl_def EXCEPT ![s.table][s.copy] = None]
         /\ UNCHANGED <<acl_entries, hash_table, switch_table>>
    [] s.op = "insert_entries" ->
         /\ acl_def[s.table][s.copy] # None
         /\ acl_entries' = [acl_entries EXCEPT ![s.table][s.copy] = @ \cup s.entries]
         /\ UNCHANGED <<acl_def, hash_table, switch_table>>
    [] s.op = "delete_entries" ->
         /\ s.entries \subseteq acl_entries[s.table][s.copy]
         /\ acl_entries' = [acl_entries EXCEPT ![s.table][s.copy] = @ \ s.entries]
         /\ UNCHANGED <<acl_def, hash_table, switch_table>>
    [] s.op = "set_hash" ->
         /\ hash_table' = [f \in HashFields |-> IF f \in s.fields
                                                THEN target.hash[f] ELSE hash_table[f]]
         /\ UNCHANGED <<acl_def, acl_entries, switch_table>>
    [] s.op = "delete_hash" ->
         /\ hash_table' = [f \in HashFields |-> IF f \in s.fields
                                                THEN None ELSE hash_table[f]]
         /\ UNCHANGED <<acl_def, acl_entries, switch_table>>
    [] s.op = "set_switch" ->
         /\ switch_table' = switch_table \cup s.fields
         /\ UNCHANGED <<acl_def, acl_entries, hash_table>>
    [] s.op = "publish_ext_tables" -> UNCHANGED hardware

PerformStep ==
  /\ steps # <<>>
  /\ StepSucceeds(Head(steps))
  /\ steps' = Tail(steps)
  /\ UNCHANGED <<software, pc, target, critical, save_failed, history>>

\* OrchAgent refuses a step.  Of a step on several entries or fields some may
\* have been carried out; refused hash fields are restored.
StepFails(s) ==
  CASE s.op = "insert_entries" ->
         /\ \E some \in SUBSET s.entries :
              /\ some # {} => acl_def[s.table][s.copy] # None
              /\ acl_entries' = [acl_entries EXCEPT ![s.table][s.copy] = @ \cup some]
         /\ UNCHANGED <<acl_def, hash_table, switch_table>>
    [] s.op = "delete_entries" ->
         /\ \E some \in SUBSET s.entries :
              acl_entries' = [acl_entries EXCEPT ![s.table][s.copy] = @ \ some]
         /\ UNCHANGED <<acl_def, hash_table, switch_table>>
    [] s.op = "set_hash" ->
         /\ \E some \in SUBSET s.fields :
              hash_table' = [f \in HashFields |-> IF f \in some
                                                  THEN target.hash[f] ELSE hash_table[f]]
         /\ UNCHANGED <<acl_def, acl_entries, switch_table>>
    [] s.op = "delete_hash" ->
         /\ \E some \in SUBSET s.fields :
              hash_table' = [f \in HashFields |-> IF f \in some
                                                  THEN None ELSE hash_table[f]]
         /\ UNCHANGED <<acl_def, acl_entries, switch_table>>
    [] OTHER -> UNCHANGED hardware

Return == pc' = "idle" /\ target' = None /\ steps' = <<>>

\* Nothing is rolled back, and the software state stays that of the old config.
FailStep ==
  /\ steps # <<>>
  /\ StepFails(Head(steps))
  /\ critical' = TRUE
  /\ Return
  /\ UNCHANGED <<software, save_failed, history>>

InHardware == [t \in AclTables |-> acl_entries[t]["original"]]

\* RebuildEntityEntryCache reads every P4RT entry and translates it with the
\* P4Info; an entry of a table it does not define is an error.
CanRebuildEntityEntryCache(p) ==
  \A t \in AclTables :
    /\ acl_entries[t]["duplicate"] = {}
    /\ p.acl[t] = None => acl_entries[t]["original"] = {}

\* All steps done: the new config takes effect and is saved to disk; VERIFY_-
\* AND_COMMIT also rebuilds the cache.
CommitPipelineConfig ==
  /\ pc # "idle"
  /\ steps = <<>>
  /\ ir_p4info' = target
  /\ saved_config' = target
  /\ IF pc # "VERIFY_AND_COMMIT"
     THEN configured' = TRUE /\ UNCHANGED <<entity_cache, critical>>
     ELSE IF CanRebuildEntityEntryCache(target)
     THEN configured' = TRUE /\ entity_cache' = InHardware /\ UNCHANGED critical
     ELSE critical' = TRUE /\ UNCHANGED <<entity_cache, configured>>
  /\ Return
  /\ UNCHANGED <<hardware, save_failed, history>>

\* The file cannot be written: an error, but the config has taken effect.
CommitWithoutSaving ==
  /\ pc # "idle"
  /\ steps = <<>>
  /\ ir_p4info' = target
  /\ save_failed' = TRUE
  /\ Return
  /\ UNCHANGED <<entity_cache, saved_config, configured, hardware, critical, history>>

-----------------------------------------------------------------------------
(* Writes of ACL entries, and warm restarts.                               *)

\* Writes that succeed (module P4RuntimeWrite has the others): the entry is
\* not, or is, in the cache, and OrchAgent has done as asked.
InsertEntry(t, e) ==
  /\ pc = "idle"
  /\ ir_p4info # None /\ ir_p4info.acl[t] # None
  /\ e \notin entity_cache[t]
  /\ acl_def[t]["original"] # None
  /\ entity_cache' = [entity_cache EXCEPT ![t] = @ \cup {e}]
  /\ acl_entries' = [acl_entries EXCEPT ![t]["original"] = @ \cup {e}]
  /\ acknowledged' = [acknowledged EXCEPT ![t] = @ \cup {e}]
  /\ UNCHANGED <<ir_p4info, saved_config, configured, acl_def, hash_table,
                 switch_table, pc, target, steps, critical, save_failed,
                 interrupted>>

DeleteEntry(t, e) ==
  /\ pc = "idle"
  /\ ir_p4info # None /\ ir_p4info.acl[t] # None
  /\ e \in entity_cache[t]
  /\ e \in acl_entries[t]["original"]
  /\ entity_cache' = [entity_cache EXCEPT ![t] = @ \ {e}]
  /\ acl_entries' = [acl_entries EXCEPT ![t]["original"] = @ \ {e}]
  /\ acknowledged' = [acknowledged EXCEPT ![t] = @ \ {e}]
  /\ UNCHANGED <<ir_p4info, saved_config, configured, acl_def, hash_table,
                 switch_table, pc, target, steps, critical, save_failed,
                 interrupted>>

\* The process is replaced while the hardware keeps forwarding, between two
\* requests or in the middle of a transition, for nothing waits for its end.
\* RebuildSwStateAfterWarmboot runs: nothing to do if no config had been
\* pushed, an error without a saved config or with an entry it does not
\* explain.  The server starts serving in any case.
WarmRestart ==
  /\ LET found == configured /\ saved_config # None
     IN  /\ ir_p4info' = IF found THEN saved_config ELSE None
         /\ entity_cache' = IF found /\ CanRebuildEntityEntryCache(saved_config)
                            THEN InHardware ELSE [t \in AclTables |-> {}]
  /\ interrupted' = (interrupted \/ pc # "idle")
  /\ Return
  /\ UNCHANGED <<saved_config, configured, hardware, critical, save_failed,
                 acknowledged>>

-----------------------------------------------------------------------------
Next ==
  \/ \E p \in P4Infos : ReconcileAndCommit(p) \/ VerifyAndCommit(p)
  \/ Commit
  \/ PerformStep
  \/ FailStep
  \/ CommitPipelineConfig
  \/ CommitWithoutSaving
  \/ \E t \in AclTables : \E e \in Entries[t] : InsertEntry(t, e) \/ DeleteEntry(t, e)
  \/ WarmRestart

Spec == Init /\ [][Next]_vars

-----------------------------------------------------------------------------
(* Properties.                                                             *)

\* However many configs were applied one after the other, with entries
\* written and warm restarts in between: the ACL tables and hash settings of
\* the switch are those of the config, its entries those of the cache, and
\* nothing is left of the duplicates.  Excepted are transitions that OrchAgent
\* refused or a restart cut short, and configs that could not be saved for a
\* restart.
ConfigMatchesSwitch ==
  pc = "idle" /\ ~critical /\ ~save_failed /\ ~interrupted =>
    /\ \A t \in AclTables :
         /\ acl_def[t]["original"] = IF ir_p4info = None THEN None ELSE ir_p4info.acl[t]
         /\ acl_def[t]["duplicate"] = None
         /\ acl_entries[t]["original"] = entity_cache[t]
         /\ acl_entries[t]["duplicate"] = {}
    /\ \A f \in HashFields :
         /\ hash_table[f] = IF ir_p4info = None THEN None ELSE ir_p4info.hash[f]
         /\ hash_table[f] # None => f \in switch_table

\* At every moment, in the middle of a transition, after one that OrchAgent
\* refused at any step and after one that a restart cut short: what is cached
\* for an essential ACL table of the config, and what a controller has written
\* there and not deleted, is in force, in the table or in its duplicate.
EssentialEntriesInForce ==
  ir_p4info # None =>
    \A t \in Tables(ir_p4info) \ Nonessential :
      entity_cache[t] \cup acknowledged[t] \subseteq UNION {acl_entries[t][c] : c \in Copies}
=============================================================================
