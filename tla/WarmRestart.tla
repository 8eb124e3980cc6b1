---------------------------- MODULE WarmRestart ----------------------------
(***************************************************************************)
(* Writes with warm restarts in between: P4RuntimeImpl is a new process,   *)
(* its state is rebuilt by RebuildSwStateAfterWarmboot from the databases  *)
(* and the saved pipeline config, and the hardware has kept forwarding.    *)
(* The entries are all of the saved config's tables; module PipelineConfig *)
(* has the restarts with another one.                                      *)
(***************************************************************************)
EXTENDS P4RuntimeWrite

\* Mutation: the tables that travel through Redis are forgotten.
RebuildP4rtTableOnly ==
  [k \in Keys |-> IF Table[k] = "P4RT" THEN app_db[k] ELSE Absent]

\* Every entry of APPL_DB, of all four tables, translated back.
RebuildEntityEntryCache == app_db

\* GetActionProfileResourceCapacity, for each action profile of the config.
InitialCapacity == [total_weight |-> 0, total_members |-> 0]

\* No Write is in progress when the process goes, and OrchAgent has handled
\* all it was sent; answers nobody read go with the old process's channels.
RebuildSwStateAfterWarmboot ==
  /\ pc = "idle"
  /\ \A t \in Tables : requests[t] = <<>>
  /\ entity_cache' = RebuildEntityEntryCache
  /\ utilization' = InitialCapacity
  /\ responses' = [t \in Tables |-> <<>>]
  /\ statuses' = <<>>
  /\ UNCHANGED <<app_db, app_state_db, pc, batch, accepted, done, requests,
                 critical>>

RestartNext == Next \/ RebuildSwStateAfterWarmboot

RestartSpec == Init /\ [][RestartNext]_vars

-----------------------------------------------------------------------------
(* The abstract specification Write implements, restarts included.         *)

Sequential == INSTANCE SequentialWrite
                WITH entries  <- entity_cache,
                     hardware <- app_state_db,
                     request  <- batch,
                     response <- IF pc = "idle" THEN statuses ELSE <<>>,
                     broken   <- critical

-----------------------------------------------------------------------------
(* Properties.                                                             *)

\* To a controller Write is SequentialWrite: behind the chunks, the channels
\* and the two databases the updates are made in order, where they may be and
\* as far as the response says, and what Read returns afterwards is what the
\* hardware holds, before and after a restart.
ImplementsSequentialWrite == Sequential!Spec

\* A restart is not visible to a controller that reads back its entries: the
\* cache it is answered from is the one of before, whichever tables they are
\* in and whatever was refused on the way.  A response path that broke is the
\* exception; there the restart may repair the cache.
RestartKeepsEntries ==
  [][~critical /\ pc = "idle" /\ pc' = "idle" => entity_cache' = entity_cache]_vars

\* What the comment in RebuildSwStateAfterWarmboot says of the accounts of the
\* action profiles: "Restore [...] capacity_by_action_profile_name_".
RestartKeepsUtilization ==
  [][~critical /\ pc = "idle" /\ pc' = "idle" => utilization' = utilization]_vars
=============================================================================
