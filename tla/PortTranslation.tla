-------------------------- MODULE PortTranslation --------------------------
(***************************************************************************)
(* The port ids the controller uses, from CONFIG_DB to the entries:        *)
(*                                                                         *)
(*   CONFIG_DB -> StateEventMonitor -> ConfigDbPortTableEventHandler       *)
(*             -> Add/RemovePortTranslation -> port_translation_map_       *)
(*             -> P4RT_PORT_ID_TABLE of AppDb and AppStateDb               *)
(*                                                                         *)
(* The event thread pops every pending event at once, the values as they   *)
(* are then, and takes server_state_lock_ for one event at a time: RPCs    *)
(* and further CONFIG_DB writes come in between.  Entries are cached under *)
(* port ids and stored in the P4RT table under port names, so an id that   *)
(* moves to another port separates the two.  A warm restart rebuilds the   *)
(* map from CONFIG_DB and the cache from the P4RT table.                   *)
(*                                                                         *)
(* An entry is identified by the port it matches on: entity_cache is a set *)
(* of ids, p4rt_table a set of names.                                      *)
(***************************************************************************)
EXTENDS IrTranslation, FiniteSets

CONSTANTS
  Ports,      \* SONiC port names
  Ids,        \* the ids CONFIG_DB may give them
  NoId,       \* a port with no row in CONFIG_DB
  MaxWrites,  \* bound: writes to CONFIG_DB
  MaxCrashes  \* bound: restarts

ASSUME PortConstants ==
  /\ IsFiniteSet(Ports)
  /\ NoId \notin Ids
  /\ MaxWrites \in Nat
  /\ MaxCrashes \in Nat

VARIABLES
  config_db,             \* [Ports -> Ids \cup {NoId}]
  events,                \* keyspace events the subscriber has not popped
  popped,                \* events popped and not handled, with their values
  port_translation_map,  \* port_translation_map_
  port_table,            \* P4RT_PORT_ID_TABLE: [app_db, app_state_db]
  entity_cache,          \* ids of the cached entries
  p4rt_table,            \* port names of the entries in AppDb
  up,                    \* the process runs
  writes, crashes,       \* counters for the bounds
  rejected,              \* history: an event was rejected
  raced,                 \* history: CONFIG_DB written with events unhandled
  moved,                 \* history: ids that lost their port while cached
  left_behind            \* history: rows no event will remove

processVars == <<events, popped, port_translation_map, entity_cache, up>>
historyVars == <<writes, crashes, rejected, raced, moved, left_behind>>
vars == <<config_db, port_table, p4rt_table, processVars, historyVars>>

NoTranslations == [p \in {} |-> NoId]

ConfigIds(db) == [p \in {q \in Ports : db[q] # NoId} |-> db[p]]

Settled == up /\ events = <<>> /\ popped = <<>>

Init ==
  /\ config_db = [p \in Ports |-> NoId]
  /\ events = <<>>
  /\ popped = <<>>
  /\ port_translation_map = NoTranslations
  /\ port_table = [app_db |-> NoTranslations, app_state_db |-> NoTranslations]
  /\ entity_cache = {}
  /\ p4rt_table = {}
  /\ up = TRUE
  /\ writes = 0
  /\ crashes = 0
  /\ rejected = FALSE
  /\ raced = FALSE
  /\ moved = {}
  /\ left_behind = {}

-----------------------------------------------------------------------------
(* CONFIG_DB and the subscriber.                                           *)

\* Another process writes a row.  It never gives two ports one id.
WriteConfigDb(p, id) ==
  /\ writes < MaxWrites
  /\ config_db[p] # id
  /\ \A q \in Ports : config_db[q] = id => id = NoId
  /\ config_db' = [config_db EXCEPT ![p] = id]
  /\ events' = IF up THEN Append(events, [key |-> p, del |-> id = NoId]) ELSE events
  /\ writes' = writes + 1
  /\ raced' = (raced \/ ~Settled)
  /\ UNCHANGED <<popped, port_translation_map, port_table, entity_cache, p4rt_table, up,
                 crashes, rejected, moved, left_behind>>

\* A DEL carries no value.  A SET reads the row now.
EventValue(event) == [key |-> event.key, id |-> IF event.del THEN NoId ELSE config_db[event.key]]

\* The places of the events the pop delivers: a SET is dropped when the row is
\* gone by now.
Deliverable == {i \in DOMAIN events : events[i].del \/ config_db[events[i].key] # NoId}

\* A finite set of numbers in ascending order: the j-th is the one with j up
\* to it.
InOrder(S) ==
  [j \in 1..Cardinality(S) |-> CHOOSE i \in S : Cardinality({k \in S : k <= i}) = j]

\* Mutation: the pop delivers one event and clears the rest.
PopFirstEvent ==
  /\ up
  /\ popped = <<>>
  /\ events # <<>>
  /\ popped' = <<EventValue(Head(events))>>
  /\ events' = <<>>
  /\ UNCHANGED <<config_db, port_translation_map, port_table, entity_cache, p4rt_table, up,
                 historyVars>>

PopEvents ==
  /\ up
  /\ popped = <<>>
  /\ events # <<>>
  /\ LET kept == InOrder(Deliverable)
     IN popped' = [j \in DOMAIN kept |-> EventValue(events[kept[j]])]
  /\ events' = <<>>
  /\ UNCHANGED <<config_db, port_translation_map, port_table, entity_cache, p4rt_table, up,
                 historyVars>>

-----------------------------------------------------------------------------
(* The handler.                                                            *)

\* The ids that lose their port when the map becomes new_map.
LostIds(new_map) == {i \in entity_cache \cap Range(port_translation_map) :
                       TranslatePort("kForOrchAgent", new_map, i)
                         # TranslatePort("kForOrchAgent", port_translation_map, i)}

\* Mutation: only AppDb is written.
SetAppDbOnly(p, id) ==
  [port_table EXCEPT !.app_db =
     [q \in DOMAIN @ \cup {p} |-> IF q = p THEN id ELSE @[q]]]

SetPortTable(p, id) ==
  [db \in DOMAIN port_table |->
     [q \in DOMAIN port_table[db] \cup {p} |-> IF q = p THEN id ELSE port_table[db][q]]]

RemovePortTranslation(p) ==
  LET new_map == BimapErase(port_translation_map, p)
  IN /\ port_translation_map' = new_map
     /\ port_table' = [db \in DOMAIN port_table |-> BimapErase(port_table[db], p)]
     /\ moved' = moved \cup LostIds(new_map)
     /\ left_behind' = left_behind \ {p}
     /\ UNCHANGED rejected

\* Mutation: a port that has an id keeps it.
AddIfNameIsNew(p, id) ==
  /\ port_translation_map' = BimapInsert(port_translation_map, p, id)
  /\ port_table' = SetPortTable(p, id)
  /\ left_behind' = left_behind \ {p}
  /\ UNCHANGED <<moved, rejected>>

\* The id belongs to this port already, to another one, or to none.
AddPortTranslation(p, id) ==
  LET same == p \in DOMAIN port_translation_map /\ port_translation_map[p] = id
      new_map == BimapInsert(BimapErase(port_translation_map, p), p, id)
  IN \/ /\ same
        /\ port_table' = SetPortTable(p, id)
        /\ left_behind' = left_behind \ {p}
        /\ UNCHANGED <<port_translation_map, moved, rejected>>
     \/ /\ ~same
        /\ id \in Range(port_translation_map)
        /\ rejected' = TRUE
        /\ UNCHANGED <<port_translation_map, port_table, moved, left_behind>>
     \/ /\ ~same
        /\ id \notin Range(port_translation_map)
        /\ port_translation_map' = new_map
        /\ port_table' = SetPortTable(p, id)
        /\ moved' = moved \cup LostIds(new_map)
        /\ left_behind' = left_behind \ {p}
        /\ UNCHANGED rejected

\* A status that is not OK is logged; the event is gone either way.
HandleEvent ==
  /\ up
  /\ popped # <<>>
  /\ LET event == Head(popped)
     IN IF event.id = NoId THEN RemovePortTranslation(event.key)
                           ELSE AddPortTranslation(event.key, event.id)
  /\ popped' = Tail(popped)
  /\ UNCHANGED <<config_db, events, entity_cache, p4rt_table, up, writes, crashes, raced>>

-----------------------------------------------------------------------------
(* Entries.  A Write of one update that OrchAgent answers at once: the     *)
(* rest of Write is P4RuntimeWrite's.                                      *)

InsertEntry(id) ==
  LET name == TranslatePort("kForOrchAgent", port_translation_map, id)
  IN /\ up
     /\ id \notin entity_cache
     /\ name.ok
     /\ entity_cache' = entity_cache \cup {id}
     /\ p4rt_table' = p4rt_table \cup {name.value}
     /\ UNCHANGED <<config_db, events, popped, port_translation_map, port_table, up, historyVars>>

\* OrchAgent refuses to delete a key it does not have.
DeleteEntry(id) ==
  LET name == TranslatePort("kForOrchAgent", port_translation_map, id)
  IN /\ up
     /\ id \in entity_cache
     /\ name.ok
     /\ name.value \in p4rt_table
     /\ entity_cache' = entity_cache \ {id}
     /\ p4rt_table' = p4rt_table \ {name.value}
     /\ UNCHANGED <<config_db, events, popped, port_translation_map, port_table, up, historyVars>>

-----------------------------------------------------------------------------
(* Warm restart.                                                           *)

Crash ==
  /\ up
  /\ crashes < MaxCrashes
  /\ crashes' = crashes + 1
  /\ up' = FALSE
  /\ events' = <<>>
  /\ popped' = <<>>
  /\ port_translation_map' = NoTranslations
  /\ entity_cache' = {}
  /\ UNCHANGED <<config_db, port_table, p4rt_table, writes, rejected, raced, moved, left_behind>>

\* Mutation: the cache is not rebuilt.
BootWithoutCache ==
  LET new_map == ConfigIds(config_db)
      rows == SetToSeq(DOMAIN new_map)
  IN /\ ~up
     /\ up' = TRUE
     /\ port_translation_map' = new_map
     /\ events' = [j \in DOMAIN rows |-> [key |-> rows[j], del |-> FALSE]]
     /\ rejected' = FALSE
     /\ raced' = FALSE
     /\ moved' = {}
     /\ left_behind' = DOMAIN port_table.app_db \ DOMAIN new_map
     /\ UNCHANGED <<config_db, port_table, p4rt_table, popped, entity_cache, writes, crashes>>

\* RebuildSwStateAfterWarmboot: the map without touching the databases, then
\* the cache, which stays empty when a row cannot be translated.  A new
\* subscriber starts with one SET for each row.
Boot ==
  LET new_map == ConfigIds(config_db)
      rows == SetToSeq(DOMAIN new_map)
      cached == {TranslatePort("kForController", new_map, name) : name \in p4rt_table}
  IN /\ ~up
     /\ up' = TRUE
     /\ port_translation_map' = new_map
     /\ entity_cache' = IF \A c \in cached : c.ok THEN {c.value : c \in cached} ELSE {}
     /\ events' = [j \in DOMAIN rows |-> [key |-> rows[j], del |-> FALSE]]
     /\ rejected' = FALSE
     /\ raced' = FALSE
     /\ moved' = IF \A c \in cached : c.ok THEN {} ELSE Ids
     /\ left_behind' = DOMAIN port_table.app_db \ DOMAIN new_map
     /\ UNCHANGED <<config_db, port_table, p4rt_table, popped, writes, crashes>>

Next ==
  \/ \E p \in Ports, id \in Ids \cup {NoId} : WriteConfigDb(p, id)
  \/ PopEvents
  \/ HandleEvent
  \/ \E id \in Ids : InsertEntry(id) \/ DeleteEntry(id)
  \/ Crash
  \/ Boot

\* The event thread never stops, and a dead process is started again.
Fairness == WF_vars(PopEvents) /\ WF_vars(HandleEvent) /\ WF_vars(Boot)

Spec == Init /\ [][Next]_vars /\ Fairness

-----------------------------------------------------------------------------
(* What VerifyState and Read find.                                         *)

\* GetIrEntitiesFromCache translates every cached entry, and
\* VerifyP4rtTableWithCacheEntities compares the result with the P4RT table.
VerifyStateOk ==
  LET translated == {TranslatePort("kForOrchAgent", port_translation_map, i) : i \in entity_cache}
  IN translated = {Ok(name) : name \in p4rt_table}

-----------------------------------------------------------------------------
(* Properties.                                                             *)

\* Once every event is handled, and if none was rejected, the controller's
\* ids are those of CONFIG_DB: a late value, read at the pop, is never lost.
\* CONFIG_DB never gives two ports one id, so "Port ID is already in use" can
\* only be met when CONFIG_DB is written again before the events of the last
\* write are handled, or before the first events after a restart are.
SettledMapMatchesConfig ==
  /\ Settled /\ ~rejected => port_translation_map = ConfigIds(config_db)
  /\ rejected => raced

\* Once every event is handled, and if none was rejected, P4RT_PORT_ID_TABLE
\* (which sFlow reads) holds the translations in use, in both databases, and
\* the only other rows are those of ports that were removed from CONFIG_DB
\* while the process was down: nobody deletes them.
PortTableFollowsMap ==
  Settled /\ ~rejected =>
    \A db \in DOMAIN port_table :
      /\ \A p \in DOMAIN port_translation_map :
           p \in DOMAIN port_table[db] /\ port_table[db][p] = port_translation_map[p]
      /\ DOMAIN port_table[db] \subseteq DOMAIN port_translation_map \cup left_behind

\* As long as no id of a cached entry has lost its port, state verification
\* finds the P4RT table and the cache in agreement, whatever events are
\* pending, and after a restart that could translate every row.
EntriesKeepTheirMeaning == up /\ moved = {} => VerifyStateOk

\* The ids in use end up being those of CONFIG_DB, or an event was rejected.
EventuallyFollowsConfig ==
  <>[](up /\ (rejected \/ port_translation_map = ConfigIds(config_db)))
=============================================================================
