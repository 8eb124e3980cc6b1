---------------------------- MODULE MCSequencing ----------------------------
(***************************************************************************)
(* Calls of the sequencing library for a program shaped after sai_p4: a    *)
(* neighbor refers to its router interface, a nexthop to its neighbor with *)
(* two parameters at once, a route to a nexthop or a multicast group, a    *)
(* group's replicas to a rewrite entry, and an ACL entry to a router       *)
(* interface, by an optional field, by a parameter, or by both, or to any  *)
(* neighbor of an id: to a part of its key.                                *)
(***************************************************************************)
EXTENDS P4RuntimeRequests

Field(optional, refers_to, referenced_by) ==
  [optional |-> optional, refers_to |-> refers_to, referenced_by |-> referenced_by]
Plain == Field(FALSE, {}, {})
Table(fields, actions) == [fields |-> fields, actions |-> actions, default_only |-> {}]

MCInfo ==
  [tables |->
     [rif |-> Table([rif |-> Plain], {"drop"}),
      neighbor |-> Table([rif |-> Field(FALSE, {<<"rif", "rif">>}, {}), id |-> Plain], {"drop"}),
      nexthop |-> Table([id |-> Plain], {"set_neighbor"}),
      route |-> Table([dst |-> Plain], {"set_nexthop", "set_group", "drop"}),
      rewrite |-> Table([port |-> Field(FALSE, {}, {<<MulticastTable, "port">>}),
                         instance |-> Field(FALSE, {}, {<<MulticastTable, "instance">>})], {"drop"}),
      acl |-> Table([rif |-> Field(TRUE, {<<"rif", "rif">>}, {}), dst |-> Plain],
                    {"drop", "set_nexthop", "set_rif", "set_id"}),
      multicast_group_table |-> Table([multicast_group_id |-> Plain], {Replica})],
   actions |->
     [drop |-> [p \in {} |-> {}],
      set_neighbor |-> [rif |-> {<<"neighbor", "rif">>, <<"rif", "rif">>}, id |-> {<<"neighbor", "id">>}],
      set_nexthop |-> [nexthop |-> {<<"nexthop", "id">>}],
      set_rif |-> [rif |-> {<<"rif", "rif">>}],
      set_id |-> [id |-> {<<"neighbor", "id">>}],
      set_group |-> [group |-> {<<MulticastTable, "multicast_group_id">>}]]]

Entity(table, matches, actions) ==
  [table |-> table, priority |-> 0, matches |-> matches, actions |-> actions]
Act(name, params) == [name |-> name, params |-> params]
Drop == Act("drop", <<>>)
SetNexthop == Act("set_nexthop", [nexthop |-> 1])
SetRif == Act("set_rif", [rif |-> 1])
SetId == Act("set_id", [id |-> 1])

TableEntities ==
  {Entity("rif", [rif |-> r], <<Drop>>) : r \in 1..2}
  \cup {Entity("neighbor", [rif |-> r, id |-> 1], <<Drop>>) : r \in 1..2}
  \cup {Entity("nexthop", [id |-> 1], <<Act("set_neighbor", [rif |-> r, id |-> 1])>>) : r \in 1..2}
  \cup {Entity("route", [dst |-> 1], s) : s \in {<<SetNexthop>>, <<Drop, SetNexthop>>, <<>>}}
  \cup {Entity("acl", [dst |-> 1], <<a>>) : a \in {Drop, SetRif, SetId}}
  \cup {Entity("acl", [rif |-> 1, dst |-> 1], <<a>>) : a \in {Drop, SetNexthop, SetRif}}

MulticastEntities ==
  {Entity("route", [dst |-> 1], <<Act("set_group", [group |-> 1])>>)}
  \cup {Entity("rewrite", [port |-> p, instance |-> 1], <<Drop>>) : p \in 1..2}
  \cup {Entity(MulticastTable, [multicast_group_id |-> 1],
               [j \in 1..n |-> Act(Replica, [port |-> j, instance |-> 1])]) : n \in 0..2}

UpTo(n, S) == {T \in UNION {kSubset(k, S) : k \in 0..n} : OnePerKey(T)}

\* What requests write, no ACL entry that drops among it, and what a switch
\* holds.
MCWritable ==
  {e \in TableEntities : e.table = "acl" => e.actions # <<Drop>>}
  \cup {Entity(MulticastTable, [multicast_group_id |-> 1], <<>>)}
MCEntitySets ==
  UpTo(4, TableEntities) \cup UpTo(5, MulticastEntities \cup {Entity("rif", [rif |-> 1], <<Drop>>)})

Consistent == {S \in UpTo(4, TableEntities) : Dangling(S) = {}}

Unlimited == 12   \* RPCs: more than any call makes here

\* A switch that holds some entities and goes down after some RPCs.
Config(version) == [tables |-> DOMAIN Info.tables, version |-> version, references |-> TableReferences]
CounterStates == {<<>>, [data |-> <<0, 0>>], [data |-> <<0, 1>>, red |-> <<0, 0>>], [green |-> <<1, 1>>]}
Switch(S, config, rpcs, counters) ==
  [held |-> S, config |-> config, rpcs_left |-> rpcs, counters |-> [e \in S |-> counters], requests |-> <<>>]

\* Nothing, or entities that refer to one another.
HeldSets ==
  {{}} \cup {S \in Consistent : Cardinality(S) = 4 /\ \E e \in S : e.table = "nexthop"}
       \cup {T \in UpTo(4, MulticastEntities) : Cardinality(T) = 4 /\ Dangling(T) = {}}

CallSession ==
  \E S \in HeldSets, config \in {NoConfig, Config(0), Config(1)}, rpcs \in {0, 1, 2, 3, 5, Unlimited} :
    /\ config = NoConfig => S = {}
    /\ \/ \E function \in {"clear", "install", "delete", "push"}, max \in {2, 5} :
            call' = [op |-> "session", function |-> function, max |-> max,
                     switch |-> Switch(S, config, rpcs, <<>>)]
       \/ call' = [op |-> "session", function |-> "clear_tables", max |-> 2,
                   switch |-> Switch(S, config, rpcs, <<>>)]
       \/ \E function \in {"clear_counters", "config"}, counters \in CounterStates :
            call' = [op |-> "session", function |-> function, max |-> 5,
                     switch |-> Switch(S, config, rpcs, counters)]

-----------------------------------------------------------------------------
(* Properties.                                                             *)

\* ExtractWriteRequests cuts what is in order into requests and changes
\* nothing else.
SortedUpdatesAreCut(called) ==
  called.op = "sort" =>
    LET s == StableSortEntities(Ranks, SetToSeq(called.entities))
    IN \A n \in 1..3 : LET cut == ExtractWriteRequests(s, n)
                      IN /\ cut.ok /\ FlattenSeq(cut.requests) = s
                         /\ \A r \in Range(cut.requests) : Len(r) <= n

\* What a session's call came to, and what is so if it succeeded.
SessionCall(function, switch, max) ==
  LET entities == SetToSeq(switch.held)
      is(r, goal) == [ok |-> r.ok, goal |-> goal, requests |-> r.switch.requests]
  IN CASE function = "clear" ->
            LET r == ClearEntities(switch, Ranks, max) IN is(r, r.switch.held = {})
       [] function = "clear_tables" ->
            LET r == ClearTableEntriesOf(switch, Info, max)
            IN is(r, \A e \in r.switch.held : e.table = MulticastTable)
       [] function = "install" ->
            LET r == InstallPiEntities([switch EXCEPT !.held = {}], Ranks, entities, max)
            IN is(r, r.switch.held = switch.held /\ switch.config # NoConfig)
       [] function = "delete" ->
            LET r == DeletePiEntities(switch, Reverse(StableSortEntities(Ranks, entities)), max)
            IN is(r, r.switch.held = {})
       [] function = "clear_counters" ->
            LET r == ClearTableEntryCounters(switch)
            IN is(r, \A e \in switch.held :
                       e.table = MulticastTable \/ ~HasCounted(r.switch.counters[e]))
       [] function = "config" ->
            LET r == GetOrSetP4Info(switch, Config(1))
                read(e) == ReadPiCounterData(r.switch, EntityKey(e))
            IN is(r, /\ r.switch.config.tables # {} /\ r.switch.held = switch.held
                     /\ \A e \in switch.held : read(e).ok => read(e).value = switch.counters[e])
       [] function = "push" ->
            LET r == PushConfigToClearedSwitch(switch, Ranks, Config(1), max)
            IN is(r, r.switch.config = Config(1) /\ r.switch.held = {})

\* A session's requests to a switch that may go down between any two RPCs.
\* If it stays up they all succeed: nothing is installed before or deleted
\* after what it refers to, in whatever requests.  Success means that it is
\* done: nothing is left, everything is installed, every counter is zero, the
\* config is there.  Batches are as large as allowed, one more without
\* fail-on-first.
SessionCallsSucceed(called) ==
  called.op = "session" =>
    LET switch == called.switch
        r == SessionCall(called.function, switch, called.max)
        isRefused == \/ called.function = "install" /\ switch.config = NoConfig
                     \/ called.function = "clear_tables" /\ \E e \in switch.held : e.table = MulticastTable
        extra == IF switch.config.version < kFailOnFirst /\ called.function \in {"clear", "push"} THEN 1 ELSE 0
    IN /\ r.ok => r.goal
       /\ switch.rpcs_left = Unlimited /\ ~isRefused => r.ok
       /\ \A q \in Range(r.requests) : Len(q) <= called.max + extra

\* What a session sends: entities and updates in the order of their ranks, cut
\* into requests none of which is refused while the switch is up.
RequestsAreTaken == [][SortedUpdatesAreCut(call') /\ SessionCallsSucceed(call')]_call
=============================================================================
