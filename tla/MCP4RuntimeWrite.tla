-------------------------- MODULE MCP4RuntimeWrite --------------------------
(* Instances of P4RuntimeWrite, and of WarmRestart: entries of the table   *)
(* with the action profile, and of tables that travel through Redis.       *)
EXTENDS WarmRestart

MCTable == [g1 |-> "P4RT", g2 |-> "P4RT", vrf |-> "VRF", vlan |-> "VLAN_MEMBER"]
MCKeys == DOMAIN MCTable
MCGroupKeys == {"g1", "g2"}

\* A group of one member of weight 2, and one of members of weight 1 and 2.
One == <<2>>
Two == <<1, 2>>
MCValues == {One, Two}

\* A group with too many members, and one with a member that is too heavy.
LimitValues == MCValues \cup {<<1, 1, 1>>, <<3>>}

Insert(k, v) == [type |-> "INSERT", key |-> k, value |-> v]
Modify(k, v) == [type |-> "MODIFY", key |-> k, value |-> v]
Delete(k) == [type |-> "DELETE", key |-> k, value |-> Absent]

\* Groups that grow and shrink, between and around an entry of another table.
MixedUpdates ==
  {Insert("g1", One), Modify("g1", Two), Delete("g1"), Insert("g2", One),
   Insert("vrf", One)}

\* Every update of the groups.
GroupUpdates == {u \in Updates : u.key \in MCGroupKeys}

\* Just enough for a stale answer to be taken for the awaited one.
RetryUpdates ==
  {Insert("g1", One), Modify("g1", Two), Delete("g1"),
   Insert("vlan", One), Delete("vlan")}
=============================================================================
