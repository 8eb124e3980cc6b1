--------------------------- MODULE PrimaryElection ---------------------------
(***************************************************************************)
(* What arbitration promises, without connections, streams or messages:    *)
(* every role has an epoch that never decreases and at most one primary;   *)
(* only a primary mutates the switch, and it does so under the epoch of    *)
(* its role.                                                               *)
(***************************************************************************)
EXTENDS Naturals

CONSTANTS Connections, Roles, ElectionIds, None

VARIABLES
  epoch,    \* by role, the highest election id accepted so far
  primary,  \* by role, the primary connection, or None
  mutation  \* by role, the epoch of the last mutation

vars == <<epoch, primary, mutation>>

Init ==
  /\ epoch = [r \in Roles |-> None]
  /\ primary = [r \in Roles |-> None]
  /\ mutation = [r \in Roles |-> None]

\* A connection takes over the role, or renews its hold on it.
Elect(r, c, e) ==
  /\ epoch[r] = None \/ e >= epoch[r]
  /\ epoch' = [epoch EXCEPT ![r] = e]
  /\ primary' = [primary EXCEPT ![r] = c]
  /\ UNCHANGED mutation

\* The primary disconnects or withdraws; the epoch stays.
StepDown(r) ==
  /\ primary[r] # None
  /\ primary' = [primary EXCEPT ![r] = None]
  /\ UNCHANGED <<epoch, mutation>>

Mutate(r) ==
  /\ primary[r] # None
  /\ mutation' = [mutation EXCEPT ![r] = epoch[r]]
  /\ UNCHANGED <<epoch, primary>>

Next ==
  \E r \in Roles :
    \/ \E c \in Connections, e \in ElectionIds : Elect(r, c, e)
    \/ StepDown(r)
    \/ Mutate(r)

Spec == Init /\ [][Next]_vars
=============================================================================
