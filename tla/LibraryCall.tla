---------------------------- MODULE LibraryCall ----------------------------
(* A caller of the pure libraries: it makes one call and comes back.       *)

VARIABLE call

Idle == [op |-> "idle"]

Return == call # Idle /\ call' = Idle
=============================================================================
