--------------------------- MODULE SequentialWrite ---------------------------
(***************************************************************************)
(* What Write promises a controller, without databases, chunks, channels   *)
(* or another process: requests are taken one at a time; their updates are *)
(* made one after the other, each where it may be, up to the first that    *)
(* fails; the response says how far that was, and what Read returns is     *)
(* then what the hardware holds.  A warm restart changes none of it.  Once *)
(* Write has reported that its response path broke nothing is promised.    *)
(***************************************************************************)
EXTENDS Naturals, Sequences

CONSTANTS Keys, Absent, Batches, Codes

VARIABLES
  entries,   \* what Read returns
  hardware,  \* what the switch holds
  request,   \* the updates of the request in progress, or none
  response,  \* the statuses of the last request
  broken     \* nothing is promised any more

vars == <<entries, hardware, request, response, broken>>

Init ==
  /\ entries = [k \in Keys |-> Absent]
  /\ hardware = entries
  /\ request = <<>>
  /\ response = <<>>
  /\ broken = FALSE

\* The first n updates may be made: an INSERT of what is not there, a MODIFY
\* or DELETE of what is, and no key twice.
MayMake(n) ==
  \A i \in 1..n : /\ request[i].type = "INSERT" <=> entries[request[i].key] = Absent
                  /\ \A j \in 1..(i - 1) : request[j].key # request[i].key

\* The entries once the first n updates are made.
Made(n) ==
  [k \in Keys |-> IF \E i \in 1..n : request[i].key = k
                  THEN request[CHOOSE i \in 1..n : request[i].key = k].value
                  ELSE entries[k]]

Begin ==
  /\ request = <<>>
  /\ request' \in Batches
  /\ response' = <<>>
  /\ UNCHANGED <<entries, hardware, broken>>

\* The hardware gets further with the request, never back.
Program ==
  /\ \E n \in 0..Len(request) : \E m \in 0..n :
       MayMake(n) /\ hardware = Made(m) /\ hardware' = Made(n)
  /\ UNCHANGED <<entries, request, response, broken>>

\* The response: the updates that were made, one error, then ABORTED.
Answer ==
  /\ request # <<>>
  /\ \E n \in 0..Len(request) :
       /\ MayMake(n) /\ hardware = Made(n)
       /\ response' \in [1..Len(request) -> Codes]
       /\ \A i \in 1..Len(request) : /\ i <= n <=> response'[i] = "OK"
                                     /\ i > n + 1 <=> response'[i] = "ABORTED"
  /\ entries' = hardware
  /\ request' = <<>>
  /\ UNCHANGED <<hardware, broken>>

\* The last response goes with the process that gave it.
Restart ==
  /\ request = <<>>
  /\ response' = <<>>
  /\ UNCHANGED <<entries, hardware, request, broken>>

Break ==
  /\ request # <<>>
  /\ broken' = TRUE
  /\ request' = <<>>
  /\ response' = <<>>
  /\ UNCHANGED <<entries, hardware>>

Next ==
  \/ ~broken /\ (Begin \/ Program \/ Answer \/ Restart \/ Break)
  \/ broken /\ broken'

Spec == Init /\ [][Next]_vars
=============================================================================
