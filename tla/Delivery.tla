------------------------------- MODULE Delivery -------------------------------
(***************************************************************************)
(* What the uploader promises, seen from outside the device: a log is on   *)
(* the device, the server gets it, and only then the device may forget it. *)
(* A name may carry a new log later, which the server does not have yet.   *)
(***************************************************************************)
VARIABLES
  kept,  \* the logs on the device
  held   \* the logs the server has

vars == <<kept, held>>

\* Nothing was sent yet, whatever logs there are.
Init == held = {}

\* A new log of that name: what the server has is another one.
Record(f) ==
  /\ f \notin kept
  /\ kept' = kept \cup {f}
  /\ held' = held \ {f}

\* The server gets a log, once.
Deliver(f) ==
  /\ f \in kept \ held
  /\ held' = held \cup {f}
  /\ UNCHANGED kept

\* The device forgets a log the server has.
Discard(f) ==
  /\ f \in kept \cap held
  /\ kept' = kept \ {f}
  /\ UNCHANGED held

Next == \E f \in kept \cup kept' : Record(f) \/ Deliver(f) \/ Discard(f)

Spec == Init /\ [][Next]_vars
=============================================================================
