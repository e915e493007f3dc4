----------------------------- MODULE LossyFifo -----------------------------
(***************************************************************************)
(* What the logger promises about the CAN frames: those it records are     *)
(* recorded in the order of their arrival, each one once.  It may refuse a *)
(* frame, and it may lose the ones it holds, but only all of them at once. *)
(***************************************************************************)
EXTENDS Integers, Sequences

VARIABLES
  sent,      \* how many frames have arrived; they are numbered from 1
  pending,   \* the frames held, oldest first
  recorded   \* the log files, oldest first: frames, and 0 where a log begins

vars == <<sent, pending, recorded>>

Init == sent = 0 /\ pending = << >> /\ recorded = << 0 >>

\* All frames of q are recorded; a new log may begin behind them.
Record(q) ==
  /\ \E begin \in {<< >>, << 0 >>} : recorded' = recorded \o q \o begin
  /\ pending' = << >>

Accept == sent' = sent + 1 /\ pending' = Append(pending, sent') /\ UNCHANGED recorded

Refuse == sent' = sent + 1 /\ UNCHANGED <<pending, recorded>>

AcceptAndRecord == sent' = sent + 1 /\ Record(Append(pending, sent'))

RecordHeld == Record(pending) /\ UNCHANGED sent

BeginLog == recorded' = Append(recorded, 0) /\ UNCHANGED <<sent, pending>>

LoseHeld == pending' = << >> /\ UNCHANGED <<sent, recorded>>

Next == Accept \/ Refuse \/ AcceptAndRecord \/ RecordHeld \/ BeginLog \/ LoseHeld

Spec == Init /\ [][Next]_vars

-----------------------------------------------------------------------------
\* No frame is recorded twice or before an earlier one, and what is held
\* came after all that is recorded.
InOrder ==
  LET all == recorded \o pending
  IN  \A i, j \in 1 .. Len(all) : i < j /\ all[i] # 0 /\ all[j] # 0 => all[i] < all[j]
=============================================================================
