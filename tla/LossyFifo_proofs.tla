-------------------------- MODULE LossyFifo_proofs --------------------------
(***************************************************************************)
(* The lossy FIFO keeps the frames in order.  With the refinement that     *)
(* WritePath_proofs proves (WritePath!IsLossyFifo), this is why it never   *)
(* records the CAN frames out of order or twice, whatever is lost on the   *)
(* way.                                                                    *)
(***************************************************************************)
EXTENDS LossyFifo, SequenceTheorems, TLAPS

Ascending(q) == \A i, j \in 1 .. Len(q) : i < j /\ q[i] # 0 /\ q[j] # 0 => q[i] < q[j]

\* The frames of q arrived, in order.
Ordered(q, n) ==
  /\ q \in Seq(Nat)
  /\ \A i \in 1 .. Len(q) : q[i] <= n
  /\ Ascending(q)

\* The frames recorded and held are frames that arrived, in order.
IInv ==
  /\ sent \in Nat
  /\ pending \in Seq(Nat) /\ recorded \in Seq(Nat)
  /\ Ordered(recorded \o pending, sent)

\* The next frame to arrive is larger than all before it.
LEMMA AppendNext ==
  ASSUME NEW n \in Nat, NEW p, Ordered(p, n)
  PROVE  Ordered(Append(p, n + 1), n + 1)
<1> DEFINE q == Append(p, n + 1)
<1>1. p \in Seq(Nat) /\ Len(p) \in Nat
  BY DEF Ordered
<1>2. /\ q \in Seq(Nat)
      /\ Len(q) = Len(p) + 1
      /\ q[Len(p) + 1] = n + 1
      /\ \A i \in 1 .. Len(p) : q[i] = p[i] /\ p[i] \in Nat
  BY <1>1
<1> HIDE DEF q
<1>3. \A i \in 1 .. Len(p) : q[i] \in Nat /\ q[i] <= n
  BY <1>2 DEF Ordered
<1>4. \A i \in 1 .. Len(q) : i \in 1 .. Len(p) \/ i = Len(p) + 1
  BY <1>1, <1>2
<1>5. \A i \in 1 .. Len(q) : q[i] <= n + 1
  BY <1>2, <1>3, <1>4
<1>6. Ascending(q)
  <2> SUFFICES ASSUME NEW i \in 1 .. Len(q), NEW j \in 1 .. Len(q), i < j, q[i] # 0, q[j] # 0
               PROVE  q[i] < q[j]
    BY DEF Ascending
  <2>1. i \in 1 .. Len(p)
    BY <1>1, <1>2
  <2>2. CASE j = Len(p) + 1
    BY <2>1, <2>2, <1>2, <1>3
  <2>3. CASE j \in 1 .. Len(p)
    BY <2>1, <2>3, <1>2 DEF Ordered, Ascending
  <2> QED
    BY <2>2, <2>3, <1>4
<1> QED
  BY <1>2, <1>5, <1>6 DEF Ordered, q

\* The beginning of a log, wherever it stands, changes no order.
LEMMA InsertBegin ==
  ASSUME NEW n \in Nat, NEW r \in Seq(Nat), NEW p \in Seq(Nat), Ordered(r \o p, n)
  PROVE  Ordered(Append(r, 0) \o p, n)
<1> DEFINE a == r \o p
           q == Append(r, 0) \o p
           old(i) == IF i <= Len(r) THEN i ELSE i - 1
<1>1. Len(r) \in Nat /\ Len(p) \in Nat
  OBVIOUS
<1>2. Append(r, 0) \in Seq(Nat) /\ Len(Append(r, 0)) = Len(r) + 1
      /\ (\A i \in 1 .. Len(r) : Append(r, 0)[i] = r[i]) /\ Append(r, 0)[Len(r) + 1] = 0
  OBVIOUS
<1>3. /\ a \in Seq(Nat) /\ Len(a) = Len(r) + Len(p)
      /\ \A i \in 1 .. Len(r) + Len(p) : a[i] = IF i <= Len(r) THEN r[i] ELSE p[i - Len(r)]
  BY ConcatProperties
<1>4. /\ q \in Seq(Nat) /\ Len(q) = Len(r) + 1 + Len(p)
      /\ \A i \in 1 .. Len(r) + 1 + Len(p) :
            q[i] = IF i <= Len(r) + 1 THEN Append(r, 0)[i] ELSE p[i - (Len(r) + 1)]
  BY <1>2, ConcatProperties
<1>5. \A i \in 1 .. Len(a) : a[i] \in Nat /\ a[i] <= n
  BY <1>3 DEF Ordered
<1> HIDE DEF a, q
<1>6. q[Len(r) + 1] = 0
  BY <1>1, <1>2, <1>4
<1>7. \A i \in 1 .. Len(q) : i # Len(r) + 1 => old(i) \in 1 .. Len(a) /\ q[i] = a[old(i)]
  <2> SUFFICES ASSUME NEW i \in 1 .. Len(q), i # Len(r) + 1
               PROVE  old(i) \in 1 .. Len(a) /\ q[i] = a[old(i)]
    OBVIOUS
  <2>0. i \in Nat /\ i >= 1 /\ i <= Len(r) + 1 + Len(p)
    BY <1>1, <1>4
  <2>1. CASE i <= Len(r)
    <3>1. old(i) = i /\ i \in 1 .. Len(r) /\ i \in 1 .. Len(a)
      BY <2>0, <2>1, <1>1, <1>3
    <3>2. i \in 1 .. Len(r) + Len(p) /\ i \in 1 .. Len(r) + 1 + Len(p) /\ i <= Len(r) + 1
      BY <2>0, <2>1, <1>1
    <3>3. a[i] = r[i]
      BY <2>1, <3>2, <1>3
    <3>4. q[i] = r[i]
      BY <3>1, <3>2, <1>2, <1>4
    <3> QED
      BY <3>1, <3>3, <3>4
  <2>2. CASE i > Len(r) + 1
    <3>1. old(i) = i - 1 /\ i - 1 \in 1 .. Len(a)
      BY <2>0, <2>2, <1>1, <1>3
    <3>2. q[i] = p[i - (Len(r) + 1)]
      BY <2>0, <2>2, <1>1, <1>4
    <3>3. a[i - 1] = p[(i - 1) - Len(r)]
      <4>1. i - 1 \in 1 .. Len(r) + Len(p) /\ ~(i - 1 <= Len(r))
        BY <2>0, <2>2, <1>1
      <4> QED
        BY <4>1, <1>3
    <3>4. i - (Len(r) + 1) = (i - 1) - Len(r)
      BY <2>0, <1>1
    <3> HIDE DEF old
    <3> QED
      BY <3>1, <3>2, <3>3, <3>4
  <2> QED
    BY <2>1, <2>2, <1>1, <1>4
<1>8. \A i \in 1 .. Len(q) : q[i] <= n
  BY <1>5, <1>6, <1>7
<1>9. Ascending(q)
  <2> SUFFICES ASSUME NEW i \in 1 .. Len(q), NEW j \in 1 .. Len(q), i < j, q[i] # 0, q[j] # 0
               PROVE  q[i] < q[j]
    BY DEF Ascending
  <2>1. /\ old(i) \in 1 .. Len(a) /\ q[i] = a[old(i)]
        /\ old(j) \in 1 .. Len(a) /\ q[j] = a[old(j)]
    BY <1>6, <1>7
  <2>2. old(i) < old(j)
    BY <1>1, <1>4, <1>6
  <2> QED
    BY <2>1, <2>2 DEF Ordered, Ascending, a
<1> QED
  BY <1>4, <1>8, <1>9 DEF Ordered, q

\* What is recorded moves from one end to the other, and a log may begin.
LEMMA RecordMoves ==
  ASSUME NEW n \in Nat, NEW q \in Seq(Nat), recorded \in Seq(Nat),
         Ordered(recorded \o q, n), Record(q)
  PROVE  /\ recorded' \in Seq(Nat) /\ pending' \in Seq(Nat)
         /\ Ordered(recorded' \o pending', n)
<1>1. PICK begin \in {<< >>, << 0 >>} : recorded' = recorded \o q \o begin
  BY DEF Record
<1>2. pending' = << >>
  BY DEF Record
<1> DEFINE a == recorded \o q
<1>3. a \in Seq(Nat) /\ Ordered(a, n)
  BY ConcatProperties
<1> HIDE DEF a
<1>4. recorded' = a \o begin
  BY <1>1 DEF a
<1>5. CASE begin = << >>
  <2>1. recorded' = a
    BY <1>3, <1>4, <1>5, ConcatEmptySeq
  <2>2. recorded' \o pending' = a
    BY <1>2, <1>3, <2>1, ConcatEmptySeq
  <2> QED
    BY <1>2, <1>3, <2>1, <2>2
<1>6. CASE begin = << 0 >>
  <2>1. recorded' = Append(a, 0) /\ recorded' \in Seq(Nat)
    BY <1>3, <1>4, <1>6
  <2>2. a \o << >> = a
    BY <1>3, ConcatEmptySeq
  <2>3. << >> \in Seq(Nat) /\ Ordered(a \o << >>, n)
    BY <1>3, <2>2
  <2>4. Ordered(Append(a, 0) \o << >>, n)
    BY <1>3, <2>3, InsertBegin
  <2> QED
    BY <1>2, <2>1, <2>4
<1> QED
  BY <1>5, <1>6

\* The first log has just begun.
LEMMA FifoInit == Init => IInv
  BY DEF Init, IInv, Ordered, Ascending

\* Every step keeps the frames in order.
LEMMA FifoNext == IInv /\ [Next]_vars => IInv'
<1> SUFFICES ASSUME IInv, [Next]_vars PROVE IInv'
  OBVIOUS
<1> DEFINE a == Append(pending, sent + 1)
<1>0. /\ a \in Seq(Nat) /\ sent + 1 \in Nat
      /\ Ordered(recorded \o a, sent + 1)
  <2>1. a \in Seq(Nat) /\ sent + 1 \in Nat /\ recorded \o a = Append(recorded \o pending, sent + 1)
    BY DEF IInv
  <2> QED
    BY <2>1, AppendNext DEF IInv
<1> HIDE DEF a
<1>1. CASE Accept
  BY <1>0, <1>1 DEF Accept, IInv, a
<1>2. CASE Refuse
  <2>1. sent' = sent + 1 /\ recorded' = recorded /\ pending' = pending /\ sent \in Nat
    BY <1>2 DEF Refuse, IInv
  <2>2. \A i \in 1 .. Len(recorded \o pending) :
            (recorded \o pending)[i] \in Nat /\ (recorded \o pending)[i] <= sent
    BY DEF IInv, Ordered
  <2>3. \A i \in 1 .. Len(recorded \o pending) : (recorded \o pending)[i] <= sent'
    BY <2>1, <2>2
  <2> QED
    BY <2>1, <2>3 DEF IInv, Ordered
<1>3. CASE AcceptAndRecord
  <2>1. sent' = sent + 1 /\ Record(a)
    BY <1>3 DEF AcceptAndRecord, a
  <2> QED
    BY <1>0, <2>1, RecordMoves DEF IInv
<1>4. CASE RecordHeld
  BY <1>4, RecordMoves DEF RecordHeld, IInv
<1>5. CASE BeginLog
  BY <1>5, InsertBegin DEF BeginLog, IInv
<1>6. CASE LoseHeld
  <2>1. recorded \in Seq(Nat) /\ pending \in Seq(Nat) /\ sent \in Nat
    BY DEF IInv
  <2>2. recorded' \o pending' = recorded
    BY <1>6, <2>1, ConcatEmptySeq DEF LoseHeld
  <2>3. /\ Len(recorded) <= Len(recorded \o pending)
        /\ \A i \in 1 .. Len(recorded) : recorded[i] = (recorded \o pending)[i]
    BY <2>1
  <2>4. \A i \in 1 .. Len(recorded) : i \in 1 .. Len(recorded \o pending)
    BY <2>1, <2>3
  <2>5. Ordered(recorded, sent)
    BY <2>1, <2>3, <2>4 DEF IInv, Ordered, Ascending
  <2> QED
    BY <1>6, <2>1, <2>2, <2>5 DEF IInv, LoseHeld
<1>7. CASE UNCHANGED vars
  BY <1>7 DEF vars, IInv, Ordered, Ascending
<1> QED
  BY <1>1, <1>2, <1>3, <1>4, <1>5, <1>6, <1>7 DEF Next

\* Frames are recorded in the order of their arrival and none twice, for any
\* number of frames, refusals and losses: what the logger's refinement of this
\* specification promises about can_callback() and the flushes.
THEOREM FifoInOrder == Spec => []InOrder
<1>1. IInv => InOrder
  BY DEF IInv, Ordered, InOrder, Ascending
<1> QED
  BY <1>1, FifoInit, FifoNext, PTL DEF Spec
=============================================================================
