------------------------ MODULE CommandOutputProofs -------------------------
(***************************************************************************)
(* Proofs about SerialPort, for all frames and devices, every number of    *)
(* partial writes and every order of pushes and handlers, and about        *)
(* CommandOutput for all commands, fillers, devices and partial writes: it *)
(* implements SerialPort, no encoder writes behind the memory it has       *)
(* taken, and the station hears the commands as written.                   *)
(***************************************************************************)
EXTENDS CommandOutput, SequenceTheorems, WellFoundedInduction, TLAPS

-----------------------------------------------------------------------------
(***************************************************************************)
(* Induction on numbers, from the well-foundedness of <.                   *)
(***************************************************************************)
LEMMA FromZero ==
    ASSUME NEW T, 0 \in T, \A n \in Nat : n \in T => n + 1 \in T
    PROVE  Nat \subseteq T
<1> DEFINE Missing == {n \in Nat : n \notin T}
           R == OpToRel(<, Nat)
<1> SUFFICES ASSUME Missing # {} PROVE FALSE
  OBVIOUS
<1>1. IsWellFoundedOn(R, Nat)
  BY NatLessThanWellFounded
<1>2. Missing \subseteq Nat
  OBVIOUS
<1>3. PICK x \in Missing : \A y \in Missing : ~(<<y, x>> \in R)
  <2> HIDE DEF Missing, R
  <2> QED
  BY <1>1, <1>2, WFMin
<1>4. \A y \in Nat : y < x => y \in T
  BY <1>3 DEF OpToRel
<1>5. QED
  BY <1>4

-----------------------------------------------------------------------------
(***************************************************************************)
(* The length of the first frames of a sequence.                           *)
(***************************************************************************)
IsUpto(g, frames, m) ==
    g = [k \in 0..m |-> IF k = 0 THEN 0 ELSE g[k - 1] + Size[frames[k]]]

LEMMA UptoExists ==
    ASSUME NEW frames \in Seq(Frame)
    PROVE  \E g \in [0..Len(frames) -> Nat] : IsUpto(g, frames, Len(frames))
<1> DEFINE T == {m \in Nat : m <= Len(frames) => \E g \in [0..m -> Nat] : IsUpto(g, frames, m)}
<1>1. 0 \in T
  <2>1. [k \in 0..0 |-> 0] \in [0..0 -> Nat] /\ IsUpto([k \in 0..0 |-> 0], frames, 0)
    BY DEF IsUpto
  <2>2. QED
    BY <2>1
<1>2. ASSUME NEW m \in Nat, m \in T
      PROVE  m + 1 \in T
  <2> SUFFICES ASSUME m + 1 <= Len(frames)
               PROVE  \E g \in [0..(m + 1) -> Nat] : IsUpto(g, frames, m + 1)
    OBVIOUS
  <2>1. PICK g \in [0..m -> Nat] : IsUpto(g, frames, m)
    BY <1>2, LenProperties
  <2>2. frames[m + 1] \in Frame /\ Size[frames[m + 1]] \in Nat
    BY ElementOfSeq, LenProperties, SizeAssumption
  <2> DEFINE h == [k \in 0..(m + 1) |-> IF k = m + 1 THEN g[m] + Size[frames[m + 1]] ELSE g[k]]
  <2>3. h \in [0..(m + 1) -> Nat]
    BY <2>2
  <2>4. \A k \in 0..m : g[k] = IF k = 0 THEN 0 ELSE g[k - 1] + Size[frames[k]]
    BY <2>1 DEF IsUpto
  <2>5. \A k \in 0..(m + 1) : h[k] = IF k = 0 THEN 0 ELSE h[k - 1] + Size[frames[k]]
    BY <2>4
  <2> HIDE DEF h
  <2>6. IsUpto(h, frames, m + 1)
    BY <2>3, <2>5 DEF IsUpto
  <2>7. QED
    BY <2>3, <2>6
<1> HIDE DEF T
<1>3. Nat \subseteq T
  BY <1>1, <1>2, FromZero
<1>4. QED
  BY <1>3, LenProperties DEF T

LEMMA BytesStep ==
    ASSUME NEW frames \in Seq(Frame)
    PROVE  /\ Bytes(frames, 0) = 0
           /\ \A k \in 0..Len(frames) : Bytes(frames, k) \in Nat
           /\ \A k \in 1..Len(frames) :
                  Bytes(frames, k) = Bytes(frames, k - 1) + Size[frames[k]]
<1> DEFINE U == CHOOSE g : IsUpto(g, frames, Len(frames))
<1>1. \A n : Bytes(frames, n) = U[n]
  BY DEF Bytes, IsUpto
<1>2. IsUpto(U, frames, Len(frames))
  BY UptoExists
<1> HIDE DEF U
<1> DEFINE T == {m \in Nat : m <= Len(frames) => U[m] \in Nat}
<1>3. Len(frames) \in Nat
  BY LenProperties
<1>4. \A k \in 0..Len(frames) : U[k] = IF k = 0 THEN 0 ELSE U[k - 1] + Size[frames[k]]
  BY <1>2 DEF IsUpto
<1>5. \A k \in 1..Len(frames) : Size[frames[k]] \in Nat
  BY ElementOfSeq, SizeAssumption
<1>6. 0 \in T
  BY <1>3, <1>4
<1>7. ASSUME NEW m \in Nat, m \in T
      PROVE  m + 1 \in T
  BY <1>3, <1>4, <1>5, <1>7
<1> HIDE DEF T
<1>8. Nat \subseteq T
  BY <1>6, <1>7, FromZero
<1>9. \A k \in 0..Len(frames) : U[k] \in Nat
  BY <1>3, <1>8 DEF T
<1>10. QED
  BY <1>1, <1>3, <1>4, <1>9

\* Sequences that begin with the same frames.
LEMMA BytesPrefix ==
    ASSUME NEW s \in Seq(Frame), NEW t \in Seq(Frame), NEW n \in Nat,
           n <= Len(s), n <= Len(t), \A i \in 1..n : s[i] = t[i]
    PROVE  \A m \in 0..n : Bytes(s, m) = Bytes(t, m)
<1> DEFINE T == {m \in Nat : m <= n => Bytes(s, m) = Bytes(t, m)}
<1>1. Len(s) \in Nat /\ Len(t) \in Nat
  BY LenProperties
<1>2. 0 \in T
  BY BytesStep
<1>3. ASSUME NEW m \in Nat, m \in T
      PROVE  m + 1 \in T
  <2> SUFFICES ASSUME m + 1 <= n PROVE Bytes(s, m + 1) = Bytes(t, m + 1)
    OBVIOUS
  <2>1. m + 1 \in 1..Len(s) /\ m + 1 \in 1..Len(t) /\ (m + 1) - 1 = m /\ s[m + 1] = t[m + 1]
    BY <1>1
  <2>2. Bytes(s, m) = Bytes(t, m)
    BY <1>3
  <2>3. Bytes(s, m + 1) = Bytes(s, m) + Size[s[m + 1]] /\ Bytes(t, m + 1) = Bytes(t, m) + Size[t[m + 1]]
    BY <2>1, BytesStep
  <2>4. QED
    BY <2>1, <2>2, <2>3
<1> HIDE DEF T
<1>4. Nat \subseteq T
  BY <1>2, <1>3, FromZero
<1>5. QED
  BY <1>4 DEF T

\* A sequence t at the end of another, behind its first d frames.
LEMMA BytesBehind ==
    ASSUME NEW s \in Seq(Frame), NEW t \in Seq(Frame), NEW d \in Nat,
           d + Len(t) = Len(s), \A i \in 1..Len(t) : t[i] = s[d + i]
    PROVE  \A k \in 0..Len(t) : Bytes(s, d + k) = Bytes(s, d) + Bytes(t, k)
<1> DEFINE T == {k \in Nat : k <= Len(t) => Bytes(s, d + k) = Bytes(s, d) + Bytes(t, k)}
<1>1. Len(s) \in Nat /\ Len(t) \in Nat /\ d \in 0..Len(s) /\ Bytes(s, d) \in Nat
  BY LenProperties, BytesStep
<1>2. 0 \in T
  <2>1. Bytes(t, 0) = 0 /\ d + 0 = d
    BY BytesStep
  <2>2. QED
    BY <1>1, <2>1
<1>3. ASSUME NEW k \in Nat, k \in T
      PROVE  k + 1 \in T
  <2> SUFFICES ASSUME k + 1 <= Len(t) PROVE Bytes(s, d + (k + 1)) = Bytes(s, d) + Bytes(t, k + 1)
    OBVIOUS
  <2>1. /\ k + 1 \in 1..Len(t) /\ d + (k + 1) \in 1..Len(s) /\ (k + 1) - 1 = k /\ (d + (k + 1)) - 1 = d + k
        /\ t[k + 1] = s[d + (k + 1)] /\ k \in 0..Len(t)
    BY <1>1
  <2>2. Bytes(s, d + k) = Bytes(s, d) + Bytes(t, k)
    BY <1>1, <1>3
  <2>3. /\ Bytes(t, k + 1) = Bytes(t, k) + Size[t[k + 1]] /\ Bytes(t, k) \in Nat
        /\ Bytes(s, d + (k + 1)) = Bytes(s, d + k) + Size[s[d + (k + 1)]]
    BY <2>1, BytesStep
  <2>4. t[k + 1] \in Frame /\ Size[t[k + 1]] \in Nat
    BY <2>1, ElementOfSeq, SizeAssumption
  <2>5. QED
    BY <1>1, <2>1, <2>2, <2>3, <2>4
<1> HIDE DEF T
<1>4. Nat \subseteq T
  BY <1>2, <1>3, FromZero
<1>5. QED
  BY <1>4 DEF T

-----------------------------------------------------------------------------
\* The frames handle_write has dropped from the queue.
Gone == Len(pushed) - Len(output_storage)

\* The queue is what remains of the pushed frames.
QueueOK == /\ Len(output_storage) <= Len(pushed)
           /\ \A i \in 1..Len(output_storage) : output_storage[i] = pushed[Gone + i]

Once == \A i, j \in DOMAIN pushed : pushed[i] = pushed[j] => i = j

\* Nothing is written before the ports are open.
Closed == in_port = None => /\ pushed = <<>> /\ output_storage = <<>> /\ read = "idle"
                            /\ outbytes_transfered = 0 /\ bytes_transfered = 0
                            /\ \A d \in Device : wire[d] = <<>>

PortsTypeOK == /\ in_port \in Device \cup {None} /\ out_port \in Device \cup {None}
               /\ read \in {"idle", "pending", "data", "error", "stopped"}

\* What was taken is of the frame at the front.
TakenOK == IF write = "taken" THEN bytes_transfered \in 1..Size[Head(output_storage)]
                              ELSE bytes_transfered = 0

NothingOver == shortened = 0 => /\ outbytes_transfered = 0
                                /\ write = "taken" => bytes_transfered = Size[Head(output_storage)]

\* A frame whose last byte is on the line has been dropped, or the next handle_write
\* drops it.
EndsGone ==
    \A place \in Ends : \E k \in DOMAIN pushed :
        /\ pushed[k] = InBytes[place][1]
        /\ \/ k <= Gone
           \/ k = Gone + 1 /\ write = "taken" /\ bytes_transfered = Size[pushed[k]]

\* The inductive invariant.
IInv == /\ TypeOK /\ OneWrite /\ QueueOK /\ Once /\ Closed /\ TakenOK /\ NothingOver
        /\ Accounting /\ StreamUnlessShort /\ EndsGone /\ WholeOnceInOrder

-----------------------------------------------------------------------------
LEMMA BytesGrow ==
    ASSUME NEW s \in Seq(Frame)
    PROVE  \A k \in 0..Len(s) : \A j \in 0..Len(s) : j < k => Bytes(s, j) < Bytes(s, k)
<1> DEFINE T == {k \in Nat : k <= Len(s) => \A j \in 0..Len(s) : j < k => Bytes(s, j) < Bytes(s, k)}
<1>1. Len(s) \in Nat
  BY LenProperties
<1>2. 0 \in T
  OBVIOUS
<1>3. ASSUME NEW k \in Nat, k \in T
      PROVE  k + 1 \in T
  <2> SUFFICES ASSUME k + 1 <= Len(s), NEW j \in 0..Len(s), j < k + 1
               PROVE  Bytes(s, j) < Bytes(s, k + 1)
    OBVIOUS
  <2>1. k + 1 \in 1..Len(s) /\ (k + 1) - 1 = k /\ k \in 0..Len(s)
    BY <1>1
  <2>2. Bytes(s, k + 1) = Bytes(s, k) + Size[s[k + 1]] /\ Bytes(s, k) \in Nat /\ Bytes(s, j) \in Nat
    BY <2>1, BytesStep
  <2>3. Size[s[k + 1]] \in Nat \ {0}
    BY <2>1, ElementOfSeq, SizeAssumption
  <2>4. j = k \/ Bytes(s, j) < Bytes(s, k)
    BY <1>1, <1>3, <2>1
  <2>5. QED
    BY <2>2, <2>3, <2>4
<1> HIDE DEF T
<1>4. Nat \subseteq T
  BY <1>2, <1>3, FromZero
<1>5. QED
  BY <1>1, <1>4 DEF T

\* handle_write pops as many frames as what was taken pays for, and no more.
LEMMA PoppedIs ==
    ASSUME output_storage \in Seq(Frame), NEW total \in Nat
    PROVE  /\ Popped(total) \in 0..Len(output_storage)
           /\ Bytes(output_storage, Popped(total)) <= total
           /\ Popped(total) < Len(output_storage) => Bytes(output_storage, Popped(total) + 1) > total
<1> DEFINE P(k) == /\ Bytes(output_storage, k) <= total
                   /\ k < Len(output_storage) => Bytes(output_storage, k + 1) > total
           T == {m \in Nat : m <= Len(output_storage) =>
                                 \/ \E k \in 0..Len(output_storage) : P(k)
                                 \/ Bytes(output_storage, m) <= total}
<1>1. Len(output_storage) \in Nat
  BY LenProperties
<1>2. 0 \in T
  BY BytesStep
<1>3. ASSUME NEW m \in Nat, m \in T
      PROVE  m + 1 \in T
  <2> SUFFICES ASSUME m + 1 <= Len(output_storage), ~ \E k \in 0..Len(output_storage) : P(k)
               PROVE  Bytes(output_storage, m + 1) <= total
    OBVIOUS
  <2>1. m \in 0..Len(output_storage) /\ m + 1 \in 0..Len(output_storage) /\ m < Len(output_storage)
    BY <1>1
  <2>2. Bytes(output_storage, m) <= total
    BY <1>1, <1>3, <2>1
  <2>3. ~(Bytes(output_storage, m + 1) > total)
    BY <2>1, <2>2
  <2>4. Bytes(output_storage, m + 1) \in Nat
    BY <2>1, BytesStep
  <2>5. QED
    BY <2>3, <2>4
<1> HIDE DEF T
<1>4. Nat \subseteq T
  BY <1>2, <1>3, FromZero
<1>5. Len(output_storage) \in T
  BY <1>1, <1>4
<1>6. \E k \in 0..Len(output_storage) : P(k)
  <2>1. CASE Bytes(output_storage, Len(output_storage)) <= total
    <3>1. Len(output_storage) \in 0..Len(output_storage) /\ ~(Len(output_storage) < Len(output_storage))
      BY <1>1
    <3>2. P(Len(output_storage))
      BY <2>1, <3>1
    <3>3. QED
      BY <3>1, <3>2
  <2>2. QED
    BY <1>1, <1>5, <2>1 DEF T
<1> DEFINE Q == CHOOSE k \in 0..Len(output_storage) : P(k)
<1>7. Q \in 0..Len(output_storage) /\ P(Q)
  BY <1>6
<1>8. Popped(total) = Q
  BY DEF Popped
<1> HIDE DEF Q
<1>9. QED
  BY <1>7, <1>8

-----------------------------------------------------------------------------
LEMMA InitIInv == Init => IInv
<1> SUFFICES ASSUME Init PROVE IInv
  OBVIOUS
<1>1. /\ in_port = None /\ InBytes = <<>> /\ DOMAIN InBytes = {} /\ Ends = {}
      /\ DOMAIN pushed = {} /\ Len(pushed) = 0 /\ Len(output_storage) = 0
      /\ pushed = <<>> /\ output_storage = <<>> /\ write = "idle" /\ Len(InBytes) = 0
  BY DEF Init, InBytes, Ends
<1>2. Bytes(pushed, 0) = 0
  <2>1. pushed \in Seq(Frame)
    BY <1>1
  <2>2. QED
    BY <2>1, BytesStep
<1>3. TypeOK
  <2>1. \A d \in Device : wire[d] = <<>>
    BY DEF Init
  <2>2. wire \in [Device -> Seq(Frame \X (Nat \ {0}))]
    BY DEF Init
  <2>3. QED
    BY <1>1, <2>2, ShortAssumption DEF Init, TypeOK
<1>4. OneWrite /\ QueueOK /\ Once
  BY <1>1 DEF OneWrite, QueueOK, Once
<1>5. Closed /\ TakenOK /\ NothingOver
  BY <1>1 DEF Init, Closed, TakenOK, NothingOver
<1>6. Accounting
  BY <1>1, <1>2 DEF Init, Accounting
<1>7. StreamUnlessShort /\ EndsGone /\ WholeOnceInOrder
  BY <1>1 DEF StreamUnlessShort, EndsGone, WholeOnceInOrder
<1>8. QED
  BY <1>3, <1>4, <1>5, <1>6, <1>7 DEF IInv

\* What the invariant says of the lengths.
LEMMA Lengths ==
    ASSUME IInv
    PROVE  /\ Len(pushed) \in Nat /\ DOMAIN pushed = 1..Len(pushed)
           /\ \A i \in DOMAIN pushed : pushed[i] \in Frame /\ Size[pushed[i]] \in Nat \ {0}
           /\ Len(output_storage) \in Nat /\ Len(output_storage) <= Len(pushed)
           /\ DOMAIN output_storage = 1..Len(output_storage)
           /\ \A i \in DOMAIN output_storage : output_storage[i] \in Frame
           /\ Gone \in 0..Len(pushed) /\ Gone + Len(output_storage) = Len(pushed)
           /\ Bytes(pushed, Gone) \in Nat
<1>1. pushed \in Seq(Frame) /\ output_storage \in Seq(Frame) /\ Len(output_storage) <= Len(pushed)
  BY DEF IInv, TypeOK, QueueOK
<1>2. /\ Len(pushed) \in Nat /\ DOMAIN pushed = 1..Len(pushed)
      /\ Len(output_storage) \in Nat /\ DOMAIN output_storage = 1..Len(output_storage)
  BY <1>1, LenProperties
<1>3. /\ \A i \in DOMAIN pushed : pushed[i] \in Frame /\ Size[pushed[i]] \in Nat \ {0}
      /\ \A i \in DOMAIN output_storage : output_storage[i] \in Frame
  BY <1>1, <1>2, ElementOfSeq, SizeAssumption
<1>4. Gone \in 0..Len(pushed) /\ Gone + Len(output_storage) = Len(pushed)
  BY <1>1, <1>2 DEF Gone
<1>5. QED
  BY <1>1, <1>2, <1>3, <1>4, BytesStep

\* The frame at the front of the queue.
LEMMA FrontFrame ==
    ASSUME IInv, output_storage # <<>>
    PROVE  /\ Head(output_storage) = pushed[Gone + 1] /\ Gone + 1 \in DOMAIN pushed
           /\ Head(output_storage) \in Frame /\ Size[Head(output_storage)] \in Nat \ {0}
           /\ in_port \in Device
           /\ Len(output_storage) >= 1
           /\ Bytes(output_storage, 1) = Size[Head(output_storage)]
<1>1. Len(output_storage) >= 1 /\ Head(output_storage) = output_storage[1]
  BY DEF IInv, TypeOK
<1>2. output_storage[1] = pushed[Gone + 1] /\ Gone + 1 \in DOMAIN pushed
  BY <1>1, Lengths DEF IInv, QueueOK
<1>3. in_port \in Device
  BY DEF IInv, TypeOK, Closed
<1>4. 1 \in 1..Len(output_storage) /\ 1 - 1 = 0 /\ output_storage \in Seq(Frame)
  BY <1>1, Lengths DEF IInv, TypeOK
<1>5. Size[Head(output_storage)] \in Nat \ {0}
  BY <1>1, <1>2, Lengths
<1>6. Bytes(output_storage, 1) = Size[Head(output_storage)]
  BY <1>1, <1>4, <1>5, BytesStep
<1>7. QED
  BY <1>1, <1>2, <1>3, <1>5, <1>6, Lengths

-----------------------------------------------------------------------------
\* write_raw_data, whoever calls it.
LEMMA PushKeeps ==
    ASSUME IInv, NEW f \in Frame, Push(f), in_port # None,
           UNCHANGED <<in_port, wire, shortened>>, PortsTypeOK'
    PROVE  IInv'
<1> DEFINE n == Len(pushed)
           m == Len(output_storage)
<1>1. /\ \A i \in DOMAIN pushed : pushed[i] # f
      /\ pushed' = Append(pushed, f) /\ output_storage' = Append(output_storage, f)
      /\ write' = IF output_storage = <<>> THEN "pending" ELSE write
      /\ outbytes_transfered' = outbytes_transfered /\ bytes_transfered' = bytes_transfered
  BY DEF Push, ToSet
<1>2. /\ n \in Nat /\ m \in Nat /\ m <= n /\ DOMAIN pushed = 1..n /\ DOMAIN output_storage = 1..m
      /\ pushed \in Seq(Frame) /\ output_storage \in Seq(Frame) /\ Gone \in 0..n /\ Gone + m = n
  BY Lengths DEF IInv, TypeOK
<1>3. /\ pushed' \in Seq(Frame) /\ output_storage' \in Seq(Frame)
      /\ Len(pushed') = n + 1 /\ Len(output_storage') = m + 1 /\ DOMAIN pushed' = 1..(n + 1)
      /\ \A i \in 1..n : pushed'[i] = pushed[i]
      /\ pushed'[n + 1] = f
      /\ \A i \in 1..m : output_storage'[i] = output_storage[i]
      /\ output_storage'[m + 1] = f
  BY <1>1, <1>2
<1> HIDE DEF n, m
<1>4. Gone' = Gone
  BY <1>2, <1>3 DEF Gone, n, m
<1>5. InBytes' = InBytes /\ Ends' = Ends
  BY DEF InBytes, Ends
<1>6. \A k \in 0..n : Bytes(pushed, k) = Bytes(pushed', k)
  <2>1. n <= Len(pushed) /\ n <= Len(pushed') /\ \A i \in 1..n : pushed[i] = pushed'[i]
    BY <1>2, <1>3 DEF n
  <2>2. n \in Nat /\ pushed \in Seq(Frame) /\ pushed' \in Seq(Frame)
    BY <1>2, <1>3
  <2>3. QED
    BY <2>1, <2>2, BytesPrefix
<1>7. output_storage # <<>> => /\ write' = write /\ Head(output_storage') = Head(output_storage)
                               /\ m >= 1
  BY <1>1, <1>2, <1>3 DEF m
<1>8. output_storage = <<>> => write = "idle" /\ write' = "pending" /\ bytes_transfered = 0 /\ m = 0
  BY <1>1 DEF IInv, OneWrite, TakenOK, m
<1>9. output_storage' # <<>> /\ write' # "idle"
  BY <1>2, <1>3, <1>7, <1>8 DEF IInv, OneWrite
<1>10. TypeOK'
  <2>1. write' \in {"idle", "pending", "taken", "failed"}
    BY <1>1 DEF IInv, TypeOK
  <2>2. QED
    BY <1>1, <1>3, <2>1 DEF IInv, TypeOK, PortsTypeOK
<1>11. OneWrite'
  BY <1>9 DEF OneWrite
<1>12. QueueOK'
  <2>1. \A i \in 1..m : output_storage'[i] = pushed'[Gone + i]
    BY <1>2, <1>3 DEF IInv, QueueOK, m
  <2>2. Gone + (m + 1) = n + 1
    BY <1>2
  <2>3. output_storage'[m + 1] = pushed'[Gone + (m + 1)]
    BY <1>3, <2>2
  <2>4. \A i \in 1..(m + 1) : i \in 1..m \/ i = m + 1
    BY <1>2
  <2>5. \A i \in 1..(m + 1) : output_storage'[i] = pushed'[Gone + i]
    BY <2>1, <2>3, <2>4
  <2>6. Len(output_storage') <= Len(pushed')
    BY <1>2, <1>3
  <2>7. QED
    BY <1>3, <1>4, <2>5, <2>6 DEF QueueOK
<1>13. Once'
  BY <1>1, <1>2, <1>3 DEF IInv, Once
<1>14. Closed'
  BY DEF Closed
<1>15. TakenOK' /\ NothingOver'
  BY <1>1, <1>7, <1>8 DEF IInv, TakenOK, NothingOver
<1>16. Accounting'
  BY <1>1, <1>2, <1>3, <1>4, <1>5, <1>6 DEF IInv, Accounting, Gone, n, m
<1>17. StreamUnlessShort'
  <2>1. ASSUME shortened = 0, NEW place \in DOMAIN InBytes
        PROVE  \E k \in DOMAIN pushed' : /\ place - Bytes(pushed', k - 1) \in 1..Size[pushed'[k]]
                                         /\ InBytes[place] = <<pushed'[k], place - Bytes(pushed', k - 1)>>
    <3>1. PICK k \in DOMAIN pushed : InPlace(place, k)
      BY <2>1 DEF IInv, StreamUnlessShort
    <3>2. k \in DOMAIN pushed' /\ pushed'[k] = pushed[k] /\ Bytes(pushed', k - 1) = Bytes(pushed, k - 1)
      BY <1>2, <1>3, <1>6
    <3>3. QED
      BY <3>1, <3>2 DEF InPlace
  <2>2. QED
    BY <1>5, <2>1 DEF StreamUnlessShort, InPlace
<1>18. EndsGone'
  <2>1. ASSUME NEW place \in Ends
        PROVE  \E k \in DOMAIN pushed' :
                   /\ pushed'[k] = InBytes[place][1]
                   /\ \/ k <= Gone
                      \/ k = Gone + 1 /\ write' = "taken" /\ bytes_transfered' = Size[pushed'[k]]
    <3>1. PICK k \in DOMAIN pushed :
               /\ pushed[k] = InBytes[place][1]
               /\ \/ k <= Gone
                  \/ k = Gone + 1 /\ write = "taken" /\ bytes_transfered = Size[pushed[k]]
      BY DEF IInv, EndsGone
    <3>2. k \in DOMAIN pushed' /\ pushed'[k] = pushed[k]
      BY <1>2, <1>3
    <3>3. write = "taken" => write' = "taken"
      BY <1>7, <1>8
    <3>4. QED
      BY <1>1, <3>1, <3>2, <3>3
  <2>2. QED
    BY <1>4, <1>5, <2>1 DEF EndsGone
<1>19. WholeOnceInOrder'
  <2>1. ASSUME NEW i \in Ends, NEW j \in Ends, i < j
        PROVE  \E k, l \in DOMAIN pushed' :
                   k < l /\ pushed'[k] = InBytes[i][1] /\ pushed'[l] = InBytes[j][1]
    <3>1. PICK k, l \in DOMAIN pushed :
                   k < l /\ pushed[k] = InBytes[i][1] /\ pushed[l] = InBytes[j][1]
      BY <2>1 DEF IInv, WholeOnceInOrder
    <3>2. k \in DOMAIN pushed' /\ pushed'[k] = pushed[k] /\ l \in DOMAIN pushed' /\ pushed'[l] = pushed[l]
      BY <1>2, <1>3
    <3>3. QED
      BY <3>1, <3>2
  <2>2. QED
    BY <1>5, <2>1 DEF WholeOnceInOrder
<1>20. QED
  BY <1>10, <1>11, <1>12, <1>13, <1>14, <1>15, <1>16, <1>17, <1>18, <1>19 DEF IInv

\* Steps that leave the queue, the writes and the lines alone.
LEMMA QueueUntouched ==
    ASSUME IInv, UNCHANGED <<output, wire, shortened>>, PortsTypeOK',
           \/ in_port' = in_port /\ (read = "idle" => read' = "idle")
           \/ in_port = None /\ in_port' \in Device
    PROVE  IInv'
<1>1. /\ UNCHANGED <<output_storage, outbytes_transfered, write, bytes_transfered, pushed>>
      /\ UNCHANGED <<wire, shortened>>
  BY DEF output
<1>2. InBytes' = InBytes
  <2>1. CASE in_port' = in_port
    BY <1>1, <2>1 DEF InBytes
  <2>2. CASE in_port = None /\ in_port' \in Device
    <3>1. InBytes = <<>> /\ wire[in_port'] = <<>>
      BY <2>2 DEF IInv, Closed, InBytes
    <3>2. QED
      BY <1>1, <2>2, <3>1, NoneAssumption DEF InBytes
  <2>3. QED
    BY <2>1, <2>2
<1>3. Ends' = Ends /\ Gone' = Gone
  BY <1>1, <1>2 DEF Ends, Gone
<1>4. TypeOK'
  BY <1>1 DEF IInv, TypeOK, PortsTypeOK
<1>5. Closed'
  BY <1>1, NoneAssumption DEF IInv, Closed
<1>6. OneWrite' /\ QueueOK' /\ Once' /\ TakenOK' /\ NothingOver'
  BY <1>1, <1>3 DEF IInv, OneWrite, QueueOK, Once, TakenOK, NothingOver
<1>7. Accounting' /\ EndsGone' /\ WholeOnceInOrder'
  BY <1>1, <1>2, <1>3 DEF IInv, Accounting, EndsGone, WholeOnceInOrder
<1>8. StreamUnlessShort'
  BY <1>1, <1>2 DEF IInv, StreamUnlessShort, InPlace
<1>9. QED
  BY <1>4, <1>5, <1>6, <1>7, <1>8 DEF IInv

LEMMA OpenKeeps == IInv /\ Open => IInv'
<1> SUFFICES ASSUME IInv, Open PROVE IInv'
  OBVIOUS
<1>1. Names[1] \in Device /\ Names[Len(Names)] \in Device
  BY NamesAssumption
<1>2. PortsTypeOK'
  BY <1>1 DEF Open, PortsTypeOK
<1>3. QED
  BY <1>1, <1>2, QueueUntouched DEF Open

LEMMA DeviceSendsKeeps ==
    ASSUME IInv, NEW ec \in {"data", "error"}, DeviceSends(ec)
    PROVE  IInv'
<1>1. PortsTypeOK'
  BY DEF IInv, TypeOK, DeviceSends, ports, PortsTypeOK
<1>2. QED
  BY <1>1, QueueUntouched DEF DeviceSends, ports

LEMMA HandleReadKeeps == IInv /\ HandleRead => IInv'
<1> SUFFICES ASSUME IInv, HandleRead PROVE IInv'
  OBVIOUS
<1>1. PortsTypeOK'
  BY DEF IInv, TypeOK, HandleRead, ReadIsHandled, ports, PortsTypeOK
<1>2. QED
  BY <1>1, QueueUntouched DEF HandleRead, ReadIsHandled, ports

LEMMA WriteRawDataKeeps ==
    ASSUME IInv, NEW f \in Frame, WriteRawData(f)
    PROVE  IInv'
<1>1. PortsTypeOK'
  BY DEF IInv, TypeOK, WriteRawData, ports, PortsTypeOK
<1>2. QED
  BY <1>1, PushKeeps DEF WriteRawData, ports

LEMMA HandleReadAndAnswerKeeps ==
    ASSUME IInv, NEW f \in Frame, HandleReadAndAnswer(f)
    PROVE  IInv'
<1>1. PortsTypeOK'
  BY DEF IInv, TypeOK, HandleReadAndAnswer, ReadIsHandled, ports, PortsTypeOK
<1>2. in_port # None
  BY DEF IInv, Closed, HandleReadAndAnswer, ReadIsHandled
<1>3. QED
  BY <1>1, <1>2, PushKeeps DEF HandleReadAndAnswer, ReadIsHandled, ports

LEMMA DriverFailsKeeps == IInv /\ DriverFails => IInv'
<1> SUFFICES ASSUME IInv, DriverFails PROVE IInv'
  OBVIOUS
<1>1. /\ write = "pending" /\ write' = "failed"
      /\ UNCHANGED <<in_port, out_port, read, output_storage, outbytes_transfered, bytes_transfered>>
      /\ UNCHANGED <<wire, pushed, shortened>>
  BY DEF DriverFails, ports
<1>2. InBytes' = InBytes /\ Ends' = Ends /\ Gone' = Gone
  BY <1>1 DEF InBytes, Ends, Gone
<1>3. TypeOK'
  BY <1>1 DEF IInv, TypeOK
<1>4. OneWrite' /\ QueueOK' /\ Once' /\ Closed' /\ TakenOK' /\ NothingOver'
  BY <1>1, <1>2 DEF IInv, OneWrite, QueueOK, Once, Closed, TakenOK, NothingOver
<1>5. Accounting' /\ EndsGone' /\ WholeOnceInOrder'
  BY <1>1, <1>2 DEF IInv, Accounting, EndsGone, WholeOnceInOrder
<1>6. StreamUnlessShort'
  BY <1>1, <1>2 DEF IInv, StreamUnlessShort, InPlace
<1>7. QED
  BY <1>3, <1>4, <1>5, <1>6 DEF IInv

-----------------------------------------------------------------------------
\* The driver writes from the first byte of the frame at the front.
LEMMA DriverWritesKeeps == IInv /\ DriverWrites => IInv'
<1> SUFFICES ASSUME IInv, DriverWrites PROVE IInv'
  OBVIOUS
<1> DEFINE f == Head(output_storage)
           L == Len(InBytes)
<1>1. /\ write = "pending" /\ write' = "taken"
      /\ UNCHANGED <<in_port, out_port, read, output_storage, outbytes_transfered, pushed>>
  BY DEF DriverWrites, ports
<1>2. PICK n \in 1..Size[f] :
          /\ wire' = [wire EXCEPT ![in_port] = @ \o SubSeq(Buffer(f), 1, n)]
          /\ n = Size[f] \/ shortened < MaxShort
          /\ shortened' = shortened + (IF n < Size[f] THEN 1 ELSE 0)
          /\ bytes_transfered' = n
  BY DEF DriverWrites
<1>3. /\ output_storage # <<>> /\ bytes_transfered = 0
      /\ shortened = 0 => outbytes_transfered = 0
  BY <1>1 DEF IInv, OneWrite, TakenOK, NothingOver
<1>4. /\ f = pushed[Gone + 1] /\ Gone + 1 \in DOMAIN pushed /\ f \in Frame
      /\ Size[f] \in Nat \ {0} /\ in_port \in Device
  BY <1>3, FrontFrame
<1> HIDE DEF f
<1>5. n \in Nat \ {0} /\ n <= Size[f]
  BY <1>2, <1>4
<1> DEFINE T == SubSeq(Buffer(f), 1, n)
           Byte == Frame \X (Nat \ {0})
<1>6. T \in Seq(Byte) /\ Len(T) = n /\ \A j \in 1..n : T[j] = <<f, j>>
  <2>1. Buffer(f) \in Seq(Byte) /\ Len(Buffer(f)) = Size[f] /\ \A j \in 1..Size[f] : Buffer(f)[j] = <<f, j>>
    <3>1. \A j \in 1..Size[f] : <<f, j>> \in Byte
      BY <1>4
    <3>2. QED
      BY <1>4, <3>1 DEF Buffer
  <2>2. /\ 1 \in Int /\ n \in Int /\ 1 <= n /\ n - 1 + 1 = n
        /\ \A j \in 1..n : Buffer(f)[j] = <<f, j>> /\ Buffer(f)[j] \in Byte /\ 1 + j - 1 = j
    <3>1. \A j \in 1..n : j \in 1..Size[f] /\ j \in Nat \ {0} /\ 1 + j - 1 = j
      BY <1>4, <1>5
    <3>2. \A j \in 1..n : <<f, j>> \in Byte
      BY <1>4, <3>1
    <3>3. QED
      BY <1>5, <2>1, <3>1, <3>2
  <2> HIDE DEF Byte
  <2>3. T \in Seq(Byte) /\ Len(T) = n - 1 + 1 /\ \A j \in 1..(n - 1 + 1) : T[j] = Buffer(f)[1 + j - 1]
    BY <2>2, SubSeqProperties
  <2>4. QED
    BY <2>2, <2>3
<1> HIDE DEF T
<1>7. /\ InBytes = wire[in_port] /\ InBytes' = wire'[in_port] /\ InBytes \in Seq(Byte)
      /\ wire \in [Device -> Seq(Byte)]
  BY <1>1, <1>4, NoneAssumption DEF InBytes, IInv, TypeOK
<1>8. wire' = [wire EXCEPT ![in_port] = InBytes \o T]
  BY <1>2, <1>7 DEF T
<1>9. InBytes' = InBytes \o T /\ InBytes \o T \in Seq(Byte)
  BY <1>4, <1>6, <1>7, <1>8
<1> HIDE DEF Byte
<1>10. /\ L \in Nat /\ Len(InBytes') = L + n /\ DOMAIN InBytes = 1..L /\ DOMAIN InBytes' = 1..(L + n)
       /\ \A i \in 1..L : InBytes'[i] = InBytes[i]
       /\ \A j \in 1..n : InBytes'[L + j] = <<f, j>>
  <2>1. /\ L \in Nat /\ DOMAIN InBytes = 1..L /\ DOMAIN InBytes' = 1..Len(InBytes')
        /\ Len(InBytes') = L + Len(T)
        /\ \A i \in 1..(L + Len(T)) : InBytes'[i] = IF i <= L THEN InBytes[i] ELSE T[i - L]
    <3>1. InBytes \in Seq(Byte) /\ InBytes' \in Seq(Byte)
      BY <1>7, <1>9
    <3>2. QED
      BY <1>6, <1>9, <3>1, ConcatProperties, LenProperties
  <2> HIDE DEF L
  <2>2. \A i \in 1..L : i \in 1..(L + n) /\ i <= L
    BY <1>5, <2>1
  <2>3. \A j \in 1..n : L + j \in 1..(L + n) /\ ~(L + j <= L) /\ (L + j) - L = j
    BY <1>5, <2>1
  <2>4. \A j \in 1..n : InBytes'[L + j] = <<f, j>>
    BY <1>6, <2>1, <2>3
  <2>5. QED
    BY <1>6, <2>1, <2>2, <2>4
<1> HIDE DEF L
<1>11. \A i \in 1..(L + n) : i \in 1..L \/ (i - L \in 1..n /\ i = L + (i - L))
  BY <1>5, <1>10
<1>12. Gone' = Gone
  BY <1>1 DEF Gone
<1>13. TypeOK'
  <2>1. wire' \in [Device -> Seq(Byte)]
    BY <1>4, <1>7, <1>8, <1>9
  <2>2. shortened' \in 0..MaxShort
    <3>1. shortened \in 0..MaxShort
      BY DEF IInv, TypeOK
    <3>2. CASE n = Size[f]
      <4>1. ~(n < Size[f])
        BY <1>5, <3>2
      <4>2. QED
        BY <1>2, <3>1, <4>1, ShortAssumption
    <3>3. CASE shortened < MaxShort
      BY <1>2, <3>1, <3>3, ShortAssumption
    <3>4. QED
      BY <1>2, <3>2, <3>3
  <2>3. QED
    BY <1>1, <1>2, <1>5, <2>1, <2>2 DEF IInv, TypeOK, Byte
<1>14. OneWrite' /\ QueueOK' /\ Once'
  BY <1>1, <1>3, <1>12 DEF IInv, OneWrite, QueueOK, Once
<1>15. Closed'
  BY <1>1, <1>4, NoneAssumption DEF Closed
<1>16. TakenOK'
  BY <1>1, <1>2 DEF TakenOK, f
<1>17. shortened' = 0 => shortened = 0 /\ n = Size[f]
  <2>1. shortened \in Nat
    BY ShortAssumption DEF IInv, TypeOK
  <2>2. QED
    BY <1>2, <1>4, <1>5, <2>1
<1>18. NothingOver'
  BY <1>1, <1>2, <1>3, <1>17 DEF NothingOver, f
<1>19. Bytes(pushed, Gone) + outbytes_transfered = L /\ outbytes_transfered \in Nat
       /\ Bytes(pushed, Gone) \in Nat
  BY <1>3, Lengths DEF IInv, Accounting, TypeOK, Gone, L
<1>20. Accounting'
  <2>1. Bytes(pushed, Gone) + outbytes_transfered + n = L + n
    BY <1>5, <1>19
  <2>2. QED
    BY <1>1, <1>2, <1>10, <2>1 DEF Accounting, Gone
<1>21. StreamUnlessShort'
  <2>1. ASSUME shortened' = 0, NEW place \in 1..(L + n)
        PROVE  \E k \in DOMAIN pushed : /\ place - Bytes(pushed, k - 1) \in 1..Size[pushed[k]]
                                        /\ InBytes'[place] = <<pushed[k], place - Bytes(pushed, k - 1)>>
    <3>1. CASE place \in 1..L
      <4>1. PICK k \in DOMAIN pushed : InPlace(place, k)
        BY <1>10, <1>17, <2>1, <3>1 DEF IInv, StreamUnlessShort
      <4>2. QED
        BY <1>10, <3>1, <4>1 DEF InPlace
    <3>2. CASE place - L \in 1..n /\ place = L + (place - L)
      <4>1. (Gone + 1) - 1 = Gone /\ Bytes(pushed, Gone) = L
        BY <1>3, <1>17, <1>19, <2>1, Lengths
      <4>2. InBytes'[place] = <<f, place - L>>
        BY <1>10, <3>2
      <4>3. place - L \in 1..Size[f]
        BY <1>17, <2>1, <3>2
      <4>4. QED
        BY <1>4, <4>1, <4>2, <4>3
    <3>3. QED
      BY <1>11, <3>1, <3>2
  <2>2. QED
    BY <1>1, <1>10, <2>1 DEF StreamUnlessShort, InPlace
<1>22. \A place \in Ends' : \/ place \in 1..L /\ place \in Ends
                            \/ place = L + n /\ n = Size[f] /\ InBytes'[place] = <<f, n>>
  <2>1. ASSUME NEW place \in Ends'
        PROVE  \/ place \in 1..L /\ place \in Ends
               \/ place = L + n /\ n = Size[f] /\ InBytes'[place] = <<f, n>>
    <3>1. place \in 1..(L + n) /\ InBytes'[place][2] = Size[InBytes'[place][1]]
      BY <1>10 DEF Ends
    <3>2. CASE place \in 1..L
      BY <1>10, <3>1, <3>2 DEF Ends
    <3>3. CASE place - L \in 1..n /\ place = L + (place - L)
      <4>1. InBytes'[place] = <<f, place - L>>
        BY <1>10, <3>3
      <4>2. place - L = Size[f]
        BY <3>1, <4>1
      <4>3. place - L = n /\ n = Size[f]
        BY <1>4, <1>5, <3>3, <4>2
      <4>4. QED
        BY <3>3, <4>1, <4>3
    <3>4. QED
      BY <1>11, <3>1, <3>2, <3>3
  <2>2. QED
    BY <2>1
<1>23. \A place \in Ends : \E k \in DOMAIN pushed : pushed[k] = InBytes[place][1] /\ k <= Gone
  BY <1>1 DEF IInv, EndsGone
<1>24. EndsGone'
  <2>1. ASSUME NEW place \in Ends'
        PROVE  \E k \in DOMAIN pushed :
                   /\ pushed[k] = InBytes'[place][1]
                   /\ \/ k <= Gone
                      \/ k = Gone + 1 /\ n = Size[pushed[k]]
    BY <1>4, <1>10, <1>22, <1>23
  <2>2. QED
    BY <1>1, <1>2, <1>12, <2>1 DEF EndsGone
<1>25. WholeOnceInOrder'
  <2>1. ASSUME NEW i \in Ends', NEW j \in Ends', i < j
        PROVE  \E k, l \in DOMAIN pushed :
                   k < l /\ pushed[k] = InBytes'[i][1] /\ pushed[l] = InBytes'[j][1]
    <3>1. i \in 1..L /\ i \in Ends
      <4>1. j \in 1..(L + n)
        BY <1>10 DEF Ends
      <4>2. i # L + n
        BY <1>5, <1>10, <2>1, <4>1
      <4>3. QED
        BY <1>22, <4>2
    <3>2. InBytes'[i] = InBytes[i]
      BY <1>10, <3>1
    <3>3. CASE j \in 1..L /\ j \in Ends
      <4>1. InBytes'[j] = InBytes[j]
        BY <1>10, <3>3
      <4>2. QED
        BY <2>1, <3>1, <3>2, <3>3, <4>1 DEF IInv, WholeOnceInOrder
    <3>4. CASE InBytes'[j] = <<f, n>>
      <4>1. PICK k \in DOMAIN pushed : pushed[k] = InBytes[i][1] /\ k <= Gone
        BY <1>23, <3>1
      <4>2. k < Gone + 1
        BY <4>1, Lengths
      <4>3. QED
        BY <1>4, <3>2, <3>4, <4>1, <4>2
    <3>5. QED
      BY <1>22, <3>3, <3>4
  <2>2. QED
    BY <1>1, <2>1 DEF WholeOnceInOrder
<1>26. QED
  BY <1>13, <1>14, <1>15, <1>16, <1>18, <1>20, <1>21, <1>24, <1>25 DEF IInv

-----------------------------------------------------------------------------
\* handle_write drops the frames that are paid for.
LEMMA HandleWriteKeeps == IInv /\ HandleWrite => IInv'
<1> SUFFICES ASSUME IInv, HandleWrite PROVE IInv'
  OBVIOUS
<1> DEFINE total == outbytes_transfered + bytes_transfered
           k == Popped(total)
           m == Len(output_storage)
<1>1. /\ write = "taken" /\ bytes_transfered' = 0
      /\ outbytes_transfered' = total - Bytes(output_storage, k)
      /\ output_storage' = SubSeq(output_storage, k + 1, m)
      /\ write' = IF output_storage' = <<>> THEN "idle" ELSE "pending"
      /\ UNCHANGED <<in_port, out_port, read, wire, pushed, shortened>>
  BY DEF HandleWrite, ports
<1>2. /\ output_storage # <<>>
      /\ outbytes_transfered \in Nat /\ bytes_transfered \in Nat /\ total \in Nat
      /\ output_storage \in Seq(Frame) /\ pushed \in Seq(Frame)
      /\ shortened = 0 => total = Size[Head(output_storage)]
  <2>1. output_storage # <<>>
    BY <1>1 DEF IInv, OneWrite
  <2>2. /\ outbytes_transfered \in Nat /\ bytes_transfered \in Nat
        /\ output_storage \in Seq(Frame) /\ pushed \in Seq(Frame)
    BY DEF IInv, TypeOK
  <2>3. shortened = 0 => outbytes_transfered = 0 /\ bytes_transfered = Size[Head(output_storage)]
    BY <1>1 DEF IInv, NothingOver
  <2>4. QED
    BY <2>1, <2>2, <2>3
<1>3. /\ k \in 0..m /\ Bytes(output_storage, k) <= total
      /\ k < m => Bytes(output_storage, k + 1) > total
  BY <1>2, PoppedIs
<1>4. /\ m \in Nat /\ m >= 1 /\ k \in Nat /\ Gone \in Nat /\ Gone + m = Len(pushed)
      /\ Len(pushed) \in Nat /\ Bytes(output_storage, 1) = Size[Head(output_storage)]
      /\ Size[Head(output_storage)] \in Nat \ {0}
      /\ \A i \in 1..m : output_storage[i] = pushed[Gone + i] /\ output_storage[i] \in Frame
  BY <1>2, <1>3, FrontFrame, Lengths DEF IInv, QueueOK
<1> HIDE DEF k, m
<1>5. /\ output_storage' \in Seq(Frame) /\ Len(output_storage') = m - k
      /\ \A i \in 1..(m - k) : output_storage'[i] = output_storage[k + i]
  <2>1. \A i \in (k + 1)..m : output_storage[i] \in Frame
    BY <1>3, <1>4
  <2>2. k + 1 \in Int /\ m \in Int
    BY <1>4
  <2>3. /\ output_storage' \in Seq(Frame)
        /\ Len(output_storage') = IF k + 1 <= m THEN m - (k + 1) + 1 ELSE 0
        /\ \A i \in 1..(m - (k + 1) + 1) : output_storage'[i] = output_storage[(k + 1) + i - 1]
    BY <1>1, <2>1, <2>2, SubSeqProperties
  <2>4. m - (k + 1) + 1 = m - k /\ \A i \in Int : (k + 1) + i - 1 = k + i
    BY <1>4
  <2>5. Len(output_storage') = m - k
    BY <1>3, <1>4, <2>3, <2>4
  <2>6. \A i \in 1..(m - k) : output_storage'[i] = output_storage[(k + 1) + i - 1]
    BY <2>3, <2>4
  <2>7. \A i \in 1..(m - k) : output_storage'[i] = output_storage[k + i]
    <3>1. \A i \in 1..(m - k) : i \in Int
      OBVIOUS
    <3>2. QED
      BY <2>4, <2>6, <3>1
  <2>8. QED
    BY <2>3, <2>5, <2>7
<1>6. Gone' = Gone + k /\ InBytes' = InBytes /\ Ends' = Ends
  <2>1. Gone' = Len(pushed) - (m - k)
    BY <1>1, <1>5 DEF Gone
  <2>2. Gone' = Gone + k
    BY <1>4, <2>1
  <2>3. InBytes' = InBytes
    BY <1>1 DEF InBytes
  <2>4. QED
    BY <2>2, <2>3 DEF Ends
<1>7. Bytes(output_storage, k) \in Nat /\ outbytes_transfered' \in Nat
  <2>1. Bytes(output_storage, k) \in Nat
    BY <1>2, <1>3, BytesStep DEF m
  <2>2. QED
    BY <1>1, <1>2, <1>3, <2>1
<1>8. TypeOK'
  <2>1. write' \in {"idle", "pending", "taken", "failed"}
    BY <1>1
  <2>2. QED
    BY <1>1, <1>5, <1>7, <2>1 DEF IInv, TypeOK
<1>9. OneWrite'
  BY <1>1 DEF OneWrite
<1>10. QueueOK'
  <2>1. \A i \in 1..(m - k) : output_storage'[i] = pushed[(Gone + k) + i]
    <3>1. \A i \in 1..(m - k) : k + i \in 1..m /\ Gone + (k + i) = (Gone + k) + i
      BY <1>3, <1>4
    <3>2. QED
      BY <1>4, <1>5, <3>1
  <2>2. Len(output_storage') <= Len(pushed)
    BY <1>3, <1>4, <1>5
  <2>3. QED
    BY <1>1, <1>5, <1>6, <2>1, <2>2 DEF QueueOK
<1>11. Once' /\ TakenOK'
  BY <1>1 DEF IInv, Once, TakenOK
<1>12. Closed'
  BY <1>1, <1>2, FrontFrame, NoneAssumption DEF Closed
<1>13. total >= Size[Head(output_storage)] => k >= 1
  BY <1>2, <1>3, <1>4
<1>14. NothingOver'
  <2>1. ASSUME shortened = 0
        PROVE  outbytes_transfered' = 0
    <3>1. total = Bytes(output_storage, 1) /\ k >= 1
      BY <1>2, <1>4, <1>13, <2>1
    <3>2. ~(k > 1)
      <4>1. ASSUME k > 1 PROVE Bytes(output_storage, 1) < Bytes(output_storage, k)
        BY <1>2, <1>3, <1>4, <4>1, BytesGrow DEF m
      <4>2. QED
        BY <1>2, <1>3, <1>7, <3>1, <4>1
    <3>3. k = 1
      BY <1>4, <3>1, <3>2
    <3>4. QED
      BY <1>1, <1>2, <3>1, <3>3
  <2>2. QED
    BY <1>1, <2>1 DEF NothingOver
<1>15. Accounting'
  <2>1. Bytes(pushed, Gone + k) = Bytes(pushed, Gone) + Bytes(output_storage, k)
    BY <1>2, <1>3, <1>4, BytesBehind DEF m
  <2>2. Bytes(pushed, Gone) + total = Len(InBytes) /\ Bytes(pushed, Gone) \in Nat
    BY <1>2, Lengths DEF IInv, Accounting, Gone
  <2>3. Bytes(pushed, Gone + k) + outbytes_transfered' + 0 = Len(InBytes)
    BY <1>1, <1>2, <1>7, <2>1, <2>2
  <2>4. Accounting' <=> Bytes(pushed', Gone') + outbytes_transfered' + bytes_transfered' = Len(InBytes')
    BY DEF Accounting, Gone
  <2>5. QED
    BY <1>1, <1>6, <2>3, <2>4
<1>16. StreamUnlessShort' /\ WholeOnceInOrder'
  BY <1>1, <1>6 DEF IInv, StreamUnlessShort, InPlace, WholeOnceInOrder
<1>17. EndsGone'
  <2>1. ASSUME NEW place \in Ends
        PROVE  \E i \in DOMAIN pushed : pushed[i] = InBytes[place][1] /\ i <= Gone + k
    <3>1. PICK i \in DOMAIN pushed :
               /\ pushed[i] = InBytes[place][1]
               /\ \/ i <= Gone
                  \/ i = Gone + 1 /\ write = "taken" /\ bytes_transfered = Size[pushed[i]]
      BY DEF IInv, EndsGone
    <3>2. CASE i <= Gone
      BY <1>4, <3>1, <3>2, Lengths
    <3>3. CASE i = Gone + 1 /\ bytes_transfered = Size[pushed[i]]
      <4>1. Head(output_storage) = pushed[i]
        BY <1>2, <3>3, FrontFrame
      <4>2. k >= 1
        BY <1>2, <1>4, <1>13, <3>3, <4>1
      <4>3. QED
        BY <1>4, <3>1, <3>3, <4>2
    <3>4. QED
      BY <3>1, <3>2, <3>3
  <2>2. QED
    BY <1>1, <1>6, <2>1 DEF EndsGone
<1>18. QED
  BY <1>8, <1>9, <1>10, <1>11, <1>12, <1>14, <1>15, <1>16, <1>17 DEF IInv

-----------------------------------------------------------------------------
LEMMA StepIInv == IInv /\ [Next]_vars => IInv'
<1> SUFFICES ASSUME IInv, [Next]_vars PROVE IInv'
  OBVIOUS
<1>1. CASE UNCHANGED vars
  <2>1. UNCHANGED <<output, wire, shortened>> /\ PortsTypeOK' /\ in_port' = in_port /\ read' = read
    BY <1>1 DEF vars, output, IInv, TypeOK, PortsTypeOK
  <2>2. QED
    BY <2>1, QueueUntouched
<1>2. QED
  BY <1>1, OpenKeeps, WriteRawDataKeeps, DriverWritesKeeps, DriverFailsKeeps, HandleWriteKeeps,
     DeviceSendsKeeps, HandleReadKeeps, HandleReadAndAnswerKeeps DEF Next

LEMMA IInvHolds == Spec => []IInv
BY InitIInv, StepIInv, PTL DEF Spec

\* The variables of the port keep their types; the counters count bytes and never go below 0.
THEOREM TypeCorrect == Spec => []TypeOK
<1>1. IInv => TypeOK
  BY DEF IInv
<1>2. QED
  BY <1>1, IInvHolds, PTL

\* The test for an empty queue in write_raw_data and the loop of handle_write agree: there
\* is always somebody to write what is in the queue, and never a second write of it.
THEOREM WritesWhenNeeded == Spec => []OneWrite
<1>1. IInv => OneWrite
  BY DEF IInv
<1>2. QED
  BY <1>1, IInvHolds, PTL

\* outbytes_transfered is the difference between what the driver took and what was dropped.
THEOREM BytesAccounted == Spec => []Accounting
<1>1. IInv => Accounting
  BY DEF IInv
<1>2. QED
  BY <1>1, IInvHolds, PTL

\* With whole writes the line is the pushed frames, one behind the other.
THEOREM StreamInOrder == Spec => []StreamUnlessShort
<1>1. IInv => StreamUnlessShort
  BY DEF IInv
<1>2. QED
  BY <1>1, IInvHolds, PTL

\* However the driver cuts the writes, no frame is on the line twice as a whole, and none
\* before one that was pushed earlier.
THEOREM FramesOnceInOrder == Spec => []WholeOnceInOrder
<1>1. IInv => WholeOnceInOrder
  BY DEF IInv
<1>2. QED
  BY <1>1, IInvHolds, PTL


-----------------------------------------------------------------------------
(***************************************************************************)
(* The port below is a SerialPort: set_protocol is not seen there.         *)
(***************************************************************************)
LEMMA OutputStep == [OutputNext]_output_vars => [Next]_vars
<1> SUFFICES ASSUME [OutputNext]_output_vars PROVE [Next]_vars
  OBVIOUS
<1>1. ASSUME NEW f \in Frame, WriteCommand(f) \/ ReactionWrites(f)
      PROVE  Next
  BY <1>1 DEF WriteCommand, ReactionWrites, Next
<1>2. CASE SetProtocol
  BY <1>2 DEF SetProtocol
<1>3. CASE Port
  BY <1>3 DEF Port, Next
<1>4. CASE UNCHANGED output_vars
  BY <1>4 DEF output_vars
<1>5. QED
  BY <1>1, <1>2, <1>3, <1>4 DEF OutputNext

\* Every behaviour of the output is one of the port, whichever protocol is set and when:
\* commands come from the main thread, from timeouts and from reactions.
THEOREM OutputUsesPort == OutputSpec => Spec
<1>1. OutputInit => Init
  BY DEF OutputInit
<1>2. QED
  BY <1>1, OutputStep, PTL DEF OutputSpec, Spec

LEMMA PortInvariant == OutputSpec => []IInv
BY OutputUsesPort, IInvHolds, PTL

\* The protocol changes only from extended to basic, and the memory of the frames is given.
THEOREM OutputTypeCorrect == OutputSpec => []OutputTypeOK
<1> DEFINE Own == protocol \in {"basic", "extended"} /\ filler \in Filler
<1>1. OutputInit => Own
  BY DEF OutputInit
<1>2. Own /\ [OutputNext]_output_vars => Own'
  <2> SUFFICES ASSUME Own, [OutputNext]_output_vars PROVE Own'
    OBVIOUS
  <2>1. ASSUME NEW f \in Frame, WriteCommand(f) \/ ReactionWrites(f)
        PROVE  Own'
    BY <2>1 DEF WriteCommand, ReactionWrites
  <2>2. CASE SetProtocol
    BY <2>2 DEF SetProtocol
  <2>3. CASE Port
    BY <2>3 DEF Port
  <2>4. CASE UNCHANGED output_vars
    BY <2>4 DEF output_vars
  <2>5. QED
    BY <2>1, <2>2, <2>3, <2>4 DEF OutputNext
<1>3. IInv /\ Own => OutputTypeOK
  BY DEF IInv, OutputTypeOK
<1>4. QED
  BY <1>1, <1>2, <1>3, PortInvariant, PTL DEF OutputSpec

\* What the port promises holds of it below an encoder too: somebody writes what is in the
\* queue, the counters agree with the line, and the line has the frames in their order.
THEOREM PortKeepsPromises ==
    OutputSpec => [](OneWrite /\ Accounting /\ StreamUnlessShort /\ WholeOnceInOrder)
<1>1. IInv => OneWrite /\ Accounting /\ StreamUnlessShort /\ WholeOnceInOrder
  BY DEF IInv
<1>2. QED
  BY <1>1, PortInvariant, PTL

-----------------------------------------------------------------------------
(***************************************************************************)
(* A sequence of pieces of one or two bytes each.                          *)
(***************************************************************************)
IsFlat(g, pieces, m) ==
    g = [i \in 1..m |-> IF i = 1 THEN pieces[i] ELSE g[i - 1] \o pieces[i]]

LEMMA FlatExists ==
    ASSUME NEW S, NEW pieces \in Seq(Seq(S)), pieces # <<>>
    PROVE  \E g \in [1..Len(pieces) -> Seq(S)] : IsFlat(g, pieces, Len(pieces))
<1> DEFINE n == Len(pieces)
           T == {m \in Nat : m + 1 <= n => \E g \in [1..(m + 1) -> Seq(S)] : IsFlat(g, pieces, m + 1)}
<1>1. n \in Nat \ {0} /\ \A i \in 1..n : pieces[i] \in Seq(S)
  BY ElementOfSeq, EmptySeq, LenProperties
<1>2. 0 \in T
  <2> DEFINE g == [i \in 1..1 |-> pieces[1]]
  <2>1. g \in [1..1 -> Seq(S)]
    BY <1>1
  <2>2. g = [i \in 1..1 |-> IF i = 1 THEN pieces[i] ELSE g[i - 1] \o pieces[i]]
    OBVIOUS
  <2> HIDE DEF g
  <2>3. IsFlat(g, pieces, 1)
    BY <2>2 DEF IsFlat
  <2>4. QED
    BY <2>1, <2>3
<1>3. ASSUME NEW m \in Nat, m \in T
      PROVE  m + 1 \in T
  <2> SUFFICES ASSUME (m + 1) + 1 <= n
               PROVE  \E g \in [1..((m + 1) + 1) -> Seq(S)] : IsFlat(g, pieces, (m + 1) + 1)
    OBVIOUS
  <2>1. PICK g \in [1..(m + 1) -> Seq(S)] : IsFlat(g, pieces, m + 1)
    BY <1>1, <1>3
  <2> DEFINE last == g[m + 1] \o pieces[m + 2]
             h == [i \in 1..(m + 2) |-> IF i = m + 2 THEN last ELSE g[i]]
  <2>2. last \in Seq(S)
    BY <1>1, ConcatProperties
  <2>3. \A i \in 1..(m + 1) : g[i] = IF i = 1 THEN pieces[i] ELSE g[i - 1] \o pieces[i]
    BY <2>1 DEF IsFlat
  <2> HIDE DEF last
  <2>4. h[m + 2] = last /\ \A i \in 1..(m + 1) : h[i] = g[i]
    <3>1. m + 2 \in 1..(m + 2) /\ \A i \in 1..(m + 1) : i \in 1..(m + 2) /\ i # m + 2
      OBVIOUS
    <3>2. QED
      BY <3>1
  <2>5. h \in [1..(m + 2) -> Seq(S)]
    BY <2>2
  <2> HIDE DEF h
  <2>6. \A i \in 1..(m + 2) : h[i] = IF i = 1 THEN pieces[i] ELSE h[i - 1] \o pieces[i]
    <3> SUFFICES ASSUME NEW i \in 1..(m + 2)
                 PROVE  h[i] = IF i = 1 THEN pieces[i] ELSE h[i - 1] \o pieces[i]
      OBVIOUS
    <3>1. CASE i = m + 2
      <4>1. i # 1 /\ i - 1 = m + 1 /\ i - 1 \in 1..(m + 1)
        BY <3>1
      <4>2. h[i - 1] = g[m + 1]
        BY <2>4, <4>1
      <4>3. QED
        BY <2>4, <3>1, <4>1, <4>2 DEF last
    <3>2. CASE i # m + 2
      <4>1. i \in 1..(m + 1) /\ (i # 1 => i - 1 \in 1..(m + 1))
        BY <3>2
      <4>2. QED
        BY <2>3, <2>4, <4>1
    <3>3. QED
      BY <3>1, <3>2
  <2>7. IsFlat(h, pieces, m + 2)
    BY <2>5, <2>6 DEF IsFlat
  <2>8. (m + 1) + 1 = m + 2
    OBVIOUS
  <2>9. QED
    BY <2>5, <2>7, <2>8
<1> HIDE DEF T
<1>4. Nat \subseteq T
  BY <1>2, <1>3, FromZero
<1>5. n - 1 \in T /\ (n - 1) + 1 = n
  BY <1>1, <1>4
<1>6. QED
  BY <1>5 DEF T

\* Pieces of at most two bytes give at most twice their number.
LEMMA FlattenTwice ==
    ASSUME NEW S, NEW pieces \in Seq(Seq(S)),
           \A i \in 1..Len(pieces) : Len(pieces[i]) <= 2
    PROVE  /\ Encoder!FlattenSeq(pieces) \in Seq(S)
           /\ Len(Encoder!FlattenSeq(pieces)) <= 2 * Len(pieces)
<1> DEFINE n == Len(pieces)
<1>1. n \in Nat /\ \A i \in 1..n : pieces[i] \in Seq(S) /\ Len(pieces[i]) \in Nat
  BY ElementOfSeq, LenProperties
<1>2. CASE n = 0
  <2>1. pieces = <<>>
    BY <1>2, EmptySeq
  <2>2. Encoder!FlattenSeq(pieces) = <<>>
    BY <1>2, <2>1 DEF Encoder!FlattenSeq
  <2>3. QED
    BY <1>2, <2>2, EmptySeq
<1>3. CASE n # 0
  <2> DEFINE U == CHOOSE g : IsFlat(g, pieces, n)
  <2>1. Encoder!FlattenSeq(pieces) = U[n]
    BY <1>3 DEF Encoder!FlattenSeq, IsFlat
  <2>2. pieces # <<>>
    BY <1>3, EmptySeq
  <2>3. IsFlat(U, pieces, n)
    BY <2>2, FlatExists
  <2> HIDE DEF U
  <2>4. \A i \in 1..n : U[i] = IF i = 1 THEN pieces[i] ELSE U[i - 1] \o pieces[i]
    BY <2>3 DEF IsFlat
  <2> DEFINE T == {m \in Nat : m + 1 <= n => U[m + 1] \in Seq(S) /\ Len(U[m + 1]) <= 2 * (m + 1)}
  <2>5. 0 \in T
    <3>1. 1 \in 1..n /\ U[1] = pieces[1]
      BY <1>1, <1>3, <2>4
    <3>2. QED
      BY <1>1, <3>1
  <2>6. ASSUME NEW m \in Nat, m \in T
        PROVE  m + 1 \in T
    <3> SUFFICES ASSUME m + 2 <= n
                 PROVE  U[m + 2] \in Seq(S) /\ Len(U[m + 2]) <= 2 * (m + 2)
      OBVIOUS
    <3>1. m + 2 \in 1..n /\ (m + 2) - 1 = m + 1 /\ m + 2 # 1
      BY <1>1
    <3>2. U[m + 2] = U[m + 1] \o pieces[m + 2]
      BY <2>4, <3>1
    <3>3. U[m + 1] \in Seq(S) /\ Len(U[m + 1]) <= 2 * (m + 1) /\ Len(U[m + 1]) \in Nat
      BY <1>1, <2>6, LenProperties
    <3>4. pieces[m + 2] \in Seq(S) /\ Len(pieces[m + 2]) <= 2 /\ Len(pieces[m + 2]) \in Nat
      BY <1>1, <3>1
    <3>5. U[m + 2] \in Seq(S) /\ Len(U[m + 2]) = Len(U[m + 1]) + Len(pieces[m + 2])
      BY <3>2, <3>3, <3>4, ConcatProperties
    <3>6. \A a, b \in Nat : a <= 2 * (m + 1) /\ b <= 2 => a + b <= 2 * (m + 2)
      OBVIOUS
    <3>7. QED
      BY <3>3, <3>4, <3>5, <3>6
  <2> HIDE DEF T
  <2>7. Nat \subseteq T
    BY <2>5, <2>6, FromZero
  <2>8. n - 1 \in T /\ (n - 1) + 1 = n
    BY <1>1, <1>3, <2>7
  <2>9. U[n] \in Seq(S) /\ Len(U[n]) <= 2 * n
    BY <2>8 DEF T
  <2>10. QED
    BY <2>1, <2>9
<1>4. QED
  BY <1>2, <1>3

-----------------------------------------------------------------------------
(***************************************************************************)
(* The length of what each encoder writes.                                 *)
(***************************************************************************)
LEMMA BasicLength ==
    ASSUME NEW id \in 0..255, NEW data \in Seq(0..255)
    PROVE  /\ Len(Encoder!WriteDataBasic(id, data)) \in Nat
           /\ Len(Encoder!WriteDataBasic(id, data)) <= 3 + 2 * Len(data)
<1> DEFINE escaped == [i \in DOMAIN data |->
                          IF data[i] <= 31 THEN <<Encoder!DLE, data[i]>> ELSE <<data[i]>>]
<1>1. Len(data) \in Nat /\ DOMAIN data = 1..Len(data) /\ \A i \in 1..Len(data) : data[i] \in 0..255
  BY ElementOfSeq, LenProperties
<1>2. \A i \in 1..Len(data) :
          escaped[i] \in Seq(0..255) /\ Len(escaped[i]) <= 2
  <2> SUFFICES ASSUME NEW i \in 1..Len(data)
               PROVE  escaped[i] \in Seq(0..255) /\ Len(escaped[i]) <= 2
    OBVIOUS
  <2> DEFINE one == <<data[i]>>
             two == <<Encoder!DLE, data[i]>>
  <2>1. escaped[i] = one \/ escaped[i] = two
    BY <1>1
  <2>2. one \in Seq(0..255) /\ Len(one) <= 2
    BY <1>1
  <2>3. two \in Seq(0..255) /\ Len(two) <= 2
    BY <1>1 DEF Encoder!DLE
  <2> HIDE DEF one, two, escaped
  <2>4. CASE escaped[i] = one
    BY <2>2, <2>4, Zenon
  <2>5. CASE escaped[i] = two
    BY <2>3, <2>5, Zenon
  <2>6. QED
    BY <2>1, <2>4, <2>5
<1>3. escaped \in Seq(Seq(0..255)) /\ Len(escaped) = Len(data)
  BY <1>1, <1>2, IsASeq, LenProperties
<1> DEFINE flat == Encoder!FlattenSeq(escaped)
<1>4. Encoder!WriteDataBasic(id, data) = <<STX, id>> \o flat \o <<Encoder!ETX>>
  BY DEF Encoder!WriteDataBasic, STX
<1> HIDE DEF escaped
<1>5. flat \in Seq(0..255) /\ Len(flat) <= 2 * Len(data) /\ Len(flat) \in Nat
  BY <1>1, <1>2, <1>3, FlattenTwice, LenProperties
<1> HIDE DEF flat
<1>6. /\ <<STX, id>> \in Seq(0..255) /\ Len(<<STX, id>>) = 2
      /\ <<Encoder!ETX>> \in Seq(0..255) /\ Len(<<Encoder!ETX>>) = 1
  BY DEF STX, Encoder!STX, Encoder!ETX
<1>7. <<STX, id>> \o flat \in Seq(0..255) /\ Len(<<STX, id>> \o flat) = 2 + Len(flat)
  BY <1>5, <1>6, ConcatProperties
<1>8. Len(<<STX, id>> \o flat \o <<Encoder!ETX>>) = 3 + Len(flat)
  BY <1>5, <1>6, <1>7, ConcatProperties
<1>9. QED
  BY <1>1, <1>4, <1>5, <1>8

LEMMA ExtendedLength ==
    ASSUME NEW id \in 0..255, NEW data \in Seq(0..255)
    PROVE  Len(<<255, STX>> \o Encoder!WriteData(id, data)) = 8 + Len(data)
<1> DEFINE size == Len(data) % 256
           body == <<id, size>> \o data
           high == Encoder!Crc(body) \div 256
           low == Encoder!Crc(body) % 256
           S == 0..255 \cup {high, low}
<1>1. Encoder!WriteData(id, data) = <<STX>> \o body \o <<high, low, Encoder!ETX>>
  BY DEF Encoder!WriteData, STX
<1> HIDE DEF high, low
<1>2. data \in Seq(S) /\ Len(data) \in Nat /\ size \in 0..255
  <2>1. Len(data) \in Nat
    BY LenProperties
  <2>2. size \in 0..255
    <3>1. \A n \in Nat : n % 256 \in 0..255
      OBVIOUS
    <3>2. QED
      BY <2>1, <3>1
  <2>3. data \in Seq(S)
    BY SeqMonotonic
  <2>4. QED
    BY <2>1, <2>2, <2>3
<1> HIDE DEF size
<1>3. /\ <<id, size>> \in Seq(S) /\ Len(<<id, size>>) = 2
      /\ <<STX>> \in Seq(S) /\ Len(<<STX>>) = 1
      /\ <<255, STX>> \in Seq(S) /\ Len(<<255, STX>>) = 2
      /\ <<high, low, Encoder!ETX>> \in Seq(S) /\ Len(<<high, low, Encoder!ETX>>) = 3
  BY <1>2 DEF STX, Encoder!STX, Encoder!ETX
<1> HIDE DEF S
<1>4. body \in Seq(S) /\ Len(body) = 2 + Len(data)
  BY <1>2, <1>3, ConcatProperties
<1> HIDE DEF body
<1>5. <<STX>> \o body \in Seq(S) /\ Len(<<STX>> \o body) = 3 + Len(data)
  BY <1>2, <1>3, <1>4, ConcatProperties
<1>6. /\ Encoder!WriteData(id, data) \in Seq(S)
      /\ Len(Encoder!WriteData(id, data)) = 6 + Len(data)
  BY <1>1, <1>2, <1>3, <1>5, ConcatProperties
<1>7. QED
  BY <1>2, <1>3, <1>6, ConcatProperties

\* For every command of every protocol the bytes written fit into the size announced.
LEMMA SizeSuffices == \A f \in Frame : Len(WriteData(f)) <= Size[f]
<1> SUFFICES ASSUME NEW f \in Frame PROVE Len(WriteData(f)) <= Size[f]
  OBVIOUS
<1>1. f.id \in 0..255 /\ f.data \in Seq(0..255) /\ Len(f.data) \in Nat
  BY EncodedAssumption, LenProperties DEF Encoded
<1>2. Size[f] = GetSize(f)
  BY SizeIsAnnounced
<1>3. CASE EncoderOf(f) = "control_sequence"
  <2>1. GetSize(f) = 1
    BY <1>3, Zenon DEF GetSize
  <2>2. WriteData(f) = <<f.id>>
    BY <1>3, Zenon DEF WriteData
  <2>3. QED
    BY <1>2, <2>1, <2>2
<1>4. CASE EncoderOf(f) = "basic"
  <2>1. GetSize(f) = SizeBasic(f.data)
    BY <1>4, Zenon DEF GetSize
  <2>2. WriteData(f) = Encoder!WriteDataBasic(f.id, f.data)
    BY <1>4, Zenon DEF WriteData
  <2>3. SizeBasic(f.data) \in Nat /\ 3 + 2 * Len(f.data) <= SizeBasic(f.data)
    <3> DEFINE again == IF f.data # <<>> /\ Head(f.data) <= 31 THEN Len(f.data) ELSE 0
    <3>1. SizeBasic(f.data) = 3 + 2 * Len(f.data) + again
      BY DEF SizeBasic
    <3>2. again \in Nat
      BY <1>1
    <3> HIDE DEF again
    <3>3. QED
      BY <1>1, <3>1, <3>2
  <2>4. Len(WriteData(f)) \in Nat /\ Len(WriteData(f)) <= 3 + 2 * Len(f.data)
    BY <1>1, <2>2, BasicLength
  <2>5. QED
    BY <1>1, <1>2, <2>1, <2>3, <2>4
<1>5. CASE EncoderOf(f) = "extended"
  <2>1. GetSize(f) = SizeExtended(f.data)
    BY <1>5, Zenon DEF GetSize
  <2>2. WriteData(f) = <<255, STX>> \o Encoder!WriteData(f.id, f.data)
    BY <1>5, Zenon DEF WriteData
  <2>3. Len(WriteData(f)) = 8 + Len(f.data)
    <3> DEFINE id == f.id
               data == f.data
    <3>1. id \in 0..255 /\ data \in Seq(0..255) /\ WriteData(f) = <<255, STX>> \o Encoder!WriteData(id, data)
      BY <1>1, <2>2
    <3> HIDE DEF id, data
    <3>2. Len(<<255, STX>> \o Encoder!WriteData(id, data)) = 8 + Len(data)
      BY <3>1, ExtendedLength
    <3>3. Len(WriteData(f)) = 8 + Len(data)
      BY <3>1, <3>2, Zenon
    <3>4. QED
      BY <3>3 DEF data
  <2>4. QED
    BY <1>1, <1>2, <2>1, <2>3 DEF SizeExtended
<1>6. EncoderOf(f) \in {"control_sequence", "basic", "extended"}
  BY DEF EncoderOf
<1>7. QED
  BY <1>3, <1>4, <1>5, <1>6

\* encode never writes behind the array that get_size has measured, for all commands with
\* data of any length, and so neither the frames that follow on the line nor the heap.
THEOREM EncodersStayInside == OutputSpec => []SizeHoldsFrame
<1>1. IInv => SizeHoldsFrame
  <2> SUFFICES ASSUME IInv, NEW f \in ToSet(pushed) PROVE Len(WriteData(f)) <= Size[f]
    BY DEF SizeHoldsFrame
  <2>1. pushed \in Seq(Frame)
    BY DEF IInv, TypeOK
  <2>2. f \in Frame
    BY <2>1, ElementOfSeq, LenProperties DEF ToSet
  <2>3. QED
    BY <2>2, SizeSuffices
<1>2. QED
  BY <1>1, PortInvariant, PTL

-----------------------------------------------------------------------------
(***************************************************************************)
(* The station, byte by byte.                                              *)
(***************************************************************************)
State(at, id, data, left, heard) ==
    [at |-> at, id |-> id, data |-> data, left |-> left, heard |-> heard]

LEMMA StateIs ==
    ASSUME NEW at, NEW id, NEW data, NEW left, NEW heard
    PROVE  LET s == State(at, id, data, left, heard)
           IN /\ s.at = at /\ s.id = id /\ s.data = data /\ s.left = left /\ s.heard = heard
              /\ \A x : [s EXCEPT !.at = x] = State(x, id, data, left, heard)
BY DEF State

LEMMA TakesAt ==
    ASSUME NEW s, NEW byte
    PROVE  /\ s.at = "idle" => Takes(s, byte) = TakesIdle(s, byte)
           /\ s.at = "started" => Takes(s, byte) = TakesStarted(s, byte)
           /\ s.at = "basic" => Takes(s, byte) = TakesBasic(s, byte)
           /\ s.at = "escaped" => Takes(s, byte) = [s EXCEPT !.data = Append(@, byte), !.at = "basic"]
           /\ s.at = "size" => Takes(s, byte) = [s EXCEPT !.left = byte + 3, !.at = "body"]
           /\ s.at = "body" => Takes(s, byte) = TakesBody(s, byte)
BY Zenon DEF Takes

\* Between two frames.
LEMMA TakesWhenIdle ==
    ASSUME NEW heard, NEW byte
    PROVE  /\ byte \notin {STX, Encoder!ACK, Encoder!NAK} => Takes(Silent(heard), byte) = Silent(heard)
           /\ byte \in {Encoder!ACK, Encoder!NAK} =>
                  Takes(Silent(heard), byte) = Hears(heard, byte, <<>>, TRUE)
           /\ byte = STX => Takes(Silent(heard), byte) = State("started", 0, <<>>, 0, heard)
<1>1. Silent(heard) = State("idle", 0, <<>>, 0, heard) /\ Silent(heard).at = "idle"
  BY DEF Silent, State
<1>2. Takes(Silent(heard), byte) = TakesIdle(Silent(heard), byte)
  BY <1>1, TakesAt
<1>3. Encoder!ACK # STX /\ Encoder!NAK # STX
  BY DEF STX, Encoder!STX, Encoder!ACK, Encoder!NAK
<1>4. Silent(heard).heard = heard /\ Goes(Silent(heard), "started") = State("started", 0, <<>>, 0, heard)
  BY DEF Silent, State, Goes
<1>5. QED
  BY <1>2, <1>3, <1>4 DEF TakesIdle

\* At the beginning of a frame.
LEMMA TakesWhenStarted ==
    ASSUME NEW heard, NEW byte
    PROVE  LET s == State("started", 0, <<>>, 0, heard)
           IN /\ byte = STX => Takes(s, byte) = s
              /\ byte # STX => Takes(s, byte) =
                     State(IF Encoder!IsBasic(byte) THEN "basic" ELSE "size", byte, <<>>, 0, heard)
<1> DEFINE s == State("started", 0, <<>>, 0, heard)
<1>1. Takes(s, byte) = TakesStarted(s, byte)
  BY TakesAt DEF State
<1>2. TakesStarted(s, byte) =
          IF byte = STX THEN s
          ELSE State(IF Encoder!IsBasic(byte) THEN "basic" ELSE "size", byte, <<>>, 0, heard)
  <2>1. s.heard = heard
    BY DEF State
  <2>2. QED
    BY <2>1, Zenon DEF TakesStarted, State
<1>3. QED
  BY <1>1, <1>2

\* In the data of a basic frame.
IsPlain(byte) == byte >= 32

LEMMA DataAppended ==
    ASSUME NEW id, NEW data, NEW heard, NEW byte
    PROVE  [State("basic", id, data, 0, heard) EXCEPT !.data = Append(@, byte)] =
               State("basic", id, Append(data, byte), 0, heard)
BY DEF State

LEMMA TakesPlain ==
    ASSUME NEW id, NEW data, NEW heard, NEW byte, IsPlain(byte)
    PROVE  Takes(State("basic", id, data, 0, heard), byte) =
               State("basic", id, Append(data, byte), 0, heard)
<1> DEFINE s == State("basic", id, data, 0, heard)
<1>1. Takes(s, byte) = TakesBasic(s, byte)
  BY TakesAt DEF State
<1>2. [s EXCEPT !.data = Append(@, byte)] = State("basic", id, Append(data, byte), 0, heard)
  BY DataAppended
<1> HIDE DEF s
<1>3. Takes(s, byte) = State("basic", id, Append(data, byte), 0, heard)
  BY <1>1, <1>2, Zenon DEF TakesBasic, IsPlain
<1>4. QED
  BY <1>3, Zenon DEF s

LEMMA TakesInBasic ==
    ASSUME NEW id, NEW data, NEW heard
    PROVE  LET s == State("basic", id, data, 0, heard)
           IN /\ Takes(s, Encoder!DLE) = State("escaped", id, data, 0, heard)
              /\ Takes(s, Encoder!ETX) = Hears(heard, id, data, FALSE)
<1> DEFINE s == State("basic", id, data, 0, heard)
<1>1. \A byte : Takes(s, byte) = TakesBasic(s, byte)
  BY TakesAt DEF State
<1>2. s.id = id /\ s.data = data /\ s.heard = heard /\ Goes(s, "escaped") = State("escaped", id, data, 0, heard)
  BY DEF State, Goes
<1>3. ~(Encoder!DLE >= 32) /\ ~(Encoder!ETX >= 32) /\ Encoder!ETX # Encoder!DLE
  BY DEF Encoder!DLE, Encoder!ETX
<1> HIDE DEF s
<1>4. Takes(s, Encoder!DLE) = State("escaped", id, data, 0, heard)
  BY <1>1, <1>2, <1>3, Zenon DEF TakesBasic
<1>5. Takes(s, Encoder!ETX) = Hears(heard, id, data, FALSE)
  BY <1>1, <1>2, <1>3, Zenon DEF TakesBasic
<1>6. QED
  BY <1>4, <1>5, Zenon DEF s

LEMMA TakesEscaped ==
    ASSUME NEW id, NEW data, NEW heard, NEW byte
    PROVE  Takes(State("escaped", id, data, 0, heard), byte) =
               State("basic", id, Append(data, byte), 0, heard)
<1> DEFINE s == State("escaped", id, data, 0, heard)
<1>1. Takes(s, byte) = [s EXCEPT !.data = Append(@, byte), !.at = "basic"]
  BY TakesAt DEF State
<1>2. QED
  BY <1>1 DEF State

\* The size and the body of an extended frame.
LEMMA TakesSize ==
    ASSUME NEW id, NEW heard, NEW byte
    PROVE  Takes(State("size", id, <<>>, 0, heard), byte) = State("body", id, <<>>, byte + 3, heard)
<1> DEFINE s == State("size", id, <<>>, 0, heard)
<1>1. Takes(s, byte) = [s EXCEPT !.left = byte + 3, !.at = "body"]
  BY TakesAt DEF State
<1>2. QED
  BY <1>1 DEF State

LEMMA TakesInBody ==
    ASSUME NEW id, NEW data, NEW left \in Nat, left > 1, NEW heard, NEW byte
    PROVE  Takes(State("body", id, data, left, heard), byte) =
               State("body", id, Append(data, byte), left - 1, heard)
<1> DEFINE s == State("body", id, data, left, heard)
<1>1. Takes(s, byte) = TakesBody(s, byte)
  BY TakesAt DEF State
<1>2. s.left > 1
  BY DEF State
<1>3. TakesBody(s, byte) = [s EXCEPT !.data = Append(@, byte), !.left = @ - 1]
  BY <1>2, Zenon DEF TakesBody
<1>4. QED
  BY <1>1, <1>3 DEF State

\* The data is a sequence that ends in its checksum.
IsChecksum(id, data, high, low) ==
    /\ high = Encoder!Crc(<<id, Len(data) % 256>> \o data) \div 256
    /\ low = Encoder!Crc(<<id, Len(data) % 256>> \o data) % 256

LEMMA SizeOfByte == \A m \in Nat : m <= 255 => m % 256 = m
OBVIOUS

LEMMA TakesLast ==
    ASSUME NEW id, NEW S, NEW data \in Seq(S), Len(data) <= 255,
           NEW high \in S, NEW low \in S, IsChecksum(id, data, high, low), NEW heard,
           NEW body, body = data \o <<high, low>>
    PROVE  Takes(State("body", id, body, 1, heard), Encoder!ETX) =
               Hears(heard, id, data, FALSE)
<1> DEFINE s == State("body", id, body, 1, heard)
           size == Len(s.data) - 2
           got == SubSeq(s.data, 1, size)
           sum == Encoder!Crc(<<s.id, size>> \o got)
<1>1. Takes(s, Encoder!ETX) = TakesBody(s, Encoder!ETX)
  <2>1. s.at = "body"
    BY DEF State
  <2> HIDE DEF s
  <2>2. QED
    BY <2>1, TakesAt
<1>2. s.left = 1 /\ s.data = body /\ s.id = id /\ s.heard = heard
  BY DEF State
<1>3. <<high, low>> \in Seq(S) /\ Len(<<high, low>>) = 2 /\ Len(data) \in Nat
  BY LenProperties
<1>4. body \in Seq(S) /\ Len(body) = Len(data) + 2
      /\ \A i \in 1..(Len(data) + 2) : body[i] = IF i <= Len(data) THEN data[i] ELSE <<high, low>>[i - Len(data)]
  BY <1>3, ConcatProperties
<1> HIDE DEF s
<1>5. size = Len(data)
  BY <1>2, <1>3, <1>4
<1>6. got = data
  <2>1. /\ SubSeq(body, 1, Len(data)) \in Seq(S)
        /\ Len(SubSeq(body, 1, Len(data))) = Len(data)
        /\ \A i \in 1..Len(data) : SubSeq(body, 1, Len(data))[i] = body[i]
    <3>1. \A i \in 1..Len(data) : body[i] \in S
      BY <1>3, <1>4, ElementOfSeq
    <3>2. QED
      BY <1>3, <3>1, SubSeqProperties
  <2>2. SubSeq(body, 1, Len(data)) = data
    BY <1>3, <1>4, <2>1, SeqEqual
  <2>3. QED
    BY <1>2, <1>5, <2>2
<1>7. SubSeq(s.data, size + 1, size + 2) = <<high, low>>
  <2> DEFINE n == Len(data)
             tail == SubSeq(body, n + 1, n + 2)
  <2>1. body[n + 1] = high /\ body[n + 2] = low
    BY <1>3, <1>4
  <2>2. \A i \in (n + 1)..(n + 2) : body[i] \in S
    BY <1>3, <2>1
  <2>3. tail \in Seq(S) /\ Len(tail) = 2 /\ \A i \in 1..2 : tail[i] = body[n + 1 + i - 1]
    <3>1. n + 1 \in Int /\ n + 2 \in Int /\ n + 1 <= n + 2 /\ (n + 2) - (n + 1) + 1 = 2
      BY <1>3
    <3>2. QED
      BY <2>2, <3>1, SubSeqProperties
  <2>4. tail[1] = high /\ tail[2] = low
    BY <1>3, <2>1, <2>3
  <2> HIDE DEF tail
  <2>5. tail = <<high, low>>
    BY <1>3, <2>3, <2>4, SeqEqual
  <2>6. QED
    BY <1>2, <1>5, <2>5 DEF tail
<1>8. sum \div 256 = high /\ sum % 256 = low
  <2>1. Len(data) % 256 = Len(data)
    BY <1>3, SizeOfByte
  <2>2. /\ high = Encoder!Crc(<<id, Len(data)>> \o data) \div 256
        /\ low = Encoder!Crc(<<id, Len(data)>> \o data) % 256
    BY <2>1 DEF IsChecksum
  <2>3. QED
    BY <1>2, <1>5, <1>6, <2>2
<1>9. ~(s.left > 1)
  BY <1>2
<1> HIDE DEF size, got, sum
<1>10. TakesBody(s, Encoder!ETX) = Hears(s.heard, s.id, got, FALSE)
  BY <1>7, <1>8, <1>9, Zenon DEF TakesBody, size, got, sum
<1>11. Takes(s, Encoder!ETX) = Hears(heard, id, data, FALSE)
  BY <1>1, <1>2, <1>6, <1>10
<1>12. QED
  BY <1>11, Zenon DEF s

-----------------------------------------------------------------------------
(***************************************************************************)
(* Where each piece is in the flattened sequence.                          *)
(***************************************************************************)
ArePlaces(L, pieces, flat) ==
    /\ L[0] = 0 /\ L[Len(pieces)] = Len(flat)
    /\ \A i \in 0..Len(pieces) : L[i] \in Nat /\ L[i] <= Len(flat)
    /\ \A i \in 1..Len(pieces) :
           /\ L[i] = L[i - 1] + Len(pieces[i])
           /\ \A j \in 1..Len(pieces[i]) : flat[L[i - 1] + j] = pieces[i][j]

LEMMA FlattenPlaces ==
    ASSUME NEW S, NEW pieces \in Seq(Seq(S))
    PROVE  /\ Encoder!FlattenSeq(pieces) \in Seq(S)
           /\ \E L : ArePlaces(L, pieces, Encoder!FlattenSeq(pieces))
<1> DEFINE n == Len(pieces)
           flat == Encoder!FlattenSeq(pieces)
<1>1. n \in Nat /\ \A i \in 1..n : pieces[i] \in Seq(S) /\ Len(pieces[i]) \in Nat
  BY ElementOfSeq, LenProperties
<1>2. CASE n = 0
  <2> DEFINE L == [i \in 0..0 |-> 0]
  <2>1. pieces = <<>>
    BY <1>2, EmptySeq
  <2>2. flat = <<>>
    BY <1>2, <2>1 DEF Encoder!FlattenSeq
  <2>3. flat \in Seq(S) /\ Len(flat) = 0
    BY <2>2, EmptySeq
  <2>4. L[0] = 0 /\ \A i \in 0..0 : L[i] = 0
    OBVIOUS
  <2> HIDE DEF L, flat
  <2>5. ArePlaces(L, pieces, flat)
    BY <1>2, <2>3, <2>4 DEF ArePlaces
  <2>6. QED
    BY <2>3, <2>5, Zenon DEF flat
<1>3. CASE n # 0
  <2> DEFINE U == CHOOSE g : IsFlat(g, pieces, n)
  <2>1. flat = U[n]
    BY <1>3 DEF Encoder!FlattenSeq, IsFlat
  <2>2. pieces # <<>>
    BY <1>3, EmptySeq
  <2>3. IsFlat(U, pieces, n)
    BY <2>2, FlatExists
  <2> HIDE DEF U
  <2>4. \A i \in 1..n : U[i] = IF i = 1 THEN pieces[i] ELSE U[i - 1] \o pieces[i]
    BY <2>3 DEF IsFlat
  <2> DEFINE P == [i \in 0..n |-> IF i = 0 THEN <<>> ELSE U[i]]
  <2>5. P[0] = <<>> /\ P[n] = flat /\ \A i \in 1..n : P[i] = U[i]
    BY <1>1, <1>3, <2>1
  <2> HIDE DEF P, flat
  <2>6. \A i \in 1..n : P[i] = P[i - 1] \o pieces[i]
    <3> SUFFICES ASSUME NEW i \in 1..n PROVE P[i] = P[i - 1] \o pieces[i]
      OBVIOUS
    <3>1. CASE i = 1
      <4>1. <<>> \o pieces[1] = pieces[1]
        BY <1>1, <3>1, ConcatEmptySeq
      <4>2. i - 1 = 0 /\ P[i] = pieces[1]
        BY <2>4, <2>5, <3>1
      <4>3. QED
        BY <2>5, <3>1, <4>1, <4>2
    <3>2. CASE i # 1
      <4>1. i - 1 \in 1..n
        BY <1>1, <3>2
      <4>2. QED
        BY <2>4, <2>5, <3>2, <4>1
    <3>3. QED
      BY <3>1, <3>2
  <2> DEFINE T == {k \in Nat : k <= n =>
                      /\ P[k] \in Seq(S)
                      /\ \A i \in 0..k : /\ P[i] \in Seq(S) /\ Len(P[i]) <= Len(P[k])
                                         /\ \A j \in 1..Len(P[i]) : P[k][j] = P[i][j]}
  <2>7. 0 \in T
    <3>1. <<>> \in Seq(S) /\ Len(<<>>) = 0
      BY EmptySeq
    <3>2. P[0] \in Seq(S) /\ Len(P[0]) <= Len(P[0])
      BY <2>5, <3>1
    <3>3. \A i \in 0..0 : i = 0
      OBVIOUS
    <3>4. \A i \in 0..0 : /\ P[i] \in Seq(S) /\ Len(P[i]) <= Len(P[0])
                          /\ \A j \in 1..Len(P[i]) : P[0][j] = P[i][j]
      BY <3>2, <3>3, Zenon
    <3>5. QED
      BY <3>2, <3>4
  <2>8. ASSUME NEW k \in Nat, k \in T
        PROVE  k + 1 \in T
    <3> SUFFICES ASSUME k + 1 <= n
                 PROVE  /\ P[k + 1] \in Seq(S)
                        /\ \A i \in 0..(k + 1) :
                               /\ P[i] \in Seq(S) /\ Len(P[i]) <= Len(P[k + 1])
                               /\ \A j \in 1..Len(P[i]) : P[k + 1][j] = P[i][j]
      OBVIOUS
    <3>1. k + 1 \in 1..n /\ (k + 1) - 1 = k /\ k <= n
      BY <1>1
    <3>2. P[k] \in Seq(S) /\ Len(P[k]) \in Nat
      BY <2>8, <3>1, LenProperties
    <3>3. pieces[k + 1] \in Seq(S) /\ Len(pieces[k + 1]) \in Nat
      BY <1>1, <3>1
    <3>4. P[k + 1] = P[k] \o pieces[k + 1]
      BY <2>6, <3>1
    <3>5. /\ P[k + 1] \in Seq(S) /\ Len(P[k + 1]) = Len(P[k]) + Len(pieces[k + 1])
          /\ \A j \in 1..Len(P[k]) : P[k + 1][j] = P[k][j]
      <4> DEFINE both == P[k] \o pieces[k + 1]
      <4>1. /\ both \in Seq(S) /\ Len(both) = Len(P[k]) + Len(pieces[k + 1])
            /\ \A j \in 1..(Len(P[k]) + Len(pieces[k + 1])) :
                   both[j] = IF j <= Len(P[k]) THEN P[k][j] ELSE pieces[k + 1][j - Len(P[k])]
        BY <3>2, <3>3, ConcatProperties
      <4> HIDE DEF both
      <4>2. \A j \in 1..Len(P[k]) : both[j] = P[k][j]
        <5> DEFINE a == Len(P[k])
                   b == Len(pieces[k + 1])
        <5>1. \A j \in 1..a : j \in 1..(a + b) /\ j <= a
          <6>1. a \in Nat /\ b \in Nat
            BY <3>2, <3>3
          <6> HIDE DEF a, b
          <6>2. QED
            BY <6>1
        <5>2. QED
          BY <4>1, <5>1, Zenon
      <4>3. P[k + 1] = both
        BY <3>4 DEF both
      <4>4. QED
        BY <4>1, <4>2, <4>3
    <3>6. ASSUME NEW i \in 0..(k + 1)
          PROVE  /\ P[i] \in Seq(S) /\ Len(P[i]) <= Len(P[k + 1])
                 /\ \A j \in 1..Len(P[i]) : P[k + 1][j] = P[i][j]
      <4>1. CASE i = k + 1
        <5>1. Len(P[k + 1]) \in Nat
          BY <3>5, LenProperties
        <5>2. Len(P[k + 1]) <= Len(P[k + 1])
          BY <5>1
        <5>3. QED
          BY <3>5, <4>1, <5>2, Zenon
      <4>2. CASE i # k + 1
        <5>1. i \in 0..k
          BY <4>2
        <5>2. P[i] \in Seq(S) /\ Len(P[i]) <= Len(P[k]) /\ \A j \in 1..Len(P[i]) : P[k][j] = P[i][j]
          BY <2>8, <3>1, <5>1
        <5>3. Len(P[i]) \in Nat
          BY <5>2, LenProperties
        <5>4. \A j \in 1..Len(P[i]) : j \in 1..Len(P[k])
          BY <3>2, <5>2, <5>3
        <5>5. Len(P[i]) <= Len(P[k + 1])
          <6> DEFINE a == Len(P[i])
                     b == Len(P[k])
                     c == Len(pieces[k + 1])
          <6>1. a \in Nat /\ b \in Nat /\ c \in Nat /\ a <= b /\ Len(P[k + 1]) = b + c
            BY <3>2, <3>3, <3>5, <5>2, <5>3
          <6> HIDE DEF a, b, c
          <6>2. a <= Len(P[k + 1])
            BY <6>1
          <6>3. QED
            BY <6>2 DEF a
        <5>6. \A j \in 1..Len(P[i]) : P[k + 1][j] = P[i][j]
          BY <3>5, <5>2, <5>4, Zenon
        <5>7. QED
          BY <5>2, <5>5, <5>6
      <4>3. QED
        BY <4>1, <4>2
    <3>7. QED
      BY <3>5, <3>6
  <2> HIDE DEF T
  <2>9. Nat \subseteq T
    BY <2>7, <2>8, FromZero
  <2>10. /\ flat \in Seq(S)
         /\ \A i \in 0..n : /\ P[i] \in Seq(S) /\ Len(P[i]) \in Nat /\ Len(P[i]) <= Len(flat)
                            /\ \A j \in 1..Len(P[i]) : flat[j] = P[i][j]
    BY <1>1, <2>5, <2>9, LenProperties DEF T
  <2> DEFINE L == [i \in 0..n |-> Len(P[i])]
  <2>11. \A i \in 0..n : L[i] = Len(P[i])
    OBVIOUS
  <2> HIDE DEF L
  <2>12. L[0] = 0 /\ L[n] = Len(flat)
    BY <1>1, <2>5, <2>11, EmptySeq
  <2>13. \A i \in 0..n : L[i] \in Nat /\ L[i] <= Len(flat)
    BY <2>10, <2>11
  <2>14. ASSUME NEW i \in 1..n
         PROVE  /\ L[i] = L[i - 1] + Len(pieces[i])
                /\ \A j \in 1..Len(pieces[i]) : flat[L[i - 1] + j] = pieces[i][j]
    <3>1. i - 1 \in 0..n /\ i \in 0..n
      BY <1>1
    <3>2. P[i - 1] \in Seq(S) /\ pieces[i] \in Seq(S) /\ Len(P[i - 1]) \in Nat /\ Len(pieces[i]) \in Nat
      BY <1>1, <2>10, <3>1
    <3> DEFINE both == P[i - 1] \o pieces[i]
    <3>3. /\ Len(both) = Len(P[i - 1]) + Len(pieces[i])
          /\ \A j \in 1..(Len(P[i - 1]) + Len(pieces[i])) :
                 both[j] = IF j <= Len(P[i - 1]) THEN P[i - 1][j] ELSE pieces[i][j - Len(P[i - 1])]
      BY <3>2, ConcatProperties
    <3> HIDE DEF both
    <3>4. P[i] = both
      BY <2>6 DEF both
    <3>5. L[i] = L[i - 1] + Len(pieces[i])
      BY <2>11, <3>1, <3>3, <3>4
    <3>6. ASSUME NEW j \in 1..Len(pieces[i])
          PROVE  flat[L[i - 1] + j] = pieces[i][j]
      <4>1. /\ Len(P[i - 1]) + j \in 1..(Len(P[i - 1]) + Len(pieces[i]))
            /\ ~(Len(P[i - 1]) + j <= Len(P[i - 1])) /\ (Len(P[i - 1]) + j) - Len(P[i - 1]) = j
        <5> DEFINE a == Len(P[i - 1])
                   b == Len(pieces[i])
        <5>1. a \in Nat /\ b \in Nat /\ j \in 1..b
          BY <3>2
        <5> HIDE DEF a, b
        <5>2. a + j \in 1..(a + b) /\ ~(a + j <= a) /\ (a + j) - a = j
          BY <5>1
        <5>3. QED
          BY <5>2 DEF a, b
      <4>2. both[Len(P[i - 1]) + j] = pieces[i][j]
        BY <3>3, <4>1
      <4>3. flat[Len(P[i - 1]) + j] = P[i][Len(P[i - 1]) + j]
        BY <2>10, <3>1, <3>3, <3>4, <4>1
      <4>4. QED
        BY <2>11, <3>1, <3>4, <4>2, <4>3
    <3>7. QED
      BY <3>5, <3>6
  <2>15. ArePlaces(L, pieces, flat)
    BY <2>12, <2>13, <2>14 DEF ArePlaces
  <2>16. QED
    BY <2>10, <2>15, Zenon DEF flat
<1>4. QED
  BY <1>2, <1>3

\* Data that has been read up to a byte, and the byte.
LEMMA DataGrows ==
    ASSUME NEW S, NEW data \in Seq(S), NEW i \in 1..Len(data)
    PROVE  Append(SubSeq(data, 1, i - 1), data[i]) = SubSeq(data, 1, i)
<1>1. Len(data) \in Nat /\ data[i] \in S /\ 1 \in 1..Len(data) /\ i \in 1..Len(data)
  BY ElementOfSeq, LenProperties
<1>2. SubSeq(data, 1, i) = SubSeq(data, 1, i - 1) \o <<data[i]>>
  BY <1>1, SubSeqRecursiveSecond
<1>3. SubSeq(data, 1, i - 1) \in Seq(S)
  <2>1. i - 1 \in Int /\ 1 \in Int /\ \A k \in 1..(i - 1) : data[k] \in S
    BY <1>1, ElementOfSeq
  <2>2. QED
    BY <2>1, SubSeqProperties
<1>4. QED
  BY <1>1, <1>2, <1>3, AppendIsConcat

-----------------------------------------------------------------------------
(***************************************************************************)
(* What the station makes of a frame that begins when it is silent.  Its   *)
(* states along the bytes of the frame f are V[0], V[1], ...               *)
(***************************************************************************)
Along(V, f, heard) ==
    /\ V[0] = Silent(heard)
    /\ \A j \in 1..Size[f] : V[j] = Takes(V[j - 1], FrameBytes(f)[j])

QuietFiller == filler \notin {STX, Encoder!ACK, Encoder!NAK}

LEMMA FrameIs ==
    ASSUME NEW f \in Frame
    PROVE  /\ f.id \in 0..255 /\ f.data \in Seq(0..255) /\ f.id # STX
           /\ Len(f.data) \in Nat /\ Len(f.data) <= 255
           /\ f.control => f.id \in {Encoder!ACK, Encoder!NAK} /\ f.data = <<>>
           /\ Size[f] \in Nat \ {0}
BY EncodedAssumption, SizeAssumption, LenProperties DEF Encoded

LEMMA BytesOfFrame ==
    ASSUME NEW f \in Frame, NEW j \in 1..Size[f]
    PROVE  /\ j \in DOMAIN WriteData(f) => FrameBytes(f)[j] = WriteData(f)[j]
           /\ j \notin DOMAIN WriteData(f) => FrameBytes(f)[j] = filler
BY DEF FrameBytes

LEMMA HearsControl ==
    ASSUME NEW f \in Frame, EncoderOf(f) = "control_sequence", NEW V, NEW heard, Along(V, f, heard)
    PROVE  V[Size[f]] = Silent(Append(heard, Meaning(f)))
<1>1. f.control
  BY DEF EncoderOf
<1>2. f.id \in {Encoder!ACK, Encoder!NAK} /\ f.data = <<>>
  BY <1>1, FrameIs
<1>3. GetSize(f) = 1
  BY Zenon DEF GetSize
<1>4. WriteData(f) = <<f.id>>
  BY Zenon DEF WriteData
<1>5. Size[f] = 1
  BY <1>3, SizeIsAnnounced
<1>6. 1 \in 1..Size[f] /\ 1 \in DOMAIN WriteData(f) /\ WriteData(f)[1] = f.id
  BY <1>4, <1>5
<1>7. FrameBytes(f)[1] = f.id
  BY <1>6, BytesOfFrame
<1>8. V[1] = Takes(V[0], FrameBytes(f)[1]) /\ V[0] = Silent(heard)
  BY <1>6 DEF Along
<1>9. V[1] = Hears(heard, f.id, <<>>, TRUE)
  BY <1>2, <1>7, <1>8, TakesWhenIdle
<1>10. QED
  BY <1>2, <1>5, <1>9, Zenon DEF Hears, Meaning

\* Two sequences, one behind the other.
Joins(c, a, b) == /\ Len(c) = Len(a) + Len(b)
                  /\ \A i \in 1..Len(a) : c[i] = a[i]
                  /\ \A i \in 1..Len(b) : c[Len(a) + i] = b[i]

LEMMA Joined ==
    ASSUME NEW S, NEW a \in Seq(S), NEW b \in Seq(S), NEW c, c = a \o b
    PROVE  c \in Seq(S) /\ Joins(c, a, b)
<1> DEFINE m == Len(a)
           k == Len(b)
<1>1. /\ c \in Seq(S) /\ Len(c) = m + k
      /\ \A i \in 1..(m + k) : c[i] = IF i <= m THEN a[i] ELSE b[i - m]
  BY ConcatProperties
<1>2. m \in Nat /\ k \in Nat
  BY LenProperties
<1> HIDE DEF m, k
<1>3. \A i \in 1..m : i \in 1..(m + k) /\ i <= m
  BY <1>2
<1>4. \A i \in 1..k : m + i \in 1..(m + k) /\ ~(m + i <= m) /\ (m + i) - m = i
  BY <1>2
<1>5. \A i \in 1..m : c[i] = a[i]
  BY <1>1, <1>3
<1>6. \A i \in 1..k : c[m + i] = b[i]
  BY <1>1, <1>4
<1>7. QED
  BY <1>1, <1>5, <1>6 DEF m, k, Joins

\* These are the bytes of an extended frame; its tail is the data with the checksum.
AreExtended(bytes, id, data, tail) ==
    /\ DOMAIN bytes = 1..(Len(data) + 8)
    /\ bytes[1] = 255 /\ bytes[2] = STX /\ bytes[3] = STX
    /\ bytes[4] = id /\ bytes[5] = Len(data) % 256
    /\ \A i \in 1..(Len(data) + 2) : bytes[5 + i] = tail[i]
    /\ bytes[Len(data) + 8] = Encoder!ETX

LEMMA ExtendedBytes ==
    ASSUME NEW id \in 0..255, NEW data \in Seq(0..255), NEW high, NEW low,
           IsChecksum(id, data, high, low)
    PROVE  AreExtended(<<255, STX>> \o Encoder!WriteData(id, data), id, data, data \o <<high, low>>)
<1> DEFINE n == Len(data)
           size == n % 256
           body == <<id, size>> \o data
           end == <<high, low, Encoder!ETX>>
           S == 0..255 \cup {high, low}
<1>1. Encoder!WriteData(id, data) = <<STX>> \o body \o end
  BY DEF Encoder!WriteData, STX, IsChecksum
<1>2. n \in Nat /\ size \in 0..255 /\ data \in Seq(S)
  <2>1. n \in Nat
    BY LenProperties
  <2>2. \A m \in Nat : m % 256 \in 0..255
    OBVIOUS
  <2>3. data \in Seq(S)
    BY SeqMonotonic
  <2>4. QED
    BY <2>1, <2>2, <2>3
<1> HIDE DEF size
<1> DEFINE head == <<id, size>>
           pair == <<high, low>>
           one == <<STX>>
           start == <<255, STX>>
<1>3. /\ head \in Seq(S) /\ Len(head) = 2 /\ head[1] = id /\ head[2] = size
      /\ one \in Seq(S) /\ Len(one) = 1 /\ one[1] = STX
      /\ start \in Seq(S) /\ Len(start) = 2 /\ start[1] = 255 /\ start[2] = STX
      /\ pair \in Seq(S) /\ Len(pair) = 2 /\ pair[1] = high /\ pair[2] = low
      /\ end \in Seq(S) /\ Len(end) = 3 /\ end[1] = high /\ end[2] = low /\ end[3] = Encoder!ETX
  BY <1>2 DEF STX, Encoder!STX, Encoder!ETX
<1>4. body = head \o data
  OBVIOUS
<1> DEFINE front == one \o body
           whole == front \o end
           all == start \o whole
           tail == data \o pair
<1>0. tail = data \o pair
  OBVIOUS
<1>5. all = <<255, STX>> \o Encoder!WriteData(id, data)
  BY <1>1
<1>6. n \in Nat /\ Len(data) = n
  BY <1>2
<1> HIDE DEF S, head, pair, one, start, end, n
<1> HIDE DEF body
<1>7. /\ body \in Seq(S) /\ Len(body) = 2 + n
      /\ \A i \in 1..2 : body[i] = head[i]
      /\ \A i \in 1..n : body[2 + i] = data[i]
  <2>1. body \in Seq(S) /\ Joins(body, head, data)
    BY <1>2, <1>3, <1>4, Joined
  <2>2. QED
    BY <1>3, <1>6, <2>1 DEF Joins
<1>8. /\ front \in Seq(S) /\ Len(front) = 3 + n
      /\ front[1] = STX
      /\ \A i \in 1..(2 + n) : front[1 + i] = body[i]
  <2>1. front = one \o body
    OBVIOUS
  <2> HIDE DEF front
  <2>2. front \in Seq(S) /\ Joins(front, one, body)
    BY <1>3, <1>7, <2>1, Joined
  <2>3. QED
    BY <1>3, <1>6, <1>7, <2>2 DEF Joins
<1> HIDE DEF front
<1>9. /\ whole \in Seq(S) /\ Len(whole) = 6 + n
      /\ \A i \in 1..(3 + n) : whole[i] = front[i]
      /\ \A i \in 1..3 : whole[(3 + n) + i] = end[i]
  <2>1. whole = front \o end
    OBVIOUS
  <2> HIDE DEF whole
  <2>2. whole \in Seq(S) /\ Joins(whole, front, end)
    BY <1>3, <1>8, <2>1, Joined
  <2>3. QED
    BY <1>3, <1>6, <1>8, <2>2 DEF Joins
<1> HIDE DEF whole
<1>10. /\ all \in Seq(S) /\ Len(all) = n + 8
       /\ \A i \in 1..2 : all[i] = start[i]
       /\ \A i \in 1..(6 + n) : all[2 + i] = whole[i]
  <2>1. all = start \o whole
    OBVIOUS
  <2> HIDE DEF all
  <2>2. all \in Seq(S) /\ Joins(all, start, whole)
    BY <1>3, <1>9, <2>1, Joined
  <2>3. QED
    BY <1>3, <1>6, <1>9, <2>2 DEF Joins
<1>11. /\ Len(tail) = n + 2
       /\ \A i \in 1..n : tail[i] = data[i]
       /\ \A i \in 1..2 : tail[n + i] = pair[i]
  <2> HIDE DEF tail
  <2>1. tail \in Seq(S) /\ Joins(tail, data, pair)
    BY <1>2, <1>3, <1>0, Joined
  <2>2. QED
    BY <1>3, <1>6, <2>1 DEF Joins
<1> HIDE DEF all, tail
<1>12. DOMAIN all = 1..(n + 8)
  BY <1>10, LenProperties
<1>13. all[1] = 255 /\ all[2] = STX
  BY <1>3, <1>10
<1>14. all[3] = STX
  <2>1. 1 \in 1..(6 + n) /\ 1 \in 1..(3 + n) /\ 3 = 2 + 1
    BY <1>6
  <2>2. QED
    BY <1>8, <1>9, <1>10, <2>1
<1>15. \A i \in 1..(2 + n) : all[3 + i] = body[i]
  <2>1. \A i \in 1..(2 + n) : 1 + i \in 1..(6 + n) /\ 1 + i \in 1..(3 + n) /\ 3 + i = 2 + (1 + i)
    BY <1>6
  <2>2. QED
    <3> SUFFICES ASSUME NEW i \in 1..(2 + n) PROVE all[3 + i] = body[i]
      OBVIOUS
    <3>1. all[2 + (1 + i)] = whole[1 + i] /\ whole[1 + i] = front[1 + i] /\ front[1 + i] = body[i]
      BY <1>8, <1>9, <1>10, <2>1
    <3>2. 3 + i = 2 + (1 + i)
      BY <2>1
    <3>3. QED
      BY <3>1, <3>2
<1>16. all[4] = id /\ all[5] = size
  <2>1. 1 \in 1..(2 + n) /\ 2 \in 1..(2 + n) /\ 4 = 3 + 1 /\ 5 = 3 + 2 /\ 1 \in 1..2 /\ 2 \in 1..2
    BY <1>6
  <2>2. QED
    BY <1>3, <1>7, <1>15, <2>1
<1>17. \A i \in 1..n : all[5 + i] = tail[i]
  <2>1. \A i \in 1..n : 2 + i \in 1..(2 + n) /\ 5 + i = 3 + (2 + i)
    BY <1>6
  <2>2. QED
    BY <1>7, <1>11, <1>15, <2>1
<1>18. \A i \in 1..3 : all[(n + 5) + i] = end[i]
  <2>1. \A i \in 1..3 : (3 + n) + i \in 1..(6 + n) /\ (n + 5) + i = 2 + ((3 + n) + i)
    BY <1>6
  <2>2. QED
    BY <1>9, <1>10, <2>1
<1>19. \A i \in 1..2 : all[5 + (n + i)] = tail[n + i]
  <2>1. \A i \in 1..2 : i \in 1..3 /\ 5 + (n + i) = (n + 5) + i /\ (i = 1 \/ i = 2)
    BY <1>6
  <2>2. \A i \in 1..2 : end[i] = pair[i]
    BY <1>3, <2>1
  <2>3. QED
    BY <1>11, <1>18, <2>1, <2>2
<1>20. \A i \in 1..(n + 2) : all[5 + i] = tail[i]
  <2> SUFFICES ASSUME NEW i \in 1..(n + 2) PROVE all[5 + i] = tail[i]
    OBVIOUS
  <2>1. i \in 1..n \/ \E j \in 1..2 : i = n + j
    <3>1. i \in 1..n \/ i = n + 1 \/ i = n + 2
      BY <1>6
    <3>2. 1 \in 1..2 /\ 2 \in 1..2
      OBVIOUS
    <3>3. QED
      BY <3>1, <3>2
  <2>2. QED
    BY <1>17, <1>19, <2>1
<1>21. all[n + 8] = Encoder!ETX
  <2>1. n + 8 = (n + 5) + 3 /\ 3 \in 1..3
    BY <1>6
  <2>2. QED
    BY <1>3, <1>18, <2>1
<1>22. AreExtended(all, id, data, tail)
  BY <1>6, <1>12, <1>13, <1>14, <1>16, <1>20, <1>21 DEF AreExtended, size
<1>23. QED
  BY <1>5, <1>22, <1>0, Zenon DEF pair

LEMMA HearsExtended ==
    ASSUME NEW f \in Frame, EncoderOf(f) = "extended", NEW V, NEW heard, Along(V, f, heard)
    PROVE  V[Size[f]] = Silent(Append(heard, Meaning(f)))
<1> DEFINE id == f.id
           data == f.data
           n == Len(data)
           crc == Encoder!Crc(<<id, n % 256>> \o data)
           high == crc \div 256
           low == crc % 256
           body == data \o <<high, low>>
           bytes == <<255, STX>> \o Encoder!WriteData(id, data)
           S == 0..255 \cup {high, low}
<1>1. id \in 0..255 /\ data \in Seq(0..255) /\ id # STX /\ n \in Nat /\ n <= 255
  BY FrameIs
<1>2. ~Encoder!IsBasic(id)
  BY DEF EncoderOf
<1>3. WriteData(f) = bytes
  BY Zenon DEF WriteData
<1>4. GetSize(f) = n + 8
  <2>1. GetSize(f) = SizeExtended(data)
    BY Zenon DEF GetSize
  <2>2. QED
    BY <1>1, <2>1 DEF SizeExtended
<1>5. Size[f] = n + 8
  BY <1>4, SizeIsAnnounced
<1> HIDE DEF id, data, crc
<1> DEFINE size == n % 256
<1>0. size = n
  BY <1>1, SizeOfByte
<1>6. /\ DOMAIN bytes = 1..(n + 8)
      /\ bytes[1] = 255 /\ bytes[2] = STX /\ bytes[3] = STX /\ bytes[4] = id /\ bytes[5] = n % 256
      /\ \A i \in 1..(n + 2) : bytes[5 + i] = body[i]
      /\ bytes[n + 8] = Encoder!ETX
  <2>1. IsChecksum(id, data, high, low)
    BY DEF IsChecksum, crc
  <2>4. bytes = <<255, STX>> \o Encoder!WriteData(id, data) /\ body = data \o <<high, low>>
    OBVIOUS
  <2> HIDE DEF high, low, bytes, body
  <2>2. AreExtended(<<255, STX>> \o Encoder!WriteData(id, data), id, data, data \o <<high, low>>)
    BY <1>1, <2>1, ExtendedBytes
  <2>3. QED
    BY <2>2, <2>4, Zenon DEF AreExtended
<1> HIDE DEF bytes
<1>7. V[0] = Silent(heard) /\ \A j \in 1..(n + 8) : V[j] = Takes(V[j - 1], bytes[j])
  BY <1>3, <1>5, <1>6, BytesOfFrame DEF Along
<1>8. /\ data \in Seq(S) /\ body \in Seq(S) /\ Len(body) = n + 2
  <2>1. data \in Seq(S)
    BY <1>1, SeqMonotonic
  <2> DEFINE pair == <<high, low>>
  <2>2. pair \in Seq(S) /\ Len(pair) = 2
    OBVIOUS
  <2>3. body = data \o pair
    OBVIOUS
  <2> HIDE DEF pair, S, body
  <2>4. body \in Seq(S) /\ Joins(body, data, pair)
    BY <2>1, <2>2, <2>3, Joined
  <2>5. QED
    BY <2>1, <2>2, <2>4 DEF Joins
<1>9. V[1] = Silent(heard)
  <2>1. 255 \notin {STX, Encoder!ACK, Encoder!NAK} /\ 1 \in 1..(n + 8) /\ 1 - 1 = 0
    BY <1>1 DEF STX, Encoder!STX, Encoder!ACK, Encoder!NAK
  <2>2. V[1] = Takes(V[0], 255)
    BY <1>6, <1>7, <2>1
  <2>3. QED
    <3>1. Takes(Silent(heard), 255) = Silent(heard)
      BY <2>1, TakesWhenIdle
    <3>2. QED
      BY <1>7, <2>2, <3>1
<1>10. V[2] = State("started", 0, <<>>, 0, heard)
  <2>1. V[2] = Takes(V[1], STX)
    BY <1>1, <1>6, <1>7
  <2>2. QED
    BY <1>9, <2>1, TakesWhenIdle
<1>11. V[3] = State("started", 0, <<>>, 0, heard)
  <2>1. V[3] = Takes(V[2], STX)
    BY <1>1, <1>6, <1>7
  <2>2. QED
    BY <1>10, <2>1, TakesWhenStarted
<1>12. V[4] = State("size", id, <<>>, 0, heard)
  <2>1. V[4] = Takes(V[3], id)
    BY <1>1, <1>6, <1>7
  <2>2. QED
    BY <1>1, <1>2, <1>11, <2>1, TakesWhenStarted
<1>13. V[5] = State("body", id, <<>>, n + 3, heard)
  <2>1. V[5] = Takes(V[4], n % 256)
    BY <1>1, <1>6, <1>7
  <2>2. QED
    BY <1>0, <1>12, <2>1, TakesSize
<1> DEFINE T == {i \in Nat : i <= n + 2 =>
                    V[5 + i] = State("body", id, SubSeq(body, 1, i), n + 3 - i, heard)}
<1>14. 0 \in T
  <2>1. SubSeq(body, 1, 0) = <<>>
    BY SubSeqEmpty
  <2>2. 5 + 0 = 5 /\ n + 3 - 0 = n + 3
    BY <1>1
  <2>3. QED
    BY <1>13, <2>1, <2>2
<1>15. ASSUME NEW i \in Nat, i \in T
       PROVE  i + 1 \in T
  <2> SUFFICES ASSUME i + 1 <= n + 2
               PROVE  V[5 + (i + 1)] = State("body", id, SubSeq(body, 1, i + 1), n + 3 - (i + 1), heard)
    OBVIOUS
  <2>1. /\ i <= n + 2 /\ i + 1 \in 1..(n + 2) /\ (i + 1) - 1 = i
        /\ 5 + (i + 1) \in 1..(n + 8) /\ (5 + (i + 1)) - 1 = 5 + i
        /\ n + 3 - i \in Nat /\ n + 3 - i > 1 /\ (n + 3 - i) - 1 = n + 3 - (i + 1)
    BY <1>1
  <2>2. V[5 + i] = State("body", id, SubSeq(body, 1, i), n + 3 - i, heard)
    BY <1>15, <2>1
  <2>3. V[5 + (i + 1)] = Takes(V[5 + i], body[i + 1])
    <3>1. bytes[5 + (i + 1)] = body[i + 1]
      BY <1>6, <2>1
    <3>2. QED
      BY <1>7, <2>1, <3>1
  <2>4. Append(SubSeq(body, 1, i), body[i + 1]) = SubSeq(body, 1, i + 1)
    BY <1>8, <2>1, DataGrows
  <2> HIDE DEF body
  <2>5. Takes(State("body", id, SubSeq(body, 1, i), n + 3 - i, heard), body[i + 1]) =
            State("body", id, Append(SubSeq(body, 1, i), body[i + 1]), (n + 3 - i) - 1, heard)
    BY <2>1, TakesInBody
  <2>6. QED
    BY <2>1, <2>2, <2>3, <2>4, <2>5
<1> HIDE DEF T
<1>16. Nat \subseteq T
  BY <1>14, <1>15, FromZero
<1>17. V[5 + (n + 2)] = State("body", id, SubSeq(body, 1, n + 2), n + 3 - (n + 2), heard)
  BY <1>1, <1>16 DEF T
<1>18. SubSeq(body, 1, n + 2) = body
  BY <1>8, SubSeqFull
<1>19. V[n + 7] = State("body", id, body, 1, heard)
  <2>1. 5 + (n + 2) = n + 7 /\ n + 3 - (n + 2) = 1
    BY <1>1
  <2>2. QED
    BY <1>17, <1>18, <2>1
<1>20. V[n + 8] = Takes(V[n + 7], Encoder!ETX)
  <2>1. n + 8 \in 1..(n + 8) /\ (n + 8) - 1 = n + 7
    BY <1>1
  <2>2. QED
    BY <1>6, <1>7, <2>1
<1>21. V[n + 8] = Hears(heard, id, data, FALSE)
  <2>2. IsChecksum(id, data, high, low)
    BY DEF IsChecksum, crc
  <2>3. high \in S /\ low \in S
    OBVIOUS
  <2>6. body = data \o <<high, low>>
    OBVIOUS
  <2> HIDE DEF high, low, S, body
  <2>4. Takes(State("body", id, body, 1, heard), Encoder!ETX) = Hears(heard, id, data, FALSE)
    BY <1>1, <1>8, <2>2, <2>3, <2>6, TakesLast
  <2>5. QED
    BY <1>19, <1>20, <2>4
<1>22. Meaning(f) = [id |-> id, data |-> data, control |-> FALSE]
  <2>1. (EncoderOf(f) = "control_sequence") = FALSE
    OBVIOUS
  <2>2. QED
    BY <2>1, Zenon DEF Meaning, id, data
<1>23. QED
  BY <1>5, <1>21, <1>22, Zenon DEF Hears

LEMMA AboveControls == \A b \in 0..255 : ~(b <= 31) => b >= 32
OBVIOUS

\* The data of a basic frame, byte by byte.
Escaped(data) == [i \in DOMAIN data |->
                     IF data[i] <= 31 THEN <<Encoder!DLE, data[i]>> ELSE <<data[i]>>]

LEMMA EscapedIs ==
    ASSUME NEW data \in Seq(0..255)
    PROVE  /\ Escaped(data) \in Seq(Seq(0..255)) /\ Len(Escaped(data)) = Len(data)
           /\ \A i \in 1..Len(data) :
                  /\ data[i] \in 0..255
                  /\ \/ /\ data[i] >= 32 /\ Len(Escaped(data)[i]) = 1
                        /\ Escaped(data)[i][1] = data[i]
                     \/ /\ Len(Escaped(data)[i]) = 2
                        /\ Escaped(data)[i][1] = Encoder!DLE /\ Escaped(data)[i][2] = data[i]
<1> DEFINE pieces == Escaped(data)
<1>1. Len(data) \in Nat /\ DOMAIN data = 1..Len(data) /\ \A i \in 1..Len(data) : data[i] \in 0..255
  BY ElementOfSeq, LenProperties
<1>2. ASSUME NEW i \in 1..Len(data)
      PROVE  /\ pieces[i] \in Seq(0..255)
             /\ \/ data[i] >= 32 /\ Len(pieces[i]) = 1 /\ pieces[i][1] = data[i]
                \/ /\ Len(pieces[i]) = 2
                   /\ pieces[i][1] = Encoder!DLE /\ pieces[i][2] = data[i]
  <2> DEFINE one == <<data[i]>>
             two == <<Encoder!DLE, data[i]>>
  <2>1. pieces[i] = IF data[i] <= 31 THEN two ELSE one
    BY <1>1 DEF Escaped
  <2>2. one \in Seq(0..255) /\ Len(one) = 1 /\ one[1] = data[i]
    BY <1>1
  <2>3. two \in Seq(0..255) /\ Len(two) = 2 /\ two[1] = Encoder!DLE /\ two[2] = data[i]
    BY <1>1 DEF Encoder!DLE
  <2>4. ~(data[i] <= 31) => data[i] >= 32
    <3>1. data[i] \in 0..255
      BY <1>1
    <3>2. QED
      BY <3>1, AboveControls, Zenon
  <2> HIDE DEF one, two, pieces
  <2>5. CASE data[i] <= 31
    BY <2>1, <2>3, <2>5, Zenon
  <2>6. CASE ~(data[i] <= 31)
    BY <2>1, <2>2, <2>4, <2>6, Zenon
  <2>7. QED
    BY <2>5, <2>6
<1>3. pieces \in Seq(Seq(0..255)) /\ Len(pieces) = Len(data)
  <2>1. pieces \in [1..Len(data) -> Seq(0..255)]
    BY <1>1, <1>2 DEF Escaped
  <2> HIDE DEF pieces
  <2>2. QED
    BY <1>1, <2>1
<1>4. QED
  BY <1>1, <1>2, <1>3

\* These are the bytes of a basic frame.
AreBasic(bytes, id, flat) ==
    /\ DOMAIN bytes = 1..(Len(flat) + 3)
    /\ bytes[1] = STX /\ bytes[2] = id
    /\ \A i \in 1..Len(flat) : bytes[2 + i] = flat[i]
    /\ bytes[Len(flat) + 3] = Encoder!ETX

LEMMA BasicBytes ==
    ASSUME NEW id \in 0..255, NEW flat \in Seq(0..255)
    PROVE  AreBasic(<<STX, id>> \o flat \o <<Encoder!ETX>>, id, flat)
<1> DEFINE n == Len(flat)
           S == 0..255
           head == <<STX, id>>
           end == <<Encoder!ETX>>
           front == head \o flat
           all == front \o end
<1>1. n \in Nat /\ Len(flat) = n
  BY LenProperties
<1>2. /\ head \in Seq(S) /\ Len(head) = 2 /\ head[1] = STX /\ head[2] = id
      /\ end \in Seq(S) /\ Len(end) = 1 /\ end[1] = Encoder!ETX
  BY DEF STX, Encoder!STX, Encoder!ETX
<1>3. front = head \o flat /\ all = front \o end
  OBVIOUS
<1>4. all = <<STX, id>> \o flat \o <<Encoder!ETX>> /\ flat \in Seq(S)
  OBVIOUS
<1> HIDE DEF S, head, end, front, all, n
<1>5. front \in Seq(S) /\ Joins(front, head, flat)
  BY <1>2, <1>3, <1>4, Joined
<1>6. /\ Len(front) = 2 + n /\ \A i \in 1..2 : front[i] = head[i]
      /\ \A i \in 1..n : front[2 + i] = flat[i]
  BY <1>1, <1>2, <1>5 DEF Joins
<1>7. all \in Seq(S) /\ Joins(all, front, end)
  BY <1>2, <1>3, <1>5, Joined
<1>8. /\ Len(all) = n + 3 /\ \A i \in 1..(2 + n) : all[i] = front[i]
      /\ all[(2 + n) + 1] = end[1]
  BY <1>1, <1>2, <1>6, <1>7 DEF Joins
<1>9. DOMAIN all = 1..(n + 3)
  BY <1>7, <1>8, LenProperties
<1>10. all[1] = STX /\ all[2] = id
  BY <1>1, <1>2, <1>6, <1>8
<1>11. \A i \in 1..n : all[2 + i] = flat[i]
  <2>1. \A i \in 1..n : 2 + i \in 1..(2 + n)
    BY <1>1
  <2>2. QED
    BY <1>6, <1>8, <2>1
<1>12. all[n + 3] = Encoder!ETX
  <2>1. n + 3 = (2 + n) + 1
    BY <1>1
  <2>2. QED
    BY <1>2, <1>8, <2>1
<1>13. AreBasic(all, id, flat)
  BY <1>9, <1>10, <1>11, <1>12 DEF AreBasic, n
<1>14. QED
  BY <1>4, <1>13

LEMMA HearsBasic ==
    ASSUME QuietFiller,
           NEW f \in Frame, EncoderOf(f) = "basic", NEW V, NEW heard, Along(V, f, heard)
    PROVE  V[Size[f]] = Silent(Append(heard, Meaning(f)))
<1> DEFINE id == f.id
           data == f.data
           n == Len(data)
           pieces == Escaped(data)
           flat == Encoder!FlattenSeq(pieces)
           m == Len(flat)
           bytes == Encoder!WriteDataBasic(id, data)
           after == Append(heard, Meaning(f))
<1>1. id \in 0..255 /\ data \in Seq(0..255) /\ id # STX /\ n \in Nat
  BY FrameIs
<1>2. Encoder!IsBasic(id)
  BY DEF EncoderOf
<1>3. WriteData(f) = bytes
  BY Zenon DEF WriteData
<1>4. bytes = <<STX, id>> \o flat \o <<Encoder!ETX>>
  BY DEF Encoder!WriteDataBasic, STX, Escaped
<1>5. Meaning(f) = [id |-> id, data |-> data, control |-> FALSE]
  <2>1. (EncoderOf(f) = "control_sequence") = FALSE
    OBVIOUS
  <2>2. QED
    BY <2>1, Zenon DEF Meaning
<1>6. Len(WriteData(f)) <= Size[f] /\ Size[f] \in Nat
  BY SizeSuffices, FrameIs
<1> HIDE DEF id, data, pieces, bytes, after
<1>7. /\ pieces \in Seq(Seq(0..255)) /\ Len(pieces) = n
      /\ \A i \in 1..n :
             /\ data[i] \in 0..255
             /\ \/ data[i] >= 32 /\ Len(pieces[i]) = 1 /\ pieces[i][1] = data[i]
                \/ Len(pieces[i]) = 2 /\ pieces[i][1] = Encoder!DLE /\ pieces[i][2] = data[i]
  BY <1>1, EscapedIs DEF pieces
<1>8. flat \in Seq(0..255) /\ \E L : ArePlaces(L, pieces, flat)
  BY <1>7, FlattenPlaces
<1> HIDE DEF flat
<1>9. PICK L : ArePlaces(L, pieces, flat)
  BY <1>8
<1>10. /\ L[0] = 0 /\ L[n] = m /\ \A i \in 0..n : L[i] \in Nat /\ L[i] <= m
       /\ \A i \in 1..n : L[i] = L[i - 1] + Len(pieces[i])
       /\ \A i \in 1..n : \A j \in 1..Len(pieces[i]) : flat[L[i - 1] + j] = pieces[i][j]
  BY <1>7, <1>9 DEF ArePlaces
<1>11. AreBasic(bytes, id, flat)
  BY <1>1, <1>4, <1>8, BasicBytes
<1>12. /\ DOMAIN bytes = 1..(m + 3) /\ bytes[1] = STX /\ bytes[2] = id
       /\ \A i \in 1..m : bytes[2 + i] = flat[i]
       /\ bytes[m + 3] = Encoder!ETX
  BY <1>11 DEF AreBasic
<1>13. m \in Nat
  BY <1>8, LenProperties
<1> HIDE DEF m
<1>14. m + 3 <= Size[f]
  <2>1. Len(bytes) = m + 3
    <3> DEFINE front == <<STX, id>> \o flat
               end == <<Encoder!ETX>>
    <3>1. <<STX, id>> \in Seq(0..255) /\ end \in Seq(0..255)
      BY <1>1 DEF STX, Encoder!STX, Encoder!ETX
    <3>2. front \in Seq(0..255)
      BY <1>8, <3>1, ConcatProperties
    <3> HIDE DEF front, end
    <3>3. front \o end \in Seq(0..255)
      BY <3>1, <3>2, ConcatProperties
    <3>4. bytes \in Seq(0..255)
      BY <1>4, <3>3 DEF front, end
    <3>5. Len(bytes) \in Nat /\ DOMAIN bytes = 1..Len(bytes)
      BY <3>4, LenProperties
    <3>6. QED
      BY <1>12, <1>13, <3>5
  <2>2. QED
    BY <1>3, <1>6, <2>1
<1>15. /\ V[0] = Silent(heard)
       /\ \A j \in 1..(m + 3) : V[j] = Takes(V[j - 1], bytes[j])
       /\ \A j \in (m + 4)..Size[f] : V[j] = Takes(V[j - 1], filler)
  <2>1. \A j \in 1..Size[f] : V[j] = Takes(V[j - 1], FrameBytes(f)[j])
    BY DEF Along
  <2>2. \A j \in 1..(m + 3) : j \in 1..Size[f] /\ j \in DOMAIN bytes
    BY <1>6, <1>12, <1>13, <1>14
  <2>3. \A j \in (m + 4)..Size[f] : j \in 1..Size[f] /\ j \notin DOMAIN bytes
    BY <1>6, <1>12, <1>13
  <2>4. QED
    BY <1>3, <2>1, <2>2, <2>3, BytesOfFrame DEF Along
<1>16. V[1] = State("started", 0, <<>>, 0, heard)
  <2>1. V[1] = Takes(V[0], STX)
    BY <1>12, <1>13, <1>15
  <2>2. QED
    BY <1>15, <2>1, TakesWhenIdle
<1>17. V[2] = State("basic", id, <<>>, 0, heard)
  <2>1. V[2] = Takes(V[1], id)
    BY <1>12, <1>13, <1>15
  <2>2. QED
    BY <1>1, <1>2, <1>16, <2>1, TakesWhenStarted
<1> DEFINE T == {i \in Nat : i <= n => V[2 + L[i]] = State("basic", id, SubSeq(data, 1, i), 0, heard)}
<1>18. 0 \in T
  <2>1. SubSeq(data, 1, 0) = <<>>
    BY SubSeqEmpty
  <2>2. 2 + L[0] = 2
    BY <1>10
  <2>3. QED
    BY <1>17, <2>1, <2>2
<1>19. ASSUME NEW i \in Nat, i \in T
       PROVE  i + 1 \in T
  <2> SUFFICES ASSUME i + 1 <= n
               PROVE  V[2 + L[i + 1]] = State("basic", id, SubSeq(data, 1, i + 1), 0, heard)
    OBVIOUS
  <2> DEFINE k == i + 1
             before == SubSeq(data, 1, i)
             byte == data[k]
             at == L[i]
  <2>1. k \in 1..n /\ k - 1 = i /\ i \in 0..n /\ k \in 0..n
    BY <1>1
  <2>2. V[2 + at] = State("basic", id, before, 0, heard)
    BY <1>19, <2>1
  <2>3. Append(before, byte) = SubSeq(data, 1, k)
    BY <1>1, <2>1, DataGrows
  <2>4. /\ at \in Nat /\ L[k] <= m /\ L[k] = at + Len(pieces[k])
        /\ \A j \in 1..Len(pieces[k]) : flat[at + j] = pieces[k][j]
    BY <1>10, <2>1
  <2>5. byte \in 0..255
    BY <1>7, <2>1
  <2> HIDE DEF before, byte, at
  <2>6. CASE byte >= 32 /\ Len(pieces[k]) = 1 /\ pieces[k][1] = byte
    <3>1. at + 1 \in 1..m /\ L[k] = at + 1 /\ flat[at + 1] = byte
      BY <1>13, <2>4, <2>6
    <3>2. bytes[2 + (at + 1)] = byte
      BY <1>12, <3>1
    <3>3. 2 + (at + 1) \in 1..(m + 3) /\ (2 + (at + 1)) - 1 = 2 + at
      BY <1>13, <2>4, <3>1
    <3>4. V[2 + (at + 1)] = Takes(V[2 + at], byte)
      BY <1>15, <3>2, <3>3
    <3>5. Takes(State("basic", id, before, 0, heard), byte) =
              State("basic", id, Append(before, byte), 0, heard)
      <4>1. IsPlain(byte)
        BY <2>6 DEF IsPlain
      <4>2. QED
        BY <4>1, TakesPlain
    <3>6. QED
      BY <2>2, <2>3, <3>1, <3>4, <3>5
  <2>7. CASE Len(pieces[k]) = 2 /\ pieces[k][1] = Encoder!DLE /\ pieces[k][2] = byte
    <3>1. /\ at + 1 \in 1..m /\ at + 2 \in 1..m /\ L[k] = at + 2
          /\ flat[at + 1] = Encoder!DLE /\ flat[at + 2] = byte
      BY <1>13, <2>4, <2>7
    <3>2. bytes[2 + (at + 1)] = Encoder!DLE /\ bytes[2 + (at + 2)] = byte
      BY <1>12, <3>1
    <3>3. /\ 2 + (at + 1) \in 1..(m + 3) /\ (2 + (at + 1)) - 1 = 2 + at
          /\ 2 + (at + 2) \in 1..(m + 3) /\ (2 + (at + 2)) - 1 = 2 + (at + 1)
      BY <1>13, <2>4, <3>1
    <3>4. /\ V[2 + (at + 1)] = Takes(V[2 + at], Encoder!DLE)
          /\ V[2 + (at + 2)] = Takes(V[2 + (at + 1)], byte)
      BY <1>15, <3>2, <3>3
    <3>5. Takes(State("basic", id, before, 0, heard), Encoder!DLE) =
              State("escaped", id, before, 0, heard)
      BY TakesInBasic
    <3>6. Takes(State("escaped", id, before, 0, heard), byte) =
              State("basic", id, Append(before, byte), 0, heard)
      BY TakesEscaped
    <3>7. QED
      BY <2>2, <2>3, <3>1, <3>4, <3>5, <3>6
  <2>8. QED
    BY <1>7, <2>1, <2>6, <2>7 DEF byte
<1> HIDE DEF T
<1>20. Nat \subseteq T
  BY <1>18, <1>19, FromZero
<1>21. V[2 + m] = State("basic", id, data, 0, heard)
  <2>1. V[2 + L[n]] = State("basic", id, SubSeq(data, 1, n), 0, heard)
    BY <1>1, <1>20 DEF T
  <2>2. SubSeq(data, 1, n) = data
    BY <1>1, SubSeqFull
  <2>3. QED
    BY <1>10, <2>1, <2>2
<1>22. V[m + 3] = Silent(after)
  <2>1. m + 3 \in 1..(m + 3) /\ (m + 3) - 1 = 2 + m
    BY <1>13
  <2>2. V[m + 3] = Takes(V[2 + m], Encoder!ETX)
    BY <1>12, <1>15, <2>1
  <2>3. Takes(State("basic", id, data, 0, heard), Encoder!ETX) = Hears(heard, id, data, FALSE)
    BY TakesInBasic
  <2>4. V[m + 3] = Hears(heard, id, data, FALSE)
    BY <1>21, <2>2, <2>3
  <2>5. QED
    BY <1>5, <2>4, Zenon DEF Hears, after
<1> DEFINE R == {k \in Nat : m + 3 + k <= Size[f] => V[m + 3 + k] = Silent(after)}
<1>23. 0 \in R
  <2>1. m + 3 + 0 = m + 3
    BY <1>13
  <2>2. QED
    BY <1>22, <2>1
<1>24. ASSUME NEW k \in Nat, k \in R
       PROVE  k + 1 \in R
  <2> SUFFICES ASSUME m + 3 + (k + 1) <= Size[f]
               PROVE  V[m + 3 + (k + 1)] = Silent(after)
    OBVIOUS
  <2>1. /\ m + 3 + (k + 1) \in (m + 4)..Size[f] /\ (m + 3 + (k + 1)) - 1 = m + 3 + k
        /\ m + 3 + k <= Size[f]
    BY <1>6, <1>13
  <2>2. V[m + 3 + k] = Silent(after)
    BY <1>24, <2>1
  <2>3. V[m + 3 + (k + 1)] = Takes(V[m + 3 + k], filler)
    BY <1>15, <2>1
  <2>4. Takes(Silent(after), filler) = Silent(after)
    BY TakesWhenIdle DEF QuietFiller
  <2>5. QED
    BY <2>2, <2>3, <2>4
<1> HIDE DEF R
<1>25. Nat \subseteq R
  BY <1>23, <1>24, FromZero
<1>26. Size[f] - (m + 3) \in Nat /\ m + 3 + (Size[f] - (m + 3)) = Size[f]
  BY <1>6, <1>13, <1>14
<1>27. QED
  BY <1>6, <1>25, <1>26 DEF R, after

\* What the station makes of one frame, of any kind.
LEMMA HearsFrame ==
    ASSUME QuietFiller, NEW f \in Frame, NEW V, NEW heard, Along(V, f, heard)
    PROVE  V[Size[f]] = Silent(Append(heard, Meaning(f)))
<1>1. EncoderOf(f) \in {"control_sequence", "basic", "extended"}
  BY DEF EncoderOf
<1>2. QED
  BY <1>1, HearsControl, HearsBasic, HearsExtended

-----------------------------------------------------------------------------
(***************************************************************************)
(* With whole writes the line is whole frames.                             *)
(***************************************************************************)
LEMMA PlaceOf ==
    ASSUME IInv, shortened = 0, NEW k \in DOMAIN pushed, NEW j \in 1..Size[pushed[k]],
           Bytes(pushed, k - 1) + j <= Len(InBytes)
    PROVE  InBytes[Bytes(pushed, k - 1) + j] = <<pushed[k], j>>
<1> DEFINE B(i) == Bytes(pushed, i)
           place == B(k - 1) + j
           n == Len(pushed)
<1>1. /\ pushed \in Seq(Frame) /\ n \in Nat /\ DOMAIN pushed = 1..n
      /\ \A i \in 1..n : Size[pushed[i]] \in Nat \ {0}
  BY Lengths DEF IInv, TypeOK
<1>2. /\ \A i \in 0..n : B(i) \in Nat
      /\ \A i \in 1..n : B(i) = B(i - 1) + Size[pushed[i]] /\ i - 1 \in 0..n
      /\ \A h, i \in 0..n : h < i => B(h) < B(i)
  <2>1. \A i \in 0..n : B(i) \in Nat
    BY <1>1, BytesStep
  <2>2. \A i \in 1..n : B(i) = B(i - 1) + Size[pushed[i]]
    BY <1>1, BytesStep
  <2>3. \A i \in 1..n : i - 1 \in 0..n
    BY <1>1
  <2>4. \A i \in 0..n : \A h \in 0..n : h < i => B(h) < B(i)
    BY <1>1, BytesGrow
  <2> HIDE DEF B
  <2>5. QED
    BY <2>1, <2>2, <2>3, <2>4
<1> HIDE DEF B
<1>3. Len(InBytes) \in Nat /\ DOMAIN InBytes = 1..Len(InBytes)
  <2>1. \E S : InBytes \in Seq(S)
    <3>1. CASE in_port = None
      BY <3>1 DEF InBytes
    <3>2. CASE in_port # None
      BY <3>2 DEF InBytes, IInv, TypeOK
    <3>3. QED
      BY <3>1, <3>2
  <2>2. QED
    BY <2>1, LenProperties
<1>4. place \in 1..Len(InBytes) /\ place \in Nat
  <2>1. place <= Len(InBytes)
    BY DEF B
  <2>2. QED
    BY <1>1, <1>2, <1>3, <2>1
<1>5. PICK l \in DOMAIN pushed : InPlace(place, l)
  BY <1>3, <1>4 DEF IInv, StreamUnlessShort
<1>6. place - B(l - 1) \in 1..Size[pushed[l]] /\ InBytes[place] = <<pushed[l], place - B(l - 1)>>
  BY <1>5 DEF InPlace, B
<1>7. B(l - 1) < place /\ place <= B(l) /\ B(k - 1) < place /\ place <= B(k)
  <2>1. /\ B(l) = B(l - 1) + Size[pushed[l]] /\ B(l - 1) \in Nat /\ Size[pushed[l]] \in Nat
        /\ B(k) = B(k - 1) + Size[pushed[k]] /\ B(k - 1) \in Nat /\ Size[pushed[k]] \in Nat
    BY <1>1, <1>2
  <2>2. B(l - 1) < place /\ place <= B(l)
    BY <1>4, <1>6, <2>1
  <2>3. j \in 1..Size[pushed[k]]
    OBVIOUS
  <2>4. B(k - 1) < place /\ place <= B(k)
    BY <2>1, <2>3
  <2>5. QED
    BY <2>2, <2>4
<1>8. ~(l < k)
  <2> SUFFICES ASSUME l < k PROVE FALSE
    OBVIOUS
  <2>1. l \in 0..n /\ k - 1 \in 0..n /\ (l = k - 1 \/ l < k - 1)
    BY <1>1
  <2>2. B(l) <= B(k - 1)
    BY <1>2, <2>1
  <2>3. QED
    BY <1>2, <1>4, <1>7, <2>1, <2>2
<1>9. ~(k < l)
  <2> SUFFICES ASSUME k < l PROVE FALSE
    OBVIOUS
  <2>1. k \in 0..n /\ l - 1 \in 0..n /\ (k = l - 1 \/ k < l - 1)
    BY <1>1
  <2>2. B(k) <= B(l - 1)
    BY <1>2, <2>1
  <2>3. QED
    BY <1>2, <1>4, <1>7, <2>1, <2>2
<1>10. l = k /\ place - B(k - 1) = j
  BY <1>1, <1>2, <1>8, <1>9
<1>11. QED
  BY <1>6, <1>10 DEF B

\* No frame is on the line in part; without a write outstanding they all are.
LEMMA WholeFrames ==
    ASSUME IInv, shortened = 0
    PROVE  \E m \in 0..Len(pushed) : /\ Bytes(pushed, m) = Len(InBytes)
                                     /\ write = "idle" => m = Len(pushed)
<1>1. /\ outbytes_transfered = 0
      /\ Bytes(pushed, Gone) + outbytes_transfered + bytes_transfered = Len(InBytes)
      /\ Gone \in 0..Len(pushed) /\ Bytes(pushed, Gone) \in Nat
  BY Lengths, BytesStep DEF IInv, TypeOK, NothingOver, Accounting, Gone
<1>2. CASE write = "taken"
  <2>1. output_storage # <<>> /\ bytes_transfered = Size[Head(output_storage)]
    BY <1>2 DEF IInv, OneWrite, NothingOver
  <2>2. Gone + 1 \in 1..Len(pushed) /\ Head(output_storage) = pushed[Gone + 1]
    BY <2>1, FrontFrame, Lengths
  <2>3. Bytes(pushed, Gone + 1) = Bytes(pushed, Gone) + Size[pushed[Gone + 1]]
        /\ Size[pushed[Gone + 1]] \in Nat
    <3>1. (Gone + 1) - 1 = Gone
      BY <1>1
    <3>2. QED
      BY <2>2, <3>1, BytesStep, Lengths DEF IInv, TypeOK
  <2>4. QED
    BY <1>1, <1>2, <2>1, <2>2, <2>3
<1>3. CASE write # "taken"
  <2>1. bytes_transfered = 0
    BY <1>3 DEF IInv, TakenOK
  <2>2. Bytes(pushed, Gone) = Len(InBytes)
    BY <1>1, <2>1
  <2>3. write = "idle" => Gone = Len(pushed)
    BY Lengths DEF IInv, OneWrite, Gone
  <2>4. QED
    BY <1>1, <2>2, <2>3
<1>4. QED
  BY <1>2, <1>3

-----------------------------------------------------------------------------
(***************************************************************************)
(* The station along the line.                                             *)
(***************************************************************************)
IsHearing(g, m) ==
    g = [n \in 0..m |-> IF n = 0 THEN Silent(<<>>) ELSE Takes(g[n - 1], ByteOnLine(n))]

LEMMA HearingExists == \A m \in Nat : \E g : IsHearing(g, m)
<1> DEFINE T == {m \in Nat : \E g : IsHearing(g, m)}
<1>1. 0 \in T
  <2> DEFINE g == [n \in 0..0 |-> Silent(<<>>)]
  <2>1. g = [n \in 0..0 |-> IF n = 0 THEN Silent(<<>>) ELSE Takes(g[n - 1], ByteOnLine(n))]
    OBVIOUS
  <2> HIDE DEF g
  <2>2. IsHearing(g, 0)
    BY <2>1 DEF IsHearing
  <2>3. QED
    BY <2>2
<1>2. ASSUME NEW m \in Nat, m \in T
      PROVE  m + 1 \in T
  <2>1. PICK g : IsHearing(g, m)
    BY <1>2
  <2>2. \A n \in 0..m : g[n] = IF n = 0 THEN Silent(<<>>) ELSE Takes(g[n - 1], ByteOnLine(n))
    BY <2>1 DEF IsHearing
  <2> DEFINE last == Takes(g[m], ByteOnLine(m + 1))
             h == [n \in 0..(m + 1) |-> IF n = m + 1 THEN last ELSE g[n]]
  <2>3. DOMAIN h = 0..(m + 1) /\ h[m + 1] = last /\ \A n \in 0..m : h[n] = g[n]
    <3>1. m + 1 \in 0..(m + 1) /\ \A n \in 0..m : n \in 0..(m + 1) /\ n # m + 1
      OBVIOUS
    <3>2. QED
      BY <3>1
  <2>4. h = [n \in 0..(m + 1) |-> h[n]]
    BY <2>3
  <2> HIDE DEF h
  <2>5. ASSUME NEW n \in 0..(m + 1)
        PROVE  h[n] = IF n = 0 THEN Silent(<<>>) ELSE Takes(h[n - 1], ByteOnLine(n))
    <3>1. CASE n = m + 1
      <4>1. n # 0 /\ n - 1 = m /\ m \in 0..m
        BY <3>1
      <4>2. h[n - 1] = g[m]
        BY <2>3, <4>1
      <4>3. QED
        BY <2>3, <3>1, <4>1, <4>2 DEF last
    <3>2. CASE n # m + 1
      <4>1. n \in 0..m /\ (n # 0 => n - 1 \in 0..m)
        BY <3>2
      <4>2. QED
        BY <2>2, <2>3, <4>1
    <3>3. QED
      BY <3>1, <3>2
  <2>6. IsHearing(h, m + 1)
    BY <2>4, <2>5, Zenon DEF IsHearing
  <2>7. QED
    BY <2>6
<1> HIDE DEF T
<1>3. Nat \subseteq T
  BY <1>1, <1>2, FromZero
<1>4. QED
  BY <1>3 DEF T

LEMMA HeardIs ==
    ASSUME Len(InBytes) \in Nat
    PROVE  \E U : /\ Heard = U[Len(InBytes)].heard
                  /\ U[0] = Silent(<<>>)
                  /\ \A n \in 1..Len(InBytes) : U[n] = Takes(U[n - 1], ByteOnLine(n))
<1> DEFINE m == Len(InBytes)
           U == CHOOSE g : IsHearing(g, m)
<1>1. Heard = U[m].heard
  BY DEF Heard, IsHearing
<1>2. IsHearing(U, m)
  BY HearingExists
<1> HIDE DEF U
<1>3. \A n \in 0..m : U[n] = IF n = 0 THEN Silent(<<>>) ELSE Takes(U[n - 1], ByteOnLine(n))
  BY <1>2 DEF IsHearing
<1>4. U[0] = Silent(<<>>)
  BY <1>3
<1>5. \A n \in 1..m : U[n] = Takes(U[n - 1], ByteOnLine(n))
  BY <1>3
<1>6. QED
  BY <1>1, <1>4, <1>5

\* What the first k frames mean.
Said(k) == [i \in 1..k |-> Meaning(pushed[i])]

LEMMA SaidGrows ==
    ASSUME NEW k \in Nat
    PROVE  /\ Said(k) \in Seq({Meaning(pushed[i]) : i \in 1..(k + 1)}) /\ Len(Said(k)) = k
           /\ \A i \in 1..k : Said(k)[i] = Meaning(pushed[i])
           /\ Append(Said(k), Meaning(pushed[k + 1])) = Said(k + 1)
<1> DEFINE S == {Meaning(pushed[i]) : i \in 1..(k + 1)}
<1>1. \A i \in 1..(k + 1) : Meaning(pushed[i]) \in S
  OBVIOUS
<1>2. k + 1 \in 1..(k + 1) /\ \A i \in 1..k : i \in 1..(k + 1)
  OBVIOUS
<1> HIDE DEF S
<1>3. Said(k) \in Seq(S) /\ Len(Said(k)) = k /\ \A i \in 1..k : Said(k)[i] = Meaning(pushed[i])
  <2>1. Said(k) \in [1..k -> S] /\ DOMAIN Said(k) = 1..k
    BY <1>1, <1>2 DEF Said
  <2>2. Said(k) \in Seq(S)
    BY <2>1
  <2>3. Len(Said(k)) = k
    BY <2>1, <2>2, LenProperties
  <2>4. QED
    BY <2>2, <2>3 DEF Said
<1>4. /\ Said(k + 1) \in Seq(S) /\ Len(Said(k + 1)) = k + 1
      /\ \A i \in 1..(k + 1) : Said(k + 1)[i] = Meaning(pushed[i])
  <2>1. Said(k + 1) \in [1..(k + 1) -> S] /\ DOMAIN Said(k + 1) = 1..(k + 1)
    BY <1>1 DEF Said
  <2>2. Said(k + 1) \in Seq(S)
    BY <2>1
  <2>3. Len(Said(k + 1)) = k + 1
    BY <2>1, <2>2, LenProperties
  <2>4. QED
    BY <2>2, <2>3 DEF Said
<1> DEFINE longer == Append(Said(k), Meaning(pushed[k + 1]))
<1>5. /\ longer \in Seq(S) /\ Len(longer) = k + 1
      /\ \A i \in 1..k : longer[i] = Said(k)[i]
      /\ longer[k + 1] = Meaning(pushed[k + 1])
  BY <1>1, <1>2, <1>3, AppendProperties
<1> HIDE DEF longer
<1>6. ASSUME NEW i \in 1..(k + 1)
      PROVE  longer[i] = Said(k + 1)[i]
  <2>1. i \in 1..k \/ i = k + 1
    OBVIOUS
  <2>2. QED
    BY <1>3, <1>4, <1>5, <2>1
<1>7. longer = Said(k + 1)
  BY <1>4, <1>5, <1>6, SeqEqual
<1>8. QED
  BY <1>3, <1>7 DEF longer, S

LEMMA HeardOfFrames ==
    ASSUME IInv, shortened = 0, QuietFiller, NEW m \in 0..Len(pushed),
           Bytes(pushed, m) = Len(InBytes)
    PROVE  Heard = Said(m)
<1> DEFINE B == [i \in 0..Len(pushed) |-> Bytes(pushed, i)]
           n == Len(pushed)
<1>1. /\ pushed \in Seq(Frame) /\ n \in Nat /\ DOMAIN pushed = 1..n
      /\ \A i \in 1..n : pushed[i] \in Frame /\ Size[pushed[i]] \in Nat \ {0}
  BY Lengths DEF IInv, TypeOK
<1>2. /\ B[0] = 0 /\ \A i \in 0..n : B[i] = Bytes(pushed, i) /\ B[i] \in Nat
      /\ \A i \in 1..n : B[i] = B[i - 1] + Size[pushed[i]]
  <2>1. \A i \in 0..n : B[i] = Bytes(pushed, i)
    OBVIOUS
  <2>2. 0 \in 0..n /\ \A i \in 1..n : i \in 0..n /\ i - 1 \in 0..n
    BY <1>1
  <2> HIDE DEF B
  <2>3. QED
    BY <1>1, <2>1, <2>2, BytesStep
<1>3. \A i \in 0..n : \A h \in 0..n : h < i => B[h] < B[i]
  BY <1>1, BytesGrow
<1> HIDE DEF B
<1>4. B[m] = Len(InBytes) /\ Len(InBytes) \in Nat
  BY <1>1, <1>2
<1>5. PICK U : /\ Heard = U[Len(InBytes)].heard
               /\ U[0] = Silent(<<>>)
               /\ \A i \in 1..Len(InBytes) : U[i] = Takes(U[i - 1], ByteOnLine(i))
  BY <1>4, HeardIs
<1> DEFINE T == {k \in Nat : k <= m => U[B[k]] = Silent(Said(k))}
<1>6. 0 \in T
  <2>1. Said(0) = <<>>
    BY DEF Said
  <2>2. QED
    BY <1>2, <1>5, <2>1
<1>7. ASSUME NEW k \in Nat, k \in T
      PROVE  k + 1 \in T
  <2> SUFFICES ASSUME k + 1 <= m PROVE U[B[k + 1]] = Silent(Said(k + 1))
    OBVIOUS
  <2> DEFINE f == pushed[k + 1]
             V == [j \in 0..Size[f] |-> U[B[k] + j]]
  <2>1. /\ k + 1 \in 1..n /\ (k + 1) - 1 = k /\ k \in 0..n /\ k + 1 \in 0..n /\ k <= m
        /\ k + 1 \in DOMAIN pushed
    BY <1>1
  <2>2. f \in Frame /\ Size[f] \in Nat \ {0}
    BY <1>1, <2>1
  <2>3. B[k + 1] = B[k] + Size[f] /\ B[k] \in Nat /\ B[k] = Bytes(pushed, k)
    BY <1>2, <2>1
  <2>4. B[k + 1] <= Len(InBytes)
    <3>1. k + 1 = m \/ k + 1 < m
      BY <1>1, <2>1
    <3>2. QED
      BY <1>1, <1>2, <1>3, <1>4, <2>1, <3>1
  <2>5. U[B[k]] = Silent(Said(k))
    BY <1>7, <2>1
  <2>6. ASSUME NEW j \in 1..Size[f]
        PROVE  ByteOnLine(B[k] + j) = FrameBytes(f)[j]
    <3>1. Bytes(pushed, (k + 1) - 1) + j <= Len(InBytes) /\ (k + 1) - 1 = k
      BY <1>4, <2>1, <2>2, <2>3, <2>4
    <3>2. InBytes[Bytes(pushed, (k + 1) - 1) + j] = <<f, j>>
      BY <2>1, <3>1, PlaceOf
    <3>3. InBytes[B[k] + j] = <<f, j>>
      BY <2>3, <3>1, <3>2
    <3>4. QED
      BY <3>3 DEF ByteOnLine
  <2> HIDE DEF f
  <2>7. Along(V, f, Said(k))
    <3>1. \A j \in 0..Size[f] : V[j] = U[B[k] + j]
      OBVIOUS
    <3> HIDE DEF V
    <3>2. V[0] = Silent(Said(k))
      <4>1. B[k] + 0 = B[k] /\ 0 \in 0..Size[f]
        BY <2>2, <2>3
      <4>2. QED
        BY <2>5, <3>1, <4>1
    <3>3. ASSUME NEW j \in 1..Size[f]
          PROVE  V[j] = Takes(V[j - 1], FrameBytes(f)[j])
      <4>1. /\ j \in 0..Size[f] /\ j - 1 \in 0..Size[f]
            /\ B[k] + j \in 1..Len(InBytes) /\ (B[k] + j) - 1 = B[k] + (j - 1)
        BY <1>4, <2>2, <2>3, <2>4
      <4>2. V[j] = U[B[k] + j] /\ V[j - 1] = U[B[k] + (j - 1)]
        BY <3>1, <4>1
      <4>3. U[B[k] + j] = Takes(U[(B[k] + j) - 1], ByteOnLine(B[k] + j))
        BY <1>5, <4>1
      <4>4. QED
        BY <2>6, <4>1, <4>2, <4>3
    <3>4. QED
      BY <3>2, <3>3 DEF Along
  <2>8. V[Size[f]] = Silent(Append(Said(k), Meaning(f)))
    <3> HIDE DEF V
    <3>1. QED
      BY <2>2, <2>7, HearsFrame
  <2>9. V[Size[f]] = U[B[k + 1]]
    BY <2>2, <2>3
  <2>10. Append(Said(k), Meaning(f)) = Said(k + 1)
    BY SaidGrows DEF f
  <2>11. QED
    BY <2>8, <2>9, <2>10
<1> HIDE DEF T
<1>8. Nat \subseteq T
  BY <1>6, <1>7, FromZero
<1>9. U[B[m]] = Silent(Said(m))
  BY <1>1, <1>8 DEF T
<1>10. QED
  BY <1>4, <1>5, <1>9 DEF Silent

LEMMA SaidPrefix ==
    ASSUME NEW n \in Nat, NEW m \in 0..n
    PROVE  Len(Said(m)) = m /\ IsPrefix(Said(m), Said(n))
<1> DEFINE S == {Meaning(pushed[i]) : i \in 1..n}
<1>1. \A k \in 0..n : /\ Said(k) \in Seq(S) /\ Len(Said(k)) = k
                      /\ \A i \in 1..k : Said(k)[i] = Meaning(pushed[i]) /\ Said(k)[i] \in S
  <2> SUFFICES ASSUME NEW k \in 0..n
               PROVE  /\ Said(k) \in Seq(S) /\ Len(Said(k)) = k
                      /\ \A i \in 1..k : Said(k)[i] = Meaning(pushed[i]) /\ Said(k)[i] \in S
    OBVIOUS
  <2>1. \A i \in 1..k : Meaning(pushed[i]) \in S
    OBVIOUS
  <2>2. Said(k) \in [1..k -> S] /\ DOMAIN Said(k) = 1..k
    BY <2>1 DEF Said
  <2> HIDE DEF S
  <2>3. Said(k) \in Seq(S)
    BY <2>2
  <2>4. Len(Said(k)) = k
    BY <2>2, <2>3, LenProperties
  <2>5. QED
    BY <2>1, <2>3, <2>4 DEF Said
<1> HIDE DEF S
<1>2. n \in 0..n /\ m \in Nat /\ m <= n /\ \A i \in 1..m : i \in 1..n
  OBVIOUS
<1>3. /\ SubSeq(Said(n), 1, m) \in Seq(S) /\ Len(SubSeq(Said(n), 1, m)) = m
      /\ \A i \in 1..m : SubSeq(Said(n), 1, m)[i] = Said(n)[i]
  <2>1. \A i \in 1..m : Said(n)[i] \in S
    BY <1>1, <1>2
  <2>2. QED
    BY <1>2, <2>1, SubSeqProperties
<1>4. \A i \in 1..m : Said(n)[i] = Said(m)[i]
  BY <1>1, <1>2
<1>5. SubSeq(Said(n), 1, m) = Said(m)
  BY <1>1, <1>3, <1>4, SeqEqual
<1>6. SubSeq(Said(m), 1, m) = Said(m)
  BY <1>1, SubSeqFull
<1>7. QED
  BY <1>1, <1>2, <1>5, <1>6 DEF IsPrefix

\* What the station hears is the commands that were written, in their order, for every
\* command of both protocols: no byte of the data, the size or the checksum is taken for
\* the beginning or the end of a frame, and the unwritten tail of a basic frame is not
\* taken for anything.
THEOREM CommandsUnderstood == OutputSpec => []StationUnderstands
<1>1. IInv => StationUnderstands
  <2> SUFFICES ASSUME IInv, shortened = 0, filler \notin {STX, Encoder!ACK, Encoder!NAK}
               PROVE  /\ IsPrefix(Heard, [i \in DOMAIN pushed |-> Meaning(pushed[i])])
                      /\ write = "idle" => Len(Heard) = Len(pushed)
    BY DEF StationUnderstands
  <2>1. PICK m \in 0..Len(pushed) : /\ Bytes(pushed, m) = Len(InBytes)
                                    /\ write = "idle" => m = Len(pushed)
    BY WholeFrames
  <2>2. Heard = Said(m)
    BY <2>1, HeardOfFrames DEF QuietFiller
  <2>3. Len(pushed) \in Nat /\ [i \in DOMAIN pushed |-> Meaning(pushed[i])] = Said(Len(pushed))
    BY Lengths DEF Said
  <2>4. Len(Said(m)) = m /\ IsPrefix(Said(m), Said(Len(pushed)))
    BY <2>3, SaidPrefix
  <2>5. QED
    BY <2>1, <2>2, <2>3, <2>4
<1>2. QED
  BY <1>1, PortInvariant, PTL

=============================================================================
