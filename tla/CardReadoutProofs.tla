-------------------------- MODULE CardReadoutProofs --------------------------
(***************************************************************************)
(* Theorems about CardReadout: what is read of a card is what the card     *)
(* holds, for every set of cards.  The first sections are about the        *)
(* operators of CommandParameter and the definitions of CardFormats, the   *)
(* next about the bytes of CardImage, the last about the steps of the      *)
(* readout.                                                                *)
(***************************************************************************)
EXTENDS CardReadout, SequenceTheorems, WellFoundedInduction, TLAPS

\* What holds for 0, and for n + 1 if it holds for n, holds for every number.
LEMMA FromZero ==
    ASSUME NEW T, 0 \in T, \A n \in Nat : n \in T => n + 1 \in T
    PROVE  Nat \subseteq T
<1> DEFINE Missing == {n \in Nat : n \notin T}
           R == OpToRel(<, Nat)
<1> SUFFICES ASSUME Missing # {} PROVE FALSE
  OBVIOUS
<1>1. IsWellFoundedOn(R, Nat)
  BY NatLessThanWellFounded
<1>2. Missing \subseteq Nat
  OBVIOUS
<1>3. PICK x \in Missing : \A y \in Missing : ~(<<y, x>> \in R)
  <2> HIDE DEF Missing, R
  <2> QED
  BY <1>1, <1>2, WFMin
<1>4. \A y \in Nat : y < x => y \in T
  BY <1>3 DEF OpToRel
<1>5. QED
  BY <1>4

(***************************************************************************)
(* A loop: m rounds of a step f on the states S.                           *)
(***************************************************************************)
IsRun(g, m, start, f) == g = [n \in 0..m |-> IF n = 0 THEN start ELSE f[n][g[n - 1]]]

\* There is one.
LEMMA RunExists ==
    ASSUME NEW S, NEW m \in Nat, NEW start \in S, NEW f \in [1..m -> [S -> S]]
    PROVE  \E g \in [0..m -> S] : IsRun(g, m, start, f)
<1> DEFINE T == {k \in Nat : k <= m => \E g \in [0..k -> S] : IsRun(g, k, start, f)}
<1>1. 0 \in T
  <2> DEFINE g == [n \in 0..0 |-> start]
  <2>1. g \in [0..0 -> S]
    OBVIOUS
  <2>2. IsRun(g, 0, start, f)
    BY DEF IsRun
  <2>3. QED
    BY <2>1, <2>2
<1>2. ASSUME NEW k \in Nat, k \in T
      PROVE  k + 1 \in T
  <2> SUFFICES ASSUME k + 1 <= m
               PROVE  \E g \in [0..(k + 1) -> S] : IsRun(g, k + 1, start, f)
    OBVIOUS
  <2>1. PICK g \in [0..k -> S] : IsRun(g, k, start, f)
    BY <1>2
  <2> DEFINE last == f[k + 1][g[k]]
             h == [n \in 0..(k + 1) |-> IF n = k + 1 THEN last ELSE g[n]]
  <2>2. last \in S
    <3>1. k + 1 \in 1..m /\ g[k] \in S
      OBVIOUS
    <3>2. f[k + 1] \in [S -> S]
      BY <3>1
    <3>3. QED
      BY <3>1, <3>2
  <2>3. \A n \in 0..k : g[n] = IF n = 0 THEN start ELSE f[n][g[n - 1]]
    BY <2>1 DEF IsRun
  <2>4. last = f[k + 1][g[k]]
    OBVIOUS
  <2> HIDE DEF last
  <2>5. h[k + 1] = last /\ \A n \in 0..k : h[n] = g[n]
    OBVIOUS
  <2>6. h \in [0..(k + 1) -> S]
    BY <2>2
  <2>7. DOMAIN h = 0..(k + 1) /\ h = [n \in 0..(k + 1) |-> h[n]]
    OBVIOUS
  <2> HIDE DEF h
  <2>8. \A n \in 0..(k + 1) : h[n] = IF n = 0 THEN start ELSE f[n][h[n - 1]]
    <3> SUFFICES ASSUME NEW n \in 0..(k + 1)
                 PROVE  h[n] = IF n = 0 THEN start ELSE f[n][h[n - 1]]
      OBVIOUS
    <3>1. CASE n = k + 1
      <4>1. n # 0 /\ n - 1 = k /\ h[n - 1] = g[k]
        BY <2>5, <3>1
      <4>2. QED
        BY <2>4, <2>5, <3>1, <4>1
    <3>2. CASE n # k + 1
      <4>1. n \in 0..k /\ (n # 0 => n - 1 \in 0..k)
        BY <3>2
      <4>2. QED
        BY <2>3, <2>5, <4>1
    <3>3. QED
      BY <3>1, <3>2
  <2>9. IsRun(h, k + 1, start, f)
    BY <2>7, <2>8 DEF IsRun
  <2>10. QED
    BY <2>6, <2>9
<1> HIDE DEF T
<1>3. Nat \subseteq T
  BY <1>1, <1>2, FromZero
<1>4. QED
  BY <1>3 DEF T

\* Its states stay in S.
LEMMA RunStays ==
    ASSUME NEW S, NEW m \in Nat, NEW start \in S, NEW f \in [1..m -> [S -> S]], NEW u,
           u[0] = start, \A n \in 1..m : u[n - 1] \in S => u[n] = f[n][u[n - 1]]
    PROVE  \A n \in 0..m : u[n] \in S
<1> DEFINE T == {k \in Nat : k <= m => u[k] \in S}
<1>1. 0 \in T
  OBVIOUS
<1>2. ASSUME NEW k \in Nat, k \in T
      PROVE  k + 1 \in T
  <2> SUFFICES ASSUME k + 1 <= m PROVE u[k + 1] \in S
    OBVIOUS
  <2>1. k + 1 \in 1..m /\ (k + 1) - 1 = k /\ u[k] \in S
    BY <1>2
  <2>2. u[k + 1] = f[k + 1][u[k]] /\ f[k + 1] \in [S -> S]
    BY <2>1
  <2>3. QED
    BY <2>1, <2>2
<1> HIDE DEF T
<1>3. Nat \subseteq T
  BY <1>1, <1>2, FromZero
<1>4. QED
  BY <1>3 DEF T

-----------------------------------------------------------------------------
(***************************************************************************)
(* The loops over bytes, parts and bits, round by round.                   *)
(***************************************************************************)
LEMMA NumberRuns ==
    ASSUME NEW bytes \in Seq(Nat)
    PROVE  \E value \in [0..Len(bytes) -> Nat] :
               /\ value[0] = 0
               /\ \A k \in 1..Len(bytes) : value[k] = 256 * value[k - 1] + bytes[k]
               /\ Number(bytes) = value[Len(bytes)]
<1> DEFINE m == Len(bytes)
           f == [n \in 1..m |-> [s \in Nat |-> 256 * s + bytes[n]]]
           Runs(u) == u = [k \in 0..m |-> IF k = 0 THEN 0 ELSE 256 * u[k - 1] + bytes[k]]
           U == CHOOSE u : Runs(u)
<1>1. m \in Nat /\ \A n \in 1..m : bytes[n] \in Nat
  BY LenProperties, ElementOfSeq
<1>2. Number(bytes) = U[m]
  BY DEF Number
<1>3. f \in [1..m -> [Nat -> Nat]]
  <2>1. \A n \in 1..m : [s \in Nat |-> 256 * s + bytes[n]] \in [Nat -> Nat]
    BY <1>1
  <2>2. QED
    BY <2>1
<1>4. \A n \in 1..m, s \in Nat : f[n][s] = 256 * s + bytes[n]
  OBVIOUS
<1> HIDE DEF f
<1>6. PICK g \in [0..m -> Nat] : IsRun(g, m, 0, f)
  BY <1>1, <1>3, RunExists
<1>7. Runs(g)
  <2>1. g = [n \in 0..m |-> IF n = 0 THEN 0 ELSE f[n][g[n - 1]]]
    BY <1>6 DEF IsRun
  <2>2. \A n \in 0..m : n # 0 => f[n][g[n - 1]] = 256 * g[n - 1] + bytes[n]
    <3> SUFFICES ASSUME NEW n \in 0..m, n # 0
                 PROVE  f[n][g[n - 1]] = 256 * g[n - 1] + bytes[n]
      OBVIOUS
    <3>1. n \in 1..m /\ n - 1 \in 0..m
      BY <1>1
    <3>2. g[n - 1] \in Nat
      BY <3>1
    <3>3. QED
      BY <1>4, <3>1, <3>2, Zenon
  <2>3. QED
    BY <2>1, <2>2
<1>8. Runs(U)
  <2> HIDE DEF Runs
  <2>1. QED
    BY <1>7
<1> HIDE DEF U
<1>9. U[0] = 0 /\ \A n \in 1..m : U[n] = 256 * U[n - 1] + bytes[n]
  <2>1. 0 \in 0..m /\ \A n \in 1..m : n \in 0..m /\ n # 0
    BY <1>1
  <2>2. QED
    BY <1>8, <2>1
<1>10. \A n \in 0..m : U[n] \in Nat
  <2> HIDE DEF m
  <2>1. \A n \in 1..m : U[n - 1] \in Nat => U[n] = f[n][U[n - 1]]
    <3> SUFFICES ASSUME NEW n \in 1..m, U[n - 1] \in Nat PROVE U[n] = f[n][U[n - 1]]
      OBVIOUS
    <3>1. f[n][U[n - 1]] = 256 * U[n - 1] + bytes[n]
      BY <1>4
    <3>2. QED
      BY <1>9, <3>1
  <2>2. 0 \in Nat /\ U[0] = 0 /\ m \in Nat
    BY <1>1, <1>9
  <2>3. QED
    BY <1>3, <2>1, <2>2, RunStays
<1>11. U \in [0..m -> Nat]
  <2>1. U = [k \in 0..m |-> U[k]]
    BY <1>8
  <2>2. QED
    BY <1>10, <2>1
<1>12. QED
  BY <1>2, <1>9, <1>11

LEMMA EndsRun ==
    ASSUME NEW sizes \in Seq(Nat)
    PROVE  /\ Ends(sizes) \in [0..Len(sizes) -> Nat]
           /\ Ends(sizes)[0] = 0
           /\ \A k \in 1..Len(sizes) : Ends(sizes)[k] = Ends(sizes)[k - 1] + sizes[k]
<1> DEFINE m == Len(sizes)
           f == [n \in 1..m |-> [s \in Nat |-> s + sizes[n]]]
           Runs(u) == u = [k \in 0..m |-> IF k = 0 THEN 0 ELSE u[k - 1] + sizes[k]]
           U == CHOOSE u : Runs(u)
<1>1. m \in Nat /\ \A n \in 1..m : sizes[n] \in Nat
  BY LenProperties, ElementOfSeq
<1>2. Ends(sizes) = U
  BY DEF Ends
<1>3. f \in [1..m -> [Nat -> Nat]]
  <2>1. \A n \in 1..m : [s \in Nat |-> s + sizes[n]] \in [Nat -> Nat]
    BY <1>1
  <2>2. QED
    BY <2>1
<1>4. \A n \in 1..m, s \in Nat : f[n][s] = s + sizes[n]
  OBVIOUS
<1> HIDE DEF f
<1>6. PICK g \in [0..m -> Nat] : IsRun(g, m, 0, f)
  BY <1>1, <1>3, RunExists
<1>7. Runs(g)
  <2>1. g = [n \in 0..m |-> IF n = 0 THEN 0 ELSE f[n][g[n - 1]]]
    BY <1>6 DEF IsRun
  <2>2. \A n \in 0..m : n # 0 => f[n][g[n - 1]] = g[n - 1] + sizes[n]
    <3> SUFFICES ASSUME NEW n \in 0..m, n # 0
                 PROVE  f[n][g[n - 1]] = g[n - 1] + sizes[n]
      OBVIOUS
    <3>1. n \in 1..m /\ n - 1 \in 0..m
      BY <1>1
    <3>2. g[n - 1] \in Nat
      BY <3>1
    <3>3. QED
      BY <1>4, <3>1, <3>2, Zenon
  <2>3. QED
    BY <2>1, <2>2
<1>8. Runs(U)
  <2> HIDE DEF Runs
  <2>1. QED
    BY <1>7
<1> HIDE DEF U
<1>9. U[0] = 0 /\ \A n \in 1..m : U[n] = U[n - 1] + sizes[n]
  <2>1. 0 \in 0..m /\ \A n \in 1..m : n \in 0..m /\ n # 0
    BY <1>1
  <2>2. QED
    BY <1>8, <2>1
<1>10. \A n \in 0..m : U[n] \in Nat
  <2> HIDE DEF m
  <2>1. \A n \in 1..m : U[n - 1] \in Nat => U[n] = f[n][U[n - 1]]
    BY <1>4, <1>9, Zenon
  <2>2. 0 \in Nat
    OBVIOUS
  <2>3. QED
    BY <1>1, <1>3, <1>9, <2>1, <2>2, RunStays
<1>11. U \in [0..m -> Nat]
  <2>1. U = [k \in 0..m |-> U[k]]
    BY <1>8
  <2>2. QED
    BY <1>10, <2>1
<1>12. QED
  BY <1>2, <1>9, <1>11

-----------------------------------------------------------------------------
(***************************************************************************)
(* The numbers that one to four bytes make.                                *)
(***************************************************************************)
LEMMA NumberOfOne ==
    ASSUME NEW bytes \in Seq(Nat), Len(bytes) = 1
    PROVE  Number(bytes) = bytes[1]
<1>1. PICK value \in [0..Len(bytes) -> Nat] :
               /\ value[0] = 0
               /\ \A k \in 1..Len(bytes) : value[k] = 256 * value[k - 1] + bytes[k]
               /\ Number(bytes) = value[Len(bytes)]
  BY NumberRuns
<1> \A k \in 1..Len(bytes) : bytes[k] \in Nat
  BY ElementOfSeq
<1>2. bytes[1] \in Nat
  OBVIOUS
<1>3. QED
  BY <1>1, <1>2

LEMMA NumberOfTwo ==
    ASSUME NEW bytes \in Seq(Nat), Len(bytes) = 2
    PROVE  Number(bytes) = 256 * bytes[1] + bytes[2]
<1>1. PICK value \in [0..Len(bytes) -> Nat] :
               /\ value[0] = 0
               /\ \A k \in 1..Len(bytes) : value[k] = 256 * value[k - 1] + bytes[k]
               /\ Number(bytes) = value[Len(bytes)]
  BY NumberRuns
<1> \A k \in 1..Len(bytes) : bytes[k] \in Nat
  BY ElementOfSeq
<1>2. bytes[1] \in Nat /\ bytes[2] \in Nat
  OBVIOUS
<1>3. value[1] = bytes[1]
  BY <1>1, <1>2
<1>4. value[2] = 256 * value[1] + bytes[2]
  BY <1>1
<1>5. QED
  BY <1>1, <1>3, <1>4

LEMMA NumberOfThree ==
    ASSUME NEW bytes \in Seq(Nat), Len(bytes) = 3
    PROVE  Number(bytes) = 65536 * bytes[1] + 256 * bytes[2] + bytes[3]
<1>1. PICK value \in [0..Len(bytes) -> Nat] :
               /\ value[0] = 0
               /\ \A k \in 1..Len(bytes) : value[k] = 256 * value[k - 1] + bytes[k]
               /\ Number(bytes) = value[Len(bytes)]
  BY NumberRuns
<1> \A k \in 1..Len(bytes) : bytes[k] \in Nat
  BY ElementOfSeq
<1>2. bytes[1] \in Nat /\ bytes[2] \in Nat /\ bytes[3] \in Nat
  OBVIOUS
<1>3. value[1] = bytes[1]
  BY <1>1, <1>2
<1>4. value[2] = 256 * value[1] + bytes[2]
  BY <1>1
<1>5. value[3] = 256 * value[2] + bytes[3]
  BY <1>1
<1>6. Number(bytes) = value[3]
  BY <1>1, Zenon
<1>7. QED
  BY <1>2, <1>3, <1>4, <1>5, <1>6, SMT

LEMMA NumberOfFour ==
    ASSUME NEW bytes \in Seq(Nat), Len(bytes) = 4
    PROVE  Number(bytes) = 16777216 * bytes[1] + 65536 * bytes[2] + 256 * bytes[3] + bytes[4]
<1>1. PICK value \in [0..Len(bytes) -> Nat] :
               /\ value[0] = 0
               /\ \A k \in 1..Len(bytes) : value[k] = 256 * value[k - 1] + bytes[k]
               /\ Number(bytes) = value[Len(bytes)]
  BY NumberRuns
<1> \A k \in 1..Len(bytes) : bytes[k] \in Nat
  BY ElementOfSeq
<1>2. bytes[1] \in Nat /\ bytes[2] \in Nat /\ bytes[3] \in Nat /\ bytes[4] \in Nat
  OBVIOUS
<1>3. value[1] = bytes[1]
  BY <1>1, <1>2
<1>4. value[2] = 256 * value[1] + bytes[2]
  BY <1>1
<1>5. value[3] = 256 * value[2] + bytes[3]
  BY <1>1
<1>6. value[4] = 256 * value[3] + bytes[4]
  BY <1>1
<1>7. Number(bytes) = value[4]
  BY <1>1, Zenon
<1> DEFINE b1 == bytes[1]
           b2 == bytes[2]
           b3 == bytes[3]
           b4 == bytes[4]
<1> HIDE DEF b1, b2, b3, b4
<1>8. b1 \in Nat /\ b2 \in Nat /\ b3 \in Nat /\ b4 \in Nat
  BY <1>2 DEF b1, b2, b3, b4
<1>9. value[3] = 65536 * b1 + 256 * b2 + b3
  <2>1. value[1] = b1 /\ value[2] = 256 * value[1] + b2 /\ value[3] = 256 * value[2] + b3
    BY <1>3, <1>4, <1>5 DEF b1, b2, b3
  <2>2. QED
    BY <1>8, <2>1, SMT
<1>10. value[4] = 256 * value[3] + b4
  BY <1>6 DEF b4
<1>11. value[4] = 16777216 * b1 + 65536 * b2 + 256 * b3 + b4
  BY <1>8, <1>9, <1>10, SMT
<1>12. QED
  BY <1>7, <1>11 DEF b1, b2, b3, b4

-----------------------------------------------------------------------------
(***************************************************************************)
(* A parameter read bit by bit.                                            *)
(***************************************************************************)
LEMMA Powers ==
    /\ 2^0 = 1 /\ 2^1 = 2 /\ 2^2 = 4 /\ 2^3 = 8 /\ 2^4 = 16 /\ 2^5 = 32 /\ 2^6 = 64 /\ 2^7 = 128
    /\ 2^8 = 256 /\ 2^9 = 512 /\ 2^10 = 1024 /\ 2^11 = 2048 /\ 2^12 = 4096 /\ 2^13 = 8192
    /\ 2^14 = 16384 /\ 2^15 = 32768 /\ 2^16 = 65536 /\ 2^17 = 131072 /\ 2^18 = 262144
    /\ 2^19 = 524288 /\ 2^20 = 1048576 /\ 2^21 = 2097152 /\ 2^22 = 4194304 /\ 2^23 = 8388608
BY SMT

LEMMA PowerIsNumber ==
    ASSUME NEW n \in 0..23
    PROVE  2^n \in Nat
<1>1. CASE n = 0 BY <1>1, Powers, SMT
<1>2. CASE n = 1 BY <1>2, Powers, SMT
<1>3. CASE n = 2 BY <1>3, Powers, SMT
<1>4. CASE n = 3 BY <1>4, Powers, SMT
<1>5. CASE n = 4 BY <1>5, Powers, SMT
<1>6. CASE n = 5 BY <1>6, Powers, SMT
<1>7. CASE n = 6 BY <1>7, Powers, SMT
<1>8. CASE n = 7 BY <1>8, Powers, SMT
<1>9. CASE n = 8 BY <1>9, Powers, SMT
<1>10. CASE n = 9 BY <1>10, Powers, SMT
<1>11. CASE n = 10 BY <1>11, Powers, SMT
<1>12. CASE n = 11 BY <1>12, Powers, SMT
<1>13. CASE n = 12 BY <1>13, Powers, SMT
<1>14. CASE n = 13 BY <1>14, Powers, SMT
<1>15. CASE n = 14 BY <1>15, Powers, SMT
<1>16. CASE n = 15 BY <1>16, Powers, SMT
<1>17. CASE n = 16 BY <1>17, Powers, SMT
<1>18. CASE n = 17 BY <1>18, Powers, SMT
<1>19. CASE n = 18 BY <1>19, Powers, SMT
<1>20. CASE n = 19 BY <1>20, Powers, SMT
<1>21. CASE n = 20 BY <1>21, Powers, SMT
<1>22. CASE n = 21 BY <1>22, Powers, SMT
<1>23. CASE n = 22 BY <1>23, Powers, SMT
<1>24. CASE n = 23 BY <1>24, Powers, SMT
<1> QED
  BY <1>1, <1>2, <1>3, <1>4, <1>5, <1>6, <1>7, <1>8, <1>9, <1>10, <1>11, <1>12,
     <1>13, <1>14, <1>15, <1>16, <1>17, <1>18, <1>19, <1>20, <1>21, <1>22, <1>23, <1>24, SMT

\* The k-th bit gives this much to the value of the parameter with the name.
Weight(bits, bytes, name, k) ==
    IF bits[k].name = name /\ BitAt(bytes, k) = 1 THEN 2^bits[k].ordinal ELSE 0

\* The sum of the first bits, up to the k-th, for each k.
IsSum(value, bits, bytes, name) ==
    /\ value \in [0..Len(bits) -> Nat]
    /\ value[0] = 0
    /\ \A k \in 1..Len(bits) : value[k] = value[k - 1] + Weight(bits, bytes, name, k)

LEMMA ReadBitsRuns ==
    ASSUME NEW S, NEW bits \in Seq(S), \A k \in 1..Len(bits) : bits[k].ordinal \in 0..23,
           NEW bytes, NEW name
    PROVE  \E value : /\ IsSum(value, bits, bytes, name)
                      /\ ReadBits(bits, bytes, name) = value[Len(bits)]
<1> DEFINE m == Len(bits)
           w == [n \in 1..m |-> Weight(bits, bytes, name, n)]
           f == [n \in 1..m |-> [s \in Nat |-> s + w[n]]]
           Runs(u) == u = [k \in 0..m |-> IF k = 0 THEN 0
                            ELSE u[k - 1] + (IF bits[k].name = name /\ BitAt(bytes, k) = 1
                                             THEN 2^bits[k].ordinal ELSE 0)]
           U == CHOOSE u : Runs(u)
<1>1. m \in Nat
  BY LenProperties
<1>2. \A n \in 1..m : w[n] = Weight(bits, bytes, name, n)
  OBVIOUS
<1>3. \A n \in 1..m : w[n] \in Nat
  <2> HIDE DEF w
  <2> SUFFICES ASSUME NEW n \in 1..m PROVE w[n] \in Nat
    OBVIOUS
  <2>1. 2^(bits[n].ordinal) \in Nat
    BY PowerIsNumber
  <2>2. QED
    BY <1>2, <2>1 DEF Weight
<1>4. ReadBits(bits, bytes, name) = U[m]
  BY DEF ReadBits
<1> HIDE DEF w
<1>5. f \in [1..m -> [Nat -> Nat]]
  <2>1. \A n \in 1..m : [s \in Nat |-> s + w[n]] \in [Nat -> Nat]
    BY <1>3
  <2>2. QED
    BY <2>1
<1>6. \A n \in 1..m, s \in Nat : f[n][s] = s + w[n]
  OBVIOUS
<1> HIDE DEF f
<1>7. PICK g \in [0..m -> Nat] : IsRun(g, m, 0, f)
  BY <1>1, <1>5, RunExists
<1>8. \A n \in 1..m : (IF bits[n].name = name /\ BitAt(bytes, n) = 1
                       THEN 2^bits[n].ordinal ELSE 0) = w[n]
  BY <1>2, Zenon DEF Weight
<1>9. Runs(g)
  <2>1. g = [n \in 0..m |-> IF n = 0 THEN 0 ELSE f[n][g[n - 1]]]
    BY <1>7 DEF IsRun
  <2>2. \A n \in 0..m : n # 0 => f[n][g[n - 1]] = g[n - 1] +
                   (IF bits[n].name = name /\ BitAt(bytes, n) = 1 THEN 2^bits[n].ordinal ELSE 0)
    <3> SUFFICES ASSUME NEW n \in 0..m, n # 0
                 PROVE  f[n][g[n - 1]] = g[n - 1] +
                   (IF bits[n].name = name /\ BitAt(bytes, n) = 1 THEN 2^bits[n].ordinal ELSE 0)
      OBVIOUS
    <3>1. n \in 1..m /\ n - 1 \in 0..m
      BY <1>1
    <3>2. g[n - 1] \in Nat
      BY <3>1
    <3>3. f[n][g[n - 1]] = g[n - 1] + w[n]
      BY <1>6, <3>1, <3>2, Zenon
    <3>4. QED
      BY <1>8, <3>1, <3>3, Zenon
  <2>3. QED
    BY <2>1, <2>2, Zenon
<1>10. Runs(U)
  <2> HIDE DEF Runs
  <2>1. QED
    BY <1>9
<1> HIDE DEF U
<1>11. U[0] = 0 /\ \A n \in 1..m : U[n] = U[n - 1] + w[n]
  <2>1. 0 \in 0..m /\ \A n \in 1..m : n \in 0..m /\ n # 0
    BY <1>1
  <2>2. \A n \in 0..m : U[n] = IF n = 0 THEN 0
                            ELSE U[n - 1] + (IF bits[n].name = name /\ BitAt(bytes, n) = 1
                                             THEN 2^bits[n].ordinal ELSE 0)
    BY <1>10, Zenon
  <2>3. QED
    BY <1>8, <2>1, <2>2, Zenon
<1>12. \A n \in 0..m : U[n] \in Nat
  <2> HIDE DEF m
  <2>1. \A n \in 1..m : U[n - 1] \in Nat => U[n] = f[n][U[n - 1]]
    <3> SUFFICES ASSUME NEW n \in 1..m, U[n - 1] \in Nat PROVE U[n] = f[n][U[n - 1]]
      OBVIOUS
    <3>1. f[n][U[n - 1]] = U[n - 1] + w[n]
      BY <1>6
    <3>2. QED
      BY <1>11, <3>1
  <2>2. 0 \in Nat /\ U[0] = 0 /\ m \in Nat
    BY <1>1, <1>11
  <2>3. QED
    BY <1>5, <2>1, <2>2, RunStays
<1>13. U \in [0..m -> Nat]
  <2>1. U = [k \in 0..m |-> U[k]]
    BY <1>10
  <2>2. QED
    BY <1>12, <2>1
<1>14. IsSum(U, bits, bytes, name)
  BY <1>2, <1>11, <1>13, Zenon DEF IsSum
<1>15. QED
  BY <1>4, <1>14

LEMMA BitOfByte ==
    ASSUME NEW bytes, NEW q \in Nat, NEW m \in 1..8
    PROVE  BitAt(bytes, 8 * q + m) = (bytes[q + 1] \div 2^(8 - m)) % 2
<1>1. (8 * q + m - 1) \div 8 = q /\ (8 * q + m - 1) % 8 = m - 1
  OBVIOUS
<1>2. ((8 * q + m - 1) \div 8) + 1 = q + 1 /\ 7 - ((8 * q + m - 1) % 8) = 8 - m
  BY <1>1
<1>3. QED
  BY <1>2 DEF BitAt

-----------------------------------------------------------------------------
(***************************************************************************)
(* The bytes of a bit array that a parameter takes in whole, and those it  *)
(* skips.                                                                  *)
(***************************************************************************)
\* What a byte counts for in a number, at its place.
Scale == {1, 256, 65536}

IsByte(x) == x \in Nat /\ x < 256

\* The m-th bit of a byte, from the highest, at its place.
BitValue(byte, m) == IF (byte \div 2^(8 - m)) % 2 = 1 THEN 2^(8 - m) ELSE 0

LEMMA BitValues ==
    ASSUME NEW byte, IsByte(byte)
    PROVE  /\ BitValue(byte, 1) = IF (byte \div 128) % 2 = 1 THEN 128 ELSE 0
           /\ BitValue(byte, 2) = IF (byte \div 64) % 2 = 1 THEN 64 ELSE 0
           /\ BitValue(byte, 3) = IF (byte \div 32) % 2 = 1 THEN 32 ELSE 0
           /\ BitValue(byte, 4) = IF (byte \div 16) % 2 = 1 THEN 16 ELSE 0
           /\ BitValue(byte, 5) = IF (byte \div 8) % 2 = 1 THEN 8 ELSE 0
           /\ BitValue(byte, 6) = IF (byte \div 4) % 2 = 1 THEN 4 ELSE 0
           /\ BitValue(byte, 7) = IF (byte \div 2) % 2 = 1 THEN 2 ELSE 0
           /\ BitValue(byte, 8) = IF byte % 2 = 1 THEN 1 ELSE 0
<1>1. 8 - 1 = 7 /\ 8 - 2 = 6 /\ 8 - 3 = 5 /\ 8 - 4 = 4 /\ 8 - 5 = 3 /\ 8 - 6 = 2 /\ 8 - 7 = 1 /\ 8 - 8 = 0
  OBVIOUS
<1>2. byte \div 1 = byte
  BY DEF IsByte
<1>3. /\ 2^(8 - 1) = 128 /\ 2^(8 - 2) = 64 /\ 2^(8 - 3) = 32 /\ 2^(8 - 4) = 16
      /\ 2^(8 - 5) = 8 /\ 2^(8 - 6) = 4 /\ 2^(8 - 7) = 2 /\ 2^(8 - 8) = 1
  BY SMT
<1>4. QED
  BY <1>2, <1>3, SMT DEF BitValue, IsByte

LEMMA ByteIsItsBits ==
    ASSUME NEW byte, IsByte(byte)
    PROVE  byte = BitValue(byte, 1) + BitValue(byte, 2) + BitValue(byte, 3) + BitValue(byte, 4)
                + BitValue(byte, 5) + BitValue(byte, 6) + BitValue(byte, 7) + BitValue(byte, 8)
BY BitValues, SMTT(60) DEF IsByte

LEMMA BitValueIsNumber ==
    ASSUME NEW byte, IsByte(byte), NEW m \in 1..8
    PROVE  BitValue(byte, m) \in Nat
<1>1. m = 1 \/ m = 2 \/ m = 3 \/ m = 4 \/ m = 5 \/ m = 6 \/ m = 7 \/ m = 8
  OBVIOUS
<1>2. QED
  BY <1>1, BitValues, SMT

ShiftedPower(o, s, m) == 2^(o + 8 - m) = s * 2^(8 - m)

LEMMA PowerSum ==
    ASSUME NEW m \in 1..8
    PROVE  ShiftedPower(0, 1, m) /\ ShiftedPower(8, 256, m) /\ ShiftedPower(16, 65536, m)
<1> USE DEF ShiftedPower
<1>1. CASE m = 1 BY <1>1, Powers, SMT
<1>2. CASE m = 2 BY <1>2, Powers, SMT
<1>3. CASE m = 3 BY <1>3, Powers, SMT
<1>4. CASE m = 4 BY <1>4, Powers, SMT
<1>5. CASE m = 5 BY <1>5, Powers, SMT
<1>6. CASE m = 6 BY <1>6, Powers, SMT
<1>7. CASE m = 7 BY <1>7, Powers, SMT
<1>8. CASE m = 8 BY <1>8, Powers, SMT
<1> QED BY <1>1, <1>2, <1>3, <1>4, <1>5, <1>6, <1>7, <1>8

\* Behind q bytes there is one more.
InBits(bits, bytes, q) == /\ Len(bits) \in Nat
                          /\ 8 * q + 8 <= Len(bits)
                          /\ IsByte(bytes[q + 1])

\* The m-th bit of the byte behind q bytes is one of the parameter, which has s times the byte.
TakesBit(bits, q, m, name, s) == /\ bits[8 * q + m].name = name
                                 /\ 2^bits[8 * q + m].ordinal = s * 2^(8 - m)

\* What a bit of the parameter adds when the parameter has s times the byte.
LEMMA BitTaken ==
    ASSUME NEW bits, NEW bytes, NEW name, NEW value, IsSum(value, bits, bytes, name),
           NEW q \in Nat, InBits(bits, bytes, q), NEW s \in Nat, NEW m \in 1..8,
           TakesBit(bits, q, m, name, s)
    PROVE  value[8 * q + m] = value[8 * q + (m - 1)] + s * BitValue(bytes[q + 1], m)
<1> DEFINE k == 8 * q + m
           byte == bytes[q + 1]
           w == Weight(bits, bytes, name, k)
<1>1. k \in 1..Len(bits) /\ k - 1 = 8 * q + (m - 1)
  BY DEF InBits
<1>2. value[k] = value[k - 1] + w
  BY <1>1 DEF IsSum
<1>3. BitAt(bytes, k) = (byte \div 2^(8 - m)) % 2
  BY BitOfByte
<1> DEFINE bit == (byte \div 2^(8 - m)) % 2
           p == 2^(8 - m)
<1>4. w = IF bit = 1 THEN s * p ELSE 0
  BY <1>3, Zenon DEF Weight, TakesBit
<1>5. BitValue(byte, m) = IF bit = 1 THEN p ELSE 0
  BY DEF BitValue
<1> HIDE DEF w, bit, p, byte, k
<1>6. s * 0 = 0
  OBVIOUS
<1>7. w = s * BitValue(byte, m)
  BY <1>4, <1>5, <1>6, Zenon
<1>8. value[k] = value[8 * q + (m - 1)] + s * BitValue(byte, m)
  BY <1>1, <1>2, <1>7, Zenon
<1>9. QED
  BY <1>8 DEF k, byte

\* The sum of a byte, bit by bit.
LEMMA ByteSum ==
    ASSUME NEW byte, IsByte(byte), NEW s \in Scale, NEW value, NEW base \in Nat,
           value[base] \in Nat,
           \A m \in 1..8 : value[base + m] = value[base + (m - 1)] + s * BitValue(byte, m)
    PROVE  value[base + 8] = value[base] + s * byte
<1>1. \A m \in 1..8 : BitValue(byte, m) \in Nat
  BY BitValueIsNumber
<1>2. /\ BitValue(byte, 1) \in Nat /\ BitValue(byte, 2) \in Nat /\ BitValue(byte, 3) \in Nat
      /\ BitValue(byte, 4) \in Nat /\ BitValue(byte, 5) \in Nat /\ BitValue(byte, 6) \in Nat
      /\ BitValue(byte, 7) \in Nat /\ BitValue(byte, 8) \in Nat
  BY <1>1
<1>3. /\ 1 - 1 = 0 /\ 2 - 1 = 1 /\ 3 - 1 = 2 /\ 4 - 1 = 3 /\ 5 - 1 = 4 /\ 6 - 1 = 5 /\ 7 - 1 = 6
      /\ 8 - 1 = 7 /\ base + 0 = base
  OBVIOUS
<1>4. /\ 1 \in 1..8 /\ 2 \in 1..8 /\ 3 \in 1..8 /\ 4 \in 1..8 /\ 5 \in 1..8 /\ 6 \in 1..8
      /\ 7 \in 1..8 /\ 8 \in 1..8
  OBVIOUS
<1>5. /\ value[base + 1] = value[base] + s * BitValue(byte, 1)
      /\ value[base + 2] = value[base + 1] + s * BitValue(byte, 2)
      /\ value[base + 3] = value[base + 2] + s * BitValue(byte, 3)
      /\ value[base + 4] = value[base + 3] + s * BitValue(byte, 4)
      /\ value[base + 5] = value[base + 4] + s * BitValue(byte, 5)
      /\ value[base + 6] = value[base + 5] + s * BitValue(byte, 6)
      /\ value[base + 7] = value[base + 6] + s * BitValue(byte, 7)
      /\ value[base + 8] = value[base + 7] + s * BitValue(byte, 8)
  BY <1>3, <1>4, Zenon
<1>6. value[base + 8] = value[base] + s *
           (BitValue(byte, 1) + BitValue(byte, 2) + BitValue(byte, 3) + BitValue(byte, 4)
              + BitValue(byte, 5) + BitValue(byte, 6) + BitValue(byte, 7) + BitValue(byte, 8))
  <2>1. CASE s = 1
    BY <1>2, <1>5, <2>1, SMT
  <2>2. CASE s = 256
    BY <1>2, <1>5, <2>2, SMT
  <2>3. CASE s = 65536
    BY <1>2, <1>5, <2>3, SMT
  <2>4. QED
    BY <2>1, <2>2, <2>3 DEF Scale
<1>7. QED
  BY <1>6, ByteIsItsBits

\* The byte behind q bytes adds s times itself to the sum of the bits.
Adds(value, bytes, q, s) == value[8 * q + 8] = value[8 * q] + s * bytes[q + 1]

\* A byte all of whose bits are of the parameter.
LEMMA ByteTaken ==
    ASSUME NEW bits, NEW bytes, NEW name, NEW value, IsSum(value, bits, bytes, name),
           NEW q \in Nat, InBits(bits, bytes, q), NEW s \in Scale,
           \A m \in 1..8 : TakesBit(bits, q, m, name, s)
    PROVE  Adds(value, bytes, q, s)
<1> DEFINE byte == bytes[q + 1]
           base == 8 * q
<1>1. s \in Nat
  BY DEF Scale
<1>2. ASSUME NEW m \in 1..8
      PROVE  value[8 * q + m] = value[8 * q + (m - 1)] + s * BitValue(byte, m)
  BY <1>1, BitTaken
<1>3. base \in 0..Len(bits) /\ base \in Nat
  BY DEF InBits
<1>4. value[base] \in Nat
  BY <1>3 DEF IsSum
<1>5. IsByte(byte)
  BY DEF InBits
<1>6. \A m \in 1..8 : value[base + m] = value[base + (m - 1)] + s * BitValue(byte, m)
  BY <1>2
<1> HIDE DEF byte, base
<1>7. value[base + 8] = value[base] + s * byte
  BY <1>3, <1>4, <1>5, <1>6, ByteSum
<1>8. QED
  BY <1>7 DEF base, byte, Adds

\* A bit that is not one of the parameter.
SkipsBit(bits, q, m, name) == bits[8 * q + m].name # name

LEMMA BitSkipped ==
    ASSUME NEW bits, NEW bytes, NEW name, NEW value, IsSum(value, bits, bytes, name),
           NEW q \in Nat, InBits(bits, bytes, q), NEW m \in 1..8, SkipsBit(bits, q, m, name)
    PROVE  value[8 * q + m] = value[8 * q + (m - 1)]
<1>1. /\ 8 * q + m \in 1..Len(bits) /\ 8 * q + (m - 1) \in 0..Len(bits)
      /\ (8 * q + m) - 1 = 8 * q + (m - 1)
  BY DEF InBits
<1>2. Weight(bits, bytes, name, 8 * q + m) = 0
  BY DEF Weight, SkipsBit
<1>3. value[8 * q + (m - 1)] \in Nat
  BY <1>1 DEF IsSum
<1>4. QED
  BY <1>1, <1>2, <1>3 DEF IsSum

SkipsByte(bits, q, name) == \A m \in 1..8 : SkipsBit(bits, q, m, name)

AddsNothing(value, q) == value[8 * q + 8] = value[8 * q]

LEMMA ByteSkipped ==
    ASSUME NEW bits, NEW bytes, NEW name, NEW value, IsSum(value, bits, bytes, name),
           NEW q \in Nat, InBits(bits, bytes, q), SkipsByte(bits, q, name)
    PROVE  AddsNothing(value, q)
<1>1. \A m \in 1..8 : value[8 * q + m] = value[8 * q + (m - 1)]
  BY BitSkipped DEF SkipsByte
<1>2. QED
  BY <1>1 DEF AddsNothing

-----------------------------------------------------------------------------
(***************************************************************************)
(* The bits of a definition, part behind part.                             *)
(***************************************************************************)
\* The sequence r is t behind s.
IsJoined(r, s, t) == /\ Len(r) = Len(s) + Len(t)
                     /\ \A i \in 1..Len(s) : r[i] = s[i]
                     /\ \A i \in 1..Len(t) : r[Len(s) + i] = t[i]

LEMMA ConcatBehind ==
    ASSUME NEW B, NEW s \in Seq(B), NEW t \in Seq(B)
    PROVE  s \o t \in Seq(B) /\ IsJoined(s \o t, s, t)
<1>1. /\ s \o t \in Seq(B) /\ Len(s \o t) = Len(s) + Len(t)
      /\ \A i \in 1..(Len(s) + Len(t)) : (s \o t)[i] = IF i <= Len(s) THEN s[i] ELSE t[i - Len(s)]
  BY ConcatProperties
<1>2. Len(s) \in Nat /\ Len(t) \in Nat
  BY LenProperties
<1>3. \A i \in 1..Len(s) : (s \o t)[i] = s[i]
  BY <1>1, <1>2
<1>4. \A i \in 1..Len(t) : (s \o t)[Len(s) + i] = t[i]
  <2> SUFFICES ASSUME NEW i \in 1..Len(t) PROVE (s \o t)[Len(s) + i] = t[i]
    OBVIOUS
  <2>1. Len(s) + i \in 1..(Len(s) + Len(t)) /\ ~(Len(s) + i <= Len(s)) /\ (Len(s) + i) - Len(s) = i
    BY <1>2
  <2>2. QED
    BY <1>1, <2>1
<1>5. QED
  BY <1>1, <1>3, <1>4 DEF IsJoined

\* Where the parts of a bit array end.
BitEnd(def, j) == Ends(BitCounts(def))[j]

\* Its parts are bits of parameters of up to three bytes, the highest first.
HasCounts(def) == \A j \in 1..Len(def) : /\ def[j].first \in Nat /\ def[j].first < 24
                                         /\ def[j].last \in Nat
                                         /\ def[j].last <= def[j].first

\* A bit array of whole bytes.
IsBitArray(def) == HasCounts(def) /\ BitEnd(def, Len(def)) % 8 = 0

LEMMA BitCountIs ==
    ASSUME NEW def, HasCounts(def), NEW j \in 1..Len(def)
    PROVE  BitCount(def[j]) = def[j].first - def[j].last + 1 /\ BitCount(def[j]) \in Nat
<1> DEFINE f == def[j].first
           l == def[j].last
<1>1. f \in Nat /\ l \in Nat /\ l <= f
  BY DEF HasCounts
<1>2. BitCount(def[j]) = IF l < f THEN f - l + 1 ELSE l - f + 1
  BY DEF BitCount
<1> HIDE DEF f, l
<1>3. BitCount(def[j]) = f - l + 1 /\ BitCount(def[j]) \in Nat
  BY <1>1, <1>2
<1>4. QED
  BY <1>3 DEF f, l

LEMMA BitEnds ==
    ASSUME NEW S, NEW def \in Seq(S), HasCounts(def)
    PROVE  /\ BitEnd(def, 0) = 0
           /\ \A j \in 0..Len(def) : BitEnd(def, j) \in Nat
           /\ \A j \in 1..Len(def) : BitEnd(def, j) = BitEnd(def, j - 1) + BitCount(def[j])
<1>1. Len(def) \in Nat
  BY LenProperties
<1>2. BitCounts(def) \in Seq(Nat) /\ Len(BitCounts(def)) = Len(def)
  BY <1>1, BitCountIs DEF BitCounts
<1>3. \A j \in 1..Len(def) : BitCounts(def)[j] = BitCount(def[j])
  BY DEF BitCounts
<1>4. QED
  BY <1>2, <1>3, EndsRun DEF BitEnd

LEMMA BitsAre ==
    ASSUME NEW S, NEW def \in Seq(S), IsBitArray(def)
    PROVE  /\ \E B : /\ Bits(def) \in Seq(B)
                     /\ \A b \in B : \E j \in 1..Len(def) : \E m \in 1..BitCount(def[j]) :
                            b = BitsOf(def[j])[m]
           /\ Len(Bits(def)) = BitEnd(def, Len(def))
           /\ \A j \in 1..Len(def), m \in Nat : m \in 1..BitCount(def[j]) =>
                  Bits(def)[BitEnd(def, j - 1) + m] = BitsOf(def[j])[m]
<1> DEFINE n == Len(def)
           B == UNION {{BitsOf(def[j])[m] : m \in 1..BitCount(def[j])} : j \in 1..n}
           f == [j \in 1..n |-> [s \in Seq(B) |-> s \o BitsOf(def[j])]]
           Runs(u) == u = [k \in 0..n |-> IF k = 0 THEN <<>> ELSE u[k - 1] \o BitsOf(def[k])]
           U == CHOOSE u : Runs(u)
<1>1. n \in Nat
  BY LenProperties
<1>2. Normalize(def) = def
  BY DEF Normalize, IsBitArray, BitEnd
<1>3. Bits(def) = U[n]
  BY <1>2 DEF Bits
<1>4. \A j \in 1..n : BitsOf(def[j]) \in Seq(B) /\ Len(BitsOf(def[j])) = BitCount(def[j])
  <2> SUFFICES ASSUME NEW j \in 1..n
               PROVE  BitsOf(def[j]) \in Seq(B) /\ Len(BitsOf(def[j])) = BitCount(def[j])
    OBVIOUS
  <2> DEFINE c == BitCount(def[j])
             t == BitsOf(def[j])
  <2>1. c \in Nat
    BY BitCountIs DEF IsBitArray
  <2>2. t = [m \in 1..c |-> t[m]]
    BY DEF BitsOf
  <2>3. \A m \in 1..c : t[m] \in B
    OBVIOUS
  <2> HIDE DEF c, t, B
  <2>4. QED
    BY <2>1, <2>2, <2>3 DEF c, t
<1>18. \A b \in B : \E j \in 1..n : \E m \in 1..BitCount(def[j]) : b = BitsOf(def[j])[m]
  OBVIOUS
<1> HIDE DEF B
<1>5. f \in [1..n -> [Seq(B) -> Seq(B)]]
  <2>1. \A j \in 1..n : [s \in Seq(B) |-> s \o BitsOf(def[j])] \in [Seq(B) -> Seq(B)]
    BY <1>4, ConcatBehind
  <2>2. QED
    BY <2>1
<1>6. \A j \in 1..n, s \in Seq(B) : f[j][s] = s \o BitsOf(def[j])
  OBVIOUS
<1> HIDE DEF f
<1>7. <<>> \in Seq(B) /\ Len(<<>>) = 0
  BY EmptySeq
<1>8. PICK g \in [0..n -> Seq(B)] : IsRun(g, n, <<>>, f)
  BY <1>1, <1>5, <1>7, RunExists
<1>9. Runs(g)
  <2>1. g = [k \in 0..n |-> IF k = 0 THEN <<>> ELSE f[k][g[k - 1]]]
    BY <1>8 DEF IsRun
  <2>2. \A k \in 0..n : k # 0 => f[k][g[k - 1]] = g[k - 1] \o BitsOf(def[k])
    <3> SUFFICES ASSUME NEW k \in 0..n, k # 0
                 PROVE  f[k][g[k - 1]] = g[k - 1] \o BitsOf(def[k])
      OBVIOUS
    <3>1. k \in 1..n /\ k - 1 \in 0..n
      BY <1>1
    <3>2. QED
      BY <1>6, <3>1
  <2>3. QED
    BY <2>1, <2>2
<1>10. Runs(U)
  <2> HIDE DEF Runs
  <2>1. QED
    BY <1>9
<1> HIDE DEF U
<1>11. U[0] = <<>> /\ \A k \in 1..n : U[k] = U[k - 1] \o BitsOf(def[k])
  <2>1. 0 \in 0..n /\ \A k \in 1..n : k \in 0..n /\ k # 0
    BY <1>1
  <2>2. QED
    BY <1>10, <2>1
<1> DEFINE Good(k) == /\ U[k] \in Seq(B) /\ Len(U[k]) = BitEnd(def, k)
                      /\ \A j \in 1..k, m \in Nat : m \in 1..BitCount(def[j]) =>
                             /\ BitEnd(def, j - 1) + m \in 1..Len(U[k])
                             /\ U[k][BitEnd(def, j - 1) + m] = BitsOf(def[j])[m]
           T == {k \in Nat : k <= n => Good(k)}
<1>12. /\ BitEnd(def, 0) = 0
       /\ \A j \in 0..n : BitEnd(def, j) \in Nat
       /\ \A j \in 1..n : BitEnd(def, j) = BitEnd(def, j - 1) + BitCount(def[j])
  BY BitEnds DEF IsBitArray
<1>13. 0 \in T
  <2>1. Good(0)
    BY <1>7, <1>11, <1>12
  <2>2. QED
    BY <2>1
<1>14. ASSUME NEW k \in Nat, k \in T
       PROVE  k + 1 \in T
  <2> SUFFICES ASSUME k + 1 <= n PROVE Good(k + 1)
    OBVIOUS
  <2>1. k + 1 \in 1..n /\ (k + 1) - 1 = k /\ k <= n /\ k \in 0..n
    BY <1>1
  <2>2. Good(k)
    BY <1>14, <2>1
  <2> DEFINE old == U[k]
             t == BitsOf(def[k + 1])
             new == U[k + 1]
  <2>3. new = old \o t
    BY <1>11, <2>1
  <2>4. old \in Seq(B) /\ t \in Seq(B) /\ Len(t) = BitCount(def[k + 1]) /\ Len(old) = BitEnd(def, k)
    BY <1>4, <2>1, <2>2
  <2>5. /\ new \in Seq(B) /\ Len(new) = Len(old) + Len(t)
        /\ \A i \in 1..Len(old) : new[i] = old[i]
        /\ \A i \in 1..Len(t) : new[Len(old) + i] = t[i]
    <3> HIDE DEF old, t, new
    <3>1. old \o t \in Seq(B) /\ IsJoined(old \o t, old, t)
      BY <2>4, ConcatBehind
    <3>2. new \in Seq(B) /\ IsJoined(new, old, t)
      BY <2>3, <3>1, Zenon
    <3> HIDE DEF old, t, new
    <3>3. QED
      BY <3>2 DEF IsJoined
  <2>6. Len(old) \in Nat /\ Len(t) \in Nat
    BY <2>4, LenProperties
  <2>7. Len(new) = BitEnd(def, k + 1)
    BY <1>12, <2>1, <2>4, <2>5
  <2>8. ASSUME NEW j \in 1..(k + 1), NEW m \in Nat, m \in 1..BitCount(def[j])
        PROVE  /\ BitEnd(def, j - 1) + m \in 1..Len(new)
               /\ new[BitEnd(def, j - 1) + m] = BitsOf(def[j])[m]
    <3>1. CASE j = k + 1
      <4>1. BitEnd(def, j - 1) = Len(old) /\ BitCount(def[j]) = Len(t) /\ BitsOf(def[j]) = t
        BY <2>1, <2>4, <3>1
      <4>2. m \in 1..Len(t)
        BY <2>8, <4>1
      <4>3. new[Len(old) + m] = t[m]
        BY <2>5, <4>2
      <4> HIDE DEF old, t, new
      <4>4. Len(old) + m \in 1..Len(new)
        BY <2>5, <2>6, <4>2
      <4>5. QED
        BY <4>1, <4>3, <4>4, Zenon
    <3>2. CASE j # k + 1
      <4>1. j \in 1..k
        BY <3>2
      <4>2. BitEnd(def, j - 1) + m \in 1..Len(old) /\ old[BitEnd(def, j - 1) + m] = BitsOf(def[j])[m]
        BY <2>2, <2>8, <4>1
      <4> HIDE DEF old, t, new
      <4>3. QED
        BY <2>5, <2>6, <4>2
    <3>3. QED
      BY <3>1, <3>2
  <2>9. QED
    BY <2>5, <2>7, <2>8
<1> HIDE DEF T
<1>15. Nat \subseteq T
  BY <1>13, <1>14, FromZero
<1>16. Good(n)
  BY <1>1, <1>15 DEF T
<1>17. QED
  BY <1>3, <1>16, <1>18

-----------------------------------------------------------------------------
(***************************************************************************)
(* Which bits of the punches, and of card_id_serie, belong to which        *)
(* parameter.                                                              *)
(***************************************************************************)
\* The bits from the place behind e on are those of a parameter, from its bit first down.
PartIs(bits, e, name, first, count) ==
    \A m \in 1..count : bits[e + m] = [name |-> name, ordinal |-> first - m + 1]

\* They are the j-th part of a definition, count bits from first to last.
IsPart(def, j, e, name, first, last, count) ==
    /\ j \in 1..Len(def) /\ BitEnd(def, j - 1) = e
    /\ def[j] = BitsRange(name, first, last)
    /\ first \in Nat /\ last \in 0..first /\ count = first - last + 1

LEMMA PartBits ==
    ASSUME NEW S, NEW def \in Seq(S), IsBitArray(def), NEW j, NEW e, NEW name, NEW first,
           NEW last, NEW count, IsPart(def, j, e, name, first, last, count)
    PROVE  PartIs(Bits(def), e, name, first, count)
<1> USE DEF IsPart
<1>1. BitCount(def[j]) = first - last + 1
  BY DEF BitCount, BitsRange
<1>2. \A m \in 1..(first - last + 1) :
          BitsOf(def[j])[m] = [name |-> name, ordinal |-> first - m + 1]
  <2> SUFFICES ASSUME NEW m \in 1..(first - last + 1)
               PROVE  BitsOf(def[j])[m] = [name |-> name, ordinal |-> first - m + 1]
    OBVIOUS
  <2>1. BitsOf(def[j])[m] = [name |-> name, ordinal |-> IF first <= last THEN first + m - 1
                                                                      ELSE first - m + 1]
    BY <1>1 DEF BitsOf, BitsRange
  <2>2. (IF first <= last THEN first + m - 1 ELSE first - m + 1) = first - m + 1
    OBVIOUS
  <2>3. QED
    BY <2>1, <2>2
<1>3. \A m \in 1..(first - last + 1) : Bits(def)[BitEnd(def, j - 1) + m] = BitsOf(def[j])[m]
  <2>1. \A m \in Nat : m \in 1..BitCount(def[j]) =>
                  Bits(def)[BitEnd(def, j - 1) + m] = BitsOf(def[j])[m]
    BY BitsAre
  <2>2. QED
    BY <1>1, <2>1
<1>4. \A m \in 1..count : Bits(def)[e + m] = [name |-> name, ordinal |-> first - m + 1]
  BY <1>2, <1>3
<1>5. QED
  BY <1>4 DEF PartIs

\* A bit array that is nothing but bits that can be read.
IsReadable(bits, n) == /\ \E B : bits \in Seq(B)
                       /\ Len(bits) = n
                       /\ \A k \in 1..n : bits[k].ordinal \in 0..23

LEMMA BitsReadable ==
    ASSUME NEW S, NEW def \in Seq(S), IsBitArray(def)
    PROVE  IsReadable(Bits(def), BitEnd(def, Len(def)))
<1>1. PICK B : /\ Bits(def) \in Seq(B)
               /\ \A b \in B : \E j \in 1..Len(def) : \E m \in 1..BitCount(def[j]) :
                      b = BitsOf(def[j])[m]
  BY BitsAre
<1>2. Len(Bits(def)) = BitEnd(def, Len(def))
  BY BitsAre
<1>3. ASSUME NEW b \in B PROVE b.ordinal \in 0..23
  <2>1. PICK j \in 1..Len(def) : \E m \in 1..BitCount(def[j]) : b = BitsOf(def[j])[m]
    BY <1>1
  <2>2. PICK m \in 1..BitCount(def[j]) : b = BitsOf(def[j])[m]
    BY <2>1
  <2>3. b.ordinal = IF def[j].first <= def[j].last THEN def[j].first + m - 1
                                                   ELSE def[j].first - m + 1
    BY <2>2 DEF BitsOf
  <2>4. /\ def[j].first \in Nat /\ def[j].first < 24
        /\ def[j].last \in Nat /\ def[j].last <= def[j].first
        /\ BitCount(def[j]) = def[j].first - def[j].last + 1
    BY BitCountIs DEF IsBitArray, HasCounts
  <2>5. m \in Nat /\ 1 <= m /\ m <= def[j].first - def[j].last + 1
    BY <2>4
  <2> DEFINE f == def[j].first
             l == def[j].last
  <2>6. f \in Nat /\ f < 24 /\ l \in Nat /\ l <= f /\ m <= f - l + 1
    BY <2>4, <2>5
  <2>7. b.ordinal = IF f <= l THEN f + m - 1 ELSE f - m + 1
    BY <2>3
  <2> HIDE DEF f, l
  <2>8. QED
    BY <2>5, <2>6, <2>7
<1>4. \A k \in 1..Len(Bits(def)) : Bits(def)[k] \in B
  BY <1>1, ElementOfSeq
<1>5. QED
  BY <1>1, <1>2, <1>3, <1>4 DEF IsReadable

LEMMA OneByte ==
    LET bits == punch_1byte_type
    IN /\ IsReadable(bits, 8)
       /\ PartIs(bits, 0, "control_number", 7, 8)
<1> DEFINE def == punch_1byte_def
           S == {def[j] : j \in 1..1}
<1>1. /\ Len(def) = 1
      /\ def[1] = BitsRange("control_number", 7, 0)
  BY DEF punch_1byte_def
<1>2. def \in Seq(S)
  BY DEF punch_1byte_def
<1> HIDE DEF def, S
<1>3. HasCounts(def)
  <2>1. \A j \in 1..1 : j = 1
    OBVIOUS
  <2>2. QED
    BY <1>1, <2>1 DEF HasCounts, BitsRange
<1>4. /\ BitCount(def[1]) = 8
  BY <1>1 DEF BitCount, BitsRange
<1>5. /\ BitEnd(def, 0) = 0
      /\ \A j \in 1..1 : BitEnd(def, j) = BitEnd(def, j - 1) + BitCount(def[j])
  BY <1>1, <1>2, <1>3, BitEnds
<1>6. /\ BitEnd(def, 1) = 8
  BY <1>4, <1>5
<1>7. IsBitArray(def)
  <2>1. 8 % 8 = 0
    OBVIOUS
  <2>2. QED
    BY <1>1, <1>3, <1>6, <2>1 DEF IsBitArray
<1>8. PartIs(Bits(def), 0, "control_number", 7, 8)
  <2>1. IsPart(def, 1, 0, "control_number", 7, 0, 8)
    BY <1>1, <1>5, <1>6 DEF IsPart
  <2>2. QED
    BY <1>2, <1>7, <2>1, PartBits, SMT
<1>9. IsReadable(Bits(def), 8)
  <2>1. IsReadable(Bits(def), BitEnd(def, Len(def)))
    BY <1>2, <1>7, BitsReadable
  <2>2. QED
    BY <1>1, <1>6, <2>1
<1>10. punch_1byte_type = Bits(def)
  BY DEF def, punch_1byte_type
<1>11. QED
  BY <1>8, <1>9, <1>10, Zenon

LEMMA ThreeBytesRead ==
    LET bits == punch_3bytes_type
    IN /\ IsReadable(bits, 24)
       /\ PartIs(bits, 0, "control_number", 7, 8)
       /\ PartIs(bits, 8, "time_12h", 15, 16)
<1> DEFINE def == punch_3bytes_def
           S == {def[j] : j \in 1..2}
<1>1. /\ Len(def) = 2
      /\ def[1] = BitsRange("control_number", 7, 0)
      /\ def[2] = BitsRange("time_12h", 15, 0)
  BY DEF punch_3bytes_def
<1>2. def \in Seq(S)
  BY DEF punch_3bytes_def
<1> HIDE DEF def, S
<1>3. HasCounts(def)
  <2>1. \A j \in 1..2 : j = 1 \/ j = 2
    OBVIOUS
  <2>2. QED
    BY <1>1, <2>1 DEF HasCounts, BitsRange
<1>4. /\ BitCount(def[1]) = 8
      /\ BitCount(def[2]) = 16
  BY <1>1 DEF BitCount, BitsRange
<1>5. /\ BitEnd(def, 0) = 0
      /\ \A j \in 1..2 : BitEnd(def, j) = BitEnd(def, j - 1) + BitCount(def[j])
  BY <1>1, <1>2, <1>3, BitEnds
<1>6. /\ BitEnd(def, 1) = 8
      /\ BitEnd(def, 2) = 24
  BY <1>4, <1>5
<1>7. IsBitArray(def)
  <2>1. 24 % 8 = 0
    OBVIOUS
  <2>2. QED
    BY <1>1, <1>3, <1>6, <2>1 DEF IsBitArray
<1>8. PartIs(Bits(def), 0, "control_number", 7, 8)
  <2>1. IsPart(def, 1, 0, "control_number", 7, 0, 8)
    BY <1>1, <1>5, <1>6 DEF IsPart
  <2>2. QED
    BY <1>2, <1>7, <2>1, PartBits, SMT
<1>9. PartIs(Bits(def), 8, "time_12h", 15, 16)
  <2>1. IsPart(def, 2, 8, "time_12h", 15, 0, 16)
    BY <1>1, <1>5, <1>6 DEF IsPart
  <2>2. QED
    BY <1>2, <1>7, <2>1, PartBits, SMT
<1>10. IsReadable(Bits(def), 24)
  <2>1. IsReadable(Bits(def), BitEnd(def, Len(def)))
    BY <1>2, <1>7, BitsReadable
  <2>2. QED
    BY <1>1, <1>6, <2>1
<1>11. punch_3bytes_type = Bits(def)
  BY DEF def, punch_3bytes_type
<1>12. QED
  BY <1>8, <1>9, <1>10, <1>11, Zenon

LEMMA FourBytes ==
    LET bits == punch_4bytes_type
    IN /\ IsReadable(bits, 32)
       /\ PartIs(bits, 0, "control_number", 9, 2)
       /\ PartIs(bits, 2, "day_of_week", 1, 2)
       /\ PartIs(bits, 4, "week_counter", 2, 3)
       /\ PartIs(bits, 7, "am_pm", 0, 1)
       /\ PartIs(bits, 8, "control_number", 7, 8)
       /\ PartIs(bits, 16, "time_12h", 15, 16)
<1> DEFINE def == punch_4bytes_def
           S == {def[j] : j \in 1..6}
<1>1. /\ Len(def) = 6
      /\ def[1] = BitsRange("control_number", 9, 8)
      /\ def[2] = BitsRange("day_of_week", 1, 0)
      /\ def[3] = BitsRange("week_counter", 2, 0)
      /\ def[4] = BitsRange("am_pm", 0, 0)
      /\ def[5] = BitsRange("control_number", 7, 0)
      /\ def[6] = BitsRange("time_12h", 15, 0)
  BY DEF punch_4bytes_def
<1>2. def \in Seq(S)
  BY DEF punch_4bytes_def
<1> HIDE DEF def, S
<1>3. HasCounts(def)
  <2>1. \A j \in 1..6 : j = 1 \/ j = 2 \/ j = 3 \/ j = 4 \/ j = 5 \/ j = 6
    OBVIOUS
  <2>2. QED
    BY <1>1, <2>1 DEF HasCounts, BitsRange
<1>4. /\ BitCount(def[1]) = 2
      /\ BitCount(def[2]) = 2
      /\ BitCount(def[3]) = 3
      /\ BitCount(def[4]) = 1
      /\ BitCount(def[5]) = 8
      /\ BitCount(def[6]) = 16
  BY <1>1 DEF BitCount, BitsRange
<1>5. /\ BitEnd(def, 0) = 0
      /\ \A j \in 1..6 : BitEnd(def, j) = BitEnd(def, j - 1) + BitCount(def[j])
  BY <1>1, <1>2, <1>3, BitEnds
<1>6. /\ BitEnd(def, 1) = 2
      /\ BitEnd(def, 2) = 4
      /\ BitEnd(def, 3) = 7
      /\ BitEnd(def, 4) = 8
      /\ BitEnd(def, 5) = 16
      /\ BitEnd(def, 6) = 32
  BY <1>4, <1>5
<1>7. IsBitArray(def)
  <2>1. 32 % 8 = 0
    OBVIOUS
  <2>2. QED
    BY <1>1, <1>3, <1>6, <2>1 DEF IsBitArray
<1>8. PartIs(Bits(def), 0, "control_number", 9, 2)
  <2>1. IsPart(def, 1, 0, "control_number", 9, 8, 2)
    BY <1>1, <1>5, <1>6 DEF IsPart
  <2>2. QED
    BY <1>2, <1>7, <2>1, PartBits, SMT
<1>9. PartIs(Bits(def), 2, "day_of_week", 1, 2)
  <2>1. IsPart(def, 2, 2, "day_of_week", 1, 0, 2)
    BY <1>1, <1>5, <1>6 DEF IsPart
  <2>2. QED
    BY <1>2, <1>7, <2>1, PartBits, SMT
<1>10. PartIs(Bits(def), 4, "week_counter", 2, 3)
  <2>1. IsPart(def, 3, 4, "week_counter", 2, 0, 3)
    BY <1>1, <1>5, <1>6 DEF IsPart
  <2>2. QED
    BY <1>2, <1>7, <2>1, PartBits, SMT
<1>11. PartIs(Bits(def), 7, "am_pm", 0, 1)
  <2>1. IsPart(def, 4, 7, "am_pm", 0, 0, 1)
    BY <1>1, <1>5, <1>6 DEF IsPart
  <2>2. QED
    BY <1>2, <1>7, <2>1, PartBits, SMT
<1>12. PartIs(Bits(def), 8, "control_number", 7, 8)
  <2>1. IsPart(def, 5, 8, "control_number", 7, 0, 8)
    BY <1>1, <1>5, <1>6 DEF IsPart
  <2>2. QED
    BY <1>2, <1>7, <2>1, PartBits, SMT
<1>13. PartIs(Bits(def), 16, "time_12h", 15, 16)
  <2>1. IsPart(def, 6, 16, "time_12h", 15, 0, 16)
    BY <1>1, <1>5, <1>6 DEF IsPart
  <2>2. QED
    BY <1>2, <1>7, <2>1, PartBits, SMT
<1>14. IsReadable(Bits(def), 32)
  <2>1. IsReadable(Bits(def), BitEnd(def, Len(def)))
    BY <1>2, <1>7, BitsReadable
  <2>2. QED
    BY <1>1, <1>6, <2>1
<1>15. punch_4bytes_type = Bits(def)
  BY DEF def, punch_4bytes_type
<1>16. QED
  BY <1>8, <1>9, <1>10, <1>11, <1>12, <1>13, <1>14, <1>15, Zenon

LEMMA EightBytes ==
    LET bits == punch_8bytes_type
    IN /\ IsReadable(bits, 64)
       /\ PartIs(bits, 0, "control_number", 7, 8)
       /\ PartIs(bits, 8, "si_station_id", 17, 18)
       /\ PartIs(bits, 26, "punch_year", 3, 4)
       /\ PartIs(bits, 30, "punch_month", 3, 4)
       /\ PartIs(bits, 34, "punch_day", 4, 5)
       /\ PartIs(bits, 39, "am_pm", 0, 1)
       /\ PartIs(bits, 40, "time_12h", 15, 16)
       /\ PartIs(bits, 56, "punch_sub_second", 7, 8)
<1> DEFINE def == punch_8bytes_def
           S == {def[j] : j \in 1..8}
<1>1. /\ Len(def) = 8
      /\ def[1] = BitsRange("control_number", 7, 0)
      /\ def[2] = BitsRange("si_station_id", 17, 0)
      /\ def[3] = BitsRange("punch_year", 3, 0)
      /\ def[4] = BitsRange("punch_month", 3, 0)
      /\ def[5] = BitsRange("punch_day", 4, 0)
      /\ def[6] = BitsRange("am_pm", 0, 0)
      /\ def[7] = BitsRange("time_12h", 15, 0)
      /\ def[8] = BitsRange("punch_sub_second", 7, 0)
  BY DEF punch_8bytes_def
<1>2. def \in Seq(S)
  BY DEF punch_8bytes_def
<1> HIDE DEF def, S
<1>3. HasCounts(def)
  <2>1. \A j \in 1..8 : j = 1 \/ j = 2 \/ j = 3 \/ j = 4 \/ j = 5 \/ j = 6 \/ j = 7 \/ j = 8
    OBVIOUS
  <2>2. QED
    BY <1>1, <2>1 DEF HasCounts, BitsRange
<1>4. /\ BitCount(def[1]) = 8
      /\ BitCount(def[2]) = 18
      /\ BitCount(def[3]) = 4
      /\ BitCount(def[4]) = 4
      /\ BitCount(def[5]) = 5
      /\ BitCount(def[6]) = 1
      /\ BitCount(def[7]) = 16
      /\ BitCount(def[8]) = 8
  BY <1>1 DEF BitCount, BitsRange
<1>5. /\ BitEnd(def, 0) = 0
      /\ \A j \in 1..8 : BitEnd(def, j) = BitEnd(def, j - 1) + BitCount(def[j])
  BY <1>1, <1>2, <1>3, BitEnds
<1>6. /\ BitEnd(def, 1) = 8
      /\ BitEnd(def, 2) = 26
      /\ BitEnd(def, 3) = 30
      /\ BitEnd(def, 4) = 34
      /\ BitEnd(def, 5) = 39
      /\ BitEnd(def, 6) = 40
      /\ BitEnd(def, 7) = 56
      /\ BitEnd(def, 8) = 64
  BY <1>4, <1>5
<1>7. IsBitArray(def)
  <2>1. 64 % 8 = 0
    OBVIOUS
  <2>2. QED
    BY <1>1, <1>3, <1>6, <2>1 DEF IsBitArray
<1>8. PartIs(Bits(def), 0, "control_number", 7, 8)
  <2>1. IsPart(def, 1, 0, "control_number", 7, 0, 8)
    BY <1>1, <1>5, <1>6 DEF IsPart
  <2>2. QED
    BY <1>2, <1>7, <2>1, PartBits, SMT
<1>9. PartIs(Bits(def), 8, "si_station_id", 17, 18)
  <2>1. IsPart(def, 2, 8, "si_station_id", 17, 0, 18)
    BY <1>1, <1>5, <1>6 DEF IsPart
  <2>2. QED
    BY <1>2, <1>7, <2>1, PartBits, SMT
<1>10. PartIs(Bits(def), 26, "punch_year", 3, 4)
  <2>1. IsPart(def, 3, 26, "punch_year", 3, 0, 4)
    BY <1>1, <1>5, <1>6 DEF IsPart
  <2>2. QED
    BY <1>2, <1>7, <2>1, PartBits, SMT
<1>11. PartIs(Bits(def), 30, "punch_month", 3, 4)
  <2>1. IsPart(def, 4, 30, "punch_month", 3, 0, 4)
    BY <1>1, <1>5, <1>6 DEF IsPart
  <2>2. QED
    BY <1>2, <1>7, <2>1, PartBits, SMT
<1>12. PartIs(Bits(def), 34, "punch_day", 4, 5)
  <2>1. IsPart(def, 5, 34, "punch_day", 4, 0, 5)
    BY <1>1, <1>5, <1>6 DEF IsPart
  <2>2. QED
    BY <1>2, <1>7, <2>1, PartBits, SMT
<1>13. PartIs(Bits(def), 39, "am_pm", 0, 1)
  <2>1. IsPart(def, 6, 39, "am_pm", 0, 0, 1)
    BY <1>1, <1>5, <1>6 DEF IsPart
  <2>2. QED
    BY <1>2, <1>7, <2>1, PartBits, SMT
<1>14. PartIs(Bits(def), 40, "time_12h", 15, 16)
  <2>1. IsPart(def, 7, 40, "time_12h", 15, 0, 16)
    BY <1>1, <1>5, <1>6 DEF IsPart
  <2>2. QED
    BY <1>2, <1>7, <2>1, PartBits, SMT
<1>15. PartIs(Bits(def), 56, "punch_sub_second", 7, 8)
  <2>1. IsPart(def, 8, 56, "punch_sub_second", 7, 0, 8)
    BY <1>1, <1>5, <1>6 DEF IsPart
  <2>2. QED
    BY <1>2, <1>7, <2>1, PartBits, SMT
<1>16. IsReadable(Bits(def), 64)
  <2>1. IsReadable(Bits(def), BitEnd(def, Len(def)))
    BY <1>2, <1>7, BitsReadable
  <2>2. QED
    BY <1>1, <1>6, <2>1
<1>17. punch_8bytes_type = Bits(def)
  BY DEF def, punch_8bytes_type
<1>18. QED
  BY <1>8, <1>9, <1>10, <1>11, <1>12, <1>13, <1>14, <1>15, <1>16, <1>17, Zenon

LEMMA IdSerieBits ==
    LET bits == card_id_serie
    IN /\ IsReadable(bits, 32)
       /\ PartIs(bits, 0, "don_t_care", 3, 4)
       /\ PartIs(bits, 4, "card_serie", 3, 4)
       /\ PartIs(bits, 8, "card_id", 23, 24)
<1> DEFINE def == <<DontCare(4), BitsRange("card_serie", 3, 0), BitsRange("card_id", 23, 0)>>
           S == {def[j] : j \in 1..3}
<1>1. /\ Len(def) = 3
      /\ def[1] = BitsRange("don_t_care", 3, 0)
      /\ def[2] = BitsRange("card_serie", 3, 0)
      /\ def[3] = BitsRange("card_id", 23, 0)
  BY DEF DontCare, Skipped
<1>2. def \in Seq(S)
  OBVIOUS
<1> HIDE DEF def, S
<1>3. HasCounts(def)
  <2>1. \A j \in 1..3 : j = 1 \/ j = 2 \/ j = 3
    OBVIOUS
  <2>2. QED
    BY <1>1, <2>1 DEF HasCounts, BitsRange
<1>4. /\ BitCount(def[1]) = 4
      /\ BitCount(def[2]) = 4
      /\ BitCount(def[3]) = 24
  BY <1>1 DEF BitCount, BitsRange
<1>5. /\ BitEnd(def, 0) = 0
      /\ \A j \in 1..3 : BitEnd(def, j) = BitEnd(def, j - 1) + BitCount(def[j])
  BY <1>1, <1>2, <1>3, BitEnds
<1>6. /\ BitEnd(def, 1) = 4
      /\ BitEnd(def, 2) = 8
      /\ BitEnd(def, 3) = 32
  BY <1>4, <1>5
<1>7. IsBitArray(def)
  <2>1. 32 % 8 = 0
    OBVIOUS
  <2>2. QED
    BY <1>1, <1>3, <1>6, <2>1 DEF IsBitArray
<1>8. PartIs(Bits(def), 0, "don_t_care", 3, 4)
  <2>1. IsPart(def, 1, 0, "don_t_care", 3, 0, 4)
    BY <1>1, <1>5, <1>6 DEF IsPart
  <2>2. QED
    BY <1>2, <1>7, <2>1, PartBits, SMT
<1>9. PartIs(Bits(def), 4, "card_serie", 3, 4)
  <2>1. IsPart(def, 2, 4, "card_serie", 3, 0, 4)
    BY <1>1, <1>5, <1>6 DEF IsPart
  <2>2. QED
    BY <1>2, <1>7, <2>1, PartBits, SMT
<1>10. PartIs(Bits(def), 8, "card_id", 23, 24)
  <2>1. IsPart(def, 3, 8, "card_id", 23, 0, 24)
    BY <1>1, <1>5, <1>6 DEF IsPart
  <2>2. QED
    BY <1>2, <1>7, <2>1, PartBits, SMT
<1>11. IsReadable(Bits(def), 32)
  <2>1. IsReadable(Bits(def), BitEnd(def, Len(def)))
    BY <1>2, <1>7, BitsReadable
  <2>2. QED
    BY <1>1, <1>6, <2>1
<1>12. card_id_serie = Bits(def)
  BY DEF def, card_id_serie, DontCare
<1>13. QED
  BY <1>8, <1>9, <1>10, <1>11, <1>12, Zenon

-----------------------------------------------------------------------------
(***************************************************************************)
(* The values that are read from them.                                     *)
(***************************************************************************)
\* The byte behind q bytes is in these bits of a parameter, which has s times it.
InPart(e, first, count, q, s) ==
    /\ e \in Nat /\ first \in Nat /\ count \in Nat /\ q \in Nat
    /\ e <= 8 * q /\ 8 * q + 8 <= e + count
    /\ \/ s = 1 /\ first + e = 8 * q + 7
       \/ s = 256 /\ first + e = 8 * q + 15
       \/ s = 65536 /\ first + e = 8 * q + 23

LEMMA TakesByte ==
    ASSUME NEW bits, NEW e, NEW name, NEW first, NEW count, NEW q, NEW s,
           PartIs(bits, e, name, first, count), InPart(e, first, count, q, s)
    PROVE  \A m \in 1..8 : TakesBit(bits, q, m, name, s)
<1> SUFFICES ASSUME NEW m \in 1..8 PROVE TakesBit(bits, q, m, name, s)
  OBVIOUS
<1> DEFINE d == 8 * q + m - e
<1>1. d \in 1..count /\ e + d = 8 * q + m
  BY DEF InPart
<1>2. bits[e + d] = [name |-> name, ordinal |-> first - d + 1]
  <2> HIDE DEF d
  <2>1. QED
    BY <1>1 DEF PartIs
<1>3. bits[8 * q + m].name = name /\ bits[8 * q + m].ordinal = first - d + 1
  BY <1>1, <1>2
<1>4. \/ s = 1 /\ first - d + 1 = 0 + 8 - m
      \/ s = 256 /\ first - d + 1 = 8 + 8 - m
      \/ s = 65536 /\ first - d + 1 = 16 + 8 - m
  BY DEF InPart
<1>5. 2^(8 - m) \in Nat
  <2>1. 8 - m \in 0..23
    OBVIOUS
  <2>2. QED
    BY <2>1, PowerIsNumber
<1> HIDE DEF d
<1>6. 2^bits[8 * q + m].ordinal = s * 2^(8 - m)
  <2>1. CASE s = 1 /\ first - d + 1 = 0 + 8 - m
    <3>1. bits[8 * q + m].ordinal = 0 + 8 - m
      BY <1>3, <2>1
    <3>2. ShiftedPower(0, 1, m)
      BY PowerSum
    <3>3. QED
      BY <2>1, <3>1, <3>2, Zenon DEF ShiftedPower
  <2>2. CASE s = 256 /\ first - d + 1 = 8 + 8 - m
    <3>1. bits[8 * q + m].ordinal = 8 + 8 - m
      BY <1>3, <2>2
    <3>2. ShiftedPower(8, 256, m)
      BY PowerSum
    <3>3. QED
      BY <2>2, <3>1, <3>2, Zenon DEF ShiftedPower
  <2>3. CASE s = 65536 /\ first - d + 1 = 16 + 8 - m
    <3>1. bits[8 * q + m].ordinal = 16 + 8 - m
      BY <1>3, <2>3, SMT
    <3>2. ShiftedPower(16, 65536, m)
      BY PowerSum, SMT
    <3>3. QED
      BY <2>3, <3>1, <3>2, SMT DEF ShiftedPower
  <2>4. QED
    BY <1>4, <2>1, <2>2, <2>3, SMT
<1>7. QED
  BY <1>3, <1>6 DEF TakesBit

\* The bits are of another parameter.
LEMMA SkipsPart ==
    ASSUME NEW bits, NEW e \in Nat, NEW other, NEW first, NEW count \in Nat, NEW name,
           PartIs(bits, e, other, first, count), other # name
    PROVE  \A k \in Nat : e < k /\ k <= e + count => bits[k].name # name
<1> SUFFICES ASSUME NEW k \in Nat, e < k, k <= e + count PROVE bits[k].name # name
  OBVIOUS
<1>1. k - e \in 1..count /\ e + (k - e) = k
  OBVIOUS
<1>2. bits[e + (k - e)].name = other
  <2> DEFINE m == k - e
  <2>1. m \in 1..count
    BY <1>1
  <2> HIDE DEF m
  <2>2. bits[e + m] = [name |-> other, ordinal |-> first - m + 1]
    BY <2>1 DEF PartIs
  <2>3. bits[e + m].name = other
    BY <2>2
  <2>4. QED
    BY <2>3 DEF m
<1>3. QED
  BY <1>1, <1>2

AreBytes(bytes, n) == \A k \in 1..n : IsByte(bytes[k])

\* The sum of the bits of n bytes.
IsReading(value, bits, n, bytes, name) == /\ IsSum(value, bits, bytes, name)
                                          /\ ReadBits(bits, bytes, name) = value[8 * n]

OfBytes(bits, n) == n \in Nat /\ IsReadable(bits, 8 * n)

LEMMA Reading ==
    ASSUME NEW bits, NEW n, OfBytes(bits, n), NEW bytes, AreBytes(bytes, n), NEW name
    PROVE  \E value : IsReading(value, bits, n, bytes, name)
<1>1. PICK B : bits \in Seq(B)
  BY DEF IsReadable, OfBytes
<1>2. Len(bits) = 8 * n /\ \A k \in 1..Len(bits) : bits[k].ordinal \in 0..23
  BY DEF IsReadable, OfBytes
<1>3. \E value : IsSum(value, bits, bytes, name) /\ ReadBits(bits, bytes, name) = value[Len(bits)]
  BY <1>1, <1>2, ReadBitsRuns
<1>4. QED
  BY <1>2, <1>3 DEF IsReading

LEMMA ReadingBytes ==
    ASSUME NEW bits, NEW n, OfBytes(bits, n), NEW bytes, AreBytes(bytes, n)
    PROVE  \A q \in Nat : q < n => InBits(bits, bytes, q)
BY DEF InBits, AreBytes, IsReadable, OfBytes

LEMMA TopBits ==
    ASSUME NEW byte, IsByte(byte)
    PROVE  4 * BitValue(byte, 1) + 4 * BitValue(byte, 2) = 256 * (byte \div 64)
BY BitValues, SMTT(60) DEF IsByte

LEMMA LowBits ==
    ASSUME NEW byte, IsByte(byte)
    PROVE  1 * BitValue(byte, 5) + 1 * BitValue(byte, 6) + 1 * BitValue(byte, 7) + 1 * BitValue(byte, 8)
             = byte % 16
<1> DEFINE b1 == BitValue(byte, 1)
           b2 == BitValue(byte, 2)
           b3 == BitValue(byte, 3)
           b4 == BitValue(byte, 4)
           b5 == BitValue(byte, 5)
           b6 == BitValue(byte, 6)
           b7 == BitValue(byte, 7)
           b8 == BitValue(byte, 8)
<1>1. /\ b1 \in {0, 128} /\ b2 \in {0, 64} /\ b3 \in {0, 32} /\ b4 \in {0, 16}
      /\ b5 \in {0, 8} /\ b6 \in {0, 4} /\ b7 \in {0, 2} /\ b8 \in {0, 1}
  BY BitValues
<1>2. byte = b1 + b2 + b3 + b4 + b5 + b6 + b7 + b8
  BY ByteIsItsBits
<1> HIDE DEF b1, b2, b3, b4, b5, b6, b7, b8
<1>3. PICK t \in Nat : b1 + b2 + b3 + b4 = 16 * t
  <2>1. /\ b1 = 16 * (b1 \div 16) /\ b2 = 16 * (b2 \div 16)
        /\ b3 = 16 * (b3 \div 16) /\ b4 = 16 * (b4 \div 16)
    BY <1>1, SMT
  <2>2. /\ b1 \div 16 \in Nat /\ b2 \div 16 \in Nat /\ b3 \div 16 \in Nat /\ b4 \div 16 \in Nat
    BY <1>1, SMT
  <2>3. b1 + b2 + b3 + b4 = 16 * ((b1 \div 16) + (b2 \div 16) + (b3 \div 16) + (b4 \div 16))
    BY <2>1, <2>2, SMT
  <2>4. (b1 \div 16) + (b2 \div 16) + (b3 \div 16) + (b4 \div 16) \in Nat
    BY <2>2, SMT
  <2>5. QED
    BY <2>3, <2>4, Zenon
<1>4. b5 + b6 + b7 + b8 \in Nat /\ b5 + b6 + b7 + b8 < 16
  BY <1>1, SMT
<1> DEFINE low == b5 + b6 + b7 + b8
<1>5. byte = 16 * t + low
  BY <1>1, <1>2, <1>3, SMT
<1>6. low \in Nat /\ low < 16 /\ low = 1 * b5 + 1 * b6 + 1 * b7 + 1 * b8
  BY <1>1, <1>4, SMT
<1> HIDE DEF low
<1>7. byte % 16 = low
  BY <1>5, <1>6, SMT
<1>8. QED
  BY <1>6, <1>7 DEF b5, b6, b7, b8

LEMMA FourBytesValues ==
    ASSUME NEW bytes, AreBytes(bytes, 4)
    PROVE  /\ ReadBits(punch_4bytes_type, bytes, "control_number") = 256 * (bytes[1] \div 64) + bytes[2]
           /\ ReadBits(punch_4bytes_type, bytes, "time_12h") = 256 * bytes[3] + bytes[4]
<1> DEFINE bits == punch_4bytes_type
<1>1. /\ IsReadable(bits, 32)
      /\ PartIs(bits, 0, "control_number", 9, 2)
      /\ PartIs(bits, 2, "day_of_week", 1, 2)
      /\ PartIs(bits, 4, "week_counter", 2, 3)
      /\ PartIs(bits, 7, "am_pm", 0, 1)
      /\ PartIs(bits, 8, "control_number", 7, 8)
      /\ PartIs(bits, 16, "time_12h", 15, 16)
  BY FourBytes
<1> HIDE DEF bits
<1>2. IsByte(bytes[1]) /\ IsByte(bytes[2]) /\ IsByte(bytes[3]) /\ IsByte(bytes[4])
  BY DEF AreBytes
<1>3. InBits(bits, bytes, 0) /\ InBits(bits, bytes, 1) /\ InBits(bits, bytes, 2) /\ InBits(bits, bytes, 3)
  <2>1. OfBytes(bits, 4)
    BY <1>1 DEF OfBytes
  <2>2. \A q \in Nat : q < 4 => InBits(bits, bytes, q)
    BY <2>1, ReadingBytes
  <2>3. QED
    BY <2>2
<1>4. ReadBits(bits, bytes, "control_number") = 256 * (bytes[1] \div 64) + bytes[2]
  <2>1. PICK value : /\ IsSum(value, bits, bytes, "control_number")
                     /\ ReadBits(bits, bytes, "control_number") = value[32]
    <3>1. OfBytes(bits, 4)
      BY <1>1 DEF OfBytes
    <3>2. PICK value : IsReading(value, bits, 4, bytes, "control_number")
      BY <3>1, Reading
    <3>3. QED
      BY <3>2 DEF IsReading
  <2>2. value[0] = 0
    BY <2>1 DEF IsSum
  <2>3. value[8 * 0 + 8] = 256 * (bytes[1] \div 64)
    <3>1. \A k \in Nat : 2 < k /\ k <= 2 + 2 => bits[k].name # "control_number"
      BY <1>1, SkipsPart
    <3>2. \A k \in Nat : 4 < k /\ k <= 4 + 3 => bits[k].name # "control_number"
      BY <1>1, SkipsPart
    <3>3. \A k \in Nat : 7 < k /\ k <= 7 + 1 => bits[k].name # "control_number"
      BY <1>1, SkipsPart
    <3>4. value[8 * 0 + 1] = value[8 * 0 + (1 - 1)] + 4 * BitValue(bytes[0 + 1], 1)
      <4>1. bits[1] = [name |-> "control_number", ordinal |-> 9]
        <5>1. bits[0 + 1] = [name |-> "control_number", ordinal |-> 9 - 1 + 1]
          BY <1>1 DEF PartIs
        <5>2. QED
          BY <5>1
      <4>2. 2^bits[8 * 0 + 1].ordinal = 4 * 2^(8 - 1)
        <5>1. bits[8 * 0 + 1].ordinal = 9
          BY <4>1
        <5>2. 2^9 = 4 * 2^(8 - 1)
          BY Powers, SMT
        <5>3. QED
          BY <5>1, <5>2
      <4>3. TakesBit(bits, 0, 1, "control_number", 4)
        BY <4>1, <4>2 DEF TakesBit
      <4>4. QED
        BY <1>3, <2>1, <4>3, BitTaken
    <3>5. value[8 * 0 + 2] = value[8 * 0 + (2 - 1)] + 4 * BitValue(bytes[0 + 1], 2)
      <4>1. bits[2] = [name |-> "control_number", ordinal |-> 8]
        <5>1. bits[0 + 2] = [name |-> "control_number", ordinal |-> 9 - 2 + 1]
          BY <1>1 DEF PartIs
        <5>2. QED
          BY <5>1
      <4>2. 2^bits[8 * 0 + 2].ordinal = 4 * 2^(8 - 2)
        <5>1. bits[8 * 0 + 2].ordinal = 8
          BY <4>1
        <5>2. 2^8 = 4 * 2^(8 - 2)
          BY Powers, SMT
        <5>3. QED
          BY <5>1, <5>2
      <4>3. TakesBit(bits, 0, 2, "control_number", 4)
        BY <4>1, <4>2 DEF TakesBit
      <4>4. QED
        BY <1>3, <2>1, <4>3, BitTaken
    <3>6. value[8 * 0 + 3] = value[8 * 0 + (3 - 1)]
      <4>1. SkipsBit(bits, 0, 3, "control_number")
        BY <3>1, <3>2, <3>3 DEF SkipsBit
      <4>2. QED
        BY <1>3, <2>1, <4>1, BitSkipped
    <3>7. value[8 * 0 + 4] = value[8 * 0 + (4 - 1)]
      <4>1. SkipsBit(bits, 0, 4, "control_number")
        BY <3>1, <3>2, <3>3 DEF SkipsBit
      <4>2. QED
        BY <1>3, <2>1, <4>1, BitSkipped
    <3>8. value[8 * 0 + 5] = value[8 * 0 + (5 - 1)]
      <4>1. SkipsBit(bits, 0, 5, "control_number")
        BY <3>1, <3>2, <3>3 DEF SkipsBit
      <4>2. QED
        BY <1>3, <2>1, <4>1, BitSkipped
    <3>9. value[8 * 0 + 6] = value[8 * 0 + (6 - 1)]
      <4>1. SkipsBit(bits, 0, 6, "control_number")
        BY <3>1, <3>2, <3>3 DEF SkipsBit
      <4>2. QED
        BY <1>3, <2>1, <4>1, BitSkipped
    <3>10. value[8 * 0 + 7] = value[8 * 0 + (7 - 1)]
      <4>1. SkipsBit(bits, 0, 7, "control_number")
        BY <3>1, <3>2, <3>3 DEF SkipsBit
      <4>2. QED
        BY <1>3, <2>1, <4>1, BitSkipped
    <3>11. value[8 * 0 + 8] = value[8 * 0 + (8 - 1)]
      <4>1. SkipsBit(bits, 0, 8, "control_number")
        BY <3>1, <3>2, <3>3 DEF SkipsBit
      <4>2. QED
        BY <1>3, <2>1, <4>1, BitSkipped
    <3>12. BitValue(bytes[0 + 1], 1) \in Nat /\ BitValue(bytes[0 + 1], 2) \in Nat
      <4>1. IsByte(bytes[0 + 1])
        BY <1>2
      <4>2. QED
        BY <4>1, BitValueIsNumber
    <3>13. value[8 * 0 + 8] = 4 * BitValue(bytes[0 + 1], 1) + 4 * BitValue(bytes[0 + 1], 2)
      BY <2>2, <3>4, <3>5, <3>6, <3>7, <3>8, <3>9, <3>10, <3>11, <3>12
    <3>14. QED
      BY <1>2, <3>13, TopBits
  <2>4. Adds(value, bytes, 1, 1)
    <3>1. InPart(8, 7, 8, 1, 1)
      BY DEF InPart
    <3>2. \A m \in 1..8 : TakesBit(bits, 1, m, "control_number", 1)
      BY <1>1, <3>1, TakesByte
    <3>3. 1 \in Scale
      BY DEF Scale
    <3>4. QED
      BY <1>3, <2>1, <3>2, <3>3, ByteTaken
  <2>5. AddsNothing(value, 2)
    <3>1. \A k \in Nat : 16 < k /\ k <= 16 + 16 => bits[k].name # "control_number"
      BY <1>1, SkipsPart
    <3>2. SkipsByte(bits, 2, "control_number")
      BY <3>1 DEF SkipsBit, SkipsByte
    <3>3. QED
      BY <1>3, <2>1, <3>2, ByteSkipped
  <2>6. AddsNothing(value, 3)
    <3>1. \A k \in Nat : 16 < k /\ k <= 16 + 16 => bits[k].name # "control_number"
      BY <1>1, SkipsPart
    <3>2. SkipsByte(bits, 3, "control_number")
      BY <3>1 DEF SkipsBit, SkipsByte
    <3>3. QED
      BY <1>3, <2>1, <3>2, ByteSkipped
  <2>7. QED
    BY <1>2, <2>1, <2>2, <2>3, <2>4, <2>5, <2>6, SMT DEF Adds, AddsNothing, IsByte
<1>5. ReadBits(bits, bytes, "time_12h") = 256 * bytes[3] + bytes[4]
  <2>1. PICK value : /\ IsSum(value, bits, bytes, "time_12h")
                     /\ ReadBits(bits, bytes, "time_12h") = value[32]
    <3>1. OfBytes(bits, 4)
      BY <1>1 DEF OfBytes
    <3>2. PICK value : IsReading(value, bits, 4, bytes, "time_12h")
      BY <3>1, Reading
    <3>3. QED
      BY <3>2 DEF IsReading
  <2>2. value[0] = 0
    BY <2>1 DEF IsSum
  <2>3. AddsNothing(value, 0)
    <3>1. \A k \in Nat : 0 < k /\ k <= 0 + 2 => bits[k].name # "time_12h"
      BY <1>1, SkipsPart
    <3>2. \A k \in Nat : 2 < k /\ k <= 2 + 2 => bits[k].name # "time_12h"
      BY <1>1, SkipsPart
    <3>3. \A k \in Nat : 4 < k /\ k <= 4 + 3 => bits[k].name # "time_12h"
      BY <1>1, SkipsPart
    <3>4. \A k \in Nat : 7 < k /\ k <= 7 + 1 => bits[k].name # "time_12h"
      BY <1>1, SkipsPart
    <3>5. SkipsByte(bits, 0, "time_12h")
      BY <3>1, <3>2, <3>3, <3>4 DEF SkipsBit, SkipsByte
    <3>6. QED
      BY <1>3, <2>1, <3>5, ByteSkipped
  <2>4. AddsNothing(value, 1)
    <3>1. \A k \in Nat : 8 < k /\ k <= 8 + 8 => bits[k].name # "time_12h"
      BY <1>1, SkipsPart
    <3>2. SkipsByte(bits, 1, "time_12h")
      BY <3>1 DEF SkipsBit, SkipsByte
    <3>3. QED
      BY <1>3, <2>1, <3>2, ByteSkipped
  <2>5. Adds(value, bytes, 2, 256)
    <3>1. InPart(16, 15, 16, 2, 256)
      BY DEF InPart
    <3>2. \A m \in 1..8 : TakesBit(bits, 2, m, "time_12h", 256)
      BY <1>1, <3>1, TakesByte
    <3>3. 256 \in Scale
      BY DEF Scale
    <3>4. QED
      BY <1>3, <2>1, <3>2, <3>3, ByteTaken
  <2>6. Adds(value, bytes, 3, 1)
    <3>1. InPart(16, 15, 16, 3, 1)
      BY DEF InPart
    <3>2. \A m \in 1..8 : TakesBit(bits, 3, m, "time_12h", 1)
      BY <1>1, <3>1, TakesByte
    <3>3. 1 \in Scale
      BY DEF Scale
    <3>4. QED
      BY <1>3, <2>1, <3>2, <3>3, ByteTaken
  <2>7. QED
    BY <1>2, <2>1, <2>2, <2>3, <2>4, <2>5, <2>6, SMT DEF Adds, AddsNothing, IsByte
<1>6. QED
  BY <1>4, <1>5 DEF bits

LEMMA OneByteValues ==
    ASSUME NEW bytes, AreBytes(bytes, 1)
    PROVE  /\ ReadBits(punch_1byte_type, bytes, "control_number") = bytes[1]
<1> DEFINE bits == punch_1byte_type
<1>1. /\ IsReadable(bits, 8)
      /\ PartIs(bits, 0, "control_number", 7, 8)
  BY OneByte
<1> HIDE DEF bits
<1>2. IsByte(bytes[1])
  BY DEF AreBytes
<1>3. InBits(bits, bytes, 0)
  <2>1. OfBytes(bits, 1)
    BY <1>1 DEF OfBytes
  <2>2. \A q \in Nat : q < 1 => InBits(bits, bytes, q)
    BY <2>1, ReadingBytes
  <2>3. QED
    BY <2>2
<1>4. ReadBits(bits, bytes, "control_number") = bytes[1]
  <2>1. PICK value : /\ IsSum(value, bits, bytes, "control_number")
                     /\ ReadBits(bits, bytes, "control_number") = value[8]
    <3>1. OfBytes(bits, 1)
      BY <1>1 DEF OfBytes
    <3>2. PICK value : IsReading(value, bits, 1, bytes, "control_number")
      BY <3>1, Reading
    <3>3. QED
      BY <3>2 DEF IsReading
  <2>2. value[0] = 0
    BY <2>1 DEF IsSum
  <2>3. Adds(value, bytes, 0, 1)
    <3>1. InPart(0, 7, 8, 0, 1)
      BY DEF InPart
    <3>2. \A m \in 1..8 : TakesBit(bits, 0, m, "control_number", 1)
      BY <1>1, <3>1, TakesByte
    <3>3. 1 \in Scale
      BY DEF Scale
    <3>4. QED
      BY <1>3, <2>1, <3>2, <3>3, ByteTaken
  <2>4. QED
    BY <1>2, <2>1, <2>2, <2>3, SMT DEF Adds, AddsNothing, IsByte
<1>5. QED
  BY <1>4 DEF bits

LEMMA ThreeBytesValues ==
    ASSUME NEW bytes, AreBytes(bytes, 3)
    PROVE  /\ ReadBits(punch_3bytes_type, bytes, "control_number") = bytes[1]
           /\ ReadBits(punch_3bytes_type, bytes, "time_12h") = 256 * bytes[2] + bytes[3]
<1> DEFINE bits == punch_3bytes_type
<1>1. /\ IsReadable(bits, 24)
      /\ PartIs(bits, 0, "control_number", 7, 8)
      /\ PartIs(bits, 8, "time_12h", 15, 16)
  BY ThreeBytesRead
<1> HIDE DEF bits
<1>2. IsByte(bytes[1]) /\ IsByte(bytes[2]) /\ IsByte(bytes[3])
  BY DEF AreBytes
<1>3. InBits(bits, bytes, 0) /\ InBits(bits, bytes, 1) /\ InBits(bits, bytes, 2)
  <2>1. OfBytes(bits, 3)
    BY <1>1 DEF OfBytes
  <2>2. \A q \in Nat : q < 3 => InBits(bits, bytes, q)
    BY <2>1, ReadingBytes
  <2>3. QED
    BY <2>2
<1>4. ReadBits(bits, bytes, "control_number") = bytes[1]
  <2>1. PICK value : /\ IsSum(value, bits, bytes, "control_number")
                     /\ ReadBits(bits, bytes, "control_number") = value[24]
    <3>1. OfBytes(bits, 3)
      BY <1>1 DEF OfBytes
    <3>2. PICK value : IsReading(value, bits, 3, bytes, "control_number")
      BY <3>1, Reading
    <3>3. QED
      BY <3>2 DEF IsReading
  <2>2. value[0] = 0
    BY <2>1 DEF IsSum
  <2>3. Adds(value, bytes, 0, 1)
    <3>1. InPart(0, 7, 8, 0, 1)
      BY DEF InPart
    <3>2. \A m \in 1..8 : TakesBit(bits, 0, m, "control_number", 1)
      BY <1>1, <3>1, TakesByte
    <3>3. 1 \in Scale
      BY DEF Scale
    <3>4. QED
      BY <1>3, <2>1, <3>2, <3>3, ByteTaken
  <2>4. AddsNothing(value, 1)
    <3>1. \A k \in Nat : 8 < k /\ k <= 8 + 16 => bits[k].name # "control_number"
      BY <1>1, SkipsPart
    <3>2. SkipsByte(bits, 1, "control_number")
      BY <3>1 DEF SkipsBit, SkipsByte
    <3>3. QED
      BY <1>3, <2>1, <3>2, ByteSkipped
  <2>5. AddsNothing(value, 2)
    <3>1. \A k \in Nat : 8 < k /\ k <= 8 + 16 => bits[k].name # "control_number"
      BY <1>1, SkipsPart
    <3>2. SkipsByte(bits, 2, "control_number")
      BY <3>1 DEF SkipsBit, SkipsByte
    <3>3. QED
      BY <1>3, <2>1, <3>2, ByteSkipped
  <2>6. QED
    BY <1>2, <2>1, <2>2, <2>3, <2>4, <2>5, SMT DEF Adds, AddsNothing, IsByte
<1>5. ReadBits(bits, bytes, "time_12h") = 256 * bytes[2] + bytes[3]
  <2>1. PICK value : /\ IsSum(value, bits, bytes, "time_12h")
                     /\ ReadBits(bits, bytes, "time_12h") = value[24]
    <3>1. OfBytes(bits, 3)
      BY <1>1 DEF OfBytes
    <3>2. PICK value : IsReading(value, bits, 3, bytes, "time_12h")
      BY <3>1, Reading
    <3>3. QED
      BY <3>2 DEF IsReading
  <2>2. value[0] = 0
    BY <2>1 DEF IsSum
  <2>3. AddsNothing(value, 0)
    <3>1. \A k \in Nat : 0 < k /\ k <= 0 + 8 => bits[k].name # "time_12h"
      BY <1>1, SkipsPart
    <3>2. SkipsByte(bits, 0, "time_12h")
      BY <3>1 DEF SkipsBit, SkipsByte
    <3>3. QED
      BY <1>3, <2>1, <3>2, ByteSkipped
  <2>4. Adds(value, bytes, 1, 256)
    <3>1. InPart(8, 15, 16, 1, 256)
      BY DEF InPart
    <3>2. \A m \in 1..8 : TakesBit(bits, 1, m, "time_12h", 256)
      BY <1>1, <3>1, TakesByte
    <3>3. 256 \in Scale
      BY DEF Scale
    <3>4. QED
      BY <1>3, <2>1, <3>2, <3>3, ByteTaken
  <2>5. Adds(value, bytes, 2, 1)
    <3>1. InPart(8, 15, 16, 2, 1)
      BY DEF InPart
    <3>2. \A m \in 1..8 : TakesBit(bits, 2, m, "time_12h", 1)
      BY <1>1, <3>1, TakesByte
    <3>3. 1 \in Scale
      BY DEF Scale
    <3>4. QED
      BY <1>3, <2>1, <3>2, <3>3, ByteTaken
  <2>6. QED
    BY <1>2, <2>1, <2>2, <2>3, <2>4, <2>5, SMT DEF Adds, AddsNothing, IsByte
<1>6. QED
  BY <1>4, <1>5 DEF bits

LEMMA EightBytesValues ==
    ASSUME NEW bytes, AreBytes(bytes, 8)
    PROVE  /\ ReadBits(punch_8bytes_type, bytes, "control_number") = bytes[1]
           /\ ReadBits(punch_8bytes_type, bytes, "time_12h") = 256 * bytes[6] + bytes[7]
<1> DEFINE bits == punch_8bytes_type
<1>1. /\ IsReadable(bits, 64)
      /\ PartIs(bits, 0, "control_number", 7, 8)
      /\ PartIs(bits, 8, "si_station_id", 17, 18)
      /\ PartIs(bits, 26, "punch_year", 3, 4)
      /\ PartIs(bits, 30, "punch_month", 3, 4)
      /\ PartIs(bits, 34, "punch_day", 4, 5)
      /\ PartIs(bits, 39, "am_pm", 0, 1)
      /\ PartIs(bits, 40, "time_12h", 15, 16)
      /\ PartIs(bits, 56, "punch_sub_second", 7, 8)
  BY EightBytes
<1> HIDE DEF bits
<1>2. /\ IsByte(bytes[1]) /\ IsByte(bytes[2]) /\ IsByte(bytes[3]) /\ IsByte(bytes[4])
      /\ IsByte(bytes[5]) /\ IsByte(bytes[6]) /\ IsByte(bytes[7]) /\ IsByte(bytes[8])
  BY DEF AreBytes
<1>3. /\ InBits(bits, bytes, 0) /\ InBits(bits, bytes, 1) /\ InBits(bits, bytes, 2) /\ InBits(bits, bytes, 3)
      /\ InBits(bits, bytes, 4) /\ InBits(bits, bytes, 5) /\ InBits(bits, bytes, 6) /\ InBits(bits, bytes, 7)
  <2>1. OfBytes(bits, 8)
    BY <1>1 DEF OfBytes
  <2>2. \A q \in Nat : q < 8 => InBits(bits, bytes, q)
    BY <2>1, ReadingBytes
  <2>3. QED
    BY <2>2
<1>4. ReadBits(bits, bytes, "control_number") = bytes[1]
  <2>1. PICK value : /\ IsSum(value, bits, bytes, "control_number")
                     /\ ReadBits(bits, bytes, "control_number") = value[64]
    <3>1. OfBytes(bits, 8)
      BY <1>1 DEF OfBytes
    <3>2. PICK value : IsReading(value, bits, 8, bytes, "control_number")
      BY <3>1, Reading
    <3>3. QED
      BY <3>2 DEF IsReading
  <2>2. value[0] = 0
    BY <2>1 DEF IsSum
  <2>3. Adds(value, bytes, 0, 1)
    <3>1. InPart(0, 7, 8, 0, 1)
      BY DEF InPart
    <3>2. \A m \in 1..8 : TakesBit(bits, 0, m, "control_number", 1)
      BY <1>1, <3>1, TakesByte
    <3>3. 1 \in Scale
      BY DEF Scale
    <3>4. QED
      BY <1>3, <2>1, <3>2, <3>3, ByteTaken
  <2>4. AddsNothing(value, 1)
    <3>1. \A k \in Nat : 8 < k /\ k <= 8 + 18 => bits[k].name # "control_number"
      BY <1>1, SkipsPart
    <3>2. SkipsByte(bits, 1, "control_number")
      BY <3>1 DEF SkipsBit, SkipsByte
    <3>3. QED
      BY <1>3, <2>1, <3>2, ByteSkipped
  <2>5. AddsNothing(value, 2)
    <3>1. \A k \in Nat : 8 < k /\ k <= 8 + 18 => bits[k].name # "control_number"
      BY <1>1, SkipsPart
    <3>2. SkipsByte(bits, 2, "control_number")
      BY <3>1 DEF SkipsBit, SkipsByte
    <3>3. QED
      BY <1>3, <2>1, <3>2, ByteSkipped
  <2>6. AddsNothing(value, 3)
    <3>1. \A k \in Nat : 8 < k /\ k <= 8 + 18 => bits[k].name # "control_number"
      BY <1>1, SkipsPart
    <3>2. \A k \in Nat : 26 < k /\ k <= 26 + 4 => bits[k].name # "control_number"
      BY <1>1, SkipsPart
    <3>3. \A k \in Nat : 30 < k /\ k <= 30 + 4 => bits[k].name # "control_number"
      BY <1>1, SkipsPart
    <3>4. SkipsByte(bits, 3, "control_number")
      BY <3>1, <3>2, <3>3 DEF SkipsBit, SkipsByte
    <3>5. QED
      BY <1>3, <2>1, <3>4, ByteSkipped
  <2>7. AddsNothing(value, 4)
    <3>1. \A k \in Nat : 30 < k /\ k <= 30 + 4 => bits[k].name # "control_number"
      BY <1>1, SkipsPart
    <3>2. \A k \in Nat : 34 < k /\ k <= 34 + 5 => bits[k].name # "control_number"
      BY <1>1, SkipsPart
    <3>3. \A k \in Nat : 39 < k /\ k <= 39 + 1 => bits[k].name # "control_number"
      BY <1>1, SkipsPart
    <3>4. SkipsByte(bits, 4, "control_number")
      BY <3>1, <3>2, <3>3 DEF SkipsBit, SkipsByte
    <3>5. QED
      BY <1>3, <2>1, <3>4, ByteSkipped
  <2>8. AddsNothing(value, 5)
    <3>1. \A k \in Nat : 40 < k /\ k <= 40 + 16 => bits[k].name # "control_number"
      BY <1>1, SkipsPart
    <3>2. SkipsByte(bits, 5, "control_number")
      BY <3>1 DEF SkipsBit, SkipsByte
    <3>3. QED
      BY <1>3, <2>1, <3>2, ByteSkipped
  <2>9. AddsNothing(value, 6)
    <3>1. \A k \in Nat : 40 < k /\ k <= 40 + 16 => bits[k].name # "control_number"
      BY <1>1, SkipsPart
    <3>2. SkipsByte(bits, 6, "control_number")
      BY <3>1 DEF SkipsBit, SkipsByte
    <3>3. QED
      BY <1>3, <2>1, <3>2, ByteSkipped
  <2>10. AddsNothing(value, 7)
    <3>1. \A k \in Nat : 56 < k /\ k <= 56 + 8 => bits[k].name # "control_number"
      BY <1>1, SkipsPart
    <3>2. SkipsByte(bits, 7, "control_number")
      BY <3>1 DEF SkipsBit, SkipsByte
    <3>3. QED
      BY <1>3, <2>1, <3>2, ByteSkipped
  <2>11. QED
    BY <1>2, <2>1, <2>2, <2>3, <2>4, <2>5, <2>6, <2>7, <2>8, <2>9, <2>10, SMT DEF Adds, AddsNothing, IsByte
<1>5. ReadBits(bits, bytes, "time_12h") = 256 * bytes[6] + bytes[7]
  <2>1. PICK value : /\ IsSum(value, bits, bytes, "time_12h")
                     /\ ReadBits(bits, bytes, "time_12h") = value[64]
    <3>1. OfBytes(bits, 8)
      BY <1>1 DEF OfBytes
    <3>2. PICK value : IsReading(value, bits, 8, bytes, "time_12h")
      BY <3>1, Reading
    <3>3. QED
      BY <3>2 DEF IsReading
  <2>2. value[0] = 0
    BY <2>1 DEF IsSum
  <2>3. AddsNothing(value, 0)
    <3>1. \A k \in Nat : 0 < k /\ k <= 0 + 8 => bits[k].name # "time_12h"
      BY <1>1, SkipsPart
    <3>2. SkipsByte(bits, 0, "time_12h")
      BY <3>1 DEF SkipsBit, SkipsByte
    <3>3. QED
      BY <1>3, <2>1, <3>2, ByteSkipped
  <2>4. AddsNothing(value, 1)
    <3>1. \A k \in Nat : 8 < k /\ k <= 8 + 18 => bits[k].name # "time_12h"
      BY <1>1, SkipsPart
    <3>2. SkipsByte(bits, 1, "time_12h")
      BY <3>1 DEF SkipsBit, SkipsByte
    <3>3. QED
      BY <1>3, <2>1, <3>2, ByteSkipped
  <2>5. AddsNothing(value, 2)
    <3>1. \A k \in Nat : 8 < k /\ k <= 8 + 18 => bits[k].name # "time_12h"
      BY <1>1, SkipsPart
    <3>2. SkipsByte(bits, 2, "time_12h")
      BY <3>1 DEF SkipsBit, SkipsByte
    <3>3. QED
      BY <1>3, <2>1, <3>2, ByteSkipped
  <2>6. AddsNothing(value, 3)
    <3>1. \A k \in Nat : 8 < k /\ k <= 8 + 18 => bits[k].name # "time_12h"
      BY <1>1, SkipsPart
    <3>2. \A k \in Nat : 26 < k /\ k <= 26 + 4 => bits[k].name # "time_12h"
      BY <1>1, SkipsPart
    <3>3. \A k \in Nat : 30 < k /\ k <= 30 + 4 => bits[k].name # "time_12h"
      BY <1>1, SkipsPart
    <3>4. SkipsByte(bits, 3, "time_12h")
      BY <3>1, <3>2, <3>3 DEF SkipsBit, SkipsByte
    <3>5. QED
      BY <1>3, <2>1, <3>4, ByteSkipped
  <2>7. AddsNothing(value, 4)
    <3>1. \A k \in Nat : 30 < k /\ k <= 30 + 4 => bits[k].name # "time_12h"
      BY <1>1, SkipsPart
    <3>2. \A k \in Nat : 34 < k /\ k <= 34 + 5 => bits[k].name # "time_12h"
      BY <1>1, SkipsPart
    <3>3. \A k \in Nat : 39 < k /\ k <= 39 + 1 => bits[k].name # "time_12h"
      BY <1>1, SkipsPart
    <3>4. SkipsByte(bits, 4, "time_12h")
      BY <3>1, <3>2, <3>3 DEF SkipsBit, SkipsByte
    <3>5. QED
      BY <1>3, <2>1, <3>4, ByteSkipped
  <2>8. Adds(value, bytes, 5, 256)
    <3>1. InPart(40, 15, 16, 5, 256)
      BY DEF InPart
    <3>2. \A m \in 1..8 : TakesBit(bits, 5, m, "time_12h", 256)
      BY <1>1, <3>1, TakesByte
    <3>3. 256 \in Scale
      BY DEF Scale
    <3>4. QED
      BY <1>3, <2>1, <3>2, <3>3, ByteTaken
  <2>9. Adds(value, bytes, 6, 1)
    <3>1. InPart(40, 15, 16, 6, 1)
      BY DEF InPart
    <3>2. \A m \in 1..8 : TakesBit(bits, 6, m, "time_12h", 1)
      BY <1>1, <3>1, TakesByte
    <3>3. 1 \in Scale
      BY DEF Scale
    <3>4. QED
      BY <1>3, <2>1, <3>2, <3>3, ByteTaken
  <2>10. AddsNothing(value, 7)
    <3>1. \A k \in Nat : 56 < k /\ k <= 56 + 8 => bits[k].name # "time_12h"
      BY <1>1, SkipsPart
    <3>2. SkipsByte(bits, 7, "time_12h")
      BY <3>1 DEF SkipsBit, SkipsByte
    <3>3. QED
      BY <1>3, <2>1, <3>2, ByteSkipped
  <2>11. QED
    BY <1>2, <2>1, <2>2, <2>3, <2>4, <2>5, <2>6, <2>7, <2>8, <2>9, <2>10, SMT DEF Adds, AddsNothing, IsByte
<1>6. QED
  BY <1>4, <1>5 DEF bits

LEMMA IdSerieValues ==
    ASSUME NEW bytes, AreBytes(bytes, 4)
    PROVE  /\ ReadBits(card_id_serie, bytes, "card_serie") = bytes[1] % 16
           /\ ReadBits(card_id_serie, bytes, "card_id") = 65536 * bytes[2] + 256 * bytes[3] + bytes[4]
<1> DEFINE bits == card_id_serie
<1>1. /\ IsReadable(bits, 32)
      /\ PartIs(bits, 0, "don_t_care", 3, 4)
      /\ PartIs(bits, 4, "card_serie", 3, 4)
      /\ PartIs(bits, 8, "card_id", 23, 24)
  BY IdSerieBits
<1> HIDE DEF bits
<1>2. IsByte(bytes[1]) /\ IsByte(bytes[2]) /\ IsByte(bytes[3]) /\ IsByte(bytes[4])
  BY DEF AreBytes
<1>3. InBits(bits, bytes, 0) /\ InBits(bits, bytes, 1) /\ InBits(bits, bytes, 2) /\ InBits(bits, bytes, 3)
  <2>1. OfBytes(bits, 4)
    BY <1>1 DEF OfBytes
  <2>2. \A q \in Nat : q < 4 => InBits(bits, bytes, q)
    BY <2>1, ReadingBytes
  <2>3. QED
    BY <2>2
<1>4. ReadBits(bits, bytes, "card_serie") = bytes[1] % 16
  <2>1. PICK value : /\ IsSum(value, bits, bytes, "card_serie")
                     /\ ReadBits(bits, bytes, "card_serie") = value[32]
    <3>1. OfBytes(bits, 4)
      BY <1>1 DEF OfBytes
    <3>2. PICK value : IsReading(value, bits, 4, bytes, "card_serie")
      BY <3>1, Reading
    <3>3. QED
      BY <3>2 DEF IsReading
  <2>2. value[0] = 0
    BY <2>1 DEF IsSum
  <2>3. value[8 * 0 + 8] = bytes[1] % 16
    <3>1. \A k \in Nat : 0 < k /\ k <= 0 + 4 => bits[k].name # "card_serie"
      BY <1>1, SkipsPart
    <3>2. value[8 * 0 + 1] = value[8 * 0 + (1 - 1)]
      <4>1. SkipsBit(bits, 0, 1, "card_serie")
        BY <3>1 DEF SkipsBit
      <4>2. QED
        BY <1>3, <2>1, <4>1, BitSkipped
    <3>3. value[8 * 0 + 2] = value[8 * 0 + (2 - 1)]
      <4>1. SkipsBit(bits, 0, 2, "card_serie")
        BY <3>1 DEF SkipsBit
      <4>2. QED
        BY <1>3, <2>1, <4>1, BitSkipped
    <3>4. value[8 * 0 + 3] = value[8 * 0 + (3 - 1)]
      <4>1. SkipsBit(bits, 0, 3, "card_serie")
        BY <3>1 DEF SkipsBit
      <4>2. QED
        BY <1>3, <2>1, <4>1, BitSkipped
    <3>5. value[8 * 0 + 4] = value[8 * 0 + (4 - 1)]
      <4>1. SkipsBit(bits, 0, 4, "card_serie")
        BY <3>1 DEF SkipsBit
      <4>2. QED
        BY <1>3, <2>1, <4>1, BitSkipped
    <3>6. value[8 * 0 + 5] = value[8 * 0 + (5 - 1)] + 1 * BitValue(bytes[0 + 1], 5)
      <4>1. bits[5] = [name |-> "card_serie", ordinal |-> 3]
        <5>1. bits[4 + 1] = [name |-> "card_serie", ordinal |-> 3 - 1 + 1]
          BY <1>1 DEF PartIs
        <5>2. QED
          BY <5>1
      <4>2. 2^bits[8 * 0 + 5].ordinal = 1 * 2^(8 - 5)
        <5>1. bits[8 * 0 + 5].ordinal = 3
          BY <4>1
        <5>2. 2^3 = 1 * 2^(8 - 5)
          BY Powers, SMT
        <5>3. QED
          BY <5>1, <5>2
      <4>3. TakesBit(bits, 0, 5, "card_serie", 1)
        BY <4>1, <4>2 DEF TakesBit
      <4>4. QED
        BY <1>3, <2>1, <4>3, BitTaken
    <3>7. value[8 * 0 + 6] = value[8 * 0 + (6 - 1)] + 1 * BitValue(bytes[0 + 1], 6)
      <4>1. bits[6] = [name |-> "card_serie", ordinal |-> 2]
        <5>1. bits[4 + 2] = [name |-> "card_serie", ordinal |-> 3 - 2 + 1]
          BY <1>1 DEF PartIs
        <5>2. QED
          BY <5>1
      <4>2. 2^bits[8 * 0 + 6].ordinal = 1 * 2^(8 - 6)
        <5>1. bits[8 * 0 + 6].ordinal = 2
          BY <4>1
        <5>2. 2^2 = 1 * 2^(8 - 6)
          BY Powers, SMT
        <5>3. QED
          BY <5>1, <5>2
      <4>3. TakesBit(bits, 0, 6, "card_serie", 1)
        BY <4>1, <4>2 DEF TakesBit
      <4>4. QED
        BY <1>3, <2>1, <4>3, BitTaken
    <3>8. value[8 * 0 + 7] = value[8 * 0 + (7 - 1)] + 1 * BitValue(bytes[0 + 1], 7)
      <4>1. bits[7] = [name |-> "card_serie", ordinal |-> 1]
        <5>1. bits[4 + 3] = [name |-> "card_serie", ordinal |-> 3 - 3 + 1]
          BY <1>1 DEF PartIs
        <5>2. QED
          BY <5>1
      <4>2. 2^bits[8 * 0 + 7].ordinal = 1 * 2^(8 - 7)
        <5>1. bits[8 * 0 + 7].ordinal = 1
          BY <4>1
        <5>2. 2^1 = 1 * 2^(8 - 7)
          BY Powers, SMT
        <5>3. QED
          BY <5>1, <5>2
      <4>3. TakesBit(bits, 0, 7, "card_serie", 1)
        BY <4>1, <4>2 DEF TakesBit
      <4>4. QED
        BY <1>3, <2>1, <4>3, BitTaken
    <3>9. value[8 * 0 + 8] = value[8 * 0 + (8 - 1)] + 1 * BitValue(bytes[0 + 1], 8)
      <4>1. bits[8] = [name |-> "card_serie", ordinal |-> 0]
        <5>1. bits[4 + 4] = [name |-> "card_serie", ordinal |-> 3 - 4 + 1]
          BY <1>1 DEF PartIs
        <5>2. QED
          BY <5>1
      <4>2. 2^bits[8 * 0 + 8].ordinal = 1 * 2^(8 - 8)
        <5>1. bits[8 * 0 + 8].ordinal = 0
          BY <4>1
        <5>2. 2^0 = 1 * 2^(8 - 8)
          BY Powers, SMT
        <5>3. QED
          BY <5>1, <5>2
      <4>3. TakesBit(bits, 0, 8, "card_serie", 1)
        BY <4>1, <4>2 DEF TakesBit
      <4>4. QED
        BY <1>3, <2>1, <4>3, BitTaken
    <3>10. /\ BitValue(bytes[0 + 1], 5) \in Nat /\ BitValue(bytes[0 + 1], 6) \in Nat
           /\ BitValue(bytes[0 + 1], 7) \in Nat /\ BitValue(bytes[0 + 1], 8) \in Nat
      <4>1. IsByte(bytes[0 + 1])
        BY <1>2
      <4>2. QED
        BY <4>1, BitValueIsNumber
    <3>11. value[8 * 0 + 8] = 1 * BitValue(bytes[0 + 1], 5) + 1 * BitValue(bytes[0 + 1], 6)
                             + 1 * BitValue(bytes[0 + 1], 7) + 1 * BitValue(bytes[0 + 1], 8)
      BY <2>2, <3>2, <3>3, <3>4, <3>5, <3>6, <3>7, <3>8, <3>9, <3>10
    <3>12. QED
      BY <1>2, <3>11, LowBits
  <2>4. AddsNothing(value, 1)
    <3>1. \A k \in Nat : 8 < k /\ k <= 8 + 24 => bits[k].name # "card_serie"
      BY <1>1, SkipsPart
    <3>2. SkipsByte(bits, 1, "card_serie")
      BY <3>1 DEF SkipsBit, SkipsByte
    <3>3. QED
      BY <1>3, <2>1, <3>2, ByteSkipped
  <2>5. AddsNothing(value, 2)
    <3>1. \A k \in Nat : 8 < k /\ k <= 8 + 24 => bits[k].name # "card_serie"
      BY <1>1, SkipsPart
    <3>2. SkipsByte(bits, 2, "card_serie")
      BY <3>1 DEF SkipsBit, SkipsByte
    <3>3. QED
      BY <1>3, <2>1, <3>2, ByteSkipped
  <2>6. AddsNothing(value, 3)
    <3>1. \A k \in Nat : 8 < k /\ k <= 8 + 24 => bits[k].name # "card_serie"
      BY <1>1, SkipsPart
    <3>2. SkipsByte(bits, 3, "card_serie")
      BY <3>1 DEF SkipsBit, SkipsByte
    <3>3. QED
      BY <1>3, <2>1, <3>2, ByteSkipped
  <2>7. QED
    BY <1>2, <2>1, <2>2, <2>3, <2>4, <2>5, <2>6, SMT DEF Adds, AddsNothing, IsByte
<1>5. ReadBits(bits, bytes, "card_id") = 65536 * bytes[2] + 256 * bytes[3] + bytes[4]
  <2>1. PICK value : /\ IsSum(value, bits, bytes, "card_id")
                     /\ ReadBits(bits, bytes, "card_id") = value[32]
    <3>1. OfBytes(bits, 4)
      BY <1>1 DEF OfBytes
    <3>2. PICK value : IsReading(value, bits, 4, bytes, "card_id")
      BY <3>1, Reading
    <3>3. QED
      BY <3>2 DEF IsReading
  <2>2. value[0] = 0
    BY <2>1 DEF IsSum
  <2>3. AddsNothing(value, 0)
    <3>1. \A k \in Nat : 0 < k /\ k <= 0 + 4 => bits[k].name # "card_id"
      BY <1>1, SkipsPart
    <3>2. \A k \in Nat : 4 < k /\ k <= 4 + 4 => bits[k].name # "card_id"
      BY <1>1, SkipsPart
    <3>3. SkipsByte(bits, 0, "card_id")
      BY <3>1, <3>2 DEF SkipsBit, SkipsByte
    <3>4. QED
      BY <1>3, <2>1, <3>3, ByteSkipped
  <2>4. Adds(value, bytes, 1, 65536)
    <3>1. InPart(8, 23, 24, 1, 65536)
      BY DEF InPart
    <3>2. \A m \in 1..8 : TakesBit(bits, 1, m, "card_id", 65536)
      BY <1>1, <3>1, TakesByte
    <3>3. 65536 \in Scale
      BY DEF Scale
    <3>4. QED
      BY <1>3, <2>1, <3>2, <3>3, ByteTaken
  <2>5. Adds(value, bytes, 2, 256)
    <3>1. InPart(8, 23, 24, 2, 256)
      BY DEF InPart
    <3>2. \A m \in 1..8 : TakesBit(bits, 2, m, "card_id", 256)
      BY <1>1, <3>1, TakesByte
    <3>3. 256 \in Scale
      BY DEF Scale
    <3>4. QED
      BY <1>3, <2>1, <3>2, <3>3, ByteTaken
  <2>6. Adds(value, bytes, 3, 1)
    <3>1. InPart(8, 23, 24, 3, 1)
      BY DEF InPart
    <3>2. \A m \in 1..8 : TakesBit(bits, 3, m, "card_id", 1)
      BY <1>1, <3>1, TakesByte
    <3>3. 1 \in Scale
      BY DEF Scale
    <3>4. QED
      BY <1>3, <2>1, <3>2, <3>3, ByteTaken
  <2>7. QED
    BY <1>2, <2>1, <2>2, <2>3, <2>4, <2>5, <2>6, SMT DEF Adds, AddsNothing, IsByte
<1>6. QED
  BY <1>4, <1>5 DEF bits

-----------------------------------------------------------------------------
(***************************************************************************)
(* The parts of a parameters_array, and the headers of the cards.          *)
(***************************************************************************)
\* The sequence b is the size elements of s behind the first a.
IsSlice(b, s, a, size) == /\ Len(b) = size /\ size \in Nat
                          /\ b = [i \in 1..size |-> b[i]]
                          /\ \A i \in 1..size : b[i] = s[a + i]

SlicePlace(s, a, size, first, last) ==
    a \in Nat /\ size \in Nat /\ a + size <= Len(s) /\ first = a + 1 /\ last = a + size

LEMMA SubSeqSlice ==
    ASSUME NEW S, NEW s \in Seq(S), NEW a, NEW size, NEW first, NEW last,
           SlicePlace(s, a, size, first, last)
    PROVE  IsSlice(SubSeq(s, first, last), s, a, size) /\ SubSeq(s, first, last) \in Seq(S)
<1> DEFINE b == SubSeq(s, first, last)
<1>1. Len(s) \in Nat
  BY LenProperties
<1>2. first \in 1..(Len(s) + 1) /\ last \in (first - 1)..Len(s) /\ (last - first) + 1 = size
  BY <1>1 DEF SlicePlace
<1>3. /\ b \in Seq(S) /\ Len(b) = IF first <= last THEN last - first + 1 ELSE 0
      /\ \A i \in 1..(last - first + 1) : b[i] = s[first + i - 1]
  BY <1>2, SubSeqProperties
<1>4. size \in Nat /\ Len(b) = size
  BY <1>2, <1>3 DEF SlicePlace
<1> HIDE DEF b
<1>5. b = [i \in 1..size |-> b[i]]
  BY <1>3, <1>4
<1>6. \A i \in 1..size : b[i] = s[a + i]
  BY <1>2, <1>3 DEF SlicePlace
<1>7. QED
  BY <1>3, <1>4, <1>5, <1>6 DEF IsSlice, b

\* The j-th part of a definition, of size bytes behind the first a, has this name alone.
IsField(def, j, a, name, size) ==
    /\ j \in 1..Len(def) /\ def[j] = Part(name, size)
    /\ \A k \in 1..Len(def) : def[k].name = name => k = j
    /\ Ends(Sizes(def))[j - 1] = a /\ a \in Nat /\ size \in Nat

LEMMA TakenSlice ==
    ASSUME NEW P, NEW def \in Seq(P), NEW j, NEW a, NEW name, NEW size,
           IsField(def, j, a, name, size), NEW S, NEW data \in Seq(S),
           SlicePlace(data, a, size, a + 1, a + size)
    PROVE  IsSlice(Taken(def, data, name), data, a, size) /\ Taken(def, data, name) \in Seq(S)
<1> DEFINE k == CHOOSE i \in DOMAIN def : def[i].name = name
<1>1. DOMAIN def = 1..Len(def)
  BY LenProperties
<1>2. def[j].name = name /\ def[j].size = size
  BY DEF IsField, Part
<1>3. k = j
  BY <1>1, <1>2 DEF IsField
<1> HIDE DEF k
<1>4. Taken(def, data, name) =
          SubSeq(data, Ends(Sizes(def))[k - 1] + 1, Ends(Sizes(def))[k - 1] + def[k].size)
  BY DEF Taken, k
<1>5. Taken(def, data, name) = SubSeq(data, a + 1, a + size)
  BY <1>2, <1>3, <1>4 DEF IsField
<1>6. IsSlice(SubSeq(data, a + 1, a + size), data, a, size) /\ SubSeq(data, a + 1, a + size) \in Seq(S)
  BY SubSeqSlice
<1>7. QED
  BY <1>5, <1>6

HasSizes(def) == \A j \in 1..Len(def) : def[j].size \in Nat

LEMMA SizesRun ==
    ASSUME NEW P, NEW def \in Seq(P), HasSizes(def)
    PROVE  /\ Ends(Sizes(def))[0] = 0
           /\ \A j \in 1..Len(def) : Ends(Sizes(def))[j] = Ends(Sizes(def))[j - 1] + def[j].size
<1>1. Len(def) \in Nat
  BY LenProperties
<1>2. Sizes(def) \in Seq(Nat) /\ Len(Sizes(def)) = Len(def)
  BY <1>1 DEF Sizes, HasSizes
<1>3. \A j \in 1..Len(def) : Sizes(def)[j] = def[j].size
  BY DEF Sizes
<1>4. QED
  BY <1>2, <1>3, EndsRun

LEMMA Card5Def ==
    /\ \E P : card_5_header_def \in Seq(P)
    /\ SizeOf(card_5_header_def) = 27
    /\ IsField(card_5_header_def, 2, 4, "card_id", 2)
    /\ IsField(card_5_header_def, 3, 6, "card_serie", 1)
    /\ IsField(card_5_header_def, 5, 17, "start_no", 2)
    /\ IsField(card_5_header_def, 6, 19, "start_time", 2)
    /\ IsField(card_5_header_def, 7, 21, "finish_time", 2)
    /\ IsField(card_5_header_def, 8, 23, "record_counter", 1)
    /\ IsField(card_5_header_def, 10, 25, "check_time", 2)
<1> DEFINE def == card_5_header_def
           P == {def[j] : j \in 1..10}
<1>1. /\ Len(def) = 10
      /\ def[1] = Part(Skipped, 4)
      /\ def[2] = Part("card_id", 2)
      /\ def[3] = Part("card_serie", 1)
      /\ def[4] = Part(Skipped, 10)
      /\ def[5] = Part("start_no", 2)
      /\ def[6] = Part("start_time", 2)
      /\ def[7] = Part("finish_time", 2)
      /\ def[8] = Part("record_counter", 1)
      /\ def[9] = Part(Skipped, 1)
      /\ def[10] = Part("check_time", 2)
  BY DEF card_5_header_def
<1>2. def \in Seq(P)
  BY DEF card_5_header_def
<1> HIDE DEF def, P
<1>3. \A j \in 1..10 : j = 1 \/ j = 2 \/ j = 3 \/ j = 4 \/ j = 5 \/ j = 6 \/ j = 7 \/ j = 8 \/ j = 9 \/ j = 10
  OBVIOUS
<1>4. HasSizes(def)
  BY <1>1, <1>3 DEF HasSizes, Part
<1>5. /\ Ends(Sizes(def))[0] = 0
      /\ \A j \in 1..10 : Ends(Sizes(def))[j] = Ends(Sizes(def))[j - 1] + def[j].size
  BY <1>1, <1>2, <1>4, SizesRun
<1>6. /\ def[1].size = 4
      /\ def[2].size = 2
      /\ def[3].size = 1
      /\ def[4].size = 10
      /\ def[5].size = 2
      /\ def[6].size = 2
      /\ def[7].size = 2
      /\ def[8].size = 1
      /\ def[9].size = 1
      /\ def[10].size = 2
  BY <1>1 DEF Part
<1>7. /\ Ends(Sizes(def))[1] = 4
      /\ Ends(Sizes(def))[2] = 6
      /\ Ends(Sizes(def))[3] = 7
      /\ Ends(Sizes(def))[4] = 17
      /\ Ends(Sizes(def))[5] = 19
      /\ Ends(Sizes(def))[6] = 21
      /\ Ends(Sizes(def))[7] = 23
      /\ Ends(Sizes(def))[8] = 24
      /\ Ends(Sizes(def))[9] = 25
      /\ Ends(Sizes(def))[10] = 27
  BY <1>5, <1>6
<1>8. /\ def[1].name = Skipped
      /\ def[2].name = "card_id"
      /\ def[3].name = "card_serie"
      /\ def[4].name = Skipped
      /\ def[5].name = "start_no"
      /\ def[6].name = "start_time"
      /\ def[7].name = "finish_time"
      /\ def[8].name = "record_counter"
      /\ def[9].name = Skipped
      /\ def[10].name = "check_time"
  BY <1>1 DEF Part
<1>9. IsField(def, 2, 4, "card_id", 2)
  <2>1. \A k \in 1..10 : def[k].name = "card_id" => k = 2
    BY <1>3, <1>8 DEF Skipped
  <2>2. Ends(Sizes(def))[2 - 1] = 4
    BY <1>5, <1>7
  <2>3. QED
    BY <1>1, <2>1, <2>2 DEF IsField
<1>10. IsField(def, 3, 6, "card_serie", 1)
  <2>1. \A k \in 1..10 : def[k].name = "card_serie" => k = 3
    BY <1>3, <1>8 DEF Skipped
  <2>2. Ends(Sizes(def))[3 - 1] = 6
    BY <1>5, <1>7
  <2>3. QED
    BY <1>1, <2>1, <2>2 DEF IsField
<1>11. IsField(def, 5, 17, "start_no", 2)
  <2>1. \A k \in 1..10 : def[k].name = "start_no" => k = 5
    BY <1>3, <1>8 DEF Skipped
  <2>2. Ends(Sizes(def))[5 - 1] = 17
    BY <1>5, <1>7
  <2>3. QED
    BY <1>1, <2>1, <2>2 DEF IsField
<1>12. IsField(def, 6, 19, "start_time", 2)
  <2>1. \A k \in 1..10 : def[k].name = "start_time" => k = 6
    BY <1>3, <1>8 DEF Skipped
  <2>2. Ends(Sizes(def))[6 - 1] = 19
    BY <1>5, <1>7
  <2>3. QED
    BY <1>1, <2>1, <2>2 DEF IsField
<1>13. IsField(def, 7, 21, "finish_time", 2)
  <2>1. \A k \in 1..10 : def[k].name = "finish_time" => k = 7
    BY <1>3, <1>8 DEF Skipped
  <2>2. Ends(Sizes(def))[7 - 1] = 21
    BY <1>5, <1>7
  <2>3. QED
    BY <1>1, <2>1, <2>2 DEF IsField
<1>14. IsField(def, 8, 23, "record_counter", 1)
  <2>1. \A k \in 1..10 : def[k].name = "record_counter" => k = 8
    BY <1>3, <1>8 DEF Skipped
  <2>2. Ends(Sizes(def))[8 - 1] = 23
    BY <1>5, <1>7
  <2>3. QED
    BY <1>1, <2>1, <2>2 DEF IsField
<1>15. IsField(def, 10, 25, "check_time", 2)
  <2>1. \A k \in 1..10 : def[k].name = "check_time" => k = 10
    BY <1>3, <1>8 DEF Skipped
  <2>2. Ends(Sizes(def))[10 - 1] = 25
    BY <1>5, <1>7
  <2>3. QED
    BY <1>1, <2>1, <2>2 DEF IsField
<1>16. SizeOf(def) = 27
  BY <1>1, <1>7 DEF SizeOf
<1>17. QED
  BY <1>2, <1>9, <1>10, <1>11, <1>12, <1>13, <1>14, <1>15, <1>16 DEF def

LEMMA Card6Def ==
    /\ \E P : card_6_header_def \in Seq(P)
    /\ SizeOf(card_6_header_def) = 44
    /\ IsField(card_6_header_def, 3, 10, "card_id", 4)
    /\ IsField(card_6_header_def, 6, 18, "record_counter", 1)
    /\ IsField(card_6_header_def, 8, 20, "finish_time", 4)
    /\ IsField(card_6_header_def, 9, 24, "start_time", 4)
    /\ IsField(card_6_header_def, 10, 28, "check_time", 4)
    /\ IsField(card_6_header_def, 11, 32, "clear_time", 4)
    /\ IsField(card_6_header_def, 13, 40, "start_no", 4)
<1> DEFINE def == card_6_header_def
           P == {def[j] : j \in 1..13}
<1>1. /\ Len(def) = 13
      /\ def[1] = Part(Skipped, 8)
      /\ def[2] = Part(Skipped, 2)
      /\ def[3] = Part("card_id", 4)
      /\ def[4] = Part(Skipped, 2)
      /\ def[5] = Part("last_visited_control", 2)
      /\ def[6] = Part("record_counter", 1)
      /\ def[7] = Part("next_record", 1)
      /\ def[8] = Part("finish_time", 4)
      /\ def[9] = Part("start_time", 4)
      /\ def[10] = Part("check_time", 4)
      /\ def[11] = Part("clear_time", 4)
      /\ def[12] = Part(Skipped, 4)
      /\ def[13] = Part("start_no", 4)
  BY DEF card_6_header_def
<1>2. def \in Seq(P)
  BY DEF card_6_header_def
<1> HIDE DEF def, P
<1>3. \A j \in 1..13 : j = 1 \/ j = 2 \/ j = 3 \/ j = 4 \/ j = 5 \/ j = 6 \/ j = 7
                       \/ j = 8 \/ j = 9 \/ j = 10 \/ j = 11 \/ j = 12 \/ j = 13
  OBVIOUS
<1>4. HasSizes(def)
  BY <1>1, <1>3 DEF HasSizes, Part
<1>5. /\ Ends(Sizes(def))[0] = 0
      /\ \A j \in 1..13 : Ends(Sizes(def))[j] = Ends(Sizes(def))[j - 1] + def[j].size
  BY <1>1, <1>2, <1>4, SizesRun
<1>6. /\ def[1].size = 8
      /\ def[2].size = 2
      /\ def[3].size = 4
      /\ def[4].size = 2
      /\ def[5].size = 2
      /\ def[6].size = 1
      /\ def[7].size = 1
      /\ def[8].size = 4
      /\ def[9].size = 4
      /\ def[10].size = 4
      /\ def[11].size = 4
      /\ def[12].size = 4
      /\ def[13].size = 4
  BY <1>1 DEF Part
<1>7. /\ Ends(Sizes(def))[1] = 8
      /\ Ends(Sizes(def))[2] = 10
      /\ Ends(Sizes(def))[3] = 14
      /\ Ends(Sizes(def))[4] = 16
      /\ Ends(Sizes(def))[5] = 18
      /\ Ends(Sizes(def))[6] = 19
      /\ Ends(Sizes(def))[7] = 20
      /\ Ends(Sizes(def))[8] = 24
      /\ Ends(Sizes(def))[9] = 28
      /\ Ends(Sizes(def))[10] = 32
      /\ Ends(Sizes(def))[11] = 36
      /\ Ends(Sizes(def))[12] = 40
      /\ Ends(Sizes(def))[13] = 44
  BY <1>5, <1>6
<1>8. /\ def[1].name = Skipped
      /\ def[2].name = Skipped
      /\ def[3].name = "card_id"
      /\ def[4].name = Skipped
      /\ def[5].name = "last_visited_control"
      /\ def[6].name = "record_counter"
      /\ def[7].name = "next_record"
      /\ def[8].name = "finish_time"
      /\ def[9].name = "start_time"
      /\ def[10].name = "check_time"
      /\ def[11].name = "clear_time"
      /\ def[12].name = Skipped
      /\ def[13].name = "start_no"
  BY <1>1 DEF Part
<1>9. IsField(def, 3, 10, "card_id", 4)
  <2>1. \A k \in 1..13 : def[k].name = "card_id" => k = 3
    BY <1>3, <1>8 DEF Skipped
  <2>2. Ends(Sizes(def))[3 - 1] = 10
    BY <1>5, <1>7
  <2>3. QED
    BY <1>1, <2>1, <2>2 DEF IsField
<1>10. IsField(def, 6, 18, "record_counter", 1)
  <2>1. \A k \in 1..13 : def[k].name = "record_counter" => k = 6
    BY <1>3, <1>8 DEF Skipped
  <2>2. Ends(Sizes(def))[6 - 1] = 18
    BY <1>5, <1>7
  <2>3. QED
    BY <1>1, <2>1, <2>2 DEF IsField
<1>11. IsField(def, 8, 20, "finish_time", 4)
  <2>1. \A k \in 1..13 : def[k].name = "finish_time" => k = 8
    BY <1>3, <1>8 DEF Skipped
  <2>2. Ends(Sizes(def))[8 - 1] = 20
    BY <1>5, <1>7
  <2>3. QED
    BY <1>1, <2>1, <2>2 DEF IsField
<1>12. IsField(def, 9, 24, "start_time", 4)
  <2>1. \A k \in 1..13 : def[k].name = "start_time" => k = 9
    BY <1>3, <1>8 DEF Skipped
  <2>2. Ends(Sizes(def))[9 - 1] = 24
    BY <1>5, <1>7
  <2>3. QED
    BY <1>1, <2>1, <2>2 DEF IsField
<1>13. IsField(def, 10, 28, "check_time", 4)
  <2>1. \A k \in 1..13 : def[k].name = "check_time" => k = 10
    BY <1>3, <1>8 DEF Skipped
  <2>2. Ends(Sizes(def))[10 - 1] = 28
    BY <1>5, <1>7
  <2>3. QED
    BY <1>1, <2>1, <2>2 DEF IsField
<1>14. IsField(def, 11, 32, "clear_time", 4)
  <2>1. \A k \in 1..13 : def[k].name = "clear_time" => k = 11
    BY <1>3, <1>8 DEF Skipped
  <2>2. Ends(Sizes(def))[11 - 1] = 32
    BY <1>5, <1>7
  <2>3. QED
    BY <1>1, <2>1, <2>2 DEF IsField
<1>15. IsField(def, 13, 40, "start_no", 4)
  <2>1. \A k \in 1..13 : def[k].name = "start_no" => k = 13
    BY <1>3, <1>8 DEF Skipped
  <2>2. Ends(Sizes(def))[13 - 1] = 40
    BY <1>5, <1>7
  <2>3. QED
    BY <1>1, <2>1, <2>2 DEF IsField
<1>16. SizeOf(def) = 44
  BY <1>1, <1>7 DEF SizeOf
<1>17. QED
  BY <1>2, <1>9, <1>10, <1>11, <1>12, <1>13, <1>14, <1>15, <1>16 DEF def

LEMMA Card8Def ==
    /\ \E P : card_8_header_def \in Seq(P)
    /\ SizeOf(card_8_header_def) = 28
    /\ IsField(card_8_header_def, 3, 8, "check_time", 4)
    /\ IsField(card_8_header_def, 4, 12, "start_time", 4)
    /\ IsField(card_8_header_def, 5, 16, "finish_time", 4)
    /\ IsField(card_8_header_def, 7, 22, "record_counter", 1)
    /\ IsField(card_8_header_def, 10, 25, "card_id", 3)
<1> DEFINE def == card_8_header_def
           P == {def[j] : j \in 1..10}
<1>1. /\ Len(def) = 10
      /\ def[1] = Part("device_uid", 4)
      /\ def[2] = Part("type_identifier", 4)
      /\ def[3] = Part("check_time", 4)
      /\ def[4] = Part("start_time", 4)
      /\ def[5] = Part("finish_time", 4)
      /\ def[6] = Part("last_visited_control", 2)
      /\ def[7] = Part("record_counter", 1)
      /\ def[8] = Part(Skipped, 1)
      /\ def[9] = Part(Skipped, 1)
      /\ def[10] = Part("card_id", 3)
  BY DEF card_8_header_def
<1>2. def \in Seq(P)
  BY DEF card_8_header_def
<1> HIDE DEF def, P
<1>3. \A j \in 1..10 : j = 1 \/ j = 2 \/ j = 3 \/ j = 4 \/ j = 5 \/ j = 6 \/ j = 7 \/ j = 8 \/ j = 9 \/ j = 10
  OBVIOUS
<1>4. HasSizes(def)
  BY <1>1, <1>3 DEF HasSizes, Part
<1>5. /\ Ends(Sizes(def))[0] = 0
      /\ \A j \in 1..10 : Ends(Sizes(def))[j] = Ends(Sizes(def))[j - 1] + def[j].size
  BY <1>1, <1>2, <1>4, SizesRun
<1>6. /\ def[1].size = 4
      /\ def[2].size = 4
      /\ def[3].size = 4
      /\ def[4].size = 4
      /\ def[5].size = 4
      /\ def[6].size = 2
      /\ def[7].size = 1
      /\ def[8].size = 1
      /\ def[9].size = 1
      /\ def[10].size = 3
  BY <1>1 DEF Part
<1>7. /\ Ends(Sizes(def))[1] = 4
      /\ Ends(Sizes(def))[2] = 8
      /\ Ends(Sizes(def))[3] = 12
      /\ Ends(Sizes(def))[4] = 16
      /\ Ends(Sizes(def))[5] = 20
      /\ Ends(Sizes(def))[6] = 22
      /\ Ends(Sizes(def))[7] = 23
      /\ Ends(Sizes(def))[8] = 24
      /\ Ends(Sizes(def))[9] = 25
      /\ Ends(Sizes(def))[10] = 28
  BY <1>5, <1>6
<1>8. /\ def[1].name = "device_uid"
      /\ def[2].name = "type_identifier"
      /\ def[3].name = "check_time"
      /\ def[4].name = "start_time"
      /\ def[5].name = "finish_time"
      /\ def[6].name = "last_visited_control"
      /\ def[7].name = "record_counter"
      /\ def[8].name = Skipped
      /\ def[9].name = Skipped
      /\ def[10].name = "card_id"
  BY <1>1 DEF Part
<1>9. IsField(def, 3, 8, "check_time", 4)
  <2>1. \A k \in 1..10 : def[k].name = "check_time" => k = 3
    BY <1>3, <1>8 DEF Skipped
  <2>2. Ends(Sizes(def))[3 - 1] = 8
    BY <1>5, <1>7
  <2>3. QED
    BY <1>1, <2>1, <2>2 DEF IsField
<1>10. IsField(def, 4, 12, "start_time", 4)
  <2>1. \A k \in 1..10 : def[k].name = "start_time" => k = 4
    BY <1>3, <1>8 DEF Skipped
  <2>2. Ends(Sizes(def))[4 - 1] = 12
    BY <1>5, <1>7
  <2>3. QED
    BY <1>1, <2>1, <2>2 DEF IsField
<1>11. IsField(def, 5, 16, "finish_time", 4)
  <2>1. \A k \in 1..10 : def[k].name = "finish_time" => k = 5
    BY <1>3, <1>8 DEF Skipped
  <2>2. Ends(Sizes(def))[5 - 1] = 16
    BY <1>5, <1>7
  <2>3. QED
    BY <1>1, <2>1, <2>2 DEF IsField
<1>12. IsField(def, 7, 22, "record_counter", 1)
  <2>1. \A k \in 1..10 : def[k].name = "record_counter" => k = 7
    BY <1>3, <1>8 DEF Skipped
  <2>2. Ends(Sizes(def))[7 - 1] = 22
    BY <1>5, <1>7
  <2>3. QED
    BY <1>1, <2>1, <2>2 DEF IsField
<1>13. IsField(def, 10, 25, "card_id", 3)
  <2>1. \A k \in 1..10 : def[k].name = "card_id" => k = 10
    BY <1>3, <1>8 DEF Skipped
  <2>2. Ends(Sizes(def))[10 - 1] = 25
    BY <1>5, <1>7
  <2>3. QED
    BY <1>1, <2>1, <2>2 DEF IsField
<1>14. SizeOf(def) = 28
  BY <1>1, <1>7 DEF SizeOf
<1>15. QED
  BY <1>2, <1>9, <1>10, <1>11, <1>12, <1>13, <1>14 DEF def

-----------------------------------------------------------------------------
(***************************************************************************)
(* The bytes of a card image, put one behind the other.                    *)
(***************************************************************************)
LEMMA JoinTwo ==
    ASSUME NEW a, NEW b, NEW c
    PROVE  <<a>> \o <<b, c>> = <<a, b, c>>
<1> DEFINE S == {a, b, c}
           s == <<a>>
           t == <<b, c>>
<1>1. s \in Seq(S) /\ t \in Seq(S) /\ Len(s) = 1 /\ Len(t) = 2 /\ s[1] = a /\ t[1] = b /\ t[2] = c
  OBVIOUS
<1> HIDE DEF s, t, S
<1>2. /\ s \o t \in Seq(S) /\ Len(s \o t) = Len(s) + Len(t)
      /\ \A k \in 1..Len(s) + Len(t) : (s \o t)[k] = IF k <= Len(s) THEN s[k] ELSE t[k - Len(s)]
  BY <1>1, ConcatProperties
<1>3. (s \o t)[1] = a /\ (s \o t)[2] = b /\ (s \o t)[3] = c
  BY <1>1, <1>2
<1>4. <<a, b, c>> \in Seq(S) /\ Len(<<a, b, c>>) = 3
  BY DEF S
<1>5. \A k \in 1..3 : k = 1 \/ k = 2 \/ k = 3
  OBVIOUS
<1>6. \A k \in 1..Len(s \o t) : (s \o t)[k] = <<a, b, c>>[k]
  BY <1>1, <1>2, <1>3, <1>5
<1> DEFINE u == <<a, b, c>>
<1>7. s \o t = u
  <2>1. u \in Seq(S) /\ Len(u) = 3 /\ \A k \in 1..Len(s \o t) : (s \o t)[k] = u[k]
    BY <1>4, <1>6
  <2> HIDE DEF u
  <2>2. Len(s \o t) = Len(u)
    BY <1>1, <1>2, <2>1
  <2>3. QED
    BY <1>2, <2>1, <2>2, SeqEqual
<1>8. QED
  BY <1>7 DEF s, t

LEMMA JoinThree ==
    ASSUME NEW a, NEW b, NEW c, NEW d
    PROVE  <<a>> \o <<b, c, d>> = <<a, b, c, d>>
<1> DEFINE S == {a, b, c, d}
           s == <<a>>
           t == <<b, c, d>>
<1>1. s \in Seq(S) /\ t \in Seq(S) /\ Len(s) = 1 /\ Len(t) = 3 /\ s[1] = a /\ t[1] = b /\ t[2] = c /\ t[3] = d
  OBVIOUS
<1> HIDE DEF s, t, S
<1>2. /\ s \o t \in Seq(S) /\ Len(s \o t) = Len(s) + Len(t)
      /\ \A k \in 1..Len(s) + Len(t) : (s \o t)[k] = IF k <= Len(s) THEN s[k] ELSE t[k - Len(s)]
  BY <1>1, ConcatProperties
<1>3. (s \o t)[1] = a /\ (s \o t)[2] = b /\ (s \o t)[3] = c /\ (s \o t)[4] = d
  BY <1>1, <1>2
<1>4. <<a, b, c, d>> \in Seq(S) /\ Len(<<a, b, c, d>>) = 4
  BY DEF S
<1>5. \A k \in 1..4 : k = 1 \/ k = 2 \/ k = 3 \/ k = 4
  OBVIOUS
<1>6. \A k \in 1..Len(s \o t) : (s \o t)[k] = <<a, b, c, d>>[k]
  BY <1>1, <1>2, <1>3, <1>5
<1> DEFINE u == <<a, b, c, d>>
<1>7. s \o t = u
  <2>1. u \in Seq(S) /\ Len(u) = 4 /\ \A k \in 1..Len(s \o t) : (s \o t)[k] = u[k]
    BY <1>4, <1>6
  <2> HIDE DEF u
  <2>2. Len(s \o t) = Len(u)
    BY <1>1, <1>2, <2>1
  <2>3. QED
    BY <1>2, <2>1, <2>2, SeqEqual
<1>8. QED
  BY <1>7 DEF s, t

LEMMA JoinPairs ==
    ASSUME NEW a, NEW b, NEW c, NEW d
    PROVE  <<a, b>> \o <<c, d>> = <<a, b, c, d>>
<1> DEFINE S == {a, b, c, d}
           s == <<a, b>>
           t == <<c, d>>
<1>1. s \in Seq(S) /\ t \in Seq(S) /\ Len(s) = 2 /\ Len(t) = 2 /\ s[1] = a /\ s[2] = b /\ t[1] = c /\ t[2] = d
  OBVIOUS
<1> HIDE DEF s, t, S
<1>2. /\ s \o t \in Seq(S) /\ Len(s \o t) = Len(s) + Len(t)
      /\ \A k \in 1..Len(s) + Len(t) : (s \o t)[k] = IF k <= Len(s) THEN s[k] ELSE t[k - Len(s)]
  BY <1>1, ConcatProperties
<1>3. (s \o t)[1] = a /\ (s \o t)[2] = b /\ (s \o t)[3] = c /\ (s \o t)[4] = d
  BY <1>1, <1>2
<1>4. <<a, b, c, d>> \in Seq(S) /\ Len(<<a, b, c, d>>) = 4
  BY DEF S
<1>5. \A k \in 1..4 : k = 1 \/ k = 2 \/ k = 3 \/ k = 4
  OBVIOUS
<1>6. \A k \in 1..Len(s \o t) : (s \o t)[k] = <<a, b, c, d>>[k]
  BY <1>1, <1>2, <1>3, <1>5
<1> DEFINE u == <<a, b, c, d>>
<1>7. s \o t = u
  <2>1. u \in Seq(S) /\ Len(u) = 4 /\ \A k \in 1..Len(s \o t) : (s \o t)[k] = u[k]
    BY <1>4, <1>6
  <2> HIDE DEF u
  <2>2. Len(s \o t) = Len(u)
    BY <1>1, <1>2, <2>1
  <2>3. QED
    BY <1>2, <2>1, <2>2, SeqEqual
<1>8. QED
  BY <1>7 DEF s, t

\* The number n has these two bytes, or these three.
IsTwo(n, a, b) == IsByte(a) /\ IsByte(b) /\ (n < 65536 => 256 * a + b = n)
IsThree(n, a, b, c) == /\ IsByte(a) /\ IsByte(b) /\ IsByte(c)
                       /\ n < 16777216 => 65536 * a + 256 * b + c = n

LEMMA TwoBytesValue ==
    ASSUME NEW n \in Nat
    PROVE  \E a, b : TwoBytes(n) = <<a, b>> /\ IsTwo(n, a, b) /\ IsByte(a) /\ IsByte(b)
<1> DEFINE a == (n \div 256) % 256
           b == n % 256
<1>1. TwoBytes(n) = <<a, b>>
  BY DEF TwoBytes
<1>2. IsTwo(n, a, b) /\ IsByte(a) /\ IsByte(b)
  BY SMT DEF IsTwo, IsByte
<1>3. QED
  BY <1>1, <1>2

LEMMA ThreeBytesValue ==
    ASSUME NEW n \in Nat
    PROVE  \E a, b, c : /\ ThreeBytes(n) = <<a, b, c>> /\ IsThree(n, a, b, c)
                        /\ IsByte(a) /\ IsByte(b) /\ IsByte(c)
<1> DEFINE a == (n \div 65536) % 256
           b == (n \div 256) % 256
           c == n % 256
<1>1. ThreeBytes(n) = <<a, b, c>>
  BY JoinTwo DEF ThreeBytes, TwoBytes
<1>2. IsThree(n, a, b, c) /\ IsByte(a) /\ IsByte(b) /\ IsByte(c)
  BY SMT DEF IsThree, IsByte
<1>3. QED
  BY <1>1, <1>2

\* The header field f and the others have no byte in common.
Alone(c, f) == \A g \in HeaderField(c) : \/ g = f
                                         \/ g[1] + Len(g[2]) <= f[1]
                                         \/ f[1] + Len(f[2]) <= g[1]

LEMMA FieldByte ==
    ASSUME NEW c, NEW f \in HeaderField(c), f[1] \in Nat, Len(f[2]) \in Nat, NEW i \in 1..Len(f[2]),
           \A g \in HeaderField(c) : g[1] \in Nat /\ Len(g[2]) \in Nat,
           Alone(c, f), ~InPunches(c, f[1] + i - 1)
    PROVE  ByteAt(c, 0, f[1] + i - 1) = f[2][i]
<1> DEFINE address == BlockSize * 0 + (f[1] + i - 1)
           field == {g \in HeaderField(c) : address \in g[1]..(g[1] + Len(g[2]) - 1)}
<1>1. address = f[1] + i - 1 /\ address \in Int
  BY DEF BlockSize
<1>2. f \in field
  BY <1>1
<1>3. ASSUME NEW g \in field
      PROVE  g = f
  <2>1. g \in HeaderField(c) /\ g[1] <= address /\ address <= g[1] + Len(g[2]) - 1
    BY <1>1
  <2>2. ~(g[1] + Len(g[2]) <= f[1]) /\ ~(f[1] + Len(f[2]) <= g[1])
    BY <1>1, <2>1
  <2>3. QED
    BY <2>1, <2>2 DEF Alone
<1>4. (CHOOSE g \in field : TRUE) = f /\ field # {}
  BY <1>2, <1>3
<1>5. address - f[1] + 1 = i
  BY <1>1
<1>6. ~InPunches(c, address)
  BY <1>1
<1> HIDE DEF address
<1>7. ByteAt(c, 0, f[1] + i - 1) = f[2][address - f[1] + 1]
  BY <1>4, <1>6 DEF ByteAt, address
<1>8. QED
  BY <1>5, <1>7

-----------------------------------------------------------------------------
(***************************************************************************)
(* The times of a header, from their bytes.                                *)
(***************************************************************************)
\* The four bytes of the header that the time t is put into.
AreStamp(b, t) ==
    IF t.sec = NoTime THEN b[1] = 238 /\ b[2] = 238 /\ b[3] = 238 /\ b[4] = 238
    ELSE /\ IF t.sub = NoSub THEN b[1] < 64 /\ b[2] = 7 ELSE b[1] \div 64 = 2 /\ b[2] = t.sub
         /\ 256 * b[3] + b[4] = t.sec % HalfDay

LEMMA TimeType ==
    ASSUME NEW t \in Time
    PROVE  t.sec \in Nat /\ t.sec <= 86400 /\ t.sub \in Nat /\ t.sub <= 256
<1>1. t.sec \in 0..NoTime /\ t.sub \in 0..NoSub
  BY DEF Time
<1>2. NoTime = 86400 /\ NoSub = 256
  BY SMT DEF NoTime, NoSub
<1>3. \A x, n : n \in Nat /\ x \in 0..n => x \in Nat /\ x <= n
  OBVIOUS
<1>4. NoTime \in Nat /\ NoSub \in Nat
  BY <1>2, SMT
<1>5. t.sec \in Nat /\ t.sec <= NoTime /\ t.sub \in Nat /\ t.sub <= NoSub
  BY <1>1, <1>3, <1>4
<1>6. QED
  BY <1>2, <1>5, SMT

LEMMA StampBytes ==
    ASSUME NEW t \in Time
    PROVE  \E a, b, c, d : /\ Stamp(t) = <<a, b, c, d>>
                           /\ IsByte(a) /\ IsByte(b) /\ IsByte(c) /\ IsByte(d)
                           /\ AreStamp(<<a, b, c, d>>, t)
<1>1. t.sec \in Nat /\ t.sec <= 86400 /\ t.sub \in Nat /\ t.sub <= 256
  BY TimeType
<1>2. CASE t.sec = NoTime
  <2>1. Stamp(t) = <<238, 238, 238, 238>>
    BY <1>2 DEF Stamp
  <2>2. IsByte(238)
    BY DEF IsByte
  <2>3. AreStamp(<<238, 238, 238, 238>>, t)
    BY <1>2 DEF AreStamp
  <2>4. QED
    BY <2>1, <2>2, <2>3
<1>3. CASE t.sec # NoTime
  <2> DEFINE a == (IF t.sub = NoSub THEN 0 ELSE 128) + 36 + Afternoon(t.sec)
             b == IF t.sub = NoSub THEN 7 ELSE t.sub
             n == t.sec % HalfDay
  <2>1. n \in Nat /\ n < 43200
    BY <1>1 DEF HalfDay
  <2>2. Afternoon(t.sec) \in {0, 1}
    BY DEF Afternoon
  <2>3. IsByte(a) /\ IsByte(b) /\ (IF t.sub = NoSub THEN a < 64 ELSE a \div 64 = 2)
    BY <1>1, <2>2 DEF IsByte, NoSub
  <2>4. Stamp(t) = <<a, b>> \o TwoBytes(n)
    BY <1>3 DEF Stamp
  <2>5. b = IF t.sub = NoSub THEN 7 ELSE t.sub
    OBVIOUS
  <2> HIDE DEF a, b, n
  <2>6. PICK c, d : TwoBytes(n) = <<c, d>> /\ IsTwo(n, c, d) /\ IsByte(c) /\ IsByte(d)
    BY <2>1, TwoBytesValue
  <2>7. 256 * c + d = t.sec % HalfDay
    BY <2>1, <2>6, SMT DEF n, IsTwo
  <2>8. Stamp(t) = <<a, b, c, d>>
    BY <2>4, <2>6, JoinPairs
  <2>9. AreStamp(<<a, b, c, d>>, t)
    BY <1>3, <2>3, <2>5, <2>7, SMT DEF AreStamp
  <2>10. IsByte(a) /\ IsByte(b) /\ IsByte(c) /\ IsByte(d)
    BY <2>3, <2>6
  <2>11. QED
    BY <2>8, <2>9, <2>10, Zenon
<1>4. QED
  BY <1>2, <1>3

\* The duration time of s seconds and a 256th sub, and how far it is behind them.
IsDuration(time, s, sub) == time = s * 1000 + (sub * 1000) \div 256
IsBehind(time, sub) == LET behind == 1000 * sub - 256 * (time % 1000)
                       IN 0 <= behind /\ behind < 256

LEMMA DurationParts ==
    ASSUME NEW s \in Nat, NEW sub \in Nat, sub < 256, NEW time, IsDuration(time, s, sub)
    PROVE  time \in Nat /\ time \div 1000 = s /\ IsBehind(time, sub)
<1> DEFINE part == (sub * 1000) \div 256
<1>1. part \in Nat /\ part < 1000 /\ 256 * part <= 1000 * sub /\ 1000 * sub < 256 * part + 256
  BY SMT
<1>2. time = s * 1000 + part
  BY DEF IsDuration
<1> HIDE DEF part
<1>3. time \in Nat /\ time \div 1000 = s /\ time % 1000 = part
  BY <1>1, <1>2, SMT
<1>4. IsBehind(time, sub)
  BY <1>1, <1>3, SMT DEF IsBehind
<1>5. QED
  BY <1>3, <1>4

LEMMA TimeBuilt ==
    ASSUME NEW t \in Time, t.sec # NoTime, NEW got, NEW sub, sub = NoSub \/ (sub \in Nat /\ sub < 256),
           IsDuration(got.time, t.sec % HalfDay, IF sub = NoSub THEN 0 ELSE sub),
           got.sub = (sub # NoSub)
    PROVE  IsTime(got, t, sub) /\ got.time \in Nat
<1> DEFINE s == t.sec % HalfDay
           part == IF sub = NoSub THEN 0 ELSE sub
           time == got.time
<1>1. s \in Nat
  BY TimeType, SMT DEF HalfDay
<1>2. IsDuration(time, s, part)
  OBVIOUS
<1>3. part \in Nat /\ part < 256
  OBVIOUS
<1> HIDE DEF s, part, time
<1>4. time \in Nat /\ time \div 1000 = s /\ IsBehind(time, part)
  BY <1>1, <1>2, <1>3, DurationParts
<1>5. /\ got.time \div 1000 = t.sec % HalfDay
      /\ LET behind == 1000 * part - 256 * (got.time % 1000)
         IN 0 <= behind /\ behind < 256
  BY <1>4 DEF IsBehind, s, time
<1>6. IsTime(got, t, sub)
  BY <1>5 DEF IsTime, part
<1>7. QED
  BY <1>4, <1>6 DEF time

\* What read makes of four bytes.
LEMMA HeaderTimeIs ==
    ASSUME NEW t \in Time, NEW b, AreBytes(b, 4), AreStamp(b, t)
    PROVE  IsTime(HeaderTime(b), t, NoSub) /\ IsTime(HeaderTimeWithSubSecond(b), t, t.sub)
<1> DEFINE control == ReadBits(punch_4bytes_type, b, "control_number")
           time == ReadBits(punch_4bytes_type, b, "time_12h")
           plain == HeaderTime(b)
           full == HeaderTimeWithSubSecond(b)
<1>1. t.sec \in Nat /\ t.sec <= 86400 /\ t.sub \in Nat /\ t.sub <= 256
  BY TimeType
<1>2. IsByte(b[1]) /\ IsByte(b[2]) /\ IsByte(b[3]) /\ IsByte(b[4])
  BY DEF AreBytes
<1>3. control = 256 * (b[1] \div 64) + b[2] /\ time = 256 * b[3] + b[4]
  BY FourBytesValues
<1>4. plain.time = GetDuration(time, 0) /\ plain.sub = FALSE
  BY DEF HeaderTime
<1>5. /\ control \div 512 = 0 => full = plain
      /\ control \div 512 # 0 => full.time = GetDuration(time, control % 256) /\ full.sub = TRUE
  BY DEF HeaderTimeWithSubSecond
<1> HIDE DEF control, time, plain, full
<1>6. CASE t.sec = NoTime
  <2>1. time = 61166
    BY <1>3, <1>6 DEF AreStamp
  <2>2. GetDuration(time, 0) = NotADateTime /\ GetDuration(time, control % 256) = NotADateTime
    BY <2>1 DEF GetDuration
  <2>3. plain.time = NotADateTime /\ full.time = NotADateTime
    BY <1>4, <1>5, <2>2
  <2>4. QED
    BY <1>6, <2>3 DEF IsTime, plain, full
<1>7. CASE t.sec # NoTime
  <2> DEFINE s == t.sec % HalfDay
  <2>1. time = s /\ s \in Nat /\ s < 43200
    BY <1>1, <1>2, <1>3, <1>7 DEF AreStamp, HalfDay
  <2> HIDE DEF s
  <2>2. IsDuration(GetDuration(time, 0), s, 0) /\ IsDuration(GetDuration(time, t.sub), s, t.sub)
    BY <1>1, <2>1, SMT DEF GetDuration, IsDuration
  <2>3. IsTime(plain, t, NoSub)
    BY <1>4, <1>7, <2>2, TimeBuilt DEF s
  <2>4. CASE t.sub = NoSub
    <3>1. control \div 512 = 0
      BY <1>2, <1>3, <1>7, <2>4, SMT DEF AreStamp, IsByte
    <3>2. QED
      BY <1>5, <2>3, <2>4, <3>1 DEF plain, full
  <2>5. CASE t.sub # NoSub
    <3>1. t.sub \in Nat /\ t.sub < 256
      BY <1>1, <2>5 DEF NoSub
    <3>2. control \div 512 # 0 /\ control % 256 = t.sub
      BY <1>1, <1>2, <1>3, <1>7, <2>5, <3>1, SMT DEF AreStamp, IsByte
    <3>3. full.time = GetDuration(time, t.sub) /\ full.sub = TRUE
      BY <1>5, <3>2
    <3>4. IsTime(full, t, t.sub)
      BY <1>7, <2>2, <2>5, <3>1, <3>3, TimeBuilt DEF s
    <3>5. QED
      BY <2>3, <3>4 DEF plain, full
  <2>6. QED
    BY <2>4, <2>5
<1>8. QED
  BY <1>6, <1>7

\* The two bytes of a card_5.
AreShort(b, t) == IF t.sec = NoTime THEN b[1] = 238 /\ b[2] = 238 ELSE 256 * b[1] + b[2] = t.sec % HalfDay

LEMMA ShortStampBytes ==
    ASSUME NEW t \in Time
    PROVE  \E a, b : /\ ShortStamp(t) = <<a, b>> /\ IsByte(a) /\ IsByte(b) /\ AreShort(<<a, b>>, t)
<1>1. t.sec \in Nat /\ t.sec <= 86400
  BY TimeType
<1>2. CASE t.sec = NoTime
  BY <1>2 DEF ShortStamp, IsByte, AreShort
<1>3. CASE t.sec # NoTime
  <2> DEFINE n == t.sec % HalfDay
  <2>1. n \in Nat /\ n < 65536
    BY <1>1, SMT DEF HalfDay
  <2>2. ShortStamp(t) = TwoBytes(n)
    BY <1>3 DEF ShortStamp
  <2> HIDE DEF n
  <2>3. PICK a, b : TwoBytes(n) = <<a, b>> /\ IsTwo(n, a, b) /\ IsByte(a) /\ IsByte(b)
    BY <2>1, TwoBytesValue
  <2>4. 256 * a + b = n
    BY <2>1, <2>3, SMT DEF IsTwo
  <2>5. AreShort(<<a, b>>, t)
    BY <1>3, <2>4 DEF AreShort, n
  <2>6. QED
    BY <2>2, <2>3, <2>5
<1>4. QED
  BY <1>2, <1>3

LEMMA ShortTimeIs ==
    ASSUME NEW t \in Time, NEW n, AreShort(<<n \div 256, n % 256>>, t), n \in Nat
    PROVE  IsTime([time |-> GetDuration(n, 0), sub |-> FALSE], t, NoSub)
<1>1. t.sec \in Nat /\ t.sec <= 86400
  BY TimeType
<1>2. CASE t.sec = NoTime
  <2>1. n \div 256 = 238 /\ n % 256 = 238
    BY <1>2 DEF AreShort
  <2>2. n = 61166
    BY <2>1, SMT
  <2>3. QED
    BY <1>2, <2>2 DEF IsTime, GetDuration
<1>3. CASE t.sec # NoTime
  <2> DEFINE s == t.sec % HalfDay
  <2>1. s \in Nat /\ s < 43200
    BY <1>1, SMT DEF HalfDay
  <2>2. 256 * (n \div 256) + (n % 256) = s
    BY <1>3 DEF AreShort
  <2> HIDE DEF s
  <2>3. n = s
    BY <2>1, <2>2, SMT
  <2>4. IsDuration(GetDuration(n, 0), s, 0)
    BY <2>1, <2>3, SMT DEF GetDuration, IsDuration
  <2> DEFINE got == [time |-> GetDuration(n, 0), sub |-> FALSE]
  <2>5. got.time = GetDuration(n, 0) /\ got.sub = FALSE
    OBVIOUS
  <2> HIDE DEF got
  <2>6. QED
    BY <1>3, <2>4, <2>5, TimeBuilt DEF got, s
<1>4. QED
  BY <1>2, <1>3

-----------------------------------------------------------------------------
(***************************************************************************)
(* Where the fields of each header stand in block 0.                       *)
(***************************************************************************)
\* v is n bytes.
IsBytes(v, n) == Len(v) = n /\ AreBytes(v, n)

LEMMA HeaderParts ==
    ASSUME NEW n \in Nat, NEW t \in Time, NEW x, IsByte(x)
    PROVE  /\ IsBytes(TwoBytes(n), 2) /\ IsBytes(<<x>> \o ThreeBytes(n), 4)
           /\ IsBytes(<<0, 0>> \o TwoBytes(n), 4)
           /\ IsBytes(Stamp(t), 4) /\ IsBytes(ShortStamp(t), 2) /\ IsBytes(<<x>>, 1)
<1>1. /\ \A k \in 1..1 : k = 1
      /\ \A k \in 1..2 : k = 1 \/ k = 2
      /\ \A k \in 1..4 : k = 1 \/ k = 2 \/ k = 3 \/ k = 4
  OBVIOUS
<1>2. ASSUME NEW a, NEW b, IsByte(a), IsByte(b)
      PROVE  IsBytes(<<a, b>>, 2)
  BY <1>1, <1>2 DEF IsBytes, AreBytes
<1>3. ASSUME NEW a, NEW b, NEW c, NEW d, IsByte(a), IsByte(b), IsByte(c), IsByte(d)
      PROVE  IsBytes(<<a, b, c, d>>, 4)
  BY <1>1, <1>3 DEF IsBytes, AreBytes
<1>4. IsByte(0)
  BY DEF IsByte
<1>5. IsBytes(TwoBytes(n), 2) /\ IsBytes(<<0, 0>> \o TwoBytes(n), 4)
  <2>1. PICK a, b : TwoBytes(n) = <<a, b>> /\ IsByte(a) /\ IsByte(b)
    BY TwoBytesValue
  <2>2. <<0, 0>> \o TwoBytes(n) = <<0, 0, a, b>>
    BY <2>1, JoinPairs
  <2>3. QED
    BY <1>2, <1>3, <1>4, <2>1, <2>2
<1>6. IsBytes(<<x>> \o ThreeBytes(n), 4)
  <2>1. PICK a, b, c : ThreeBytes(n) = <<a, b, c>> /\ IsByte(a) /\ IsByte(b) /\ IsByte(c)
    BY ThreeBytesValue
  <2>2. <<x>> \o ThreeBytes(n) = <<x, a, b, c>>
    BY <2>1, JoinThree
  <2>3. QED
    BY <1>3, <2>1, <2>2
<1>7. IsBytes(Stamp(t), 4)
  BY <1>3, StampBytes
<1>8. IsBytes(ShortStamp(t), 2)
  BY <1>2, ShortStampBytes
<1>9. IsBytes(<<x>>, 1)
  BY <1>1 DEF IsBytes, AreBytes
<1>10. QED
  BY <1>5, <1>6, <1>7, <1>8, <1>9

LEMMA ContentType ==
    ASSUME NEW c \in Content
    PROVE  /\ c.type \in KnownCard \cup {OtherCard} /\ c.count \in Nat /\ c.count <= 192
           /\ c.number \in Nat /\ IsByte(c.serie) /\ c.start_no \in Nat
           /\ c.start \in Time /\ c.finish \in Time /\ c.check \in Time /\ c.clear \in Time
           /\ c.first \in Nat /\ c.step \in Nat
<1>1. /\ c.type \in KnownCard \cup {OtherCard} /\ c.count \in 0..192 /\ c.serie \in 0..255
      /\ c.number \in Nat /\ c.start_no \in Nat
      /\ c.start \in Time /\ c.finish \in Time /\ c.check \in Time /\ c.clear \in Time
      /\ c.first \in Nat /\ c.step \in Nat
  BY DEF Content
<1>2. c.count \in Nat /\ c.count <= 192 /\ IsByte(c.serie)
  BY <1>1 DEF IsByte
<1>3. QED
  BY <1>1, <1>2

\* In front of the punches.
InHeader(c, address) == address \in Nat /\ address < (IF c.type = "card_6" THEN 256 ELSE 32)

LEMMA NoPunchInHeader ==
    ASSUME NEW c \in Content, NEW address, InHeader(c, address)
    PROVE  ~InPunches(c, address)
<1>1. c.type \in KnownCard \cup {OtherCard}
  BY ContentType
<1>2. c.type \in {"card_8", "card_9", "card_p", "card_t", "card_15"} => FirstPunch[c.type] >= 32
  BY DEF FirstPunch
<1> DEFINE first == CASE c.type = "card_5" -> 32
                      [] c.type = "card_6" -> 256
                      [] c.type = OtherCard -> 8 * BlockSize
                      [] OTHER -> FirstPunch[c.type]
<1>3. first >= (IF c.type = "card_6" THEN 256 ELSE 32)
  BY <1>1, <1>2 DEF KnownCard, OtherCard, BlockSize
<1>4. first \in Int
  BY <1>1 DEF KnownCard, OtherCard, BlockSize, FirstPunch
<1> HIDE DEF first
<1>5. ~(address >= first)
  BY <1>3, <1>4 DEF InHeader
<1>6. QED
  BY <1>5 DEF InPunches, first

\* The size bytes of v stand in block 0 behind the first a.
Holds(c, a, v, size) == /\ a \in Nat /\ size \in Nat
                        /\ \A i \in 1..size : ByteAt(c, 0, a + i - 1) = v[i] /\ IsByte(v[i])

InFront(c, a, size) == a \in Nat /\ size \in Nat /\ a + size <= (IF c.type = "card_6" THEN 256 ELSE 32)

LEMMA FieldHolds ==
    ASSUME NEW c \in Content, NEW a, NEW v, NEW size, <<a, v>> \in HeaderField(c), IsBytes(v, size),
           InFront(c, a, size), Alone(c, <<a, v>>),
           \A g \in HeaderField(c) : g[1] \in Nat /\ Len(g[2]) \in Nat
    PROVE  Holds(c, a, v, size)
<1> DEFINE f == <<a, v>>
<1>1. f[1] = a /\ f[2] = v /\ f \in HeaderField(c) /\ Alone(c, f)
  OBVIOUS
<1> HIDE DEF f
<1>2. a \in Nat /\ size \in Nat /\ Len(v) = size
  BY DEF InFront, IsBytes
<1>3. ASSUME NEW i \in 1..size
      PROVE  ByteAt(c, 0, a + i - 1) = v[i]
  <2>1. InHeader(c, a + i - 1)
    BY <1>2, <1>3 DEF InFront, InHeader
  <2>2. ~InPunches(c, a + i - 1)
    BY <2>1, NoPunchInHeader
  <2>3. i \in 1..Len(f[2]) /\ f[1] \in Nat /\ Len(f[2]) \in Nat /\ ~InPunches(c, f[1] + i - 1)
    BY <1>1, <1>2, <1>3, <2>2
  <2>4. ByteAt(c, 0, f[1] + i - 1) = f[2][i]
    BY <1>1, <2>3, FieldByte
  <2>5. QED
    BY <1>1, <2>4
<1>4. QED
  BY <1>2, <1>3 DEF Holds, IsBytes, AreBytes

LEMMA Card5Holds ==
    ASSUME NEW c \in Content, c.type = "card_5"
    PROVE  /\ Holds(c, 4, TwoBytes(c.number), 2)
           /\ Holds(c, 6, <<c.serie>>, 1)
           /\ Holds(c, 17, TwoBytes(c.start_no), 2)
           /\ Holds(c, 19, ShortStamp(c.start), 2)
           /\ Holds(c, 21, ShortStamp(c.finish), 2)
           /\ Holds(c, 23, <<c.count + 1>>, 1)
           /\ Holds(c, 25, ShortStamp(c.check), 2)
<1> DEFINE v1 == TwoBytes(c.number)
           v2 == <<c.serie>>
           v3 == TwoBytes(c.start_no)
           v4 == ShortStamp(c.start)
           v5 == ShortStamp(c.finish)
           v6 == <<c.count + 1>>
           v7 == ShortStamp(c.check)
<1>1. /\ c.number \in Nat /\ c.start_no \in Nat /\ IsByte(c.serie)
      /\ c.start \in Time /\ c.finish \in Time /\ c.check \in Time /\ c.clear \in Time
  BY ContentType
<1>2. IsByte(c.count) /\ IsByte(c.count + 1)
  BY ContentType DEF IsByte
<1>3. IsByte(0)
  BY DEF IsByte
<1>4. /\ IsBytes(v1, 2)
      /\ IsBytes(v2, 1)
      /\ IsBytes(v3, 2)
      /\ IsBytes(v4, 2)
      /\ IsBytes(v5, 2)
      /\ IsBytes(v6, 1)
      /\ IsBytes(v7, 2)
  BY <1>1, <1>2, <1>3, HeaderParts
<1>5. HeaderField(c) = {<<4, v1>>, <<6, v2>>, <<17, v3>>, <<19, v4>>, <<21, v5>>, <<23, v6>>, <<25, v7>>}
  BY DEF HeaderField
<1> HIDE DEF v1, v2, v3, v4, v5, v6, v7
<1>6. /\ Len(v1) = 2
      /\ Len(v2) = 1
      /\ Len(v3) = 2
      /\ Len(v4) = 2
      /\ Len(v5) = 2
      /\ Len(v6) = 1
      /\ Len(v7) = 2
  BY <1>4 DEF IsBytes
<1>7. ASSUME NEW g \in HeaderField(c)
      PROVE  \/ g = <<4, v1>> /\ g[1] = 4 /\ Len(g[2]) = 2
             \/ g = <<6, v2>> /\ g[1] = 6 /\ Len(g[2]) = 1
             \/ g = <<17, v3>> /\ g[1] = 17 /\ Len(g[2]) = 2
             \/ g = <<19, v4>> /\ g[1] = 19 /\ Len(g[2]) = 2
             \/ g = <<21, v5>> /\ g[1] = 21 /\ Len(g[2]) = 2
             \/ g = <<23, v6>> /\ g[1] = 23 /\ Len(g[2]) = 1
             \/ g = <<25, v7>> /\ g[1] = 25 /\ Len(g[2]) = 2
  BY <1>5, <1>6
<1>8. \A g \in HeaderField(c) : g[1] \in Nat /\ Len(g[2]) \in Nat
  BY <1>7
<1>9. Holds(c, 4, v1, 2)
  <2> DEFINE f == <<4, v1>>
  <2>1. f \in HeaderField(c) /\ f[1] = 4 /\ Len(f[2]) = 2
    BY <1>5, <1>6
  <2> HIDE DEF f
  <2>2. Alone(c, f)
    <3> SUFFICES ASSUME NEW g \in HeaderField(c)
                 PROVE  g = f \/ g[1] + Len(g[2]) <= f[1] \/ f[1] + Len(f[2]) <= g[1]
      BY DEF Alone
    <3>1. \/ g = f
          \/ g[1] = 6 /\ Len(g[2]) = 1
          \/ g[1] = 17 /\ Len(g[2]) = 2
          \/ g[1] = 19 /\ Len(g[2]) = 2
          \/ g[1] = 21 /\ Len(g[2]) = 2
          \/ g[1] = 23 /\ Len(g[2]) = 1
          \/ g[1] = 25 /\ Len(g[2]) = 2
      BY <1>7, Zenon DEF f
    <3> DEFINE from == g[1]
               size == Len(g[2])
    <3>2. g = f \/ from + size <= 4 \/ 6 <= from
      <4> HIDE DEF from, size
      <4>1. \/ g = f
            \/ from = 6 /\ size = 1
            \/ from = 17 /\ size = 2
            \/ from = 19 /\ size = 2
            \/ from = 21 /\ size = 2
            \/ from = 23 /\ size = 1
            \/ from = 25 /\ size = 2
        BY <3>1 DEF from, size
      <4>2. QED
        BY <4>1
    <3>3. QED
      BY <2>1, <3>2
  <2>3. InFront(c, 4, 2)
    BY DEF InFront
  <2>4. QED
    BY <1>4, <1>8, <2>1, <2>2, <2>3, FieldHolds DEF f
<1>10. Holds(c, 6, v2, 1)
  <2> DEFINE f == <<6, v2>>
  <2>1. f \in HeaderField(c) /\ f[1] = 6 /\ Len(f[2]) = 1
    BY <1>5, <1>6
  <2> HIDE DEF f
  <2>2. Alone(c, f)
    <3> SUFFICES ASSUME NEW g \in HeaderField(c)
                 PROVE  g = f \/ g[1] + Len(g[2]) <= f[1] \/ f[1] + Len(f[2]) <= g[1]
      BY DEF Alone
    <3>1. \/ g[1] = 4 /\ Len(g[2]) = 2
          \/ g = f
          \/ g[1] = 17 /\ Len(g[2]) = 2
          \/ g[1] = 19 /\ Len(g[2]) = 2
          \/ g[1] = 21 /\ Len(g[2]) = 2
          \/ g[1] = 23 /\ Len(g[2]) = 1
          \/ g[1] = 25 /\ Len(g[2]) = 2
      BY <1>7, Zenon DEF f
    <3> DEFINE from == g[1]
               size == Len(g[2])
    <3>2. g = f \/ from + size <= 6 \/ 7 <= from
      <4> HIDE DEF from, size
      <4>1. \/ from = 4 /\ size = 2
            \/ g = f
            \/ from = 17 /\ size = 2
            \/ from = 19 /\ size = 2
            \/ from = 21 /\ size = 2
            \/ from = 23 /\ size = 1
            \/ from = 25 /\ size = 2
        BY <3>1 DEF from, size
      <4>2. QED
        BY <4>1
    <3>3. QED
      BY <2>1, <3>2
  <2>3. InFront(c, 6, 1)
    BY DEF InFront
  <2>4. QED
    BY <1>4, <1>8, <2>1, <2>2, <2>3, FieldHolds DEF f
<1>11. Holds(c, 17, v3, 2)
  <2> DEFINE f == <<17, v3>>
  <2>1. f \in HeaderField(c) /\ f[1] = 17 /\ Len(f[2]) = 2
    BY <1>5, <1>6
  <2> HIDE DEF f
  <2>2. Alone(c, f)
    <3> SUFFICES ASSUME NEW g \in HeaderField(c)
                 PROVE  g = f \/ g[1] + Len(g[2]) <= f[1] \/ f[1] + Len(f[2]) <= g[1]
      BY DEF Alone
    <3>1. \/ g[1] = 4 /\ Len(g[2]) = 2
          \/ g[1] = 6 /\ Len(g[2]) = 1
          \/ g = f
          \/ g[1] = 19 /\ Len(g[2]) = 2
          \/ g[1] = 21 /\ Len(g[2]) = 2
          \/ g[1] = 23 /\ Len(g[2]) = 1
          \/ g[1] = 25 /\ Len(g[2]) = 2
      BY <1>7, Zenon DEF f
    <3> DEFINE from == g[1]
               size == Len(g[2])
    <3>2. g = f \/ from + size <= 17 \/ 19 <= from
      <4> HIDE DEF from, size
      <4>1. \/ from = 4 /\ size = 2
            \/ from = 6 /\ size = 1
            \/ g = f
            \/ from = 19 /\ size = 2
            \/ from = 21 /\ size = 2
            \/ from = 23 /\ size = 1
            \/ from = 25 /\ size = 2
        BY <3>1 DEF from, size
      <4>2. QED
        BY <4>1
    <3>3. QED
      BY <2>1, <3>2
  <2>3. InFront(c, 17, 2)
    BY DEF InFront
  <2>4. QED
    BY <1>4, <1>8, <2>1, <2>2, <2>3, FieldHolds DEF f
<1>12. Holds(c, 19, v4, 2)
  <2> DEFINE f == <<19, v4>>
  <2>1. f \in HeaderField(c) /\ f[1] = 19 /\ Len(f[2]) = 2
    BY <1>5, <1>6
  <2> HIDE DEF f
  <2>2. Alone(c, f)
    <3> SUFFICES ASSUME NEW g \in HeaderField(c)
                 PROVE  g = f \/ g[1] + Len(g[2]) <= f[1] \/ f[1] + Len(f[2]) <= g[1]
      BY DEF Alone
    <3>1. \/ g[1] = 4 /\ Len(g[2]) = 2
          \/ g[1] = 6 /\ Len(g[2]) = 1
          \/ g[1] = 17 /\ Len(g[2]) = 2
          \/ g = f
          \/ g[1] = 21 /\ Len(g[2]) = 2
          \/ g[1] = 23 /\ Len(g[2]) = 1
          \/ g[1] = 25 /\ Len(g[2]) = 2
      BY <1>7, Zenon DEF f
    <3> DEFINE from == g[1]
               size == Len(g[2])
    <3>2. g = f \/ from + size <= 19 \/ 21 <= from
      <4> HIDE DEF from, size
      <4>1. \/ from = 4 /\ size = 2
            \/ from = 6 /\ size = 1
            \/ from = 17 /\ size = 2
            \/ g = f
            \/ from = 21 /\ size = 2
            \/ from = 23 /\ size = 1
            \/ from = 25 /\ size = 2
        BY <3>1 DEF from, size
      <4>2. QED
        BY <4>1
    <3>3. QED
      BY <2>1, <3>2
  <2>3. InFront(c, 19, 2)
    BY DEF InFront
  <2>4. QED
    BY <1>4, <1>8, <2>1, <2>2, <2>3, FieldHolds DEF f
<1>13. Holds(c, 21, v5, 2)
  <2> DEFINE f == <<21, v5>>
  <2>1. f \in HeaderField(c) /\ f[1] = 21 /\ Len(f[2]) = 2
    BY <1>5, <1>6
  <2> HIDE DEF f
  <2>2. Alone(c, f)
    <3> SUFFICES ASSUME NEW g \in HeaderField(c)
                 PROVE  g = f \/ g[1] + Len(g[2]) <= f[1] \/ f[1] + Len(f[2]) <= g[1]
      BY DEF Alone
    <3>1. \/ g[1] = 4 /\ Len(g[2]) = 2
          \/ g[1] = 6 /\ Len(g[2]) = 1
          \/ g[1] = 17 /\ Len(g[2]) = 2
          \/ g[1] = 19 /\ Len(g[2]) = 2
          \/ g = f
          \/ g[1] = 23 /\ Len(g[2]) = 1
          \/ g[1] = 25 /\ Len(g[2]) = 2
      BY <1>7, Zenon DEF f
    <3> DEFINE from == g[1]
               size == Len(g[2])
    <3>2. g = f \/ from + size <= 21 \/ 23 <= from
      <4> HIDE DEF from, size
      <4>1. \/ from = 4 /\ size = 2
            \/ from = 6 /\ size = 1
            \/ from = 17 /\ size = 2
            \/ from = 19 /\ size = 2
            \/ g = f
            \/ from = 23 /\ size = 1
            \/ from = 25 /\ size = 2
        BY <3>1 DEF from, size
      <4>2. QED
        BY <4>1
    <3>3. QED
      BY <2>1, <3>2
  <2>3. InFront(c, 21, 2)
    BY DEF InFront
  <2>4. QED
    BY <1>4, <1>8, <2>1, <2>2, <2>3, FieldHolds DEF f
<1>14. Holds(c, 23, v6, 1)
  <2> DEFINE f == <<23, v6>>
  <2>1. f \in HeaderField(c) /\ f[1] = 23 /\ Len(f[2]) = 1
    BY <1>5, <1>6
  <2> HIDE DEF f
  <2>2. Alone(c, f)
    <3> SUFFICES ASSUME NEW g \in HeaderField(c)
                 PROVE  g = f \/ g[1] + Len(g[2]) <= f[1] \/ f[1] + Len(f[2]) <= g[1]
      BY DEF Alone
    <3>1. \/ g[1] = 4 /\ Len(g[2]) = 2
          \/ g[1] = 6 /\ Len(g[2]) = 1
          \/ g[1] = 17 /\ Len(g[2]) = 2
          \/ g[1] = 19 /\ Len(g[2]) = 2
          \/ g[1] = 21 /\ Len(g[2]) = 2
          \/ g = f
          \/ g[1] = 25 /\ Len(g[2]) = 2
      BY <1>7, Zenon DEF f
    <3> DEFINE from == g[1]
               size == Len(g[2])
    <3>2. g = f \/ from + size <= 23 \/ 24 <= from
      <4> HIDE DEF from, size
      <4>1. \/ from = 4 /\ size = 2
            \/ from = 6 /\ size = 1
            \/ from = 17 /\ size = 2
            \/ from = 19 /\ size = 2
            \/ from = 21 /\ size = 2
            \/ g = f
            \/ from = 25 /\ size = 2
        BY <3>1 DEF from, size
      <4>2. QED
        BY <4>1
    <3>3. QED
      BY <2>1, <3>2
  <2>3. InFront(c, 23, 1)
    BY DEF InFront
  <2>4. QED
    BY <1>4, <1>8, <2>1, <2>2, <2>3, FieldHolds DEF f
<1>15. Holds(c, 25, v7, 2)
  <2> DEFINE f == <<25, v7>>
  <2>1. f \in HeaderField(c) /\ f[1] = 25 /\ Len(f[2]) = 2
    BY <1>5, <1>6
  <2> HIDE DEF f
  <2>2. Alone(c, f)
    <3> SUFFICES ASSUME NEW g \in HeaderField(c)
                 PROVE  g = f \/ g[1] + Len(g[2]) <= f[1] \/ f[1] + Len(f[2]) <= g[1]
      BY DEF Alone
    <3>1. \/ g[1] = 4 /\ Len(g[2]) = 2
          \/ g[1] = 6 /\ Len(g[2]) = 1
          \/ g[1] = 17 /\ Len(g[2]) = 2
          \/ g[1] = 19 /\ Len(g[2]) = 2
          \/ g[1] = 21 /\ Len(g[2]) = 2
          \/ g[1] = 23 /\ Len(g[2]) = 1
          \/ g = f
      BY <1>7, Zenon DEF f
    <3> DEFINE from == g[1]
               size == Len(g[2])
    <3>2. g = f \/ from + size <= 25 \/ 27 <= from
      <4> HIDE DEF from, size
      <4>1. \/ from = 4 /\ size = 2
            \/ from = 6 /\ size = 1
            \/ from = 17 /\ size = 2
            \/ from = 19 /\ size = 2
            \/ from = 21 /\ size = 2
            \/ from = 23 /\ size = 1
            \/ g = f
        BY <3>1 DEF from, size
      <4>2. QED
        BY <4>1
    <3>3. QED
      BY <2>1, <3>2
  <2>3. InFront(c, 25, 2)
    BY DEF InFront
  <2>4. QED
    BY <1>4, <1>8, <2>1, <2>2, <2>3, FieldHolds DEF f
<1>16. QED
  BY <1>9, <1>10, <1>11, <1>12, <1>13, <1>14, <1>15 DEF v1, v2, v3, v4, v5, v6, v7

LEMMA Card6Holds ==
    ASSUME NEW c \in Content, c.type = "card_6"
    PROVE  /\ Holds(c, 10, << 0 >> \o ThreeBytes(c.number), 4)
           /\ Holds(c, 18, <<c.count>>, 1)
           /\ Holds(c, 20, Stamp(c.finish), 4)
           /\ Holds(c, 24, Stamp(c.start), 4)
           /\ Holds(c, 28, Stamp(c.check), 4)
           /\ Holds(c, 32, Stamp(c.clear), 4)
           /\ Holds(c, 40, <<0, 0>> \o TwoBytes(c.start_no), 4)
<1> DEFINE v1 == << 0 >> \o ThreeBytes(c.number)
           v2 == <<c.count>>
           v3 == Stamp(c.finish)
           v4 == Stamp(c.start)
           v5 == Stamp(c.check)
           v6 == Stamp(c.clear)
           v7 == <<0, 0>> \o TwoBytes(c.start_no)
<1>1. /\ c.number \in Nat /\ c.start_no \in Nat /\ IsByte(c.serie)
      /\ c.start \in Time /\ c.finish \in Time /\ c.check \in Time /\ c.clear \in Time
  BY ContentType
<1>2. IsByte(c.count) /\ IsByte(c.count + 1)
  BY ContentType DEF IsByte
<1>3. IsByte(0)
  BY DEF IsByte
<1>4. /\ IsBytes(v1, 4)
      /\ IsBytes(v2, 1)
      /\ IsBytes(v3, 4)
      /\ IsBytes(v4, 4)
      /\ IsBytes(v5, 4)
      /\ IsBytes(v6, 4)
      /\ IsBytes(v7, 4)
  BY <1>1, <1>2, <1>3, HeaderParts
<1>5. HeaderField(c) = {<<10, v1>>, <<18, v2>>, <<20, v3>>, <<24, v4>>, <<28, v5>>, <<32, v6>>, <<40, v7>>}
  BY DEF HeaderField
<1> HIDE DEF v1, v2, v3, v4, v5, v6, v7
<1>6. /\ Len(v1) = 4
      /\ Len(v2) = 1
      /\ Len(v3) = 4
      /\ Len(v4) = 4
      /\ Len(v5) = 4
      /\ Len(v6) = 4
      /\ Len(v7) = 4
  BY <1>4 DEF IsBytes
<1>7. ASSUME NEW g \in HeaderField(c)
      PROVE  \/ g = <<10, v1>> /\ g[1] = 10 /\ Len(g[2]) = 4
             \/ g = <<18, v2>> /\ g[1] = 18 /\ Len(g[2]) = 1
             \/ g = <<20, v3>> /\ g[1] = 20 /\ Len(g[2]) = 4
             \/ g = <<24, v4>> /\ g[1] = 24 /\ Len(g[2]) = 4
             \/ g = <<28, v5>> /\ g[1] = 28 /\ Len(g[2]) = 4
             \/ g = <<32, v6>> /\ g[1] = 32 /\ Len(g[2]) = 4
             \/ g = <<40, v7>> /\ g[1] = 40 /\ Len(g[2]) = 4
  BY <1>5, <1>6
<1>8. \A g \in HeaderField(c) : g[1] \in Nat /\ Len(g[2]) \in Nat
  BY <1>7
<1>9. Holds(c, 10, v1, 4)
  <2> DEFINE f == <<10, v1>>
  <2>1. f \in HeaderField(c) /\ f[1] = 10 /\ Len(f[2]) = 4
    BY <1>5, <1>6
  <2> HIDE DEF f
  <2>2. Alone(c, f)
    <3> SUFFICES ASSUME NEW g \in HeaderField(c)
                 PROVE  g = f \/ g[1] + Len(g[2]) <= f[1] \/ f[1] + Len(f[2]) <= g[1]
      BY DEF Alone
    <3>1. \/ g = f
          \/ g[1] = 18 /\ Len(g[2]) = 1
          \/ g[1] = 20 /\ Len(g[2]) = 4
          \/ g[1] = 24 /\ Len(g[2]) = 4
          \/ g[1] = 28 /\ Len(g[2]) = 4
          \/ g[1] = 32 /\ Len(g[2]) = 4
          \/ g[1] = 40 /\ Len(g[2]) = 4
      BY <1>7, Zenon DEF f
    <3> DEFINE from == g[1]
               size == Len(g[2])
    <3>2. g = f \/ from + size <= 10 \/ 14 <= from
      <4> HIDE DEF from, size
      <4>1. \/ g = f
            \/ from = 18 /\ size = 1
            \/ from = 20 /\ size = 4
            \/ from = 24 /\ size = 4
            \/ from = 28 /\ size = 4
            \/ from = 32 /\ size = 4
            \/ from = 40 /\ size = 4
        BY <3>1 DEF from, size
      <4>2. QED
        BY <4>1
    <3>3. QED
      BY <2>1, <3>2
  <2>3. InFront(c, 10, 4)
    BY DEF InFront
  <2>4. QED
    BY <1>4, <1>8, <2>1, <2>2, <2>3, FieldHolds DEF f
<1>10. Holds(c, 18, v2, 1)
  <2> DEFINE f == <<18, v2>>
  <2>1. f \in HeaderField(c) /\ f[1] = 18 /\ Len(f[2]) = 1
    BY <1>5, <1>6
  <2> HIDE DEF f
  <2>2. Alone(c, f)
    <3> SUFFICES ASSUME NEW g \in HeaderField(c)
                 PROVE  g = f \/ g[1] + Len(g[2]) <= f[1] \/ f[1] + Len(f[2]) <= g[1]
      BY DEF Alone
    <3>1. \/ g[1] = 10 /\ Len(g[2]) = 4
          \/ g = f
          \/ g[1] = 20 /\ Len(g[2]) = 4
          \/ g[1] = 24 /\ Len(g[2]) = 4
          \/ g[1] = 28 /\ Len(g[2]) = 4
          \/ g[1] = 32 /\ Len(g[2]) = 4
          \/ g[1] = 40 /\ Len(g[2]) = 4
      BY <1>7, Zenon DEF f
    <3> DEFINE from == g[1]
               size == Len(g[2])
    <3>2. g = f \/ from + size <= 18 \/ 19 <= from
      <4> HIDE DEF from, size
      <4>1. \/ from = 10 /\ size = 4
            \/ g = f
            \/ from = 20 /\ size = 4
            \/ from = 24 /\ size = 4
            \/ from = 28 /\ size = 4
            \/ from = 32 /\ size = 4
            \/ from = 40 /\ size = 4
        BY <3>1 DEF from, size
      <4>2. QED
        BY <4>1
    <3>3. QED
      BY <2>1, <3>2
  <2>3. InFront(c, 18, 1)
    BY DEF InFront
  <2>4. QED
    BY <1>4, <1>8, <2>1, <2>2, <2>3, FieldHolds DEF f
<1>11. Holds(c, 20, v3, 4)
  <2> DEFINE f == <<20, v3>>
  <2>1. f \in HeaderField(c) /\ f[1] = 20 /\ Len(f[2]) = 4
    BY <1>5, <1>6
  <2> HIDE DEF f
  <2>2. Alone(c, f)
    <3> SUFFICES ASSUME NEW g \in HeaderField(c)
                 PROVE  g = f \/ g[1] + Len(g[2]) <= f[1] \/ f[1] + Len(f[2]) <= g[1]
      BY DEF Alone
    <3>1. \/ g[1] = 10 /\ Len(g[2]) = 4
          \/ g[1] = 18 /\ Len(g[2]) = 1
          \/ g = f
          \/ g[1] = 24 /\ Len(g[2]) = 4
          \/ g[1] = 28 /\ Len(g[2]) = 4
          \/ g[1] = 32 /\ Len(g[2]) = 4
          \/ g[1] = 40 /\ Len(g[2]) = 4
      BY <1>7, Zenon DEF f
    <3> DEFINE from == g[1]
               size == Len(g[2])
    <3>2. g = f \/ from + size <= 20 \/ 24 <= from
      <4> HIDE DEF from, size
      <4>1. \/ from = 10 /\ size = 4
            \/ from = 18 /\ size = 1
            \/ g = f
            \/ from = 24 /\ size = 4
            \/ from = 28 /\ size = 4
            \/ from = 32 /\ size = 4
            \/ from = 40 /\ size = 4
        BY <3>1 DEF from, size
      <4>2. QED
        BY <4>1
    <3>3. QED
      BY <2>1, <3>2
  <2>3. InFront(c, 20, 4)
    BY DEF InFront
  <2>4. QED
    BY <1>4, <1>8, <2>1, <2>2, <2>3, FieldHolds DEF f
<1>12. Holds(c, 24, v4, 4)
  <2> DEFINE f == <<24, v4>>
  <2>1. f \in HeaderField(c) /\ f[1] = 24 /\ Len(f[2]) = 4
    BY <1>5, <1>6
  <2> HIDE DEF f
  <2>2. Alone(c, f)
    <3> SUFFICES ASSUME NEW g \in HeaderField(c)
                 PROVE  g = f \/ g[1] + Len(g[2]) <= f[1] \/ f[1] + Len(f[2]) <= g[1]
      BY DEF Alone
    <3>1. \/ g[1] = 10 /\ Len(g[2]) = 4
          \/ g[1] = 18 /\ Len(g[2]) = 1
          \/ g[1] = 20 /\ Len(g[2]) = 4
          \/ g = f
          \/ g[1] = 28 /\ Len(g[2]) = 4
          \/ g[1] = 32 /\ Len(g[2]) = 4
          \/ g[1] = 40 /\ Len(g[2]) = 4
      BY <1>7, Zenon DEF f
    <3> DEFINE from == g[1]
               size == Len(g[2])
    <3>2. g = f \/ from + size <= 24 \/ 28 <= from
      <4> HIDE DEF from, size
      <4>1. \/ from = 10 /\ size = 4
            \/ from = 18 /\ size = 1
            \/ from = 20 /\ size = 4
            \/ g = f
            \/ from = 28 /\ size = 4
            \/ from = 32 /\ size = 4
            \/ from = 40 /\ size = 4
        BY <3>1 DEF from, size
      <4>2. QED
        BY <4>1
    <3>3. QED
      BY <2>1, <3>2
  <2>3. InFront(c, 24, 4)
    BY DEF InFront
  <2>4. QED
    BY <1>4, <1>8, <2>1, <2>2, <2>3, FieldHolds DEF f
<1>13. Holds(c, 28, v5, 4)
  <2> DEFINE f == <<28, v5>>
  <2>1. f \in HeaderField(c) /\ f[1] = 28 /\ Len(f[2]) = 4
    BY <1>5, <1>6
  <2> HIDE DEF f
  <2>2. Alone(c, f)
    <3> SUFFICES ASSUME NEW g \in HeaderField(c)
                 PROVE  g = f \/ g[1] + Len(g[2]) <= f[1] \/ f[1] + Len(f[2]) <= g[1]
      BY DEF Alone
    <3>1. \/ g[1] = 10 /\ Len(g[2]) = 4
          \/ g[1] = 18 /\ Len(g[2]) = 1
          \/ g[1] = 20 /\ Len(g[2]) = 4
          \/ g[1] = 24 /\ Len(g[2]) = 4
          \/ g = f
          \/ g[1] = 32 /\ Len(g[2]) = 4
          \/ g[1] = 40 /\ Len(g[2]) = 4
      BY <1>7, Zenon DEF f
    <3> DEFINE from == g[1]
               size == Len(g[2])
    <3>2. g = f \/ from + size <= 28 \/ 32 <= from
      <4> HIDE DEF from, size
      <4>1. \/ from = 10 /\ size = 4
            \/ from = 18 /\ size = 1
            \/ from = 20 /\ size = 4
            \/ from = 24 /\ size = 4
            \/ g = f
            \/ from = 32 /\ size = 4
            \/ from = 40 /\ size = 4
        BY <3>1 DEF from, size
      <4>2. QED
        BY <4>1
    <3>3. QED
      BY <2>1, <3>2
  <2>3. InFront(c, 28, 4)
    BY DEF InFront
  <2>4. QED
    BY <1>4, <1>8, <2>1, <2>2, <2>3, FieldHolds DEF f
<1>14. Holds(c, 32, v6, 4)
  <2> DEFINE f == <<32, v6>>
  <2>1. f \in HeaderField(c) /\ f[1] = 32 /\ Len(f[2]) = 4
    BY <1>5, <1>6
  <2> HIDE DEF f
  <2>2. Alone(c, f)
    <3> SUFFICES ASSUME NEW g \in HeaderField(c)
                 PROVE  g = f \/ g[1] + Len(g[2]) <= f[1] \/ f[1] + Len(f[2]) <= g[1]
      BY DEF Alone
    <3>1. \/ g[1] = 10 /\ Len(g[2]) = 4
          \/ g[1] = 18 /\ Len(g[2]) = 1
          \/ g[1] = 20 /\ Len(g[2]) = 4
          \/ g[1] = 24 /\ Len(g[2]) = 4
          \/ g[1] = 28 /\ Len(g[2]) = 4
          \/ g = f
          \/ g[1] = 40 /\ Len(g[2]) = 4
      BY <1>7, Zenon DEF f
    <3> DEFINE from == g[1]
               size == Len(g[2])
    <3>2. g = f \/ from + size <= 32 \/ 36 <= from
      <4> HIDE DEF from, size
      <4>1. \/ from = 10 /\ size = 4
            \/ from = 18 /\ size = 1
            \/ from = 20 /\ size = 4
            \/ from = 24 /\ size = 4
            \/ from = 28 /\ size = 4
            \/ g = f
            \/ from = 40 /\ size = 4
        BY <3>1 DEF from, size
      <4>2. QED
        BY <4>1
    <3>3. QED
      BY <2>1, <3>2
  <2>3. InFront(c, 32, 4)
    BY DEF InFront
  <2>4. QED
    BY <1>4, <1>8, <2>1, <2>2, <2>3, FieldHolds DEF f
<1>15. Holds(c, 40, v7, 4)
  <2> DEFINE f == <<40, v7>>
  <2>1. f \in HeaderField(c) /\ f[1] = 40 /\ Len(f[2]) = 4
    BY <1>5, <1>6
  <2> HIDE DEF f
  <2>2. Alone(c, f)
    <3> SUFFICES ASSUME NEW g \in HeaderField(c)
                 PROVE  g = f \/ g[1] + Len(g[2]) <= f[1] \/ f[1] + Len(f[2]) <= g[1]
      BY DEF Alone
    <3>1. \/ g[1] = 10 /\ Len(g[2]) = 4
          \/ g[1] = 18 /\ Len(g[2]) = 1
          \/ g[1] = 20 /\ Len(g[2]) = 4
          \/ g[1] = 24 /\ Len(g[2]) = 4
          \/ g[1] = 28 /\ Len(g[2]) = 4
          \/ g[1] = 32 /\ Len(g[2]) = 4
          \/ g = f
      BY <1>7, Zenon DEF f
    <3> DEFINE from == g[1]
               size == Len(g[2])
    <3>2. g = f \/ from + size <= 40 \/ 44 <= from
      <4> HIDE DEF from, size
      <4>1. \/ from = 10 /\ size = 4
            \/ from = 18 /\ size = 1
            \/ from = 20 /\ size = 4
            \/ from = 24 /\ size = 4
            \/ from = 28 /\ size = 4
            \/ from = 32 /\ size = 4
            \/ g = f
        BY <3>1 DEF from, size
      <4>2. QED
        BY <4>1
    <3>3. QED
      BY <2>1, <3>2
  <2>3. InFront(c, 40, 4)
    BY DEF InFront
  <2>4. QED
    BY <1>4, <1>8, <2>1, <2>2, <2>3, FieldHolds DEF f
<1>16. QED
  BY <1>9, <1>10, <1>11, <1>12, <1>13, <1>14, <1>15 DEF v1, v2, v3, v4, v5, v6, v7

LEMMA Card8Holds ==
    ASSUME NEW c \in Content, c.type \notin {"card_5", "card_6"}
    PROVE  /\ Holds(c, 8, Stamp(c.check), 4)
           /\ Holds(c, 12, Stamp(c.start), 4)
           /\ Holds(c, 16, Stamp(c.finish), 4)
           /\ Holds(c, 22, <<c.count>>, 1)
           /\ Holds(c, 24, <<Serie[c.type]>> \o ThreeBytes(c.number), 4)
<1> DEFINE v1 == Stamp(c.check)
           v2 == Stamp(c.start)
           v3 == Stamp(c.finish)
           v4 == <<c.count>>
           v5 == <<Serie[c.type]>> \o ThreeBytes(c.number)
<1>1. /\ c.number \in Nat /\ c.start_no \in Nat /\ IsByte(c.serie)
      /\ c.start \in Time /\ c.finish \in Time /\ c.check \in Time /\ c.clear \in Time
  BY ContentType
<1>2. IsByte(c.count) /\ IsByte(c.count + 1)
  BY ContentType DEF IsByte
<1>3. IsByte(Serie[c.type])
  BY ContentType DEF IsByte, Serie, KnownCard, OtherCard
<1>4. /\ IsBytes(v1, 4)
      /\ IsBytes(v2, 4)
      /\ IsBytes(v3, 4)
      /\ IsBytes(v4, 1)
      /\ IsBytes(v5, 4)
  BY <1>1, <1>2, <1>3, HeaderParts
<1>5. HeaderField(c) = {<<8, v1>>, <<12, v2>>, <<16, v3>>, <<22, v4>>, <<24, v5>>}
  BY DEF HeaderField
<1> HIDE DEF v1, v2, v3, v4, v5
<1>6. /\ Len(v1) = 4
      /\ Len(v2) = 4
      /\ Len(v3) = 4
      /\ Len(v4) = 1
      /\ Len(v5) = 4
  BY <1>4 DEF IsBytes
<1>7. ASSUME NEW g \in HeaderField(c)
      PROVE  \/ g = <<8, v1>> /\ g[1] = 8 /\ Len(g[2]) = 4
             \/ g = <<12, v2>> /\ g[1] = 12 /\ Len(g[2]) = 4
             \/ g = <<16, v3>> /\ g[1] = 16 /\ Len(g[2]) = 4
             \/ g = <<22, v4>> /\ g[1] = 22 /\ Len(g[2]) = 1
             \/ g = <<24, v5>> /\ g[1] = 24 /\ Len(g[2]) = 4
  BY <1>5, <1>6
<1>8. \A g \in HeaderField(c) : g[1] \in Nat /\ Len(g[2]) \in Nat
  BY <1>7
<1>9. Holds(c, 8, v1, 4)
  <2> DEFINE f == <<8, v1>>
  <2>1. f \in HeaderField(c) /\ f[1] = 8 /\ Len(f[2]) = 4
    BY <1>5, <1>6
  <2> HIDE DEF f
  <2>2. Alone(c, f)
    <3> SUFFICES ASSUME NEW g \in HeaderField(c)
                 PROVE  g = f \/ g[1] + Len(g[2]) <= f[1] \/ f[1] + Len(f[2]) <= g[1]
      BY DEF Alone
    <3>1. \/ g = f
          \/ g[1] = 12 /\ Len(g[2]) = 4
          \/ g[1] = 16 /\ Len(g[2]) = 4
          \/ g[1] = 22 /\ Len(g[2]) = 1
          \/ g[1] = 24 /\ Len(g[2]) = 4
      BY <1>7, Zenon DEF f
    <3> DEFINE from == g[1]
               size == Len(g[2])
    <3>2. g = f \/ from + size <= 8 \/ 12 <= from
      <4> HIDE DEF from, size
      <4>1. \/ g = f
            \/ from = 12 /\ size = 4
            \/ from = 16 /\ size = 4
            \/ from = 22 /\ size = 1
            \/ from = 24 /\ size = 4
        BY <3>1 DEF from, size
      <4>2. QED
        BY <4>1
    <3>3. QED
      BY <2>1, <3>2
  <2>3. InFront(c, 8, 4)
    BY DEF InFront
  <2>4. QED
    BY <1>4, <1>8, <2>1, <2>2, <2>3, FieldHolds DEF f
<1>10. Holds(c, 12, v2, 4)
  <2> DEFINE f == <<12, v2>>
  <2>1. f \in HeaderField(c) /\ f[1] = 12 /\ Len(f[2]) = 4
    BY <1>5, <1>6
  <2> HIDE DEF f
  <2>2. Alone(c, f)
    <3> SUFFICES ASSUME NEW g \in HeaderField(c)
                 PROVE  g = f \/ g[1] + Len(g[2]) <= f[1] \/ f[1] + Len(f[2]) <= g[1]
      BY DEF Alone
    <3>1. \/ g[1] = 8 /\ Len(g[2]) = 4
          \/ g = f
          \/ g[1] = 16 /\ Len(g[2]) = 4
          \/ g[1] = 22 /\ Len(g[2]) = 1
          \/ g[1] = 24 /\ Len(g[2]) = 4
      BY <1>7, Zenon DEF f
    <3> DEFINE from == g[1]
               size == Len(g[2])
    <3>2. g = f \/ from + size <= 12 \/ 16 <= from
      <4> HIDE DEF from, size
      <4>1. \/ from = 8 /\ size = 4
            \/ g = f
            \/ from = 16 /\ size = 4
            \/ from = 22 /\ size = 1
            \/ from = 24 /\ size = 4
        BY <3>1 DEF from, size
      <4>2. QED
        BY <4>1
    <3>3. QED
      BY <2>1, <3>2
  <2>3. InFront(c, 12, 4)
    BY DEF InFront
  <2>4. QED
    BY <1>4, <1>8, <2>1, <2>2, <2>3, FieldHolds DEF f
<1>11. Holds(c, 16, v3, 4)
  <2> DEFINE f == <<16, v3>>
  <2>1. f \in HeaderField(c) /\ f[1] = 16 /\ Len(f[2]) = 4
    BY <1>5, <1>6
  <2> HIDE DEF f
  <2>2. Alone(c, f)
    <3> SUFFICES ASSUME NEW g \in HeaderField(c)
                 PROVE  g = f \/ g[1] + Len(g[2]) <= f[1] \/ f[1] + Len(f[2]) <= g[1]
      BY DEF Alone
    <3>1. \/ g[1] = 8 /\ Len(g[2]) = 4
          \/ g[1] = 12 /\ Len(g[2]) = 4
          \/ g = f
          \/ g[1] = 22 /\ Len(g[2]) = 1
          \/ g[1] = 24 /\ Len(g[2]) = 4
      BY <1>7, Zenon DEF f
    <3> DEFINE from == g[1]
               size == Len(g[2])
    <3>2. g = f \/ from + size <= 16 \/ 20 <= from
      <4> HIDE DEF from, size
      <4>1. \/ from = 8 /\ size = 4
            \/ from = 12 /\ size = 4
            \/ g = f
            \/ from = 22 /\ size = 1
            \/ from = 24 /\ size = 4
        BY <3>1 DEF from, size
      <4>2. QED
        BY <4>1
    <3>3. QED
      BY <2>1, <3>2
  <2>3. InFront(c, 16, 4)
    BY DEF InFront
  <2>4. QED
    BY <1>4, <1>8, <2>1, <2>2, <2>3, FieldHolds DEF f
<1>12. Holds(c, 22, v4, 1)
  <2> DEFINE f == <<22, v4>>
  <2>1. f \in HeaderField(c) /\ f[1] = 22 /\ Len(f[2]) = 1
    BY <1>5, <1>6
  <2> HIDE DEF f
  <2>2. Alone(c, f)
    <3> SUFFICES ASSUME NEW g \in HeaderField(c)
                 PROVE  g = f \/ g[1] + Len(g[2]) <= f[1] \/ f[1] + Len(f[2]) <= g[1]
      BY DEF Alone
    <3>1. \/ g[1] = 8 /\ Len(g[2]) = 4
          \/ g[1] = 12 /\ Len(g[2]) = 4
          \/ g[1] = 16 /\ Len(g[2]) = 4
          \/ g = f
          \/ g[1] = 24 /\ Len(g[2]) = 4
      BY <1>7, Zenon DEF f
    <3> DEFINE from == g[1]
               size == Len(g[2])
    <3>2. g = f \/ from + size <= 22 \/ 23 <= from
      <4> HIDE DEF from, size
      <4>1. \/ from = 8 /\ size = 4
            \/ from = 12 /\ size = 4
            \/ from = 16 /\ size = 4
            \/ g = f
            \/ from = 24 /\ size = 4
        BY <3>1 DEF from, size
      <4>2. QED
        BY <4>1
    <3>3. QED
      BY <2>1, <3>2
  <2>3. InFront(c, 22, 1)
    BY DEF InFront
  <2>4. QED
    BY <1>4, <1>8, <2>1, <2>2, <2>3, FieldHolds DEF f
<1>13. Holds(c, 24, v5, 4)
  <2> DEFINE f == <<24, v5>>
  <2>1. f \in HeaderField(c) /\ f[1] = 24 /\ Len(f[2]) = 4
    BY <1>5, <1>6
  <2> HIDE DEF f
  <2>2. Alone(c, f)
    <3> SUFFICES ASSUME NEW g \in HeaderField(c)
                 PROVE  g = f \/ g[1] + Len(g[2]) <= f[1] \/ f[1] + Len(f[2]) <= g[1]
      BY DEF Alone
    <3>1. \/ g[1] = 8 /\ Len(g[2]) = 4
          \/ g[1] = 12 /\ Len(g[2]) = 4
          \/ g[1] = 16 /\ Len(g[2]) = 4
          \/ g[1] = 22 /\ Len(g[2]) = 1
          \/ g = f
      BY <1>7, Zenon DEF f
    <3> DEFINE from == g[1]
               size == Len(g[2])
    <3>2. g = f \/ from + size <= 24 \/ 28 <= from
      <4> HIDE DEF from, size
      <4>1. \/ from = 8 /\ size = 4
            \/ from = 12 /\ size = 4
            \/ from = 16 /\ size = 4
            \/ from = 22 /\ size = 1
            \/ g = f
        BY <3>1 DEF from, size
      <4>2. QED
        BY <4>1
    <3>3. QED
      BY <2>1, <3>2
  <2>3. InFront(c, 24, 4)
    BY DEF InFront
  <2>4. QED
    BY <1>4, <1>8, <2>1, <2>2, <2>3, FieldHolds DEF f
<1>14. QED
  BY <1>9, <1>10, <1>11, <1>12, <1>13 DEF v1, v2, v3, v4, v5

-----------------------------------------------------------------------------
(***************************************************************************)
(* What read makes of the bytes of a field.                                *)
(***************************************************************************)
\* The bytes b are those of v.
Carries(b, v, size) == /\ b \in Seq(Nat) /\ Len(b) = size /\ AreBytes(b, size)
                       /\ \A i \in 1..size : b[i] = v[i]

FitsIn(a, size, n) == n \in Nat /\ a + size <= n

LEMMA SliceCarries ==
    ASSUME NEW c, NEW a, NEW v, NEW size, Holds(c, a, v, size), NEW n, FitsIn(a, size, n),
           NEW b, IsSlice(b, BytesAt(c, 0, 0, n), a, size)
    PROVE  Carries(b, v, size)
<1> DEFINE data == BytesAt(c, 0, 0, n)
<1>1. a \in Nat /\ size \in Nat /\ n \in Nat /\ a + size <= n
  BY DEF Holds, FitsIn
<1>2. ASSUME NEW k \in 1..n
      PROVE  data[k] = ByteAt(c, 0, 0 + k - 1)
  BY <1>2 DEF BytesAt
<1>3. ASSUME NEW i \in 1..size
      PROVE  b[i] = v[i] /\ IsByte(b[i])
  <2>1. a + i \in 1..n /\ 0 + (a + i) - 1 = a + i - 1
    BY <1>1, <1>3
  <2>2. data[a + i] = ByteAt(c, 0, a + i - 1)
    BY <1>2, <2>1
  <2>3. b[i] = data[a + i]
    BY DEF IsSlice
  <2>4. QED
    BY <2>2, <2>3 DEF Holds
<1>4. \A i \in 1..size : b[i] \in Nat
  BY <1>3 DEF IsByte
<1>5. b = [i \in 1..size |-> b[i]] /\ Len(b) = size
  BY DEF IsSlice
<1>6. b \in Seq(Nat)
  BY <1>1, <1>4, <1>5
<1>7. QED
  BY <1>3, <1>5, <1>6 DEF Carries, AreBytes

LEMMA BytesAtType ==
    ASSUME NEW c, NEW n \in Nat
    PROVE  \E S : BytesAt(c, 0, 0, n) \in Seq(S) /\ Len(BytesAt(c, 0, 0, n)) = n
<1> DEFINE S == {ByteAt(c, 0, 0 + k - 1) : k \in 1..n}
<1>1. BytesAt(c, 0, 0, n) \in [1..n -> S]
  BY DEF BytesAt
<1>2. Len(BytesAt(c, 0, 0, n)) = n
  BY DEF BytesAt
<1> DEFINE data == BytesAt(c, 0, 0, n)
<1> HIDE DEF S, data
<1>3. data \in Seq(S)
  BY <1>1 DEF data
<1>4. QED
  BY <1>2, <1>3 DEF data

LEMMA FieldCarries ==
    ASSUME NEW c, NEW P, NEW def \in Seq(P), NEW j, NEW a, NEW name, NEW size,
           IsField(def, j, a, name, size), NEW v, Holds(c, a, v, size), NEW n, FitsIn(a, size, n)
    PROVE  Carries(Taken(def, BytesAt(c, 0, 0, n), name), v, size)
<1>1. a \in Nat /\ size \in Nat /\ n \in Nat /\ a + size <= n
  BY DEF Holds, FitsIn
<1>2. PICK S : BytesAt(c, 0, 0, n) \in Seq(S) /\ Len(BytesAt(c, 0, 0, n)) = n
  BY <1>1, BytesAtType
<1>3. SlicePlace(BytesAt(c, 0, 0, n), a, size, a + 1, a + size)
  BY <1>1, <1>2 DEF SlicePlace
<1>4. IsSlice(Taken(def, BytesAt(c, 0, 0, n), name), BytesAt(c, 0, 0, n), a, size)
  BY <1>2, <1>3, TakenSlice
<1>5. QED
  BY <1>4, SliceCarries

LEMMA SubSeqCarries ==
    ASSUME NEW c, NEW a, NEW size, NEW v, Holds(c, a, v, size), NEW n, FitsIn(a, size, n),
           NEW first, NEW last, first = a + 1, last = a + size
    PROVE  Carries(SubSeq(BytesAt(c, 0, 0, n), first, last), v, size)
<1>1. a \in Nat /\ size \in Nat /\ n \in Nat /\ a + size <= n
  BY DEF Holds, FitsIn
<1>2. PICK S : BytesAt(c, 0, 0, n) \in Seq(S) /\ Len(BytesAt(c, 0, 0, n)) = n
  BY <1>1, BytesAtType
<1>3. SlicePlace(BytesAt(c, 0, 0, n), a, size, first, last)
  BY <1>1, <1>2 DEF SlicePlace
<1>4. IsSlice(SubSeq(BytesAt(c, 0, 0, n), first, last), BytesAt(c, 0, 0, n), a, size)
  BY <1>2, <1>3, SubSeqSlice
<1>5. QED
  BY <1>4, SliceCarries

\* The three bytes behind the first of four.
LEMMA TailHolds ==
    ASSUME NEW c, NEW x, NEW n \in Nat, Holds(c, 24, <<x>> \o ThreeBytes(n), 4)
    PROVE  Holds(c, 25, ThreeBytes(n), 3)
<1>1. PICK p, q, r : ThreeBytes(n) = <<p, q, r>>
  BY ThreeBytesValue
<1>2. <<x>> \o ThreeBytes(n) = <<x, p, q, r>>
  BY <1>1, JoinThree
<1> DEFINE v == <<x, p, q, r>>
           w == <<p, q, r>>
<1>3. v[2] = w[1] /\ v[3] = w[2] /\ v[4] = w[3]
  OBVIOUS
<1>4. Holds(c, 24, v, 4)
  BY <1>2
<1> HIDE DEF v, w
<1>5. \A i \in 1..4 : ByteAt(c, 0, 24 + i - 1) = v[i] /\ IsByte(v[i])
  BY <1>4 DEF Holds
<1>6. ASSUME NEW i \in 1..3
      PROVE  ByteAt(c, 0, 25 + i - 1) = w[i] /\ IsByte(w[i])
  <2>1. i + 1 \in 1..4 /\ 24 + (i + 1) - 1 = 25 + i - 1
    OBVIOUS
  <2>2. ByteAt(c, 0, 25 + i - 1) = v[i + 1] /\ IsByte(v[i + 1])
    BY <1>5, <2>1
  <2>3. v[i + 1] = w[i]
    <3>1. i = 1 \/ i = 2 \/ i = 3
      OBVIOUS
    <3>2. QED
      BY <1>3, <3>1
  <2>4. QED
    BY <2>2, <2>3
<1>7. Holds(c, 25, w, 3)
  BY <1>6 DEF Holds
<1>8. QED
  BY <1>1, <1>7 DEF w

-----------------------------------------------------------------------------
InTwo(n) == n < 65536
InThree(n) == n < 16777216

\* What read makes of the bytes of a field.
LEMMA NumberOfByte ==
    ASSUME NEW b, NEW x, Carries(b, <<x>>, 1)
    PROVE  Number(b) = x
<1>1. b \in Seq(Nat) /\ Len(b) = 1 /\ b[1] = x
  BY DEF Carries
<1>2. QED
  BY <1>1, NumberOfOne

LEMMA NumberOfTwoBytes ==
    ASSUME NEW b, NEW n \in Nat, InTwo(n), Carries(b, TwoBytes(n), 2)
    PROVE  Number(b) = n
<1>1. PICK p, q : TwoBytes(n) = <<p, q>> /\ IsTwo(n, p, q)
  BY TwoBytesValue
<1>2. b \in Seq(Nat) /\ Len(b) = 2 /\ b[1] = p /\ b[2] = q
  BY <1>1 DEF Carries
<1>3. Number(b) = 256 * b[1] + b[2]
  BY <1>2, NumberOfTwo
<1>4. QED
  BY <1>1, <1>2, <1>3, SMT DEF IsByte, IsTwo, IsThree, InTwo, InThree

LEMMA NumberOfThreeBytes ==
    ASSUME NEW b, NEW n \in Nat, InThree(n), Carries(b, ThreeBytes(n), 3)
    PROVE  Number(b) = n
<1>1. PICK p, q, r : ThreeBytes(n) = <<p, q, r>> /\ IsThree(n, p, q, r)
  BY ThreeBytesValue
<1>2. b \in Seq(Nat) /\ Len(b) = 3 /\ b[1] = p /\ b[2] = q /\ b[3] = r
  BY <1>1 DEF Carries
<1>3. Number(b) = 65536 * b[1] + 256 * b[2] + b[3]
  BY <1>2, NumberOfThree
<1>4. QED
  BY <1>1, <1>2, <1>3, SMT DEF IsByte, IsTwo, IsThree, InTwo, InThree

LEMMA NumberBehindZero ==
    ASSUME NEW b, NEW n \in Nat, InThree(n), Carries(b, << 0 >> \o ThreeBytes(n), 4)
    PROVE  Number(b) = n
<1>1. PICK p, q, r : /\ ThreeBytes(n) = <<p, q, r>> /\ IsThree(n, p, q, r)
                     /\ IsByte(p) /\ IsByte(q) /\ IsByte(r)
  BY ThreeBytesValue
<1>2. Carries(b, <<0, p, q, r>>, 4)
  BY <1>1, JoinThree
<1>3. b \in Seq(Nat) /\ Len(b) = 4 /\ b[1] = 0 /\ b[2] = p /\ b[3] = q /\ b[4] = r
  BY <1>2 DEF Carries
<1>4. Number(b) = 16777216 * b[1] + 65536 * b[2] + 256 * b[3] + b[4]
  BY <1>3, NumberOfFour
<1>5. QED
  BY <1>1, <1>3, <1>4, SMT DEF IsByte, IsTwo, IsThree, InTwo, InThree

LEMMA NumberBehindZeros ==
    ASSUME NEW b, NEW n \in Nat, InTwo(n), Carries(b, <<0, 0>> \o TwoBytes(n), 4)
    PROVE  Number(b) = n
<1>1. PICK p, q : TwoBytes(n) = <<p, q>> /\ IsTwo(n, p, q) /\ IsByte(p) /\ IsByte(q)
  BY TwoBytesValue
<1>2. Carries(b, <<0, 0, p, q>>, 4)
  BY <1>1, JoinPairs
<1>3. b \in Seq(Nat) /\ Len(b) = 4 /\ b[1] = 0 /\ b[2] = 0 /\ b[3] = p /\ b[4] = q
  BY <1>2 DEF Carries
<1>4. Number(b) = 16777216 * b[1] + 65536 * b[2] + 256 * b[3] + b[4]
  BY <1>3, NumberOfFour
<1>5. QED
  BY <1>1, <1>3, <1>4, SMT DEF IsByte, IsTwo, IsThree, InTwo, InThree

LEMMA IdSerieOf ==
    ASSUME NEW b, NEW n \in Nat, InThree(n), NEW x, Carries(b, <<x>> \o ThreeBytes(n), 4)
    PROVE  /\ ReadBits(card_id_serie, b, "card_serie") = x % 16
           /\ ReadBits(card_id_serie, b, "card_id") = n
<1>1. PICK p, q, r : /\ ThreeBytes(n) = <<p, q, r>> /\ IsThree(n, p, q, r)
                     /\ IsByte(p) /\ IsByte(q) /\ IsByte(r)
  BY ThreeBytesValue
<1>2. Carries(b, <<x, p, q, r>>, 4)
  BY <1>1, JoinThree
<1>3. AreBytes(b, 4) /\ b[1] = x /\ b[2] = p /\ b[3] = q /\ b[4] = r
  BY <1>2 DEF Carries
<1>4. /\ ReadBits(card_id_serie, b, "card_serie") = b[1] % 16
      /\ ReadBits(card_id_serie, b, "card_id") = 65536 * b[2] + 256 * b[3] + b[4]
  BY <1>3, IdSerieValues
<1>5. QED
  BY <1>1, <1>3, <1>4, SMT DEF IsByte, IsTwo, IsThree, InTwo, InThree

LEMMA StampOf ==
    ASSUME NEW b, NEW t \in Time, Carries(b, Stamp(t), 4)
    PROVE  IsTime(HeaderTime(b), t, NoSub) /\ IsTime(HeaderTimeWithSubSecond(b), t, t.sub)
<1>1. PICK p, q, r, s : Stamp(t) = <<p, q, r, s>> /\ AreStamp(<<p, q, r, s>>, t)
  BY StampBytes
<1> DEFINE v == <<p, q, r, s>>
<1>2. Carries(b, v, 4) /\ AreStamp(v, t)
  BY <1>1
<1> HIDE DEF v
<1>3. AreBytes(b, 4) /\ b[1] = v[1] /\ b[2] = v[2] /\ b[3] = v[3] /\ b[4] = v[4]
  BY <1>2 DEF Carries
<1>4. AreStamp(b, t)
  BY <1>2, <1>3 DEF AreStamp
<1>5. QED
  BY <1>3, <1>4, HeaderTimeIs

LEMMA ShortStampOf ==
    ASSUME NEW b, NEW t \in Time, Carries(b, ShortStamp(t), 2)
    PROVE  IsTime(ShortTime(b), t, NoSub)
<1>1. PICK p, q : /\ ShortStamp(t) = <<p, q>> /\ AreShort(<<p, q>>, t)
                  /\ IsByte(p) /\ IsByte(q)
  BY ShortStampBytes
<1>2. b \in Seq(Nat) /\ Len(b) = 2 /\ b[1] = p /\ b[2] = q
  BY <1>1 DEF Carries
<1>3. Number(b) = 256 * p + q
  BY <1>2, NumberOfTwo
<1>4. Number(b) \in Nat /\ Number(b) \div 256 = p /\ Number(b) % 256 = q
  BY <1>1, <1>3, SMT DEF IsByte, IsTwo, IsThree, InTwo, InThree
<1>5. AreShort(<<Number(b) \div 256, Number(b) % 256>>, t)
  BY <1>1, <1>4
<1>6. QED
  BY <1>4, <1>5, ShortTimeIs DEF ShortTime

LEMMA LineTime ==
    ASSUME NEW t \in Time, NEW got, NEW sub, IsTime(got, t, sub)
    PROVE  InSeconds(OutTimeDuration(got.time), t)
<1>1. t.sec \in Nat
  BY TimeType
<1>2. CASE t.sec = NoTime
  BY <1>2 DEF IsTime, InSeconds, OutTimeDuration
<1>3. CASE t.sec # NoTime
  <2>1. got.time \div 1000 = t.sec % HalfDay /\ t.sec % HalfDay \in Nat
    BY <1>1, <1>3 DEF IsTime, HalfDay
  <2>2. got.time # NotADateTime
    BY <2>1, SMT DEF NotADateTime
  <2>3. QED
    BY <1>3, <2>1, <2>2 DEF InSeconds, OutTimeDuration
<1>4. QED
  BY <1>2, <1>3

-----------------------------------------------------------------------------
(***************************************************************************)
(* The header of each kind of card.                                        *)
(***************************************************************************)
LEMMA CardType ==
    ASSUME NEW c \in Cards
    PROVE  /\ c \in Content /\ c.count <= Capacity[c.type] /\ InThree(c.number) /\ InTwo(c.start_no)
           /\ c.type = "card_5" => InTwo(c.number)
<1>1. /\ c \in Content /\ c.count <= Capacity[c.type]
      /\ c.number < (IF c.type = "card_5" THEN 65536 ELSE 16777216)
      /\ c.start_no < 65536
  BY CardsAssumption, SMT
<1>2. c.number \in Nat
  BY <1>1, ContentType
<1>3. QED
  BY <1>1, <1>2, SMT DEF InTwo, InThree

\* The number of the card in its record.
IdOf(c) == IF c.type = "card_5" THEN c.number + (IF c.serie = 1 THEN 0 ELSE 100000 * c.serie)
                                ELSE c.number

\* The header of the record r is that of the card c.
HeaderIs(r, c) ==
    /\ r.id = IdOf(c) /\ r.count = c.count
    /\ IsTime(r.start, c.start, IF c.type = "card_5" THEN NoSub ELSE c.start.sub)
    /\ IsTime(r.finish, c.finish, IF c.type = "card_5" THEN NoSub ELSE c.finish.sub)
    /\ IsTime(r.check, c.check, NoSub)
    /\ IF c.type = "card_6" THEN IsTime(r.clear, c.clear, NoSub) ELSE r.clear = Unset

LEMMA BlockRead ==
    ASSUME 0 \in blocks, NEW n
    PROVE  Data(0, 0, n) = BytesAt(card, 0, 0, n)
BY DEF Data

LEMMA Header5 ==
    ASSUME card \in Cards, card.type = "card_5", 0 \in blocks
    PROVE  HeaderIs(HeaderOf("card_5"), card)
<1> DEFINE def == card_5_header_def
           F(name) == Taken(def, BytesAt(card, 0, 0, 27), name)
           r == HeaderOf("card_5")
<1>1. card \in Content /\ InTwo(card.number) /\ InTwo(card.start_no)
  BY CardType
<1>2. /\ card.number \in Nat /\ card.start_no \in Nat /\ card.count \in Nat
      /\ card.start \in Time /\ card.finish \in Time /\ card.check \in Time
  BY <1>1, ContentType
<1>3. SizeOf(def) = 27 /\ HeaderDef("card_5") = def
  BY Card5Def DEF HeaderDef
<1>4. Data(0, 0, SizeOf(HeaderDef("card_5"))) = BytesAt(card, 0, 0, 27)
  BY <1>3, BlockRead
<1>5. r = [id |-> Number(F("card_id")) + (IF Number(F("card_serie")) = 1 THEN 0
                                          ELSE 100000 * Number(F("card_serie"))),
           start_no |-> Number(F("start_no")), start |-> ShortTime(F("start_time")),
           finish |-> ShortTime(F("finish_time")), check |-> ShortTime(F("check_time")),
           clear |-> Unset, count |-> Number(F("record_counter")) - 1]
  BY <1>3, <1>4, SMT DEF HeaderOf
<1>6. /\ r.id = Number(F("card_id")) + (IF Number(F("card_serie")) = 1 THEN 0
                                        ELSE 100000 * Number(F("card_serie")))
      /\ r.start = ShortTime(F("start_time")) /\ r.finish = ShortTime(F("finish_time"))
      /\ r.check = ShortTime(F("check_time"))
      /\ r.clear = Unset /\ r.count = Number(F("record_counter")) - 1
  BY <1>5, SMT
<1> HIDE DEF r
<1>7. /\ FitsIn(4, 2, 27) /\ FitsIn(6, 1, 27) /\ FitsIn(17, 2, 27) /\ FitsIn(19, 2, 27)
      /\ FitsIn(21, 2, 27) /\ FitsIn(23, 1, 27) /\ FitsIn(25, 2, 27)
  BY DEF FitsIn
<1>8. PICK P : def \in Seq(P)
  BY Card5Def
<1>9. /\ Carries(F("card_id"), TwoBytes(card.number), 2)
      /\ Carries(F("card_serie"), <<card.serie>>, 1)
      /\ Carries(F("start_time"), ShortStamp(card.start), 2)
      /\ Carries(F("finish_time"), ShortStamp(card.finish), 2)
      /\ Carries(F("record_counter"), <<card.count + 1>>, 1)
      /\ Carries(F("check_time"), ShortStamp(card.check), 2)
  BY <1>1, <1>7, <1>8, Card5Def, Card5Holds, FieldCarries
<1> HIDE DEF F, def
<1>10. /\ Number(F("card_id")) = card.number /\ Number(F("card_serie")) = card.serie
       /\ Number(F("record_counter")) = card.count + 1
  BY <1>1, <1>2, <1>9, NumberOfByte, NumberOfTwoBytes
<1>11. /\ IsTime(r.start, card.start, NoSub) /\ IsTime(r.finish, card.finish, NoSub)
       /\ IsTime(r.check, card.check, NoSub)
  BY <1>2, <1>6, <1>9, ShortStampOf
<1>12. r.id = IdOf(card)
  BY <1>6, <1>10, SMT DEF IdOf
<1>13. r.count = card.count
  BY <1>2, <1>6, <1>10
<1>14. QED
  BY <1>6, <1>11, <1>12, <1>13 DEF HeaderIs, r

LEMMA Header6 ==
    ASSUME card \in Cards, card.type = "card_6", 0 \in blocks
    PROVE  HeaderIs(HeaderOf("card_6"), card)
<1> DEFINE def == card_6_header_def
           F(name) == Taken(def, BytesAt(card, 0, 0, 44), name)
           r == HeaderOf("card_6")
<1>1. card \in Content /\ InThree(card.number)
  BY CardType
<1>2. /\ card.number \in Nat /\ card.count \in Nat
      /\ card.start \in Time /\ card.finish \in Time /\ card.check \in Time /\ card.clear \in Time
  BY <1>1, ContentType
<1>3. SizeOf(def) = 44 /\ HeaderDef("card_6") = def
  BY Card6Def DEF HeaderDef
<1>4. Data(0, 0, SizeOf(HeaderDef("card_6"))) = BytesAt(card, 0, 0, 44)
  BY <1>3, BlockRead
<1>5. r = [id |-> Number(F("card_id")), start_no |-> Number(F("start_no")),
           start |-> HeaderTimeWithSubSecond(F("start_time")),
           finish |-> HeaderTimeWithSubSecond(F("finish_time")),
           check |-> HeaderTime(F("check_time")), clear |-> HeaderTime(F("clear_time")),
           count |-> Number(F("record_counter"))]
  BY <1>3, <1>4, SMT DEF HeaderOf
<1>6. /\ r.id = Number(F("card_id")) /\ r.count = Number(F("record_counter"))
      /\ r.start = HeaderTimeWithSubSecond(F("start_time"))
      /\ r.finish = HeaderTimeWithSubSecond(F("finish_time"))
      /\ r.check = HeaderTime(F("check_time")) /\ r.clear = HeaderTime(F("clear_time"))
  BY <1>5, SMT
<1> HIDE DEF r
<1>7. /\ FitsIn(10, 4, 44) /\ FitsIn(18, 1, 44) /\ FitsIn(20, 4, 44) /\ FitsIn(24, 4, 44)
      /\ FitsIn(28, 4, 44) /\ FitsIn(32, 4, 44)
  BY DEF FitsIn
<1>8. PICK P : def \in Seq(P)
  BY Card6Def
<1>9. /\ Carries(F("card_id"), << 0 >> \o ThreeBytes(card.number), 4)
      /\ Carries(F("record_counter"), <<card.count>>, 1)
      /\ Carries(F("finish_time"), Stamp(card.finish), 4)
      /\ Carries(F("start_time"), Stamp(card.start), 4)
      /\ Carries(F("check_time"), Stamp(card.check), 4)
      /\ Carries(F("clear_time"), Stamp(card.clear), 4)
  <2>1. Carries(F("card_id"), << 0 >> \o ThreeBytes(card.number), 4)
    BY <1>1, <1>7, <1>8, Card6Def, Card6Holds, FieldCarries
  <2>2. Carries(F("record_counter"), <<card.count>>, 1)
    BY <1>1, <1>7, <1>8, Card6Def, Card6Holds, FieldCarries
  <2>3. Carries(F("finish_time"), Stamp(card.finish), 4)
    BY <1>1, <1>7, <1>8, Card6Def, Card6Holds, FieldCarries
  <2>4. Carries(F("start_time"), Stamp(card.start), 4)
    BY <1>1, <1>7, <1>8, Card6Def, Card6Holds, FieldCarries
  <2>5. Carries(F("check_time"), Stamp(card.check), 4)
    BY <1>1, <1>7, <1>8, Card6Def, Card6Holds, FieldCarries
  <2>6. Carries(F("clear_time"), Stamp(card.clear), 4)
    BY <1>1, <1>7, <1>8, Card6Def, Card6Holds, FieldCarries
  <2>7. QED
    BY <2>1, <2>2, <2>3, <2>4, <2>5, <2>6
<1> HIDE DEF F, def
<1>10. Number(F("card_id")) = card.number /\ Number(F("record_counter")) = card.count
  BY <1>1, <1>2, <1>9, NumberOfByte, NumberBehindZero
<1>11. /\ IsTime(r.start, card.start, card.start.sub) /\ IsTime(r.finish, card.finish, card.finish.sub)
       /\ IsTime(r.check, card.check, NoSub) /\ IsTime(r.clear, card.clear, NoSub)
  BY <1>2, <1>6, <1>9, StampOf
<1>12. r.id = IdOf(card)
  BY <1>6, <1>10, SMT DEF IdOf
<1>13. QED
  BY <1>6, <1>10, <1>11, <1>12 DEF HeaderIs, r

LEMMA Header8 ==
    ASSUME card \in Cards, card.type \notin {"card_5", "card_6"}, 0 \in blocks,
           NEW reader, reader \notin {"card_5", "card_6", "none"}
    PROVE  HeaderIs(HeaderOf(reader), card)
<1> DEFINE def == card_8_header_def
           F(name) == Taken(def, BytesAt(card, 0, 0, 28), name)
           r == HeaderOf(reader)
<1>1. card \in Content /\ InThree(card.number)
  BY CardType
<1>2. /\ card.number \in Nat /\ card.count \in Nat
      /\ card.start \in Time /\ card.finish \in Time /\ card.check \in Time
  BY <1>1, ContentType
<1>3. SizeOf(def) = 28 /\ HeaderDef(reader) = def
  BY Card8Def DEF HeaderDef
<1>4. Data(0, 0, SizeOf(HeaderDef(reader))) = BytesAt(card, 0, 0, 28)
  BY <1>3, BlockRead
<1>5. r = [id |-> Number(F("card_id")), start_no |-> 0,
           start |-> HeaderTimeWithSubSecond(F("start_time")),
           finish |-> HeaderTimeWithSubSecond(F("finish_time")),
           check |-> HeaderTime(F("check_time")), clear |-> Unset,
           count |-> Number(F("record_counter"))]
  BY <1>3, <1>4, SMT DEF HeaderOf
<1>6. /\ r.id = Number(F("card_id")) /\ r.count = Number(F("record_counter"))
      /\ r.start = HeaderTimeWithSubSecond(F("start_time"))
      /\ r.finish = HeaderTimeWithSubSecond(F("finish_time"))
      /\ r.check = HeaderTime(F("check_time")) /\ r.clear = Unset
  BY <1>5, SMT
<1> HIDE DEF r
<1>7. /\ FitsIn(8, 4, 28) /\ FitsIn(12, 4, 28) /\ FitsIn(16, 4, 28) /\ FitsIn(22, 1, 28)
      /\ FitsIn(25, 3, 28)
  BY DEF FitsIn
<1>8. PICK P : def \in Seq(P)
  BY Card8Def
<1>9. /\ Carries(F("card_id"), ThreeBytes(card.number), 3)
      /\ Carries(F("record_counter"), <<card.count>>, 1)
      /\ Carries(F("finish_time"), Stamp(card.finish), 4)
      /\ Carries(F("start_time"), Stamp(card.start), 4)
      /\ Carries(F("check_time"), Stamp(card.check), 4)
  <2>1. Holds(card, 25, ThreeBytes(card.number), 3)
    BY <1>1, <1>2, Card8Holds, TailHolds
  <2>2. QED
    BY <1>1, <1>7, <1>8, <2>1, Card8Def, Card8Holds, FieldCarries
<1> HIDE DEF F, def
<1>10. Number(F("card_id")) = card.number /\ Number(F("record_counter")) = card.count
  BY <1>1, <1>2, <1>9, NumberOfByte, NumberOfThreeBytes
<1>11. /\ IsTime(r.start, card.start, card.start.sub) /\ IsTime(r.finish, card.finish, card.finish.sub)
       /\ IsTime(r.check, card.check, NoSub)
  BY <1>2, <1>6, <1>9, StampOf
<1>12. r.id = IdOf(card)
  BY <1>6, <1>10, SMT DEF IdOf
<1>13. QED
  BY <1>6, <1>10, <1>11, <1>12 DEF HeaderIs, r

-----------------------------------------------------------------------------
(***************************************************************************)
(* The place of each punch in the memory of its card.                      *)
(***************************************************************************)
\* How many bytes the punch with index i has.
SizeAt(c, i) == IF c.type = "card_5" THEN IF i < 30 THEN 3 ELSE 1
                ELSE IF c.type = "card_t" THEN 8 ELSE 4

\* The place of the punch with index i.
PlaceOf(c, i) ==
    CASE c.type = "card_5" -> IF i < 30 THEN <<0, 33 + 16 * (i \div 5) + 3 * (i % 5)>>
                                        ELSE <<0, 32 + 16 * (i - 30)>>
      [] c.type = "card_8" -> <<1, 8 + 4 * i>>
      [] c.type = "card_p" -> <<1, 48 + 4 * i>>
      [] c.type = "card_9" -> IF i < 18 THEN <<0, 56 + 4 * i>> ELSE <<1, 4 * (i - 18)>>
      [] c.type = "card_t" -> IF i < 9 THEN <<0, 56 + 8 * i>> ELSE <<1, 8 * (i - 9)>>
      [] OTHER -> <<GetSectorFromIndex(c.type)[(i \div 32) + 1], 4 * (i % 32)>>

\* The card c has a punch with index i.
HasPunch(c, i) == /\ c \in Content /\ c.count <= Capacity[c.type]
                  /\ i \in Nat /\ i < c.count

LEMMA PunchCard ==
    ASSUME NEW c, NEW i, HasPunch(c, i)
    PROVE  /\ i \in Nat /\ c.type \in KnownCard /\ i < Capacity[c.type] /\ i < c.count /\ c.count \in Nat
           /\ c.type = "card_5" => i < 36
           /\ c.type = "card_6" => i < 192
           /\ c.type = "card_8" => i < 30
           /\ c.type = "card_9" => i < 50
           /\ c.type = "card_p" => i < 20
           /\ c.type = "card_t" => i < 25
           /\ c.type = "card_15" => i < 128
<1>1. c.type \in KnownCard \cup {OtherCard} /\ c.count \in Nat /\ i \in Nat
      /\ c.count <= Capacity[c.type] /\ i < c.count
  BY ContentType DEF HasPunch
<1>2. c.type # OtherCard
  BY <1>1 DEF Capacity, OtherCard
<1>3. Capacity[c.type] \in Nat
  BY <1>1 DEF Capacity, KnownCard, OtherCard
<1>4. i < Capacity[c.type]
  BY <1>1, <1>3
<1>5. QED
  BY <1>1, <1>2, <1>4 DEF Capacity

LEMMA Cells ==
    ASSUME NEW i \in Nat, NEW m \in Nat
    PROVE  /\ m < 4 => (4 * i + m) \div 4 = i /\ (4 * i + m) % 4 = m
           /\ m < 8 => (8 * i + m) \div 8 = i /\ (8 * i + m) % 8 = m
           /\ m < 3 => (3 * i + m) \div 3 = i /\ (3 * i + m) % 3 = m
BY SMT

\* The byte at an address is the k-th of the punch with index i.
IsPunchByte(c, address, i, k) == /\ InPunches(c, address)
                                 /\ PunchAt(c, address) = [index |-> i, byte |-> k]

RowOf(c, size, address, i, k) ==
    /\ address = FirstPunch[c.type] + size * i + (k - 1)
    /\ size = (IF c.type = "card_t" THEN 8 ELSE 4)
    /\ k \in Nat /\ 1 <= k /\ k <= size

LEMMA InRow ==
    ASSUME NEW c, NEW i, HasPunch(c, i), c.type \notin {"card_5", "card_6"},
           NEW size, NEW k, NEW address, RowOf(c, size, address, i, k)
    PROVE  IsPunchByte(c, address, i, k)
<1> DEFINE first == FirstPunch[c.type]
<1>1. i \in Nat /\ c.type \in {"card_8", "card_9", "card_p", "card_t", "card_15"} /\ i < c.count
      /\ c.count \in Nat
  BY PunchCard DEF KnownCard
<1>2. first \in Nat
  BY <1>1 DEF FirstPunch
<1> HIDE DEF first
<1>3. /\ address = first + size * i + (k - 1) /\ size = (IF c.type = "card_t" THEN 8 ELSE 4)
      /\ k \in Nat /\ 1 <= k /\ k <= size
  BY DEF RowOf, first
<1>4. (address - first) \div size = i /\ ((address - first) % size) + 1 = k
  <2>1. address - first = size * i + (k - 1) /\ k - 1 \in Nat /\ k - 1 < size
    BY <1>1, <1>2, <1>3
  <2>2. CASE c.type = "card_t"
    BY <1>1, <1>3, <2>1, <2>2, Cells
  <2>3. CASE c.type # "card_t"
    BY <1>1, <1>3, <2>1, <2>3, Cells
  <2>4. QED
    BY <2>2, <2>3
<1>5. PunchAt(c, address) = [index |-> (address - first) \div size, byte |-> ((address - first) % size) + 1]
  BY <1>1, <1>3 DEF PunchAt, first
<1>6. PunchAt(c, address) = [index |-> i, byte |-> k]
  BY <1>4, <1>5
<1>7. PunchAt(c, address).index = i
  BY <1>6
<1>8. address >= first
  BY <1>1, <1>2, <1>3
<1>9. InPunches(c, address)
  BY <1>1, <1>7, <1>8 DEF InPunches, first, OtherCard
<1>10. QED
  BY <1>6, <1>9 DEF IsPunchByte

LEMMA InSectors ==
    ASSUME NEW c, NEW i, HasPunch(c, i), c.type = "card_6", NEW k \in 1..4, NEW address,
           address = (IF i < 64 THEN 768 ELSE 0) + 4 * i + (k - 1)
    PROVE  IsPunchByte(c, address, i, k)
<1> DEFINE d == IF address >= 768 THEN address - 768 ELSE address
<1>1. i \in Nat /\ i < 192 /\ i < c.count /\ c.count \in Nat
  BY PunchCard
<1>2. d = 4 * i + (k - 1) /\ address >= 256
  BY <1>1
<1>3. k - 1 \in Nat /\ k - 1 < 4
  OBVIOUS
<1> HIDE DEF d
<1>4. d \div 4 = i /\ (d % 4) + 1 = k
  BY <1>1, <1>2, <1>3, Cells
<1>5. PunchAt(c, address) = [index |-> d \div 4, byte |-> (d % 4) + 1]
  BY DEF PunchAt, d
<1>6. PunchAt(c, address) = [index |-> i, byte |-> k]
  BY <1>4, <1>5
<1>7. PunchAt(c, address).index = i
  BY <1>6
<1>8. InPunches(c, address)
  BY <1>1, <1>2, <1>7 DEF InPunches, OtherCard
<1>9. QED
  BY <1>6, <1>8 DEF IsPunchByte

LEMMA InRowsOfFive ==
    ASSUME NEW c, NEW i, HasPunch(c, i), c.type = "card_5", i < 30, NEW k \in 1..3, NEW address,
           address = 33 + 16 * (i \div 5) + 3 * (i % 5) + (k - 1)
    PROVE  IsPunchByte(c, address, i, k)
<1> DEFINE q == i \div 5
           r == i % 5
           cell == address - 32
           d == 15 * (cell \div 16) + (cell % 16) - 1
<1>1. i \in Nat /\ i < c.count /\ c.count \in Nat
  BY PunchCard
<1>2. q \in Nat /\ r \in Nat /\ r < 5 /\ i = 5 * q + r
  BY <1>1, SMT
<1>3. address = 33 + 16 * q + 3 * r + (k - 1)
  OBVIOUS
<1> HIDE DEF q, r
<1>4. cell = 16 * q + (3 * r + k) /\ 3 * r + k \in Nat /\ 1 <= 3 * r + k /\ 3 * r + k < 16
  BY <1>2, <1>3
<1> HIDE DEF cell
<1>5. cell \div 16 = q /\ cell % 16 = 3 * r + k /\ cell % 16 # 0
  BY <1>2, <1>4, SMT
<1>6. d = 3 * i + (k - 1)
  BY <1>2, <1>5
<1>7. k - 1 \in Nat /\ k - 1 < 3
  OBVIOUS
<1> HIDE DEF d
<1>8. d \div 3 = i /\ (d % 3) + 1 = k
  BY <1>1, <1>6, <1>7, Cells
<1>9. PunchAt(c, address) = [index |-> d \div 3, byte |-> (d % 3) + 1]
  BY <1>5 DEF PunchAt, d, cell
<1>10. PunchAt(c, address) = [index |-> i, byte |-> k]
  BY <1>8, <1>9
<1>11. PunchAt(c, address).index = i
  BY <1>10
<1>12. address >= 32
  BY <1>2, <1>3
<1>13. InPunches(c, address)
  BY <1>1, <1>11, <1>12 DEF InPunches, OtherCard
<1>14. QED
  BY <1>10, <1>13 DEF IsPunchByte

LEMMA InRowHeads ==
    ASSUME NEW c, NEW i, HasPunch(c, i), c.type = "card_5", i >= 30, NEW address,
           address = 32 + 16 * (i - 30)
    PROVE  IsPunchByte(c, address, i, 1)
<1> DEFINE cell == address - 32
<1>1. i \in Nat /\ i < c.count /\ c.count \in Nat
  BY PunchCard
<1>2. cell = 16 * (i - 30)
  BY <1>1
<1> HIDE DEF cell
<1>3. cell % 16 = 0 /\ 30 + (cell \div 16) = i
  BY <1>1, <1>2, SMT
<1>4. PunchAt(c, address) = [index |-> 30 + (cell \div 16), byte |-> 1]
  BY <1>3 DEF PunchAt, cell
<1>5. PunchAt(c, address) = [index |-> i, byte |-> 1]
  BY <1>3, <1>4
<1>6. PunchAt(c, address).index = i
  BY <1>5
<1>7. address >= 32
  BY <1>1
<1>8. InPunches(c, address)
  BY <1>1, <1>6, <1>7 DEF InPunches, OtherCard
<1>9. QED
  BY <1>5, <1>8 DEF IsPunchByte

-----------------------------------------------------------------------------
(***************************************************************************)
(* The bytes found in that place.                                          *)
(***************************************************************************)
LEMMA SectorIs ==
    ASSUME NEW c, NEW i, HasPunch(c, i), c.type \in {"card_6", "card_15"}
    PROVE  GetSectorFromIndex(c.type)[(i \div 32) + 1] =
               IF c.type = "card_6" THEN (IF i < 64 THEN 6 + (i \div 32) ELSE i \div 32)
                                    ELSE 4 + (i \div 32)
<1> DEFINE q == i \div 32
           s == q + 1
<1>1. i \in Nat /\ (c.type = "card_6" => i < 192) /\ (c.type = "card_15" => i < 128)
  BY PunchCard
<1>2. q \in Nat /\ (i < 64 <=> q < 2) /\ (i < 192 => q < 6) /\ (i < 128 => q < 4)
  BY <1>1, SMT
<1>3. GetSectorFromIndex(c.type)[s] = IF c.type = "card_6" THEN (IF i < 64 THEN 6 + q ELSE q) ELSE 4 + q
  <2> HIDE DEF q
  <2>1. CASE c.type = "card_6"
    <3>1. s = 1 \/ s = 2 \/ s = 3 \/ s = 4 \/ s = 5 \/ s = 6
      BY <1>1, <1>2, <2>1
    <3>2. GetSectorFromIndex("card_6")[s] = IF q < 2 THEN 6 + q ELSE q
      BY <1>2, <3>1 DEF GetSectorFromIndex
    <3>3. QED
      BY <1>2, <2>1, <3>2
  <2>2. CASE c.type # "card_6"
    <3>1. s = 1 \/ s = 2 \/ s = 3 \/ s = 4
      BY <1>1, <1>2, <2>2
    <3>2. GetSectorFromIndex(c.type)[s] = 4 + q
      BY <1>2, <2>2, <3>1 DEF GetSectorFromIndex
    <3>3. QED
      BY <2>2, <3>2
  <2>3. QED
    BY <2>1, <2>2
<1>4. QED
  BY <1>3

LEMMA PlaceIs ==
    ASSUME NEW c, NEW i, HasPunch(c, i), NEW k \in Nat, 1 <= k, k <= SizeAt(c, i)
    PROVE  LET p == PlaceOf(c, i) IN IsPunchByte(c, BlockSize * p[1] + (p[2] + k - 1), i, k)
<1> DEFINE p == PlaceOf(c, i)
           address == BlockSize * p[1] + (p[2] + k - 1)
<1>1. i \in Nat /\ c.type \in KnownCard
  BY PunchCard
<1>2. CASE c.type = "card_5" /\ i < 30
  <2>1. p = <<0, 33 + 16 * (i \div 5) + 3 * (i % 5)>>
    BY <1>2 DEF PlaceOf
  <2>2. p[1] = 0 /\ p[2] = 33 + 16 * (i \div 5) + 3 * (i % 5)
    BY <2>1
  <2>3. address = 33 + 16 * (i \div 5) + 3 * (i % 5) + (k - 1)
    BY <1>1, <2>2 DEF BlockSize
  <2>4. k \in 1..3
    BY <1>2 DEF SizeAt
  <2> HIDE DEF address
  <2>5. IsPunchByte(c, address, i, k)
    BY <1>2, <2>3, <2>4, InRowsOfFive
  <2>6. QED
    BY <2>5 DEF address
<1>3. CASE c.type = "card_5" /\ ~(i < 30)
  <2>1. p = <<0, 32 + 16 * (i - 30)>>
    BY <1>3 DEF PlaceOf
  <2>2. p[1] = 0 /\ p[2] = 32 + 16 * (i - 30)
    BY <2>1
  <2>3. k = 1
    BY <1>3 DEF SizeAt
  <2>4. address = 32 + 16 * (i - 30)
    BY <1>1, <2>2, <2>3 DEF BlockSize
  <2>5. i >= 30
    BY <1>1, <1>3
  <2> HIDE DEF address
  <2>6. IsPunchByte(c, address, i, 1)
    BY <1>3, <2>4, <2>5, InRowHeads
  <2>7. QED
    BY <2>3, <2>6 DEF address
<1>4. CASE c.type = "card_6"
  <2> DEFINE q == i \div 32
             r == i % 32
  <2>1. p = <<GetSectorFromIndex(c.type)[q + 1], 4 * r>>
    BY <1>4 DEF PlaceOf
  <2>2. p[1] = (IF i < 64 THEN 6 + q ELSE q) /\ p[2] = 4 * r
    BY <1>4, <2>1, SectorIs
  <2>3. q \in Nat /\ r \in Nat /\ i = 32 * q + r
    BY <1>1, SMT
  <2> HIDE DEF q, r
  <2>4. address = (IF i < 64 THEN 768 ELSE 0) + 4 * i + (k - 1)
    BY <1>1, <2>2, <2>3 DEF BlockSize
  <2>5. k \in 1..4
    BY <1>4 DEF SizeAt
  <2> HIDE DEF address
  <2>6. IsPunchByte(c, address, i, k)
    BY <1>4, <2>4, <2>5, InSectors
  <2>7. QED
    BY <2>6 DEF address
<1>5. CASE c.type \notin {"card_5", "card_6"}
  <2> DEFINE size == IF c.type = "card_t" THEN 8 ELSE 4
  <2>1. p[1] \in Int /\ p[2] \in Int /\ BlockSize * p[1] + p[2] = FirstPunch[c.type] + size * i
    <3>1. CASE c.type = "card_8"
      <4>1. p = <<1, 8 + 4 * i>>
        BY <3>1 DEF PlaceOf
      <4>2. p[1] = 1 /\ p[2] = 8 + 4 * i
        BY <4>1
      <4>3. QED
        BY <1>1, <3>1, <4>2 DEF BlockSize, FirstPunch
    <3>2. CASE c.type = "card_p"
      <4>1. p = <<1, 48 + 4 * i>>
        BY <3>2 DEF PlaceOf
      <4>2. p[1] = 1 /\ p[2] = 48 + 4 * i
        BY <4>1
      <4>3. QED
        BY <1>1, <3>2, <4>2 DEF BlockSize, FirstPunch
    <3>3. CASE c.type = "card_9"
      <4>1. p = IF i < 18 THEN <<0, 56 + 4 * i>> ELSE <<1, 4 * (i - 18)>>
        BY <3>3 DEF PlaceOf
      <4>2. (i < 18 => p[1] = 0 /\ p[2] = 56 + 4 * i) /\ (~(i < 18) => p[1] = 1 /\ p[2] = 4 * (i - 18))
        BY <4>1
      <4>3. QED
        BY <1>1, <3>3, <4>2 DEF BlockSize, FirstPunch
    <3>4. CASE c.type = "card_t"
      <4>1. p = IF i < 9 THEN <<0, 56 + 8 * i>> ELSE <<1, 8 * (i - 9)>>
        BY <3>4 DEF PlaceOf
      <4>2. (i < 9 => p[1] = 0 /\ p[2] = 56 + 8 * i) /\ (~(i < 9) => p[1] = 1 /\ p[2] = 8 * (i - 9))
        BY <4>1
      <4>3. QED
        BY <1>1, <3>4, <4>2 DEF BlockSize, FirstPunch
    <3>5. CASE c.type = "card_15"
      <4> DEFINE q == i \div 32
                 r == i % 32
      <4>1. p = <<GetSectorFromIndex(c.type)[q + 1], 4 * r>>
        BY <3>5 DEF PlaceOf
      <4>2. p[1] = 4 + q /\ p[2] = 4 * r
        BY <3>5, <4>1, SectorIs
      <4>3. q \in Nat /\ r \in Nat /\ i = 32 * q + r
        BY <1>1, SMT
      <4> HIDE DEF q, r
      <4>4. QED
        BY <1>1, <3>5, <4>2, <4>3 DEF BlockSize, FirstPunch
    <3>6. QED
      BY <1>1, <1>5, <3>1, <3>2, <3>3, <3>4, <3>5 DEF KnownCard
  <2>2. FirstPunch[c.type] \in Nat
    BY <1>1, <1>5 DEF KnownCard, FirstPunch
  <2>3. address = FirstPunch[c.type] + size * i + (k - 1)
    BY <1>1, <2>1, <2>2 DEF BlockSize
  <2>4. k <= size
    BY <1>5 DEF SizeAt
  <2> HIDE DEF address
  <2>5. RowOf(c, size, address, i, k)
    BY <2>3, <2>4 DEF RowOf
  <2>6. IsPunchByte(c, address, i, k)
    BY <1>5, <2>5, InRow
  <2>7. QED
    BY <2>6 DEF address
<1>6. QED
  BY <1>2, <1>3, <1>4, <1>5

LEMMA PunchByte ==
    ASSUME NEW c, NEW i, HasPunch(c, i), NEW k \in Nat, 1 <= k, k <= SizeAt(c, i)
    PROVE  ByteAt(c, PlaceOf(c, i)[1], PlaceOf(c, i)[2] + k - 1) = PunchBytes(c, i)[k]
<1> DEFINE p == PlaceOf(c, i)
           address == BlockSize * p[1] + (p[2] + k - 1)
<1>1. IsPunchByte(c, address, i, k)
  BY PlaceIs
<1>2. InPunches(c, address) /\ PunchAt(c, address).index = i /\ PunchAt(c, address).byte = k
  BY <1>1 DEF IsPunchByte
<1>3. ByteAt(c, p[1], p[2] + k - 1) = PunchBytes(c, PunchAt(c, address).index)[PunchAt(c, address).byte]
  BY <1>2 DEF ByteAt
<1>4. QED
  BY <1>2, <1>3

-----------------------------------------------------------------------------
(***************************************************************************)
(* What read makes of the bytes of a punch.                                *)
(***************************************************************************)
LEMMA PunchSizes ==
    /\ BitArraySize(punch_1byte_type) = 1 /\ BitArraySize(punch_3bytes_type) = 3
    /\ BitArraySize(punch_4bytes_type) = 4 /\ BitArraySize(punch_8bytes_type) = 8
<1>1. /\ Len(punch_1byte_type) = 8 /\ Len(punch_3bytes_type) = 24
      /\ Len(punch_4bytes_type) = 32 /\ Len(punch_8bytes_type) = 64
  BY OneByte, ThreeBytesRead, FourBytes, EightBytes DEF IsReadable
<1>2. QED
  BY <1>1 DEF BitArraySize

LEMMA PunchTypeIs ==
    ASSUME NEW type, NEW i
    PROVE  punch_type(type, i) =
               IF type = "card_5" THEN IF i < 30 THEN punch_3bytes_type ELSE punch_1byte_type
               ELSE IF type = "card_t" THEN punch_8bytes_type ELSE punch_4bytes_type
BY DEF punch_type

LEMMA SizeIs ==
    ASSUME NEW c, NEW i
    PROVE  BitArraySize(punch_type(c.type, i)) = SizeAt(c, i)
BY PunchSizes, PunchTypeIs DEF SizeAt

\* What PunchControl and PunchTime can be.
LEMMA PunchType ==
    ASSUME NEW c, NEW i, HasPunch(c, i)
    PROVE  /\ PunchControl(c, i) \in Nat /\ PunchControl(c, i) < 1024
           /\ c.type \in {"card_5", "card_t"} => IsByte(PunchControl(c, i))
           /\ PunchTime(c, i) \in Nat /\ PunchTime(c, i) % HalfDay \in Nat
           /\ PunchTime(c, i) % HalfDay < 43200
           /\ Afternoon(PunchTime(c, i)) \in {0, 1}
<1>1. i \in Nat /\ c.first \in Nat /\ c.step \in Nat
  BY PunchCard, ContentType DEF HasPunch
<1>2. 31 + 89 * i \in Nat
  BY <1>1
<1>3. /\ PunchControl(c, i) \in Nat /\ PunchControl(c, i) < 1024
      /\ c.type \in {"card_5", "card_t"} => IsByte(PunchControl(c, i))
  BY <1>2, SMT DEF PunchControl, IsByte
<1>4. c.first + i * c.step \in Nat
  BY <1>1
<1>5. PunchTime(c, i) \in Nat
  BY <1>4, SMT DEF PunchTime
<1>6. PunchTime(c, i) % HalfDay \in Nat /\ PunchTime(c, i) % HalfDay < 43200
  BY <1>5, SMT DEF HalfDay
<1>7. Afternoon(PunchTime(c, i)) \in {0, 1}
  BY DEF Afternoon
<1>8. QED
  BY <1>3, <1>5, <1>6, <1>7

\* data is the bytes of the punch with index i.
IsPunch(c, i, data) == \A k \in 1..SizeAt(c, i) : data[k] = PunchBytes(c, i)[k]

LEMMA TimeBytes ==
    ASSUME NEW c, NEW i, HasPunch(c, i)
    PROVE  \E x, y : /\ TwoBytes(PunchTime(c, i) % HalfDay) = <<x, y>> /\ IsByte(x) /\ IsByte(y)
                     /\ 256 * x + y = PunchTime(c, i) % HalfDay
<1> DEFINE n == PunchTime(c, i) % HalfDay
<1>1. n \in Nat /\ n < 43200
  BY PunchType
<1> HIDE DEF n
<1>2. PICK x, y : TwoBytes(n) = <<x, y>> /\ IsTwo(n, x, y) /\ IsByte(x) /\ IsByte(y)
  BY <1>1, TwoBytesValue
<1>3. 256 * x + y = n
  BY <1>1, <1>2, SMT DEF IsTwo
<1>4. QED
  BY <1>2, <1>3 DEF n

LEMMA ShortPunchRead ==
    ASSUME NEW c, NEW i, HasPunch(c, i), c.type = "card_5", i >= 30, NEW data, IsPunch(c, i, data)
    PROVE  ReadBits(punch_1byte_type, data, "control_number") = PunchControl(c, i)
<1>2. i \in Nat /\ ~(i < 30)
  BY PunchCard
<1>1. PunchBytes(c, i) = <<PunchControl(c, i)>>
  BY <1>2 DEF PunchBytes
<1>3. SizeAt(c, i) = 1
  BY <1>2 DEF SizeAt
<1>4. data[1] = PunchControl(c, i) /\ IsByte(data[1])
  BY <1>1, <1>3, PunchType DEF IsPunch
<1>5. AreBytes(data, 1)
  <2>1. \A k \in 1..1 : k = 1
    OBVIOUS
  <2>2. QED
    BY <1>4, <2>1 DEF AreBytes
<1>6. QED
  BY <1>4, <1>5, OneByteValues

LEMMA Punch5Read ==
    ASSUME NEW c, NEW i, HasPunch(c, i), c.type = "card_5", i < 30, NEW data, IsPunch(c, i, data)
    PROVE  /\ ReadBits(punch_3bytes_type, data, "control_number") = PunchControl(c, i)
           /\ ReadBits(punch_3bytes_type, data, "time_12h") = PunchTime(c, i) % HalfDay
<1>1. PICK x, y : /\ TwoBytes(PunchTime(c, i) % HalfDay) = <<x, y>> /\ IsByte(x) /\ IsByte(y)
                  /\ 256 * x + y = PunchTime(c, i) % HalfDay
  BY TimeBytes
<1>2. PunchBytes(c, i) = <<PunchControl(c, i)>> \o TwoBytes(PunchTime(c, i) % HalfDay)
  <2>1. i \in Nat /\ ~(i >= 30)
    BY PunchCard
  <2>2. QED
    BY <2>1 DEF PunchBytes
<1>3. PunchBytes(c, i) = <<PunchControl(c, i), x, y>>
  BY <1>1, <1>2, JoinTwo
<1>4. SizeAt(c, i) = 3
  BY DEF SizeAt
<1>5. data[1] = PunchControl(c, i) /\ data[2] = x /\ data[3] = y
  BY <1>3, <1>4 DEF IsPunch
<1>6. AreBytes(data, 3)
  <2>1. \A k \in 1..3 : k = 1 \/ k = 2 \/ k = 3
    OBVIOUS
  <2>2. QED
    BY <1>1, <1>5, <2>1, PunchType DEF AreBytes
<1>7. QED
  BY <1>1, <1>5, <1>6, ThreeBytesValues

LEMMA PunchTRead ==
    ASSUME NEW c, NEW i, HasPunch(c, i), c.type = "card_t", NEW data, IsPunch(c, i, data)
    PROVE  /\ ReadBits(punch_8bytes_type, data, "control_number") = PunchControl(c, i)
           /\ ReadBits(punch_8bytes_type, data, "time_12h") = PunchTime(c, i) % HalfDay
<1> DEFINE control == PunchControl(c, i)
           day == 128 + 2 * 9 + Afternoon(PunchTime(c, i))
           s == <<control, 18, 52, 5 * 4 + 1, day>>
           u == << 99 >>
<1>1. PICK x, y : /\ TwoBytes(PunchTime(c, i) % HalfDay) = <<x, y>> /\ IsByte(x) /\ IsByte(y)
                  /\ 256 * x + y = PunchTime(c, i) % HalfDay
  BY TimeBytes
<1>2. PunchBytes(c, i) = s \o <<x, y>> \o u
  BY <1>1 DEF PunchBytes
<1>3. IsByte(control) /\ IsByte(day) /\ IsByte(18) /\ IsByte(52) /\ IsByte(5 * 4 + 1) /\ IsByte(99)
  BY PunchType DEF IsByte
<1> DEFINE t == <<x, y>>
<1>4. /\ s \in Seq(Nat) /\ t \in Seq(Nat) /\ u \in Seq(Nat) /\ Len(s) = 5 /\ Len(t) = 2 /\ Len(u) = 1
      /\ s[1] = control /\ s[2] = 18 /\ s[3] = 52 /\ s[4] = 5 * 4 + 1 /\ s[5] = day
      /\ t[1] = x /\ t[2] = y /\ u[1] = 99
  <2> HIDE DEF control, day
  <2>1. control \in Nat /\ day \in Nat /\ x \in Nat /\ y \in Nat
    BY <1>1, <1>3 DEF IsByte
  <2>2. QED
    BY <2>1
<1> HIDE DEF s, t, u, control, day
<1> DEFINE w == s \o t
<1>5. s \in Seq(Nat) /\ t \in Seq(Nat) /\ u \in Seq(Nat)
  BY <1>4
<1>6. /\ w \in Seq(Nat) /\ Len(w) = Len(s) + Len(t)
      /\ \A k \in 1..Len(s) + Len(t) : w[k] = IF k <= Len(s) THEN s[k] ELSE t[k - Len(s)]
  BY <1>5, ConcatProperties
<1> HIDE DEF w
<1>7. /\ Len(w) = 7 /\ w[1] = s[1] /\ w[2] = s[2] /\ w[3] = s[3] /\ w[4] = s[4] /\ w[5] = s[5]
      /\ w[6] = t[1] /\ w[7] = t[2]
  <2>1. Len(s) = 5 /\ Len(t) = 2
    BY <1>4
  <2>2. QED
    BY <1>6, <2>1
<1> DEFINE v == w \o u
<1>8. /\ v[1] = s[1] /\ v[2] = s[2] /\ v[3] = s[3] /\ v[4] = s[4]
      /\ v[5] = s[5] /\ v[6] = t[1] /\ v[7] = t[2] /\ v[8] = u[1]
  <2>1. \A k \in 1..Len(w) + Len(u) : v[k] = IF k <= Len(w) THEN w[k] ELSE u[k - Len(w)]
    BY <1>5, <1>6, ConcatProperties
  <2>2. Len(u) = 1 /\ Len(w) = 7
    BY <1>4, <1>7
  <2> HIDE DEF v
  <2>3. \A k \in 1..8 : v[k] = IF k <= 7 THEN w[k] ELSE u[k - 7]
    BY <2>1, <2>2
  <2>4. v[1] = w[1] /\ v[2] = w[2] /\ v[3] = w[3] /\ v[4] = w[4]
    BY <2>3
  <2>5. v[5] = w[5] /\ v[6] = w[6] /\ v[7] = w[7] /\ v[8] = u[1]
    BY <2>3
  <2>6. QED
    BY <1>7, <2>4, <2>5
<1>9. PunchBytes(c, i) = v
  BY <1>2 DEF w, t
<1> HIDE DEF v
<1>10. SizeAt(c, i) = 8
  BY DEF SizeAt
<1>11. /\ data[1] = control /\ data[2] = 18 /\ data[3] = 52 /\ data[4] = 5 * 4 + 1
       /\ data[5] = day /\ data[6] = x /\ data[7] = y /\ data[8] = 99
  <2>1. \A k \in 1..8 : data[k] = v[k]
    BY <1>9, <1>10 DEF IsPunch
  <2>2. data[1] = v[1] /\ data[2] = v[2] /\ data[3] = v[3] /\ data[4] = v[4]
    BY <2>1
  <2>3. data[5] = v[5] /\ data[6] = v[6] /\ data[7] = v[7] /\ data[8] = v[8]
    BY <2>1
  <2>4. QED
    BY <1>4, <1>8, <2>2, <2>3
<1>12. AreBytes(data, 8)
  <2>1. \A k \in 1..8 : \/ k = 1 \/ k = 2 \/ k = 3 \/ k = 4 \/ k = 5 \/ k = 6 \/ k = 7 \/ k = 8
    OBVIOUS
  <2>2. QED
    BY <1>1, <1>3, <1>11, <2>1 DEF AreBytes
<1>13. QED
  BY <1>1, <1>11, <1>12, EightBytesValues DEF control

LEMMA Punch4Read ==
    ASSUME NEW c, NEW i, HasPunch(c, i), c.type \notin {"card_5", "card_t"}, NEW data, IsPunch(c, i, data)
    PROVE  /\ ReadBits(punch_4bytes_type, data, "control_number") = PunchControl(c, i)
           /\ ReadBits(punch_4bytes_type, data, "time_12h") = PunchTime(c, i) % HalfDay
<1> DEFINE control == PunchControl(c, i)
           day == 64 * (control \div 256) + 2 * 5 + Afternoon(PunchTime(c, i))
           low == control % 256
<1>1. PICK x, y : /\ TwoBytes(PunchTime(c, i) % HalfDay) = <<x, y>> /\ IsByte(x) /\ IsByte(y)
                  /\ 256 * x + y = PunchTime(c, i) % HalfDay
  BY TimeBytes
<1>2. PunchBytes(c, i) = <<day, low>> \o TwoBytes(PunchTime(c, i) % HalfDay)
  BY DEF PunchBytes
<1>3. control \in Nat /\ control < 1024 /\ Afternoon(PunchTime(c, i)) \in {0, 1}
  BY PunchType
<1>4. IsByte(day) /\ IsByte(low) /\ day \div 64 = control \div 256
      /\ 256 * (control \div 256) + low = control
  <2> HIDE DEF control
  <2>1. QED
    BY <1>3, SMT DEF IsByte
<1> HIDE DEF day, low
<1>5. PunchBytes(c, i) = <<day, low, x, y>>
  BY <1>1, <1>2, JoinPairs
<1>6. SizeAt(c, i) = 4
  BY DEF SizeAt
<1>7. data[1] = day /\ data[2] = low /\ data[3] = x /\ data[4] = y
  BY <1>5, <1>6 DEF IsPunch
<1>8. AreBytes(data, 4)
  <2>1. \A k \in 1..4 : k = 1 \/ k = 2 \/ k = 3 \/ k = 4
    OBVIOUS
  <2>2. QED
    BY <1>1, <1>4, <1>7, <2>1 DEF AreBytes
<1>9. /\ ReadBits(punch_4bytes_type, data, "control_number") = 256 * (data[1] \div 64) + data[2]
      /\ ReadBits(punch_4bytes_type, data, "time_12h") = 256 * data[3] + data[4]
  BY <1>8, FourBytesValues
<1>10. QED
  BY <1>1, <1>4, <1>7, <1>9

-----------------------------------------------------------------------------
(***************************************************************************)
(* The record of each punch, and the place behind it.                      *)
(***************************************************************************)
\* The punch with index i, as the record is to have it.
PunchOf(c, i) == [control |-> PunchControl(c, i),
                  time |-> IF c.type = "card_5" /\ i >= 30 THEN NotADateTime
                           ELSE 1000 * (PunchTime(c, i) % HalfDay)]

LEMMA PlainDuration ==
    ASSUME NEW n \in Nat, n < 43200
    PROVE  GetDuration(n, 0) = 1000 * n
BY SMT DEF GetDuration

LEMMA PunchRecordIs ==
    ASSUME NEW i, HasPunch(card, i), Reader = card.type, PlaceOf(card, i)[1] \in blocks
    PROVE  PunchRecord(i, PlaceOf(card, i)) = PunchOf(card, i)
<1> DEFINE p == PlaceOf(card, i)
           bits == punch_type(card.type, i)
           size == BitArraySize(bits)
           data == Data(p[1], p[2], size)
           sec == PunchTime(card, i) % HalfDay
<1>1. i \in Nat
  BY PunchCard
<1>2. size = SizeAt(card, i)
  BY SizeIs
<1>3. data = [k \in 1..size |-> ByteAt(card, p[1], p[2] + k - 1)]
  BY DEF Data, BytesAt
<1>4. PunchRecord(i, p) =
          [control |-> ReadBits(bits, data, "control_number"),
           time |-> IF card.type = "card_5" /\ i >= 30 THEN NotADateTime
                    ELSE GetDuration(ReadBits(bits, data, "time_12h"), 0)]
  BY DEF PunchRecord
<1> HIDE DEF size, data, bits
<1>5. IsPunch(card, i, data)
  <2>1. ASSUME NEW k \in 1..SizeAt(card, i)
        PROVE  data[k] = PunchBytes(card, i)[k]
    <3>1. k \in Nat /\ 1 <= k /\ k <= SizeAt(card, i)
      BY DEF SizeAt
    <3>2. data[k] = ByteAt(card, p[1], p[2] + k - 1)
      BY <1>2, <1>3
    <3>3. QED
      BY <3>1, <3>2, PunchByte
  <2>2. QED
    BY <2>1 DEF IsPunch
<1>6. sec \in Nat /\ sec < 43200
  BY PunchType
<1>7. GetDuration(sec, 0) = 1000 * sec
  BY <1>6, PlainDuration
<1>8. bits = IF card.type = "card_5" THEN IF i < 30 THEN punch_3bytes_type ELSE punch_1byte_type
             ELSE IF card.type = "card_t" THEN punch_8bytes_type ELSE punch_4bytes_type
  BY PunchTypeIs DEF bits
<1>9. /\ ReadBits(bits, data, "control_number") = PunchControl(card, i)
      /\ ~(card.type = "card_5" /\ i >= 30) => ReadBits(bits, data, "time_12h") = sec
  <2>1. CASE card.type = "card_5" /\ i >= 30
    <3>1. bits = punch_1byte_type
      BY <1>1, <1>8, <2>1
    <3>2. QED
      BY <1>5, <2>1, <3>1, ShortPunchRead
  <2>2. CASE card.type = "card_5" /\ ~(i >= 30)
    <3>1. bits = punch_3bytes_type /\ i < 30
      BY <1>1, <1>8, <2>2
    <3>2. QED
      BY <1>5, <2>2, <3>1, Punch5Read
  <2>3. CASE card.type = "card_t"
    <3>1. bits = punch_8bytes_type
      BY <1>8, <2>3
    <3>2. QED
      BY <1>5, <2>3, <3>1, PunchTRead
  <2>4. CASE card.type \notin {"card_5", "card_t"}
    <3>1. bits = punch_4bytes_type
      BY <1>8, <2>4
    <3>2. QED
      BY <1>5, <2>4, <3>1, Punch4Read
  <2>5. QED
    BY <2>1, <2>2, <2>3, <2>4
<1> HIDE DEF sec
<1>10. QED
  BY <1>4, <1>7, <1>9 DEF PunchOf, sec

\* A punch in a block that has not been read.
LostPunch == [control |-> 0, time |-> 0]

LEMMA PunchRecordLost ==
    ASSUME NEW i, HasPunch(card, i), card.type = "card_t", Reader = card.type,
           PlaceOf(card, i)[1] \notin blocks
    PROVE  PunchRecord(i, PlaceOf(card, i)) = LostPunch
<1> DEFINE p == PlaceOf(card, i)
           bits == punch_8bytes_type
           data == Data(p[1], p[2], 8)
<1>1. data = [k \in 1..8 |-> 0]
  BY DEF Data
<1>2. punch_type(card.type, i) = bits /\ BitArraySize(bits) = 8
  BY PunchTypeIs, PunchSizes
<1>3. PunchRecord(i, p) = [control |-> ReadBits(bits, data, "control_number"),
                           time |-> GetDuration(ReadBits(bits, data, "time_12h"), 0)]
  BY <1>2 DEF PunchRecord
<1> HIDE DEF data, bits
<1>4. AreBytes(data, 8)
  BY <1>1 DEF AreBytes, IsByte
<1>5. data[1] = 0 /\ data[6] = 0 /\ data[7] = 0
  BY <1>1
<1>6. ReadBits(bits, data, "control_number") = 0 /\ ReadBits(bits, data, "time_12h") = 0
  BY <1>4, <1>5, EightBytesValues DEF bits
<1>7. GetDuration(0, 0) = 0
  BY PlainDuration
<1>8. QED
  BY <1>3, <1>6, <1>7 DEF LostPunch

LEMMA FirstPlaceIs ==
    ASSUME NEW c, HasPunch(c, 0)
    PROVE  FirstPlace(c.type) = PlaceOf(c, 0)
<1>1. c.type \in KnownCard
  BY PunchCard
<1>2. 0 \div 5 = 0 /\ 0 % 5 = 0 /\ 0 \div 32 = 0 /\ 0 % 32 = 0
  BY SMT
<1>3. QED
  BY <1>1, <1>2 DEF FirstPlace, PlaceOf, KnownCard

LEMMA NextPlaceIs ==
    ASSUME NEW c, NEW i, HasPunch(c, i), i > 0
    PROVE  NextPlace(c.type, i, PlaceOf(c, i - 1)) = PlaceOf(c, i)
<1> DEFINE p == PlaceOf(c, i - 1)
           size == PunchSize(c.type, i - 1)
           after == <<p[1], p[2] + size>>
           n == NextPlace(c.type, i, p)
<1>1. i \in Nat /\ c.type \in KnownCard /\ i - 1 \in Nat
  BY PunchCard
<1>2. size = SizeAt(c, i - 1)
  BY SizeIs DEF PunchSize
<1>3. after = <<p[1], p[2] + SizeAt(c, i - 1)>>
  BY <1>2
<1>4. CASE c.type = "card_5" /\ i < 30
  <2> DEFINE q == i \div 5
             r == i % 5
             q0 == (i - 1) \div 5
             r0 == (i - 1) % 5
  <2>1. n = IF i % 5 = 0 THEN <<0, after[2] + 1>> ELSE after
    BY <1>1, <1>4 DEF NextPlace
  <2>2. p = <<0, 33 + 16 * q0 + 3 * r0>> /\ PlaceOf(c, i) = <<0, 33 + 16 * q + 3 * r>>
    BY <1>1, <1>4 DEF PlaceOf
  <2>3. SizeAt(c, i - 1) = 3
    BY <1>1, <1>4 DEF SizeAt
  <2>4. p[1] = 0 /\ p[2] = 33 + 16 * q0 + 3 * r0
    BY <2>2
  <2>5. after = <<0, 36 + 16 * q0 + 3 * r0>>
    BY <1>1, <1>3, <2>3, <2>4
  <2>6. /\ q \in Nat /\ r \in Nat /\ q0 \in Nat /\ r0 \in Nat
        /\ r = 0 => q = q0 + 1 /\ r0 = 4
        /\ r # 0 => q = q0 /\ r = r0 + 1
    BY <1>1, SMT
  <2> HIDE DEF q, r, q0, r0, after, p, n
  <2>7. n = IF r = 0 THEN <<0, 37 + 16 * q0 + 3 * r0>> ELSE <<0, 36 + 16 * q0 + 3 * r0>>
    <3>1. after[2] = 36 + 16 * q0 + 3 * r0
      BY <2>5
    <3>2. QED
      BY <2>1, <2>5, <2>6, <3>1 DEF r
  <2>8. CASE r = 0
    <3>1. 33 + 16 * q + 3 * r = 37 + 16 * q0 + 3 * r0
      BY <2>6, <2>8
    <3>2. QED
      BY <2>2, <2>7, <2>8, <3>1 DEF n, p
  <2>9. CASE r # 0
    <3>1. 33 + 16 * q + 3 * r = 36 + 16 * q0 + 3 * r0
      BY <2>6, <2>9
    <3>2. QED
      BY <2>2, <2>7, <2>9, <3>1 DEF n, p
  <2>10. QED
    BY <2>8, <2>9
<1>5. CASE c.type = "card_5" /\ ~(i < 30)
  <2>1. i >= 30
    BY <1>1, <1>5
  <2>2. QED
    BY <1>5, <2>1 DEF NextPlace, PlaceOf
<1>6. CASE c.type \in {"card_8", "card_p"}
  <2>1. p[1] = 1 /\ p[2] = (IF c.type = "card_8" THEN 8 ELSE 48) + 4 * (i - 1)
    BY <1>6 DEF PlaceOf
  <2>2. SizeAt(c, i - 1) = 4
    BY <1>6 DEF SizeAt
  <2>3. n = after
    BY <1>6 DEF NextPlace
  <2>4. p[2] + SizeAt(c, i - 1) = (IF c.type = "card_8" THEN 8 ELSE 48) + 4 * i
    BY <1>1, <2>1, <2>2
  <2>5. PlaceOf(c, i) = <<1, (IF c.type = "card_8" THEN 8 ELSE 48) + 4 * i>>
    BY <1>6 DEF PlaceOf
  <2>6. QED
    BY <1>3, <2>1, <2>3, <2>4, <2>5
<1>7. CASE c.type = "card_9"
  <2>1. n = IF i = 18 THEN <<1, 0>> ELSE after
    BY <1>7 DEF NextPlace
  <2>2. SizeAt(c, i - 1) = 4
    BY <1>7 DEF SizeAt
  <2>3. p = (IF i - 1 < 18 THEN <<0, 56 + 4 * (i - 1)>> ELSE <<1, 4 * (i - 1 - 18)>>)
    BY <1>7 DEF PlaceOf
  <2>4. PlaceOf(c, i) = IF i < 18 THEN <<0, 56 + 4 * i>> ELSE <<1, 4 * (i - 18)>>
    BY <1>7 DEF PlaceOf
  <2>5. CASE i < 18
    <3>1. p[1] = 0 /\ p[2] = 56 + 4 * (i - 1)
      BY <1>1, <2>3, <2>5
    <3>2. p[2] + SizeAt(c, i - 1) = 56 + 4 * i
      BY <1>1, <2>2, <3>1
    <3>3. QED
      BY <1>1, <1>3, <2>1, <2>4, <2>5, <3>1, <3>2
  <2>6. CASE i = 18
    <3>1. 4 * (i - 18) = 0
      BY <2>6
    <3>2. QED
      BY <2>1, <2>4, <2>6, <3>1
  <2>7. CASE i > 18
    <3>1. p[1] = 1 /\ p[2] = 4 * (i - 1 - 18)
      BY <1>1, <2>3, <2>7
    <3>2. p[2] + SizeAt(c, i - 1) = 4 * (i - 18)
      BY <1>1, <2>2, <3>1
    <3>3. QED
      BY <1>1, <1>3, <2>1, <2>4, <2>7, <3>1, <3>2
  <2>8. QED
    BY <1>1, <2>5, <2>6, <2>7
<1>8. CASE c.type = "card_t"
  <2>1. n = IF i = 9 THEN <<1, 0>> ELSE after
    BY <1>8 DEF NextPlace
  <2>2. SizeAt(c, i - 1) = 8
    BY <1>8 DEF SizeAt
  <2>3. p = (IF i - 1 < 9 THEN <<0, 56 + 8 * (i - 1)>> ELSE <<1, 8 * (i - 1 - 9)>>)
    BY <1>8 DEF PlaceOf
  <2>4. PlaceOf(c, i) = IF i < 9 THEN <<0, 56 + 8 * i>> ELSE <<1, 8 * (i - 9)>>
    BY <1>8 DEF PlaceOf
  <2>5. CASE i < 9
    <3>1. p[1] = 0 /\ p[2] = 56 + 8 * (i - 1)
      BY <1>1, <2>3, <2>5
    <3>2. p[2] + SizeAt(c, i - 1) = 56 + 8 * i
      BY <1>1, <2>2, <3>1
    <3>3. QED
      BY <1>1, <1>3, <2>1, <2>4, <2>5, <3>1, <3>2
  <2>6. CASE i = 9
    <3>1. 8 * (i - 9) = 0
      BY <2>6
    <3>2. QED
      BY <2>1, <2>4, <2>6, <3>1
  <2>7. CASE i > 9
    <3>1. p[1] = 1 /\ p[2] = 8 * (i - 1 - 9)
      BY <1>1, <2>3, <2>7
    <3>2. p[2] + SizeAt(c, i - 1) = 8 * (i - 9)
      BY <1>1, <2>2, <3>1
    <3>3. QED
      BY <1>1, <1>3, <2>1, <2>4, <2>7, <3>1, <3>2
  <2>8. QED
    BY <1>1, <2>5, <2>6, <2>7
<1>9. CASE c.type \in {"card_6", "card_15"}
  <2> DEFINE S == GetSectorFromIndex(c.type)
             q == i \div 32
             r == i % 32
             q0 == (i - 1) \div 32
             r0 == (i - 1) % 32
  <2>1. n = IF i % 32 = 0 THEN <<S[q + 1], 0>> ELSE after
    BY <1>9 DEF NextPlace
  <2>2. SizeAt(c, i - 1) = 4
    BY <1>9 DEF SizeAt
  <2>3. p = <<S[q0 + 1], 4 * r0>> /\ PlaceOf(c, i) = <<S[q + 1], 4 * r>>
    BY <1>9 DEF PlaceOf
  <2>4. p[1] = S[q0 + 1] /\ p[2] = 4 * r0
    BY <2>3
  <2>5. r \in Nat /\ r0 \in Nat /\ (r # 0 => q = q0 /\ r = r0 + 1)
    BY <1>1, SMT
  <2>6. CASE r = 0
    <3>1. 4 * r = 0
      BY <2>6
    <3>2. QED
      BY <2>1, <2>3, <2>6, <3>1
  <2>7. CASE r # 0
    <3> HIDE DEF q, r, q0, r0, S
    <3>1. p[1] = S[q + 1] /\ p[2] + SizeAt(c, i - 1) = 4 * r
      BY <2>2, <2>4, <2>5, <2>7
    <3>2. n = after
      BY <2>1, <2>7 DEF r
    <3>3. QED
      BY <1>3, <2>3, <3>1, <3>2
  <2>8. QED
    BY <2>6, <2>7
<1>10. QED
  BY <1>1, <1>4, <1>5, <1>6, <1>7, <1>8, <1>9 DEF KnownCard

-----------------------------------------------------------------------------
(***************************************************************************)
(* The card, its reader and its blocks, from the bytes of block 0.         *)
(***************************************************************************)
\* What block 0 says of the card: its serie, the id and the blocks that are asked for.
SerieOf(c) == CASE c.type = "card_5" -> 0
                [] c.type = "card_6" -> 6
                [] OTHER -> Serie[c.type]
IdRead(c) == IF c.type = "card_5" THEN 0 ELSE c.number
ReaderFor(c) == IF c.type = OtherCard THEN "none" ELSE c.type
BlocksFor(c) ==
    {0} \cup CASE c.type \in {"card_5", OtherCard, "card_t"} -> {}
               [] c.type \in {"card_8", "card_p"} -> {1}
               [] c.type = "card_9" -> IF 18 < c.count THEN {1} ELSE {}
               [] OTHER -> {GetSectorFromIndex(c.type)[s] : s \in 1..SectorsNeeded(c.count)}

LEMMA SerieIs ==
    ASSUME NEW c \in Cards
    PROVE  LET block0 == BytesAt(c, 0, 0, BlockSize)
           IN /\ CardId(Family(c), block0) = IdRead(c)
              /\ CardSerie(Family(c), block0) = SerieOf(c)
<1> DEFINE block0 == BytesAt(c, 0, 0, BlockSize)
<1>1. c \in Content /\ InThree(c.number) /\ c.number \in Nat /\ c.type \in KnownCard \cup {OtherCard}
  BY CardType, ContentType
<1>2. BlockSize = 128
  BY DEF BlockSize
<1>3. CASE c.type = "card_5"
  BY <1>3 DEF Family, CardId, CardSerie, IdRead, SerieOf
<1>4. CASE c.type = "card_6"
  <2>1. FitsIn(10, 4, BlockSize) /\ 11 = 10 + 1 /\ 14 = 10 + 4
    BY <1>2 DEF FitsIn
  <2>2. Holds(c, 10, << 0 >> \o ThreeBytes(c.number), 4)
    BY <1>1, <1>4, Card6Holds
  <2>3. Carries(SubSeq(block0, 11, 14), << 0 >> \o ThreeBytes(c.number), 4)
    BY <2>1, <2>2, SubSeqCarries
  <2>4. Number(SubSeq(block0, 11, 14)) = c.number
    BY <1>1, <2>3, NumberBehindZero
  <2>5. QED
    BY <1>4, <2>4 DEF Family, CardId, CardSerie, IdRead, SerieOf
<1>5. CASE c.type \notin {"card_5", "card_6"}
  <2>1. FitsIn(24, 4, BlockSize) /\ 25 = 24 + 1 /\ 28 = 24 + 4
    BY <1>2 DEF FitsIn
  <2>2. Holds(c, 24, <<Serie[c.type]>> \o ThreeBytes(c.number), 4)
    BY <1>1, <1>5, Card8Holds
  <2>3. Carries(SubSeq(block0, 25, 28), <<Serie[c.type]>> \o ThreeBytes(c.number), 4)
    BY <2>1, <2>2, SubSeqCarries
  <2>4. /\ ReadBits(card_id_serie, SubSeq(block0, 25, 28), "card_serie") = Serie[c.type] % 16
        /\ ReadBits(card_id_serie, SubSeq(block0, 25, 28), "card_id") = c.number
    BY <1>1, <2>3, IdSerieOf
  <2>5. Serie[c.type] % 16 = Serie[c.type]
    BY <1>1, <1>5 DEF KnownCard, OtherCard, Serie
  <2>6. Family(c) = "card_8_family"
    BY <1>5 DEF Family
  <2>7. QED
    BY <1>5, <2>4, <2>5, <2>6 DEF CardId, CardSerie, IdRead, SerieOf
<1>6. QED
  BY <1>3, <1>4, <1>5

LEMMA ReaderIs ==
    ASSUME NEW c \in Cards
    PROVE  ReaderOf(Family(c), SerieOf(c)) = ReaderFor(c)
<1>1. c.type \in KnownCard \cup {OtherCard}
  BY CardType, ContentType
<1>2. CASE c.type \in {"card_5", "card_6"}
  BY <1>2 DEF Family, ReaderOf, ReaderFor, OtherCard
<1>3. CASE c.type \notin {"card_5", "card_6"}
  <2>1. Family(c) = "card_8_family" /\ SerieOf(c) = Serie[c.type]
    BY <1>3 DEF Family, SerieOf
  <2>2. DOMAIN known_card_types = {1, 2, 4, 6, 15}
    BY DEF known_card_types
  <2>3. /\ known_card_types[1] = "card_9" /\ known_card_types[2] = "card_8"
        /\ known_card_types[4] = "card_p" /\ known_card_types[6] = "card_t"
        /\ known_card_types[15] = "card_15"
    BY DEF known_card_types
  <2>4. CASE c.type = OtherCard
    <3>1. SerieOf(c) = 3
      BY <2>1, <2>4 DEF OtherCard, Serie
    <3>2. SerieOf(c) \notin DOMAIN known_card_types
      BY <2>2, <3>1
    <3>3. QED
      BY <2>1, <2>4, <3>2 DEF ReaderOf, ReaderFor
  <2>5. CASE c.type # OtherCard
    <3>1. c.type \in {"card_8", "card_9", "card_p", "card_t", "card_15"}
      BY <1>1, <1>3, <2>5 DEF KnownCard
    <3>2. Serie[c.type] \in {1, 2, 4, 6, 15} /\ known_card_types[Serie[c.type]] = c.type
      BY <2>3, <3>1 DEF Serie
    <3>3. QED
      BY <2>1, <2>2, <2>5, <3>2 DEF ReaderOf, ReaderFor
  <2>6. QED
    BY <2>4, <2>5
<1>4. QED
  BY <1>2, <1>3

LEMMA BlocksAre ==
    ASSUME NEW c \in Cards
    PROVE  GetBlocksNeeded(ReaderFor(c), BytesAt(c, 0, 0, BlockSize)) = BlocksFor(c)
<1> DEFINE block0 == BytesAt(c, 0, 0, BlockSize)
<1>1. c \in Content /\ c.number \in Nat /\ c.type \in KnownCard \cup {OtherCard} /\ c.count \in Nat
  BY CardType, ContentType
<1>2. ASSUME NEW a \in Nat, a < 128, NEW v, NEW size \in Nat, 1 <= size, Holds(c, a, v, size)
      PROVE  block0[a + 1] = v[1]
  <2>1. block0[a + 1] = ByteAt(c, 0, 0 + (a + 1) - 1)
    BY <1>2 DEF BytesAt, BlockSize
  <2>2. ByteAt(c, 0, a + 1 - 1) = v[1]
    BY <1>2 DEF Holds
  <2>3. 0 + (a + 1) - 1 = a + 1 - 1
    BY <1>2
  <2>4. QED
    BY <2>1, <2>2, <2>3
<1>3. CASE c.type \in {"card_5", OtherCard}
  <2>1. ReaderFor(c) \in {"card_5", "none"}
    BY <1>3 DEF ReaderFor, OtherCard
  <2>2. QED
    BY <1>3, <2>1 DEF GetBlocksNeeded, BlocksFor, OtherCard
<1>4. CASE c.type = "card_6"
  <2>1. Holds(c, 18, <<c.count>>, 1)
    BY <1>1, <1>4, Card6Holds
  <2>2. block0[18 + 1] = <<c.count>>[1]
    BY <1>2, <2>1
  <2>3. block0[PunchesCountOffset("card_6") + 1] = c.count
    BY <2>2 DEF PunchesCountOffset
  <2>4. ReaderFor(c) = "card_6"
    BY <1>4 DEF ReaderFor, OtherCard
  <2> HIDE DEF block0
  <2>5. GetBlocksNeeded("card_6", block0) =
            {0} \cup {GetSectorFromIndex("card_6")[s] : s \in 1..SectorsNeeded(c.count)}
    BY <2>3 DEF GetBlocksNeeded
  <2>6. BlocksFor(c) = {0} \cup {GetSectorFromIndex("card_6")[s] : s \in 1..SectorsNeeded(c.count)}
    BY <1>4 DEF BlocksFor, OtherCard
  <2>7. QED
    BY <2>4, <2>5, <2>6 DEF block0
<1>5. CASE c.type \in {"card_9", "card_15"}
  <2>1. Holds(c, 22, <<c.count>>, 1)
    BY <1>1, <1>5, Card8Holds
  <2>2. block0[22 + 1] = <<c.count>>[1]
    BY <1>2, <2>1
  <2>3. block0[PunchesCountOffset(c.type) + 1] = c.count
    BY <1>5, <2>2 DEF PunchesCountOffset
  <2>4. ReaderFor(c) = c.type
    BY <1>5 DEF ReaderFor, OtherCard
  <2> HIDE DEF block0
  <2>5. CASE c.type = "card_9"
    BY <2>3, <2>4, <2>5 DEF GetBlocksNeeded, BlocksFor, OtherCard, block0
  <2>6. CASE c.type = "card_15"
    <3>1. GetBlocksNeeded("card_15", block0) =
              {0} \cup {GetSectorFromIndex("card_15")[s] : s \in 1..SectorsNeeded(c.count)}
      BY <2>3, <2>6 DEF GetBlocksNeeded
    <3>2. BlocksFor(c) = {0} \cup {GetSectorFromIndex("card_15")[s] : s \in 1..SectorsNeeded(c.count)}
      BY <2>6 DEF BlocksFor, OtherCard
    <3>3. QED
      BY <2>4, <2>6, <3>1, <3>2 DEF block0
  <2>7. QED
    BY <1>5, <2>5, <2>6
<1>6. CASE c.type \in {"card_8", "card_p", "card_t"}
  <2>1. Holds(c, 24, <<Serie[c.type]>> \o ThreeBytes(c.number), 4)
    BY <1>1, <1>6, Card8Holds
  <2>2. PICK p, q, r : ThreeBytes(c.number) = <<p, q, r>>
    BY <1>1, ThreeBytesValue
  <2>3. Holds(c, 24, <<Serie[c.type], p, q, r>>, 4)
    BY <2>1, <2>2, JoinThree
  <2>4. block0[24 + 1] = <<Serie[c.type], p, q, r>>[1]
    BY <1>2, <2>3
  <2>5. block0[PunchesCountOffset(c.type) + 1] = Serie[c.type]
    BY <1>6, <2>4 DEF PunchesCountOffset
  <2>6. ReaderFor(c) = c.type
    BY <1>6 DEF ReaderFor, OtherCard
  <2> HIDE DEF block0
  <2>7. CASE c.type = "card_t"
    <3>1. ~(9 < Serie[c.type])
      BY <2>7 DEF Serie
    <3>2. QED
      BY <2>5, <2>6, <2>7, <3>1 DEF GetBlocksNeeded, BlocksFor, OtherCard, block0
  <2>8. CASE c.type \in {"card_8", "card_p"}
    <3>1. 0 < Serie[c.type]
      BY <2>8 DEF Serie
    <3>2. QED
      BY <2>5, <2>6, <2>8, <3>1 DEF GetBlocksNeeded, BlocksFor, OtherCard, block0
  <2>9. QED
    BY <1>6, <2>7, <2>8
<1>7. QED
  BY <1>1, <1>3, <1>4, <1>5, <1>6 DEF KnownCard

LEMMA BlocksType ==
    ASSUME NEW c \in Cards
    PROVE  BlocksFor(c) \subseteq 0..7 /\ 0 \in BlocksFor(c)
<1>1. c \in Content /\ c.type \in KnownCard \cup {OtherCard} /\ c.count \in Nat /\ c.count <= Capacity[c.type]
  BY CardType, ContentType
<1>2. 0 \in BlocksFor(c)
  BY DEF BlocksFor
<1>3. CASE c.type \in {"card_6", "card_15"}
  <2> DEFINE n == SectorsNeeded(c.count)
             S == GetSectorFromIndex(c.type)
  <2>1. n \in Nat /\ (c.count <= 192 => n <= 6) /\ (c.count <= 128 => n <= 4)
    BY <1>1, SMT DEF SectorsNeeded
  <2>2. (c.type = "card_6" => c.count <= 192) /\ (c.type = "card_15" => c.count <= 128)
    BY <1>1 DEF Capacity
  <2> HIDE DEF n
  <2>3. ASSUME NEW s \in 1..n
        PROVE  S[s] \in 0..7
    <3>1. CASE c.type = "card_6"
      <4>1. s \in 1..6
        BY <2>1, <2>2, <2>3, <3>1
      <4>2. s = 1 \/ s = 2 \/ s = 3 \/ s = 4 \/ s = 5 \/ s = 6
        BY <4>1
      <4>3. QED
        BY <3>1, <4>2 DEF GetSectorFromIndex
    <3>2. CASE c.type = "card_15"
      <4>1. s \in 1..4
        BY <2>1, <2>2, <2>3, <3>2
      <4>2. s = 1 \/ s = 2 \/ s = 3 \/ s = 4
        BY <4>1
      <4>3. QED
        BY <3>2, <4>2 DEF GetSectorFromIndex
    <3>3. QED
      BY <1>3, <3>1, <3>2
  <2>4. BlocksFor(c) = {0} \cup {S[s] : s \in 1..n}
    BY <1>3 DEF BlocksFor, OtherCard, n
  <2> HIDE DEF S
  <2>5. QED
    BY <1>2, <2>3, <2>4
<1>4. CASE c.type \notin {"card_6", "card_15"}
  <2>1. BlocksFor(c) \subseteq {0, 1}
    BY <1>1, <1>4 DEF BlocksFor, KnownCard
  <2>2. QED
    BY <1>2, <2>1
<1>5. QED
  BY <1>3, <1>4

-----------------------------------------------------------------------------
(***************************************************************************)
(* The inductive invariant: how far the card is read determines everything *)
(* else.                                                                   *)
(***************************************************************************)
LEMMA SectorOfPunch ==
    ASSUME NEW n \in Nat, NEW i \in Nat, i < n
    PROVE  (i \div 32) + 1 \in 1..SectorsNeeded(n)
<1>1. n \div 32 \in Nat /\ i \div 32 \in Nat /\ i \div 32 <= n \div 32
      /\ (n % 32 = 0 => i \div 32 < n \div 32)
  BY SMT
<1>2. QED
  BY <1>1 DEF SectorsNeeded

LEMMA PunchOfSector ==
    ASSUME NEW n \in Nat, NEW s \in 1..SectorsNeeded(n)
    PROVE  32 * (s - 1) \in Nat /\ 32 * (s - 1) < n /\ (32 * (s - 1)) \div 32 = s - 1
<1>1. n \div 32 \in Nat /\ n = 32 * (n \div 32) + (n % 32) /\ n % 32 \in Nat
  BY SMT
<1>2. s \in Nat /\ 1 <= s /\ s <= SectorsNeeded(n) /\ SectorsNeeded(n) \in Nat
  BY <1>1 DEF SectorsNeeded
<1>3. 32 * (s - 1) < n
  BY <1>1, <1>2 DEF SectorsNeeded
<1>4. QED
  BY <1>2, <1>3, SMT

LEMMA PlaceRead ==
    ASSUME NEW c \in Cards, NEW i, HasPunch(c, i)
    PROVE  /\ PlaceOf(c, i) \in (0..7) \X Nat
           /\ PlaceOf(c, i)[1] \in BlocksFor(c) <=> ~(c.type = "card_t" /\ i >= 9)
<1> DEFINE p == PlaceOf(c, i)
<1>1. /\ i \in Nat /\ c.type \in KnownCard /\ i < c.count /\ c.count \in Nat
      /\ c.type # OtherCard
  BY PunchCard DEF KnownCard, OtherCard
<1>2. CASE c.type = "card_5"
  <2>1. BlocksFor(c) = {0}
    BY <1>2 DEF BlocksFor
  <2>2. CASE i < 30
    <3> DEFINE q == i \div 5
               r == i % 5
    <3>1. q \in Nat /\ r \in Nat
      BY <1>1, SMT
    <3>2. p = <<0, 33 + 16 * q + 3 * r>>
      BY <1>2, <2>2 DEF PlaceOf
    <3> HIDE DEF q, r
    <3>3. 33 + 16 * q + 3 * r \in Nat
      BY <3>1
    <3>4. QED
      BY <1>2, <2>1, <3>2, <3>3
  <2>3. CASE ~(i < 30)
    <3>1. p = <<0, 32 + 16 * (i - 30)>> /\ 32 + 16 * (i - 30) \in Nat
      BY <1>1, <1>2, <2>3 DEF PlaceOf
    <3>2. QED
      BY <1>2, <2>1, <3>1
  <2>4. QED
    BY <2>2, <2>3
<1>3. CASE c.type \in {"card_8", "card_p"}
  <2>1. BlocksFor(c) = {0, 1}
    BY <1>3 DEF BlocksFor, OtherCard
  <2>2. p = <<1, (IF c.type = "card_8" THEN 8 ELSE 48) + 4 * i>>
    BY <1>3 DEF PlaceOf
  <2>3. (IF c.type = "card_8" THEN 8 ELSE 48) + 4 * i \in Nat
    BY <1>1
  <2>4. QED
    BY <1>3, <2>1, <2>2, <2>3
<1>4. CASE c.type = "card_9"
  <2>1. BlocksFor(c) = {0} \cup (IF 18 < c.count THEN {1} ELSE {})
    BY <1>4 DEF BlocksFor, OtherCard
  <2>2. CASE i < 18
    <3>1. p = <<0, 56 + 4 * i>> /\ 56 + 4 * i \in Nat
      BY <1>1, <1>4, <2>2 DEF PlaceOf
    <3>2. QED
      BY <1>4, <2>1, <3>1
  <2>3. CASE ~(i < 18)
    <3>1. p = <<1, 4 * (i - 18)>> /\ 4 * (i - 18) \in Nat /\ 18 < c.count
      BY <1>1, <1>4, <2>3 DEF PlaceOf
    <3>2. QED
      BY <1>4, <2>1, <3>1
  <2>4. QED
    BY <2>2, <2>3
<1>5. CASE c.type = "card_t"
  <2>1. BlocksFor(c) = {0}
    BY <1>5 DEF BlocksFor, OtherCard
  <2>2. CASE i < 9
    <3>1. p = <<0, 56 + 8 * i>> /\ 56 + 8 * i \in Nat /\ ~(i >= 9)
      BY <1>1, <1>5, <2>2 DEF PlaceOf
    <3>2. QED
      BY <1>5, <2>1, <3>1
  <2>3. CASE ~(i < 9)
    <3>1. p = <<1, 8 * (i - 9)>> /\ 8 * (i - 9) \in Nat /\ i >= 9
      BY <1>1, <1>5, <2>3 DEF PlaceOf
    <3>2. QED
      BY <1>5, <2>1, <3>1
  <2>4. QED
    BY <2>2, <2>3
<1>6. CASE c.type \in {"card_6", "card_15"}
  <2> DEFINE q == i \div 32
             r == i % 32
             S == GetSectorFromIndex(c.type)
             n == SectorsNeeded(c.count)
  <2>1. BlocksFor(c) = {0} \cup {S[s] : s \in 1..n}
    BY <1>6 DEF BlocksFor, OtherCard
  <2>2. p = <<S[q + 1], 4 * r>>
    BY <1>6 DEF PlaceOf
  <2>3. q + 1 \in 1..n
    BY <1>1, SectorOfPunch
  <2>4. r \in Nat
    BY <1>1, SMT
  <2>5. BlocksFor(c) \subseteq 0..7
    BY BlocksType
  <2> HIDE DEF q, r, S, n
  <2>6. S[q + 1] \in BlocksFor(c)
    BY <2>1, <2>3
  <2>7. 4 * r \in Nat
    BY <2>4
  <2>8. QED
    BY <1>6, <2>2, <2>5, <2>6, <2>7
<1>7. QED
  BY <1>1, <1>2, <1>3, <1>4, <1>5, <1>6 DEF KnownCard

\* The blocks that the punches of the card are in.
PunchBlocks(c) == {PlaceOf(c, i)[1] : i \in 0..(c.count - 1)}

LEMMA BlocksUsed ==
    ASSUME NEW c \in Cards, c.type \in {"card_5", "card_6", "card_9", "card_15"}
    PROVE  BlocksFor(c) = {0} \cup PunchBlocks(c)
<1>1. c \in Content /\ c.count \in Nat /\ c.count <= Capacity[c.type]
  BY CardType, ContentType
<1>2. \A i \in 0..(c.count - 1) : i \in Nat /\ HasPunch(c, i)
  BY <1>1 DEF HasPunch
<1>3. PunchBlocks(c) \subseteq BlocksFor(c)
  BY <1>2, PlaceRead DEF PunchBlocks
<1>4. ASSUME NEW b \in BlocksFor(c), b # 0
      PROVE  b \in PunchBlocks(c)
  <2>1. c.type # "card_5"
    BY <1>4 DEF BlocksFor
  <2>2. CASE c.type = "card_9"
    <3>1. BlocksFor(c) = {0} \cup (IF 18 < c.count THEN {1} ELSE {})
      BY <2>2 DEF BlocksFor, OtherCard
    <3>2. b = 1 /\ 18 < c.count
      BY <1>4, <3>1
    <3>3. PlaceOf(c, 18)[1] = 1
      BY <2>2 DEF PlaceOf
    <3>4. 18 \in 0..(c.count - 1)
      BY <1>1, <3>2
    <3>5. QED
      BY <3>2, <3>3, <3>4 DEF PunchBlocks
  <2>3. CASE c.type \in {"card_6", "card_15"}
    <3> DEFINE S == GetSectorFromIndex(c.type)
               n == SectorsNeeded(c.count)
    <3>1. BlocksFor(c) = {0} \cup {S[s] : s \in 1..n}
      BY <2>3 DEF BlocksFor, OtherCard
    <3>2. PICK s \in 1..n : b = S[s]
      BY <1>4, <3>1
    <3> DEFINE i == 32 * (s - 1)
    <3>3. i \in Nat /\ i < c.count /\ i \div 32 = s - 1
      BY <1>1, PunchOfSector
    <3> HIDE DEF i
    <3>4. i \in 0..(c.count - 1)
      BY <1>1, <3>3
    <3>5. PlaceOf(c, i) = <<S[(i \div 32) + 1], 4 * (i % 32)>>
      BY <2>3 DEF PlaceOf
    <3>6. (i \div 32) + 1 = s
      <4>1. s \in Int
        BY DEF SectorsNeeded
      <4>2. QED
        BY <3>3, <4>1
    <3>7. PlaceOf(c, i)[1] = b
      BY <3>2, <3>5, <3>6
    <3>8. QED
      BY <3>4, <3>7 DEF PunchBlocks
  <2>4. QED
    BY <2>1, <2>2, <2>3
<1>5. 0 \in BlocksFor(c)
  BY BlocksType
<1>6. QED
  BY <1>3, <1>4, <1>5

\* Before the card is asked for its blocks, and after.
NothingAsked == card_id = 0 /\ card_serie = 0 /\ blocks = {}
BlocksKnown == card_id = IdRead(card) /\ card_serie = SerieOf(card) /\ blocks = BlocksFor(card)

\* Before the header is read, and after.
NothingRead == record = Fresh /\ punches = <<>> /\ latest = NoPunch
HeaderKnown == IF card.type = OtherCard THEN record = Fresh ELSE HeaderIs(record, card)

\* The punches read so far are the first of the card; those of a card_t behind the ninth are
\* in a block that is not asked for.
IsLost(c, i) == c.type = "card_t" /\ i >= 9
PunchesKnown ==
    /\ punches \in Seq((0..7) \X Nat) /\ Len(punches) <= card.count
    /\ \A k \in 1..Len(punches) : punches[k] = PlaceOf(card, k - 1)
    /\ punches = <<>> => latest = NoPunch
    /\ punches # <<>> => LET i == Len(punches) - 1
                         IN latest = IF IsLost(card, i) THEN LostPunch ELSE PunchOf(card, i)

LineKnown ==
    /\ Len(punches) = card.count
    /\ line = [id |-> record.id, check |-> OutTimeDuration(record.check.time),
               start |-> OutTimeDuration(record.start.time),
               finish |-> OutTimeDuration(record.finish.time), count |-> record.count]

IInv == /\ card \in Cards
        /\ stage \in {"inserted", "asked", "read", "written"}
        /\ IF stage = "inserted" THEN NothingAsked ELSE BlocksKnown
        /\ IF stage \in {"inserted", "asked"} THEN NothingRead ELSE HeaderKnown /\ PunchesKnown
        /\ IF stage = "written" THEN LineKnown ELSE line = NoLine

LEMMA ReadInit == Init => IInv
<1> SUFFICES ASSUME Init
             PROVE  IInv
  OBVIOUS
<1>1. stage = "inserted" /\ card \in Cards /\ line = NoLine
  BY DEF Init
<1>2. NothingAsked /\ NothingRead
  BY DEF Init, NothingAsked, NothingRead
<1>3. QED
  BY <1>1, <1>2 DEF IInv

LEMMA ReaderKnown ==
    ASSUME IInv, stage # "inserted"
    PROVE  Reader = ReaderFor(card) /\ 0 \in blocks
<1>1. card \in Cards /\ card_serie = SerieOf(card) /\ blocks = BlocksFor(card)
  BY DEF IInv, BlocksKnown
<1>2. QED
  BY <1>1, ReaderIs, BlocksType DEF Reader

LEMMA ReadNext == IInv /\ [Next]_vars => IInv'
<1> SUFFICES ASSUME IInv, [Next]_vars
             PROVE  IInv'
  OBVIOUS
<1>1. CASE ReadBlocks
  <2> DEFINE block0 == BytesAt(card, 0, 0, BlockSize)
  <2>1. /\ card \in Cards /\ stage = "inserted" /\ NothingRead /\ line = NoLine
        /\ card' = card /\ stage' = "asked" /\ record' = record /\ punches' = punches
        /\ latest' = latest /\ line' = line
    BY <1>1 DEF IInv, ReadBlocks
  <2>2. /\ card_id' = CardId(Family(card), block0)
        /\ card_serie' = CardSerie(Family(card), block0)
        /\ blocks' = GetBlocksNeeded(ReaderOf(Family(card), card_serie'), block0)
    BY <1>1 DEF ReadBlocks
  <2>3. card_id' = IdRead(card) /\ card_serie' = SerieOf(card)
    BY <2>1, <2>2, SerieIs
  <2>4. blocks' = BlocksFor(card)
    BY <2>1, <2>2, <2>3, ReaderIs, BlocksAre
  <2>5. BlocksKnown'
    BY <2>1, <2>3, <2>4 DEF BlocksKnown
  <2>6. NothingRead'
    BY <2>1 DEF NothingRead
  <2>7. QED
    BY <2>1, <2>5, <2>6 DEF IInv
<1>2. CASE ReadHeader
  <2>1. /\ card \in Cards /\ stage = "asked" /\ BlocksKnown /\ NothingRead /\ line = NoLine
        /\ card' = card /\ stage' = "read" /\ punches' = punches /\ latest' = latest
        /\ line' = line /\ card_id' = card_id /\ card_serie' = card_serie /\ blocks' = blocks
        /\ record' = HeaderOf(Reader)
    BY <1>2 DEF IInv, ReadHeader
  <2>2. Reader = ReaderFor(card) /\ 0 \in blocks
    BY <2>1, ReaderKnown
  <2>3. card.type \in KnownCard \cup {OtherCard} /\ card.count \in Nat
    BY <2>1, CardType, ContentType
  <2>4. IF card.type = OtherCard THEN record' = Fresh ELSE HeaderIs(record', card)
    <3>1. CASE card.type = OtherCard
      <4>1. HeaderOf("none") = Fresh
        BY DEF HeaderOf
      <4>2. QED
        BY <2>1, <2>2, <3>1, <4>1 DEF ReaderFor
    <3>2. CASE card.type # OtherCard
      <4>1. Reader = card.type
        BY <2>2, <3>2 DEF ReaderFor
      <4>2. card.type # "none"
        BY <2>3, <3>2 DEF KnownCard
      <4>3. HeaderIs(HeaderOf(card.type), card)
        BY <2>1, <2>2, <4>2, Header5, Header6, Header8
      <4>4. QED
        BY <2>1, <3>2, <4>1, <4>3
    <3>3. QED
      BY <3>1, <3>2
  <2>5. HeaderKnown'
    BY <2>1, <2>4 DEF HeaderKnown
  <2>6. BlocksKnown'
    BY <2>1 DEF BlocksKnown
  <2>7. PunchesKnown'
    BY <2>1, <2>3 DEF NothingRead, PunchesKnown
  <2>8. QED
    BY <2>1, <2>5, <2>6, <2>7 DEF IInv
<1>3. CASE ReadPunch
  <2> DEFINE i == Len(punches)
             place == IF i = 0 THEN FirstPlace(Reader) ELSE NextPlace(Reader, i, punches[i])
  <2>1. /\ card \in Cards /\ stage = "read" /\ BlocksKnown /\ HeaderKnown /\ PunchesKnown /\ line = NoLine
        /\ card' = card /\ stage' = stage /\ line' = line /\ card_id' = card_id
        /\ card_serie' = card_serie /\ blocks' = blocks /\ record' = record
        /\ i < record.count /\ punches' = Append(punches, place) /\ latest' = PunchRecord(i, place)
    BY <1>3 DEF IInv, ReadPunch
  <2>2. Reader = ReaderFor(card)
    BY <2>1, ReaderKnown
  <2>3. i \in Nat
    BY <2>1 DEF PunchesKnown
  <2>4. card.type # OtherCard
    <3>1. card.type = OtherCard => record.count = 0
      BY <2>1 DEF HeaderKnown, Fresh
    <3>2. QED
      BY <2>1, <2>3, <3>1
  <2>5. record.count = card.count /\ Reader = card.type
    BY <2>1, <2>2, <2>4 DEF HeaderKnown, HeaderIs, ReaderFor
  <2>6. HasPunch(card, i)
    BY <2>1, <2>3, <2>5, CardType DEF HasPunch
  <2>7. place = PlaceOf(card, i)
    <3>1. CASE i = 0
      BY <2>5, <2>6, <3>1, FirstPlaceIs
    <3>2. CASE i # 0
      <4>1. i > 0 /\ i \in 1..Len(punches)
        BY <2>3, <3>2
      <4>2. punches[i] = PlaceOf(card, i - 1)
        BY <2>1, <4>1 DEF PunchesKnown
      <4>3. QED
        BY <2>5, <2>6, <3>2, <4>1, <4>2, NextPlaceIs
    <3>3. QED
      BY <3>1, <3>2
  <2>8. PlaceOf(card, i) \in (0..7) \X Nat /\ (PlaceOf(card, i)[1] \in blocks <=> ~IsLost(card, i))
    BY <2>1, <2>6, PlaceRead DEF BlocksKnown, IsLost
  <2>9. latest' = IF IsLost(card, i) THEN LostPunch ELSE PunchOf(card, i)
    BY <2>1, <2>5, <2>6, <2>7, <2>8, PunchRecordIs, PunchRecordLost DEF IsLost
  <2>10. PunchesKnown'
    <3>1. punches \in Seq((0..7) \X Nat) /\ Len(punches) <= card.count
          /\ \A k \in 1..Len(punches) : punches[k] = PlaceOf(card, k - 1)
      BY <2>1 DEF PunchesKnown
    <3>2. place \in (0..7) \X Nat
      BY <2>7, <2>8
    <3> HIDE DEF place
    <3>3. /\ punches' \in Seq((0..7) \X Nat) /\ Len(punches') = i + 1
          /\ \A k \in 1..Len(punches) : punches'[k] = punches[k]
          /\ punches'[i + 1] = place
      BY <2>1, <3>1, <3>2, AppendProperties
    <3> HIDE DEF i
    <3>4. Len(punches') <= card.count
      BY <2>3, <2>6, <3>3, PunchCard
    <3>5. ASSUME NEW k \in 1..Len(punches')
          PROVE  punches'[k] = PlaceOf(card, k - 1)
      <4>1. CASE k = i + 1
        BY <2>3, <2>7, <3>3, <4>1
      <4>2. CASE k # i + 1
        <5>1. k \in 1..Len(punches)
          BY <2>3, <3>3, <4>2 DEF i
        <5>2. QED
          BY <3>1, <3>3, <5>1
      <4>3. QED
        BY <4>1, <4>2
    <3>6. punches' # <<>> /\ Len(punches') - 1 = i
      BY <2>3, <3>3
    <3>7. QED
      BY <2>1, <2>9, <3>3, <3>4, <3>5, <3>6 DEF PunchesKnown
  <2>11. BlocksKnown' /\ HeaderKnown'
    BY <2>1 DEF BlocksKnown, HeaderKnown
  <2>12. QED
    BY <2>1, <2>10, <2>11 DEF IInv
<1>4. CASE ChipRead
  <2>1. /\ card \in Cards /\ stage = "read" /\ BlocksKnown /\ HeaderKnown /\ PunchesKnown
        /\ card' = card /\ stage' = "written" /\ card_id' = card_id /\ card_serie' = card_serie
        /\ blocks' = blocks /\ record' = record /\ punches' = punches /\ latest' = latest
        /\ Len(punches) = record.count
        /\ line' = [id |-> record.id, check |-> OutTimeDuration(record.check.time),
                    start |-> OutTimeDuration(record.start.time),
                    finish |-> OutTimeDuration(record.finish.time), count |-> record.count]
    BY <1>4 DEF IInv, ChipRead
  <2>2. record.count = card.count
    <3>1. CASE card.type = OtherCard
      <4>1. record.count = 0
        BY <2>1, <3>1 DEF HeaderKnown, Fresh
      <4>2. card.count = 0
        BY <2>1, <3>1, CardType, ContentType DEF Capacity, OtherCard
      <4>3. QED
        BY <4>1, <4>2
    <3>2. CASE card.type # OtherCard
      BY <2>1, <3>2 DEF HeaderKnown, HeaderIs
    <3>3. QED
      BY <3>1, <3>2
  <2>3. LineKnown'
    BY <2>1, <2>2 DEF LineKnown
  <2>4. BlocksKnown' /\ HeaderKnown' /\ PunchesKnown'
    BY <2>1 DEF BlocksKnown, HeaderKnown, PunchesKnown
  <2>5. QED
    BY <2>1, <2>3, <2>4 DEF IInv
<1>5. CASE UNCHANGED vars
  BY <1>5 DEF vars, IInv, NothingAsked, BlocksKnown, NothingRead, HeaderKnown, PunchesKnown, LineKnown
<1>6. QED
  BY <1>1, <1>2, <1>3, <1>4, <1>5 DEF Next

\* While a card is read (ReadBlocks, ReadHeader, ReadPunch, ChipRead), the session's number,
\* serie and blocks are those of the card, the record has the card's header, the punches
\* read so far are the first of the card, in order, at their places, and the line is that
\* of the record.
THEOREM ReadInvariant == Spec => []IInv
BY ReadInit, ReadNext, PTL DEF Spec

-----------------------------------------------------------------------------
(***************************************************************************)
(* What follows of it.                                                     *)
(***************************************************************************)
\* HeaderTime gives a record an id that is a number.
LEMMA IdType ==
    ASSUME NEW c \in Cards
    PROVE  IdOf(c) \in Nat /\ IdRead(c) \in Nat /\ SerieOf(c) \in 0..15
<1>1. c \in Content /\ c.number \in Nat /\ IsByte(c.serie) /\ c.type \in KnownCard \cup {OtherCard}
  BY CardType, ContentType
<1>2. IdOf(c) \in Nat
  BY <1>1, SMT DEF IdOf, IsByte
<1>3. IdRead(c) \in Nat
  BY <1>1 DEF IdRead
<1>4. SerieOf(c) \in 0..15
  BY <1>1 DEF SerieOf, Serie, KnownCard, OtherCard
<1>5. QED
  BY <1>2, <1>3, <1>4

LEMMA PunchesOfCard ==
    ASSUME IInv, punches # <<>>
    PROVE  /\ stage \in {"read", "written"} /\ PunchesKnown /\ HeaderKnown /\ BlocksKnown
           /\ Len(punches) - 1 \in Nat /\ HasPunch(card, Len(punches) - 1)
           /\ card.type # OtherCard
<1>1. stage \in {"read", "written"} /\ PunchesKnown /\ HeaderKnown /\ BlocksKnown /\ card \in Cards
  BY DEF IInv, NothingRead
<1>2. Len(punches) \in Nat /\ Len(punches) # 0 /\ Len(punches) <= card.count
  BY <1>1, EmptySeq DEF PunchesKnown
<1>3. card \in Content /\ card.count <= Capacity[card.type] /\ card.count \in Nat
  BY <1>1, CardType, ContentType
<1>4. HasPunch(card, Len(punches) - 1)
  BY <1>2, <1>3 DEF HasPunch
<1>5. card.type # OtherCard
  BY <1>4, PunchCard DEF KnownCard, OtherCard
<1>6. QED
  BY <1>1, <1>2, <1>4, <1>5

LEMMA RecordType ==
    ASSUME IInv
    PROVE  record.id \in Nat /\ record.count \in 0..Capacity[card.type] /\ line.id \in Nat
<1>1. card \in Cards
  BY DEF IInv
<1>2. card.count \in Nat /\ card.count <= Capacity[card.type] /\ card.type \in KnownCard \cup {OtherCard}
  BY <1>1, CardType, ContentType
<1>3. Capacity[card.type] \in Nat
  BY <1>2 DEF Capacity, KnownCard, OtherCard
<1>4. Fresh.id = 0 /\ Fresh.count = 0
  BY DEF Fresh
<1>5. IdOf(card) \in Nat
  BY <1>1, IdType
<1>6. record = Fresh \/ HeaderIs(record, card)
  BY DEF IInv, NothingRead, HeaderKnown
<1>7. record.id \in Nat /\ record.count \in 0..Capacity[card.type]
  BY <1>2, <1>3, <1>4, <1>5, <1>6 DEF HeaderIs
<1>8. line.id \in Nat
  <2>1. NoLine.id = 0
    BY DEF NoLine
  <2>2. stage = "written" => line.id = record.id
    BY DEF IInv, LineKnown
  <2>3. stage # "written" => line = NoLine
    BY DEF IInv
  <2>4. QED
    BY <1>7, <2>1, <2>2, <2>3
<1>9. QED
  BY <1>7, <1>8

LEMMA LatestType ==
    ASSUME IInv
    PROVE  latest.control \in 0..1023 /\ latest.time \in Int
<1>1. NoPunch.control = 0 /\ NoPunch.time = -1 /\ LostPunch.control = 0 /\ LostPunch.time = 0
  BY DEF NoPunch, LostPunch, NotADateTime
<1>2. CASE punches = <<>>
  <2>1. latest = NoPunch
    BY <1>2 DEF IInv, NothingRead, PunchesKnown
  <2>2. QED
    BY <1>1, <2>1
<1>3. CASE punches # <<>>
  <2> DEFINE i == Len(punches) - 1
  <2>1. HasPunch(card, i) /\ PunchesKnown
    BY <1>3, PunchesOfCard
  <2>2. latest = LostPunch \/ latest = PunchOf(card, i)
    BY <1>3, <2>1 DEF PunchesKnown
  <2> HIDE DEF i
  <2>3. /\ PunchControl(card, i) \in Nat /\ PunchControl(card, i) < 1024
        /\ PunchTime(card, i) % HalfDay \in Nat
    BY <2>1, PunchType
  <2>4. PunchOf(card, i).control = PunchControl(card, i) /\ PunchOf(card, i).time \in Int
    BY <2>3 DEF PunchOf, NotADateTime
  <2>5. QED
    BY <1>1, <2>2, <2>3, <2>4
<1>4. QED
  BY <1>2, <1>3

\* The session, the record and the line of a card keep their types, and the record counts
\* no more punches than a card of its type can hold.
THEOREM CardTypes == Spec => []TypeOK
<1>1. IInv => TypeOK
  <2> SUFFICES ASSUME IInv
               PROVE  TypeOK
    OBVIOUS
  <2>1. card \in Cards /\ stage \in {"inserted", "asked", "read", "written"}
    BY DEF IInv
  <2>2. card \in Content
    BY <2>1, CardType
  <2>3. card_id \in Nat /\ card_serie \in 0..15 /\ blocks \subseteq 0..7
    <3>1. NothingAsked \/ BlocksKnown
      BY DEF IInv
    <3>2. CASE NothingAsked
      BY <3>2 DEF NothingAsked
    <3>3. CASE BlocksKnown
      BY <2>1, <3>3, IdType, BlocksType DEF BlocksKnown
    <3>4. QED
      BY <3>1, <3>2, <3>3
  <2>4. punches \in Seq((0..7) \X Nat)
    BY EmptySeq DEF IInv, NothingRead, PunchesKnown
  <2>5. QED
    BY <2>1, <2>2, <2>3, <2>4, RecordType, LatestType DEF TypeOK
<1>2. QED
  BY <1>1, ReadInvariant, PTL

\* The card is not one of those whose later punches are lost: a card_t has 9 in block 0.
NoneLost == card.type = "card_t" => card.count <= 9

LEMMA NotLost ==
    ASSUME NoneLost, IInv, punches # <<>>
    PROVE  ~IsLost(card, Len(punches) - 1)
<1>1. card \in Cards /\ HasPunch(card, Len(punches) - 1)
  BY PunchesOfCard DEF IInv
<1>2. QED
  BY <1>1, PunchCard DEF NoneLost, IsLost

\* Every punch that read takes is in a block that get_blocks_needed had asked for, on every
\* card of every type but a card_t whose punches go on in block 1.
THEOREM PunchesFromReadBlocks == Spec => [](NoneLost => PunchFromReadBlock)
<1>1. IInv => (NoneLost => PunchFromReadBlock)
  <2> SUFFICES ASSUME NoneLost, IInv, punches # <<>>
               PROVE  Last(punches)[1] \in blocks
    BY DEF PunchFromReadBlock
  <2> DEFINE i == Len(punches) - 1
  <2>1. PunchesKnown /\ BlocksKnown /\ i \in Nat /\ HasPunch(card, i) /\ card \in Cards
    BY PunchesOfCard DEF IInv
  <2>2. Last(punches) = punches[Len(punches)]
    BY DEF Last
  <2>3. punches[Len(punches)] = PlaceOf(card, i)
    BY <2>1 DEF PunchesKnown
  <2>4. ~IsLost(card, i)
    BY NotLost
  <2>5. QED
    BY <2>1, <2>2, <2>3, <2>4, PlaceRead DEF BlocksKnown, IsLost
<1>2. QED
  BY <1>1, ReadInvariant, PTL

\* The readers of card_5, card_6, card_9 and card_15 ask for just the blocks in which
\* their loop then finds a punch, and for block 0.
THEOREM NoIdleBlocks == Spec => []NoIdleBlock
<1>1. IInv => NoIdleBlock
  <2> SUFFICES ASSUME IInv, stage = "written", card.type \in {"card_5", "card_6", "card_9", "card_15"}
               PROVE  blocks = {0} \cup {punches[i][1] : i \in 1..Len(punches)}
    BY DEF NoIdleBlock
  <2>1. card \in Cards /\ BlocksKnown /\ PunchesKnown /\ Len(punches) = card.count
    BY DEF IInv, LineKnown
  <2>2. card.count \in Nat
    BY <2>1, CardType, ContentType
  <2>3. blocks = {0} \cup PunchBlocks(card)
    BY <2>1, BlocksUsed DEF BlocksKnown
  <2>4. \A k \in 1..card.count : punches[k] = PlaceOf(card, k - 1)
    BY <2>1 DEF PunchesKnown
  <2>5. \A i \in 0..(card.count - 1) : i + 1 \in 1..card.count /\ (i + 1) - 1 = i
    BY <2>2
  <2>6. \A k \in 1..card.count : k - 1 \in 0..(card.count - 1)
    BY <2>2
  <2>7. PunchBlocks(card) = {punches[k][1] : k \in 1..card.count}
    <3>1. ASSUME NEW i \in 0..(card.count - 1)
          PROVE  PlaceOf(card, i)[1] = punches[i + 1][1] /\ i + 1 \in 1..card.count
      BY <2>4, <2>5
    <3>2. ASSUME NEW k \in 1..card.count
          PROVE  punches[k][1] = PlaceOf(card, k - 1)[1] /\ k - 1 \in 0..(card.count - 1)
      BY <2>4, <2>6
    <3>3. QED
      BY <3>1, <3>2 DEF PunchBlocks
  <2>8. QED
    BY <2>1, <2>3, <2>7
<1>2. QED
  BY <1>1, ReadInvariant, PTL

LEMMA HeaderRead == IInv => HeaderAsWritten
<1> SUFFICES ASSUME IInv, stage \in {"read", "written"}, card.type # OtherCard
             PROVE  HeaderAsWritten
  BY DEF HeaderAsWritten
<1>1. HeaderIs(record, card) /\ card \in Cards
  BY DEF IInv, HeaderKnown
<1>2. card.start \in Time /\ card.finish \in Time
  BY <1>1, CardType, ContentType
<1>3. InSeconds(OutTimeDuration(record.start.time), card.start)
      /\ InSeconds(OutTimeDuration(record.finish.time), card.finish)
  BY <1>1, <1>2, LineTime DEF HeaderIs
<1>4. stage = "written" => /\ line.start = OutTimeDuration(record.start.time)
                           /\ line.finish = OutTimeDuration(record.finish.time)
  BY DEF IInv, LineKnown
<1>5. stage = "written" => InSeconds(line.start, card.start) /\ InSeconds(line.finish, card.finish)
  BY <1>3, <1>4
<1>6. QED
  BY <1>1, <1>5 DEF HeaderAsWritten, HeaderIs

\* read sets every time of the header, and the number of punches, to what is on the card,
\* and out_time_duration writes its seconds, whatever the card holds.
THEOREM HeadersAsWritten == Spec => []HeaderAsWritten
BY HeaderRead, ReadInvariant, PTL

LEMMA PunchRead ==
    ASSUME NoneLost, IInv, punches # <<>>
    PROVE  latest = PunchOf(card, Len(punches) - 1)
BY NotLost, PunchesOfCard DEF PunchesKnown

\* The record that read makes is what is on the card, header and punches, for every card
\* but a card_t whose punches go on in block 1.
THEOREM RecordsAsWritten == Spec => [](NoneLost => RecordAsWritten)
<1>1. IInv => (NoneLost => RecordAsWritten)
  <2> SUFFICES ASSUME NoneLost, IInv, punches # <<>>
               PROVE  PunchAsMade
    BY HeaderRead DEF PunchAsMade, RecordAsWritten
  <2> DEFINE i == Len(punches) - 1
  <2>1. latest = PunchOf(card, i)
    BY PunchRead
  <2> HIDE DEF i
  <2>2. /\ latest.control = PunchControl(card, i)
        /\ IF card.type = "card_5" /\ i >= 30 THEN latest.time = NotADateTime
           ELSE latest.time = 1000 * (PunchTime(card, i) % HalfDay)
    BY <2>1 DEF PunchOf
  <2>3. QED
    BY <2>2 DEF PunchAsMade, i
<1>2. QED
  BY <1>1, ReadInvariant, PTL

\* The two numbers put together in what a station announces, and the smaller one alone.
IsAnnouncedTwo(si, s, n) == si % 65536 = n /\ si \div 65536 = s
IsAnnouncedThree(si, n) == si % 16777216 = n

\* The number in the announcement of a card, that of blocks_read and that of card_record are
\* one, but for the 100000 of a card_5 of serie 1.
THEOREM SameNumbers == Spec => []SameNumber
<1>1. IInv => SameNumber
  <2> SUFFICES ASSUME IInv, stage = "written", card.type # OtherCard
               PROVE  SameNumber
    BY DEF SameNumber
  <2>1. record.id = IdOf(card) /\ card_id = IdRead(card) /\ card \in Cards
    BY DEF IInv, HeaderKnown, HeaderIs, BlocksKnown
  <2>2. /\ card \in Content /\ card.number \in Nat /\ InThree(card.number)
        /\ card.type = "card_5" => InTwo(card.number)
        /\ card.type \in KnownCard \cup {OtherCard} /\ card.serie \in Nat
    BY <2>1, CardType, ContentType DEF IsByte
  <2>3. CASE card.type = "card_5"
    <3> DEFINE si == 65536 * card.serie + card.number
    <3>1. Announcement = si /\ Family(card) = "card_5"
      BY <2>3 DEF Announcement, Family
    <3>2. IsAnnouncedTwo(si, card.serie, card.number)
      BY <2>2, <2>3, SMT DEF InTwo, IsAnnouncedTwo
    <3> HIDE DEF si
    <3>3. AnnouncedId("card_5", si) = card.number + 100000 * card.serie
      BY <3>2, SMT DEF AnnouncedId, IsAnnouncedTwo
    <3>4. IdOf(card) = card.number + 100000 * card.serie - (IF card.serie = 1 THEN 100000 ELSE 0)
      BY <2>2, <2>3, SMT DEF IdOf
    <3>5. record.id = AnnouncedId(Family(card), Announcement)
                        - (IF card.type = "card_5" /\ card.serie = 1 THEN 100000 ELSE 0)
      BY <2>1, <2>2, <2>3, <3>1, <3>3, <3>4, SMT
    <3>6. QED
      BY <2>3, <3>5, SMT DEF SameNumber
  <2>4. CASE card.type = "card_6"
    BY <2>1, <2>2, <2>4, SMT DEF SameNumber, Announcement, Family, AnnouncedId, IdOf, IdRead
  <2>5. CASE card.type \notin {"card_5", "card_6"}
    <3> DEFINE si == 16777216 * Serie[card.type] + card.number
    <3>1. Announcement = si /\ Family(card) = "card_8_family"
      BY <2>5 DEF Announcement, Family
    <3>2. Serie[card.type] \in Nat
      BY <2>2, <2>5 DEF Serie, KnownCard, OtherCard
    <3>3. IsAnnouncedThree(si, card.number)
      <4>1. \A n, s : n \in Nat /\ s \in Nat /\ InThree(n) => IsAnnouncedThree(16777216 * s + n, n)
        BY SMT DEF InThree, IsAnnouncedThree
      <4>2. QED
        BY <2>2, <3>2, <4>1, SMT
    <3> HIDE DEF si
    <3>4. AnnouncedId("card_8_family", si) = card.number
      BY <3>3, SMT DEF AnnouncedId, IsAnnouncedThree
    <3>5. QED
      BY <2>1, <2>2, <2>5, <3>1, <3>4, SMT DEF SameNumber, IdOf, IdRead
  <2>6. QED
    BY <2>3, <2>4, <2>5
<1>2. QED
  BY <1>1, ReadInvariant, PTL

-----------------------------------------------------------------------------
(***************************************************************************)
(* A transmitted punch: its bytes ...                                      *)
(***************************************************************************)
extended_def == transmit_record_data_def["extended"]
basic_def == transmit_record_data_def["basic"]

LEMMA ExtendedDef ==
    /\ \E P : extended_def \in Seq(P)
    /\ SizeOf(extended_def) = 13
    /\ IsField(extended_def, 1, 0, "cn", 2)
    /\ IsField(extended_def, 2, 2, "si", 4)
    /\ IsField(extended_def, 4, 7, "t", 2)
    /\ IsField(extended_def, 5, 9, "tss", 1)
<1> DEFINE def == extended_def
           P == {def[j] : j \in 1..6}
<1>1. /\ Len(def) = 6
      /\ def[1] = Part("cn", 2)
      /\ def[2] = Part("si", 4)
      /\ def[3] = Part("td", 1)
      /\ def[4] = Part("t", 2)
      /\ def[5] = Part("tss", 1)
      /\ def[6] = Part("mem", 3)
  BY DEF extended_def, transmit_record_data_def
<1>2. def \in Seq(P)
  BY DEF extended_def, transmit_record_data_def
<1> HIDE DEF def, P
<1>3. \A j \in 1..6 : j = 1 \/ j = 2 \/ j = 3 \/ j = 4 \/ j = 5 \/ j = 6
  OBVIOUS
<1>4. HasSizes(def)
  BY <1>1, <1>3 DEF HasSizes, Part
<1>5. /\ Ends(Sizes(def))[0] = 0
      /\ \A j \in 1..6 : Ends(Sizes(def))[j] = Ends(Sizes(def))[j - 1] + def[j].size
  BY <1>1, <1>2, <1>4, SizesRun
<1>6. /\ def[1].size = 2
      /\ def[2].size = 4
      /\ def[3].size = 1
      /\ def[4].size = 2
      /\ def[5].size = 1
      /\ def[6].size = 3
  BY <1>1 DEF Part
<1>7. /\ Ends(Sizes(def))[1] = 2
      /\ Ends(Sizes(def))[2] = 6
      /\ Ends(Sizes(def))[3] = 7
      /\ Ends(Sizes(def))[4] = 9
      /\ Ends(Sizes(def))[5] = 10
      /\ Ends(Sizes(def))[6] = 13
  BY <1>5, <1>6
<1>8. /\ def[1].name = "cn"
      /\ def[2].name = "si"
      /\ def[3].name = "td"
      /\ def[4].name = "t"
      /\ def[5].name = "tss"
      /\ def[6].name = "mem"
  BY <1>1 DEF Part
<1>9. IsField(def, 1, 0, "cn", 2)
  <2>1. \A k \in 1..6 : def[k].name = "cn" => k = 1
    BY <1>3, <1>8 DEF Skipped
  <2>2. Ends(Sizes(def))[1 - 1] = 0
    BY <1>5, <1>7
  <2>3. QED
    BY <1>1, <2>1, <2>2 DEF IsField
<1>10. IsField(def, 2, 2, "si", 4)
  <2>1. \A k \in 1..6 : def[k].name = "si" => k = 2
    BY <1>3, <1>8 DEF Skipped
  <2>2. Ends(Sizes(def))[2 - 1] = 2
    BY <1>5, <1>7
  <2>3. QED
    BY <1>1, <2>1, <2>2 DEF IsField
<1>11. IsField(def, 4, 7, "t", 2)
  <2>1. \A k \in 1..6 : def[k].name = "t" => k = 4
    BY <1>3, <1>8 DEF Skipped
  <2>2. Ends(Sizes(def))[4 - 1] = 7
    BY <1>5, <1>7
  <2>3. QED
    BY <1>1, <2>1, <2>2 DEF IsField
<1>12. IsField(def, 5, 9, "tss", 1)
  <2>1. \A k \in 1..6 : def[k].name = "tss" => k = 5
    BY <1>3, <1>8 DEF Skipped
  <2>2. Ends(Sizes(def))[5 - 1] = 9
    BY <1>5, <1>7
  <2>3. QED
    BY <1>1, <2>1, <2>2 DEF IsField
<1>13. SizeOf(def) = 13
  BY <1>1, <1>7 DEF SizeOf
<1>14. QED
  BY <1>2, <1>9, <1>10, <1>11, <1>12, <1>13 DEF def

LEMMA BasicDef ==
    /\ \E P : basic_def \in Seq(P)
    /\ SizeOf(basic_def) = 11
    /\ IsField(basic_def, 2, 1, "cn", 1)
    /\ IsField(basic_def, 3, 2, "sis", 1)
    /\ IsField(basic_def, 4, 3, "sisn", 2)
    /\ IsField(basic_def, 6, 6, "t", 2)
    /\ IsField(basic_def, 7, 8, "tss", 1)
<1> DEFINE def == basic_def
           P == {def[j] : j \in 1..8}
<1>1. /\ Len(def) = 8
      /\ def[1] = Part("td", 1)
      /\ def[2] = Part("cn", 1)
      /\ def[3] = Part("sis", 1)
      /\ def[4] = Part("sisn", 2)
      /\ def[5] = Part("ql", 1)
      /\ def[6] = Part("t", 2)
      /\ def[7] = Part("tss", 1)
      /\ def[8] = Part("crc", 2)
  BY DEF basic_def, transmit_record_data_def
<1>2. def \in Seq(P)
  BY DEF basic_def, transmit_record_data_def
<1> HIDE DEF def, P
<1>3. \A j \in 1..8 : j = 1 \/ j = 2 \/ j = 3 \/ j = 4 \/ j = 5 \/ j = 6 \/ j = 7 \/ j = 8
  OBVIOUS
<1>4. HasSizes(def)
  BY <1>1, <1>3 DEF HasSizes, Part
<1>5. /\ Ends(Sizes(def))[0] = 0
      /\ \A j \in 1..8 : Ends(Sizes(def))[j] = Ends(Sizes(def))[j - 1] + def[j].size
  BY <1>1, <1>2, <1>4, SizesRun
<1>6. /\ def[1].size = 1
      /\ def[2].size = 1
      /\ def[3].size = 1
      /\ def[4].size = 2
      /\ def[5].size = 1
      /\ def[6].size = 2
      /\ def[7].size = 1
      /\ def[8].size = 2
  BY <1>1 DEF Part
<1>7. /\ Ends(Sizes(def))[1] = 1
      /\ Ends(Sizes(def))[2] = 2
      /\ Ends(Sizes(def))[3] = 3
      /\ Ends(Sizes(def))[4] = 5
      /\ Ends(Sizes(def))[5] = 6
      /\ Ends(Sizes(def))[6] = 8
      /\ Ends(Sizes(def))[7] = 9
      /\ Ends(Sizes(def))[8] = 11
  BY <1>5, <1>6
<1>8. /\ def[1].name = "td"
      /\ def[2].name = "cn"
      /\ def[3].name = "sis"
      /\ def[4].name = "sisn"
      /\ def[5].name = "ql"
      /\ def[6].name = "t"
      /\ def[7].name = "tss"
      /\ def[8].name = "crc"
  BY <1>1 DEF Part
<1>9. IsField(def, 2, 1, "cn", 1)
  <2>1. \A k \in 1..8 : def[k].name = "cn" => k = 2
    BY <1>3, <1>8 DEF Skipped
  <2>2. Ends(Sizes(def))[2 - 1] = 1
    BY <1>5, <1>7
  <2>3. QED
    BY <1>1, <2>1, <2>2 DEF IsField
<1>10. IsField(def, 3, 2, "sis", 1)
  <2>1. \A k \in 1..8 : def[k].name = "sis" => k = 3
    BY <1>3, <1>8 DEF Skipped
  <2>2. Ends(Sizes(def))[3 - 1] = 2
    BY <1>5, <1>7
  <2>3. QED
    BY <1>1, <2>1, <2>2 DEF IsField
<1>11. IsField(def, 4, 3, "sisn", 2)
  <2>1. \A k \in 1..8 : def[k].name = "sisn" => k = 4
    BY <1>3, <1>8 DEF Skipped
  <2>2. Ends(Sizes(def))[4 - 1] = 3
    BY <1>5, <1>7
  <2>3. QED
    BY <1>1, <2>1, <2>2 DEF IsField
<1>12. IsField(def, 6, 6, "t", 2)
  <2>1. \A k \in 1..8 : def[k].name = "t" => k = 6
    BY <1>3, <1>8 DEF Skipped
  <2>2. Ends(Sizes(def))[6 - 1] = 6
    BY <1>5, <1>7
  <2>3. QED
    BY <1>1, <2>1, <2>2 DEF IsField
<1>13. IsField(def, 7, 8, "tss", 1)
  <2>1. \A k \in 1..8 : def[k].name = "tss" => k = 7
    BY <1>3, <1>8 DEF Skipped
  <2>2. Ends(Sizes(def))[7 - 1] = 8
    BY <1>5, <1>7
  <2>3. QED
    BY <1>1, <2>1, <2>2 DEF IsField
<1>14. SizeOf(def) = 11
  BY <1>1, <1>7 DEF SizeOf
<1>15. QED
  BY <1>2, <1>9, <1>10, <1>11, <1>12, <1>13, <1>14 DEF def

\* The bytes of a card number in a transmitted punch.
IsIdOf(c, p, q, r) == /\ p \in Nat /\ q \in Nat /\ r \in Nat
                      /\ c.type # "card_5" => 65536 * p + 256 * q + r = c.number

LEMMA NumberOnAir ==
    ASSUME NEW c \in Cards, c.type # OtherCard
    PROVE  \E p, q, r : Number4(c) = <<0, p, q, r>> /\ IsIdOf(c, p, q, r)
<1>1. c \in Content /\ c.number \in Nat /\ InThree(c.number) /\ IsByte(c.serie)
  BY CardType, ContentType
<1>2. CASE c.type = "card_5"
  <2>1. PICK q, r : TwoBytes(c.number) = <<q, r>> /\ IsByte(q) /\ IsByte(r)
    BY <1>1, TwoBytesValue
  <2>2. Number4(c) = <<0, c.serie>> \o TwoBytes(c.number)
    BY <1>2 DEF Number4, Family
  <2>3. Number4(c) = <<0, c.serie, q, r>>
    BY <2>1, <2>2, JoinPairs
  <2>4. IsIdOf(c, c.serie, q, r)
    BY <1>1, <1>2, <2>1, SMT DEF IsIdOf, IsByte
  <2>5. QED
    BY <2>3, <2>4
<1>3. CASE c.type # "card_5"
  <2>1. PICK p, q, r : /\ ThreeBytes(c.number) = <<p, q, r>> /\ IsThree(c.number, p, q, r)
                       /\ IsByte(p) /\ IsByte(q) /\ IsByte(r)
    BY <1>1, ThreeBytesValue
  <2>2. Number4(c) = << 0 >> \o ThreeBytes(c.number)
    BY <1>3 DEF Number4, Family
  <2>3. Number4(c) = <<0, p, q, r>>
    BY <2>1, <2>2, JoinThree
  <2>4. IsIdOf(c, p, q, r)
    BY <1>1, <2>1, SMT DEF IsIdOf, IsByte, IsThree, InThree
  <2>5. QED
    BY <2>3, <2>4
<1>4. QED
  BY <1>2, <1>3

\* The four bytes b are these.
IsFour(b, p, q, r, s) == b \in Seq(Nat) /\ Len(b) = 4 /\ b[1] = p /\ b[2] = q /\ b[3] = r /\ b[4] = s
IsThreeLong(b, p, q, r) == b \in Seq(Nat) /\ Len(b) = 3 /\ b[1] = p /\ b[2] = q /\ b[3] = r
IsTwoLong(b, p, q) == b \in Seq(Nat) /\ Len(b) = 2 /\ b[1] = p /\ b[2] = q
IsOneLong(b, p) == b \in Seq(Nat) /\ Len(b) = 1 /\ b[1] = p

LEMMA TailOfFour ==
    ASSUME NEW b, NEW p, NEW q, NEW r, NEW s, IsFour(b, p, q, r, s)
    PROVE  IsThreeLong(Tail(b), q, r, s)
<1>1. b \in Seq(Nat) /\ Len(b) = 4 /\ b[2] = q /\ b[3] = r /\ b[4] = s
  BY DEF IsFour
<1>2. b \in Seq(Nat) /\ b # <<>>
  BY <1>1, EmptySeq
<1>3. /\ Tail(b) \in Seq(Nat) /\ Len(Tail(b)) = Len(b) - 1
      /\ \A i \in 1..Len(Tail(b)) : Tail(b)[i] = b[i + 1]
  BY <1>2, HeadTailProperties
<1> DEFINE u == Tail(b)
<1>4. u \in Seq(Nat) /\ Len(u) = Len(b) - 1 /\ \A i \in 1..Len(u) : u[i] = b[i + 1]
  BY <1>3
<1> HIDE DEF u
<1>5. Len(u) = 3
  BY <1>1, <1>4
<1>6. u[1] = b[2] /\ u[2] = b[3] /\ u[3] = b[4]
  <2>1. \A i \in 1..3 : u[i] = b[i + 1]
    BY <1>4, <1>5
  <2>2. 1 \in 1..3 /\ 2 \in 1..3 /\ 3 \in 1..3 /\ 1 + 1 = 2 /\ 2 + 1 = 3 /\ 3 + 1 = 4
    OBVIOUS
  <2>3. u[1] = b[1 + 1] /\ u[2] = b[2 + 1] /\ u[3] = b[3 + 1]
    BY <2>1, <2>2
  <2>4. QED
    BY <2>2, <2>3
<1>7. IsThreeLong(u, q, r, s)
  BY <1>1, <1>4, <1>5, <1>6 DEF IsThreeLong
<1>8. QED
  BY <1>7 DEF u

\* The bytes of a transmitted punch, but the last, whose meaning is not looked at.
IsExtended(d, c1, c2, p, q, r, t1, t2) ==
    /\ d \in Seq(Nat) /\ Len(d) = 13
    /\ d[1] = c1 /\ d[2] = c2 /\ d[3] = 0 /\ d[4] = p /\ d[5] = q /\ d[6] = r
    /\ d[8] = t1 /\ d[9] = t2 /\ d[10] = 77

IsBasic(d, cn, p, q, r, t1, t2) ==
    /\ d \in Seq(Nat) /\ Len(d) = 11
    /\ d[2] = cn /\ d[3] = p /\ d[4] = q /\ d[5] = r /\ d[7] = t1 /\ d[8] = t2 /\ d[9] = 77

LEMMA ExtendedBytes ==
    ASSUME NEW cn, NEW c1, NEW c2, IsTwoLong(cn, c1, c2),
           NEW si, NEW p, NEW q, NEW r, IsFour(si, 0, p, q, r),
           NEW half, NEW h, IsOneLong(half, h),
           NEW t, NEW t1, NEW t2, IsTwoLong(t, t1, t2),
           NEW rest, IsFour(rest, 77, 0, 1, 0)
    PROVE  IsExtended(cn \o si \o half \o t \o rest, c1, c2, p, q, r, t1, t2)
<1>1. cn \in Seq(Nat) /\ si \in Seq(Nat) /\ half \in Seq(Nat) /\ t \in Seq(Nat) /\ rest \in Seq(Nat)
  BY DEF IsFour, IsTwoLong, IsOneLong
<1> DEFINE d1 == cn \o si
           d2 == d1 \o half
           d3 == d2 \o t
           d4 == d3 \o rest
<1>2. d1 \in Seq(Nat) /\ IsJoined(d1, cn, si)
  BY <1>1, ConcatBehind
<1> HIDE DEF d1
<1>3. d2 \in Seq(Nat) /\ IsJoined(d2, d1, half)
  BY <1>1, <1>2, ConcatBehind
<1> HIDE DEF d2
<1>4. d3 \in Seq(Nat) /\ IsJoined(d3, d2, t)
  BY <1>1, <1>3, ConcatBehind
<1> HIDE DEF d3
<1>5. d4 \in Seq(Nat) /\ IsJoined(d4, d3, rest)
  BY <1>1, <1>4, ConcatBehind
<1> HIDE DEF d4
<1>6. Len(d1) = 6 /\ d1[1] = c1 /\ d1[2] = c2 /\ d1[3] = 0 /\ d1[4] = p /\ d1[5] = q /\ d1[6] = r
  <2>1. Len(d1) = 6 /\ d1[1] = cn[1] /\ d1[2] = cn[2]
    BY <1>2 DEF IsJoined, IsTwoLong, IsFour
  <2>2. d1[2 + 1] = si[1] /\ d1[2 + 2] = si[2] /\ d1[2 + 3] = si[3] /\ d1[2 + 4] = si[4]
    BY <1>2 DEF IsJoined, IsTwoLong, IsFour
  <2>3. QED
    BY <2>1, <2>2 DEF IsTwoLong, IsFour
<1>7. Len(d2) = 7 /\ \A i \in 1..6 : d2[i] = d1[i]
  BY <1>3, <1>6 DEF IsJoined, IsOneLong
<1>8. Len(d3) = 9 /\ (\A i \in 1..7 : d3[i] = d2[i]) /\ d3[7 + 1] = t1 /\ d3[7 + 2] = t2
  BY <1>4, <1>7 DEF IsJoined, IsTwoLong
<1>9. Len(d4) = 13 /\ (\A i \in 1..9 : d4[i] = d3[i]) /\ d4[9 + 1] = 77
  BY <1>5, <1>8 DEF IsJoined, IsFour
<1>10. d4[1] = c1 /\ d4[2] = c2 /\ d4[3] = 0 /\ d4[4] = p
  BY <1>6, <1>7, <1>8, <1>9
<1>11. d4[5] = q /\ d4[6] = r /\ d4[8] = t1 /\ d4[9] = t2 /\ d4[10] = 77
  BY <1>6, <1>7, <1>8, <1>9
<1>12. IsExtended(d4, c1, c2, p, q, r, t1, t2)
  BY <1>5, <1>9, <1>10, <1>11 DEF IsExtended
<1>13. QED
  BY <1>12 DEF d1, d2, d3, d4

LEMMA BasicBytes ==
    ASSUME NEW half, NEW h, IsOneLong(half, h), NEW cn, NEW x, IsOneLong(cn, x),
           NEW si, NEW p, NEW q, NEW r, IsThreeLong(si, p, q, r),
           NEW ql, NEW y, IsOneLong(ql, y),
           NEW t, NEW t1, NEW t2, IsTwoLong(t, t1, t2),
           NEW rest, IsThreeLong(rest, 77, 0, 0)
    PROVE  IsBasic(half \o cn \o si \o ql \o t \o rest, x, p, q, r, t1, t2)
<1>1. /\ half \in Seq(Nat) /\ cn \in Seq(Nat) /\ si \in Seq(Nat) /\ ql \in Seq(Nat) /\ t \in Seq(Nat)
      /\ rest \in Seq(Nat)
  BY DEF IsThreeLong, IsTwoLong, IsOneLong
<1> DEFINE d1 == half \o cn
           d2 == d1 \o si
           d3 == d2 \o ql
           d4 == d3 \o t
           d5 == d4 \o rest
<1>2. d1 \in Seq(Nat) /\ IsJoined(d1, half, cn)
  BY <1>1, ConcatBehind
<1> HIDE DEF d1
<1>3. d2 \in Seq(Nat) /\ IsJoined(d2, d1, si)
  BY <1>1, <1>2, ConcatBehind
<1> HIDE DEF d2
<1>4. d3 \in Seq(Nat) /\ IsJoined(d3, d2, ql)
  BY <1>1, <1>3, ConcatBehind
<1> HIDE DEF d3
<1>5. d4 \in Seq(Nat) /\ IsJoined(d4, d3, t)
  BY <1>1, <1>4, ConcatBehind
<1> HIDE DEF d4
<1>6. d5 \in Seq(Nat) /\ IsJoined(d5, d4, rest)
  BY <1>1, <1>5, ConcatBehind
<1> HIDE DEF d5
<1>7. Len(d1) = 2 /\ d1[1 + 1] = x
  BY <1>2 DEF IsJoined, IsOneLong
<1>8. Len(d2) = 5 /\ (\A i \in 1..2 : d2[i] = d1[i]) /\ d2[2 + 1] = p /\ d2[2 + 2] = q /\ d2[2 + 3] = r
  BY <1>3, <1>7 DEF IsJoined, IsThreeLong
<1>9. Len(d3) = 6 /\ \A i \in 1..5 : d3[i] = d2[i]
  BY <1>4, <1>8 DEF IsJoined, IsOneLong
<1>10. Len(d4) = 8 /\ (\A i \in 1..6 : d4[i] = d3[i]) /\ d4[6 + 1] = t1 /\ d4[6 + 2] = t2
  BY <1>5, <1>9 DEF IsJoined, IsTwoLong
<1>11. Len(d5) = 11 /\ (\A i \in 1..8 : d5[i] = d4[i]) /\ d5[8 + 1] = 77
  BY <1>6, <1>10 DEF IsJoined, IsThreeLong
<1>12. d5[2] = x /\ d5[3] = p /\ d5[4] = q /\ d5[5] = r
  BY <1>7, <1>8, <1>9, <1>10, <1>11
<1>13. d5[7] = t1 /\ d5[8] = t2 /\ d5[9] = 77
  BY <1>10, <1>11
<1>14. IsBasic(d5, x, p, q, r, t1, t2)
  BY <1>6, <1>11, <1>12, <1>13 DEF IsBasic
<1>15. QED
  BY <1>14 DEF d1, d2, d3, d4, d5

\* What the two parsers take from the bytes of a transmitted punch.
HasPlace(data, a, size) == SlicePlace(data, a, size, a + 1, a + size)
IsValue(n, data, a, size) ==
    /\ size = 1 => n = data[a + 1]
    /\ size = 2 => n = 256 * data[a + 1] + data[a + 2]
    /\ size = 4 => n = 16777216 * data[a + 1] + 65536 * data[a + 2] + 256 * data[a + 3] + data[a + 4]

LEMMA TakenNumber ==
    ASSUME NEW P, NEW def \in Seq(P), NEW j, NEW a, NEW name, NEW size,
           IsField(def, j, a, name, size), NEW data \in Seq(Nat),
           HasPlace(data, a, size)
    PROVE  IsValue(Number(Taken(def, data, name)), data, a, size)
<1> DEFINE b == Taken(def, data, name)
<1>1. IsSlice(b, data, a, size) /\ b \in Seq(Nat)
  BY TakenSlice DEF HasPlace
<1> HIDE DEF b
<1>2. Len(b) = size /\ \A i \in 1..size : b[i] = data[a + i]
  BY <1>1 DEF IsSlice
<1>3. ASSUME size = 1
      PROVE  Number(b) = data[a + 1]
  BY <1>1, <1>2, <1>3, NumberOfOne
<1>4. ASSUME size = 2
      PROVE  Number(b) = 256 * data[a + 1] + data[a + 2]
  <2>1. b[1] = data[a + 1] /\ b[2] = data[a + 2]
    BY <1>2, <1>4
  <2>2. QED
    BY <1>1, <1>2, <1>4, <2>1, NumberOfTwo
<1>5. ASSUME size = 4
      PROVE  Number(b) = 16777216 * data[a + 1] + 65536 * data[a + 2]
                             + 256 * data[a + 3] + data[a + 4]
  <2>1. b[1] = data[a + 1] /\ b[2] = data[a + 2] /\ b[3] = data[a + 3] /\ b[4] = data[a + 4]
    BY <1>2, <1>5, SMT
  <2>2. Number(b) = 16777216 * b[1] + 65536 * b[2] + 256 * b[3] + b[4]
    BY <1>1, <1>2, <1>5, NumberOfFour, SMT
  <2>3. QED
    BY <2>1, <2>2, SMT
<1>6. QED
  BY <1>3, <1>4, <1>5, SMT DEF b, IsValue

-----------------------------------------------------------------------------
(***************************************************************************)
(* ... and its lines.                                                      *)
(***************************************************************************)
\* The line of a transmitted punch.
IdOnAir(p, q, r) == 65536 * p + 256 * q + r
IsLine(l, id, control, t) == l.id = id /\ l.control = control /\ l.time = 1000 * t + 300

LEMMA ExtendedLine ==
    ASSUME NEW d, NEW c1 \in Nat, NEW c2 \in Nat, NEW p \in Nat, NEW q \in Nat, NEW r \in Nat,
           NEW t1 \in Nat, NEW t2 \in Nat, IsExtended(d, c1, c2, p, q, r, t1, t2),
           NEW control, IsTwo(control, c1, c2), InTwo(control),
           NEW t, IsTwo(t, t1, t2), InTwo(t)
    PROVE  IsLine(PunchLine("extended", d), IdOnAir(p, q, r), control, t)
<1> DEFINE def == extended_def
           Field(name) == Number(Taken(def, d, name))
<1>1. d \in Seq(Nat) /\ Len(d) = 13
  BY DEF IsExtended
<1>2. PICK P : def \in Seq(P)
  BY ExtendedDef
<1>3. /\ IsField(def, 1, 0, "cn", 2) /\ IsField(def, 2, 2, "si", 4)
      /\ IsField(def, 4, 7, "t", 2) /\ IsField(def, 5, 9, "tss", 1)
  BY ExtendedDef
<1> HIDE DEF def
<1>4. Field("cn") = 256 * d[0 + 1] + d[0 + 2]
  <2>1. HasPlace(d, 0, 2)
    BY <1>1 DEF SlicePlace, HasPlace
  <2>2. IsValue(Field("cn"), d, 0, 2)
    BY <1>1, <1>2, <1>3, <2>1, TakenNumber
  <2>3. QED
    BY <2>2, SMT DEF IsValue
<1>5. Field("si") = 16777216 * d[2 + 1] + 65536 * d[2 + 2] + 256 * d[2 + 3] + d[2 + 4]
  <2>1. HasPlace(d, 2, 4)
    BY <1>1 DEF SlicePlace, HasPlace
  <2>2. IsValue(Field("si"), d, 2, 4)
    BY <1>1, <1>2, <1>3, <2>1, TakenNumber
  <2>3. QED
    BY <2>2, SMT DEF IsValue
<1>6. Field("t") = 256 * d[7 + 1] + d[7 + 2]
  <2>1. HasPlace(d, 7, 2)
    BY <1>1 DEF SlicePlace, HasPlace
  <2>2. IsValue(Field("t"), d, 7, 2)
    BY <1>1, <1>2, <1>3, <2>1, TakenNumber
  <2>3. QED
    BY <2>2, SMT DEF IsValue
<1>7. Field("tss") = d[9 + 1]
  <2>1. HasPlace(d, 9, 1)
    BY <1>1 DEF SlicePlace, HasPlace
  <2>2. IsValue(Field("tss"), d, 9, 1)
    BY <1>1, <1>2, <1>3, <2>1, TakenNumber
  <2>3. QED
    BY <2>2, SMT DEF IsValue
<1>8. PunchLine("extended", d) = [id |-> Field("si"), control |-> Field("cn"),
                                  time |-> 1000 * Field("t") + (Field("tss") * 1000) \div 256]
  BY DEF PunchLine, def, extended_def
<1> HIDE DEF Field
<1>9. /\ d[1] = c1 /\ d[2] = c2 /\ d[3] = 0 /\ d[4] = p /\ d[5] = q /\ d[6] = r
      /\ d[8] = t1 /\ d[9] = t2 /\ d[10] = 77
  BY DEF IsExtended
<1>10. Field("si") = IdOnAir(p, q, r)
  BY <1>5, <1>9, SMT DEF IdOnAir
<1>11. Field("cn") = control
  BY <1>4, <1>9, SMT DEF IsTwo, InTwo
<1>12. Field("t") = t
  BY <1>6, <1>9, SMT DEF IsTwo, InTwo
<1>13. (Field("tss") * 1000) \div 256 = 300
  BY <1>7, <1>9, SMT
<1>14. QED
  BY <1>8, <1>10, <1>11, <1>12, <1>13 DEF IsLine

LEMMA BasicLine ==
    ASSUME NEW d, NEW x \in Nat, NEW p \in Nat, NEW q \in Nat, NEW r \in Nat,
           NEW t1 \in Nat, NEW t2 \in Nat, IsBasic(d, x, p, q, r, t1, t2),
           NEW t, IsTwo(t, t1, t2), InTwo(t)
    PROVE  IsLine(PunchLine("basic", d), IdOnAir(p, q, r), x, t)
<1> DEFINE def == basic_def
           Field(name) == Number(Taken(def, d, name))
<1>1. d \in Seq(Nat) /\ Len(d) = 11
  BY DEF IsBasic
<1>2. PICK P : def \in Seq(P)
  BY BasicDef
<1>3. /\ IsField(def, 2, 1, "cn", 1) /\ IsField(def, 3, 2, "sis", 1) /\ IsField(def, 4, 3, "sisn", 2)
      /\ IsField(def, 6, 6, "t", 2) /\ IsField(def, 7, 8, "tss", 1)
  BY BasicDef
<1> HIDE DEF def
<1>4. Field("cn") = d[1 + 1]
  <2>1. HasPlace(d, 1, 1)
    BY <1>1 DEF SlicePlace, HasPlace
  <2>2. IsValue(Field("cn"), d, 1, 1)
    BY <1>1, <1>2, <1>3, <2>1, TakenNumber
  <2>3. QED
    BY <2>2, SMT DEF IsValue
<1>5. Field("sis") = d[2 + 1]
  <2>1. HasPlace(d, 2, 1)
    BY <1>1 DEF SlicePlace, HasPlace
  <2>2. IsValue(Field("sis"), d, 2, 1)
    BY <1>1, <1>2, <1>3, <2>1, TakenNumber
  <2>3. QED
    BY <2>2, SMT DEF IsValue
<1>6. Field("sisn") = 256 * d[3 + 1] + d[3 + 2]
  <2>1. HasPlace(d, 3, 2)
    BY <1>1 DEF SlicePlace, HasPlace
  <2>2. IsValue(Field("sisn"), d, 3, 2)
    BY <1>1, <1>2, <1>3, <2>1, TakenNumber
  <2>3. QED
    BY <2>2, SMT DEF IsValue
<1>7. Field("t") = 256 * d[6 + 1] + d[6 + 2]
  <2>1. HasPlace(d, 6, 2)
    BY <1>1 DEF SlicePlace, HasPlace
  <2>2. IsValue(Field("t"), d, 6, 2)
    BY <1>1, <1>2, <1>3, <2>1, TakenNumber
  <2>3. QED
    BY <2>2, SMT DEF IsValue
<1>8. Field("tss") = d[8 + 1]
  <2>1. HasPlace(d, 8, 1)
    BY <1>1 DEF SlicePlace, HasPlace
  <2>2. IsValue(Field("tss"), d, 8, 1)
    BY <1>1, <1>2, <1>3, <2>1, TakenNumber
  <2>3. QED
    BY <2>2, SMT DEF IsValue
<1>9. PunchLine("basic", d) = [id |-> Field("sisn") + 65536 * Field("sis"), control |-> Field("cn"),
                               time |-> 1000 * Field("t") + (Field("tss") * 1000) \div 256]
  BY SMT DEF PunchLine, def, basic_def
<1> HIDE DEF Field
<1>10. /\ d[2] = x /\ d[3] = p /\ d[4] = q /\ d[5] = r
       /\ d[7] = t1 /\ d[8] = t2 /\ d[9] = 77
  BY DEF IsBasic
<1>11. Field("sisn") + 65536 * Field("sis") = IdOnAir(p, q, r)
  BY <1>5, <1>6, <1>10, SMT DEF IdOnAir
<1>12. Field("cn") = x
  BY <1>4, <1>10
<1>13. Field("t") = t
  BY <1>7, <1>10, SMT DEF IsTwo, InTwo
<1>14. (Field("tss") * 1000) \div 256 = 300
  BY <1>8, <1>10, SMT
<1>15. QED
  BY <1>9, <1>11, <1>12, <1>13, <1>14, SMT DEF IsLine

\* The two lines of one punch.
AreLines(c, i, extended, basic) ==
    \E id : /\ IsLine(extended, id, PunchControl(c, i), PunchTime(c, i) % HalfDay)
            /\ IsLine(basic, id, PunchControl(c, i) % 256, PunchTime(c, i) % HalfDay)
            /\ c.type # "card_5" => id = c.number

LEMMA OneLong ==
    ASSUME NEW x \in Nat
    PROVE  IsOneLong(<<x>>, x)
BY DEF IsOneLong

LEMMA TwoLong ==
    ASSUME NEW n \in Nat
    PROVE  \E a, b : /\ IsTwoLong(TwoBytes(n), a, b) /\ IsTwo(n, a, b) /\ a \in Nat /\ b \in Nat
<1>1. PICK a, b : TwoBytes(n) = <<a, b>> /\ IsTwo(n, a, b) /\ IsByte(a) /\ IsByte(b)
  BY TwoBytesValue
<1>2. a \in Nat /\ b \in Nat
  BY <1>1 DEF IsByte
<1>3. IsTwoLong(TwoBytes(n), a, b)
  BY <1>1, <1>2 DEF IsTwoLong
<1>4. QED
  BY <1>1, <1>2, <1>3

LEMMA LinesOfPunch ==
    ASSUME NEW c \in Cards, NEW i, HasPunch(c, i)
    PROVE  AreLines(c, i, PunchLine("extended", TransmitRecord("extended", c, i)),
                          PunchLine("basic", TransmitRecord("basic", c, i)))
<1> DEFINE control == PunchControl(c, i)
           time == PunchTime(c, i) % HalfDay
           h == Afternoon(PunchTime(c, i))
           half == <<h>>
           si == Number4(c)
<1>1. /\ control \in Nat /\ control < 1024 /\ time \in Nat /\ time < 43200 /\ h \in Nat
      /\ c.type # OtherCard
  BY PunchType, PunchCard DEF KnownCard, OtherCard
<1>2. PICK p, q, r : si = <<0, p, q, r>> /\ IsIdOf(c, p, q, r)
  BY <1>1, NumberOnAir
<1>3. p \in Nat /\ q \in Nat /\ r \in Nat
  BY <1>2 DEF IsIdOf
<1>4. IsFour(si, 0, p, q, r)
  BY <1>2, <1>3 DEF IsFour
<1> HIDE DEF control, time, h, si
<1>5. PICK c1, c2 : /\ IsTwoLong(TwoBytes(control), c1, c2) /\ IsTwo(control, c1, c2)
                    /\ c1 \in Nat /\ c2 \in Nat
  <2>1. control \in Nat
    BY <1>1
  <2>2. QED
    BY <2>1, TwoLong
<1>6. PICK t1, t2 : IsTwoLong(TwoBytes(time), t1, t2) /\ IsTwo(time, t1, t2) /\ t1 \in Nat /\ t2 \in Nat
  BY <1>1, TwoLong
<1>7. InTwo(control) /\ InTwo(time) /\ control % 256 \in Nat
  BY <1>1, SMT DEF InTwo
<1>8. IsOneLong(half, h) /\ IsOneLong(<<control % 256>>, control % 256) /\ IsOneLong(<< 1 >>, 1)
  BY <1>1, <1>7, OneLong
<1>9. IsFour(<<77, 0, 1, 0>>, 77, 0, 1, 0) /\ IsThreeLong(<<77, 0, 0>>, 77, 0, 0)
  BY DEF IsFour, IsThreeLong
<1>10. IsThreeLong(Tail(si), p, q, r)
  BY <1>4, TailOfFour
<1>11. TransmitRecord("extended", c, i) =
           TwoBytes(control) \o si \o half \o TwoBytes(time) \o <<77, 0, 1, 0>>
  BY DEF TransmitRecord, control, si, h, time
<1>12. TransmitRecord("basic", c, i) =
           half \o <<control % 256>> \o Tail(si) \o << 1 >> \o TwoBytes(time) \o <<77, 0, 0>>
  BY DEF TransmitRecord, control, si, h, time
<1> DEFINE x == control % 256
<1> HIDE DEF half, x
<1>13. IsExtended(TransmitRecord("extended", c, i), c1, c2, p, q, r, t1, t2)
  BY <1>4, <1>5, <1>6, <1>8, <1>9, <1>11, ExtendedBytes
<1>14. IsBasic(TransmitRecord("basic", c, i), control % 256, p, q, r, t1, t2)
  <2>1. IsOneLong(<<x>>, x) /\ TransmitRecord("basic", c, i) =
            half \o <<x>> \o Tail(si) \o << 1 >> \o TwoBytes(time) \o <<77, 0, 0>>
    BY <1>8, <1>12 DEF x
  <2>2. IsBasic(half \o <<x>> \o Tail(si) \o << 1 >> \o TwoBytes(time) \o <<77, 0, 0>>,
                x, p, q, r, t1, t2)
    BY <1>6, <1>8, <1>9, <1>10, <2>1, BasicBytes
  <2>3. QED
    BY <2>1, <2>2 DEF x
<1>15. IsLine(PunchLine("extended", TransmitRecord("extended", c, i)), IdOnAir(p, q, r), control, time)
  BY <1>3, <1>5, <1>6, <1>7, <1>13, ExtendedLine
<1>16. IsLine(PunchLine("basic", TransmitRecord("basic", c, i)), IdOnAir(p, q, r), control % 256, time)
  BY <1>3, <1>6, <1>7, <1>14, BasicLine
<1>17. c.type # "card_5" => IdOnAir(p, q, r) = c.number
  BY <1>2, SMT DEF IsIdOf, IdOnAir
<1>18. QED
  BY <1>15, <1>16, <1>17 DEF AreLines, control, time

\* A line of a transmitted punch has the second of the punch read out.
LEMMA SameSecond ==
    ASSUME NEW t \in Nat
    PROVE  OutTimeDuration(1000 * t) = OutTimeDuration(1000 * t + 300)
BY SMT DEF OutTimeDuration, NotADateTime

\* punch_read and punch_read_basic write the same card, control and second of a punch, and
\* read finds the same control and second on the card.
THEOREM PunchModesAgree == Spec => [](NoneLost => ModesAgree)
<1>1. IInv => (NoneLost => ModesAgree)
  <2> SUFFICES ASSUME NoneLost, IInv, punches # <<>>
               PROVE  ModesAgree
    BY DEF ModesAgree
  <2> DEFINE i == Len(punches) - 1
             extended == PunchLine("extended", TransmitRecord("extended", card, i))
             basic == PunchLine("basic", TransmitRecord("basic", card, i))
             control == PunchControl(card, i)
             t == PunchTime(card, i) % HalfDay
  <2>1. HasPunch(card, i) /\ HeaderKnown /\ card.type # OtherCard /\ card \in Cards
    BY PunchesOfCard DEF IInv
  <2>2. latest = PunchOf(card, i)
    BY PunchRead
  <2>3. t \in Nat /\ control \in Nat
    BY <2>1, PunchType
  <2> HIDE DEF i
  <2>4. PICK id : /\ IsLine(extended, id, control, t) /\ IsLine(basic, id, control % 256, t)
                  /\ card.type # "card_5" => id = card.number
    BY <2>1, LinesOfPunch DEF AreLines
  <2>5. latest.control = control /\ (latest.time # NotADateTime => latest.time = 1000 * t)
    BY <2>2 DEF PunchOf
  <2> HIDE DEF extended, basic, control, t
  <2>6. record.id = IdOf(card)
    BY <2>1 DEF HeaderKnown, HeaderIs
  <2>7. card.type # "card_5" => basic.id = record.id
    BY <2>4, <2>6 DEF IsLine, IdOf
  <2>8. basic.id = extended.id /\ basic.time = extended.time /\ extended.time = 1000 * t + 300
    BY <2>4, SMT DEF IsLine
  <2>9. basic.control = extended.control % 256 /\ latest.control = extended.control
    BY <2>4, <2>5 DEF IsLine
  <2>10. latest.time # NotADateTime => OutTimeDuration(latest.time) = OutTimeDuration(extended.time)
    BY <2>3, <2>5, <2>8, SameSecond, SMT
  <2>11. QED
    BY <2>7, <2>8, <2>9, <2>10 DEF ModesAgree, extended, basic, i
<1>2. QED
  BY <1>1, ReadInvariant, PTL
=============================================================================
