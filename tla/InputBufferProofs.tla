-------------------------- MODULE InputBufferProofs --------------------------
(***************************************************************************)
(* Proofs about InputBuffer and the modules that it uses:                  *)
(*   - the checksum notices any one changed byte;                          *)
(*   - type correctness, for either protocol;                              *)
(*   - DeliveredWhenRead and OnceInOrder for frames of the extended        *)
(*     protocol and controls, any number of them, with any data, cut into  *)
(*     reads in any way.                                                   *)
(* The loops of the parsers are recursive functions over the rounds; what  *)
(* they come to is proved from the well-foundedness of < on Nat.           *)
(***************************************************************************)
EXTENDS InputBuffer, SequenceTheorems, WellFoundedInduction, TLAPS

-----------------------------------------------------------------------------
(***************************************************************************)
(* Induction on numbers, from the well-foundedness of <.                   *)
(***************************************************************************)
LEMMA FromZero ==
    ASSUME NEW T, 0 \in T, \A n \in Nat : n \in T => n + 1 \in T
    PROVE  Nat \subseteq T
<1> DEFINE Missing == {n \in Nat : n \notin T}
           R == OpToRel(<, Nat)
<1> SUFFICES ASSUME Missing # {} PROVE FALSE
  OBVIOUS
<1>1. IsWellFoundedOn(R, Nat)
  BY NatLessThanWellFounded
<1>2. Missing \subseteq Nat
  OBVIOUS
<1>3. PICK x \in Missing : \A y \in Missing : ~(<<y, x>> \in R)
  <2> HIDE DEF Missing, R
  <2> QED
  BY <1>1, <1>2, WFMin
<1>4. \A y \in Nat : y < x => y \in T
  BY <1>3 DEF OpToRel
<1>5. QED
  BY <1>4

(***************************************************************************)
(* A loop: m rounds of a step f on the states S.                           *)
(***************************************************************************)
IsRun(g, m, start, f) == g = [n \in 0..m |-> IF n = 0 THEN start ELSE f[n][g[n - 1]]]

\* There is one.
LEMMA RunExists ==
    ASSUME NEW S, NEW m \in Nat, NEW start \in S, NEW f \in [1..m -> [S -> S]]
    PROVE  \E g \in [0..m -> S] : IsRun(g, m, start, f)
<1> DEFINE T == {k \in Nat : k <= m => \E g \in [0..k -> S] : IsRun(g, k, start, f)}
<1>1. 0 \in T
  <2> DEFINE g == [n \in 0..0 |-> start]
  <2>1. g \in [0..0 -> S]
    OBVIOUS
  <2>2. IsRun(g, 0, start, f)
    BY DEF IsRun
  <2>3. QED
    BY <2>1, <2>2
<1>2. ASSUME NEW k \in Nat, k \in T
      PROVE  k + 1 \in T
  <2> SUFFICES ASSUME k + 1 <= m
               PROVE  \E g \in [0..(k + 1) -> S] : IsRun(g, k + 1, start, f)
    OBVIOUS
  <2>1. PICK g \in [0..k -> S] : IsRun(g, k, start, f)
    BY <1>2
  <2> DEFINE last == f[k + 1][g[k]]
             h == [n \in 0..(k + 1) |-> IF n = k + 1 THEN last ELSE g[n]]
  <2>2. last \in S
    <3>1. k + 1 \in 1..m /\ g[k] \in S
      OBVIOUS
    <3>2. f[k + 1] \in [S -> S]
      BY <3>1
    <3>3. QED
      BY <3>1, <3>2
  <2>3. \A n \in 0..k : g[n] = IF n = 0 THEN start ELSE f[n][g[n - 1]]
    BY <2>1 DEF IsRun
  <2>4. last = f[k + 1][g[k]]
    OBVIOUS
  <2> HIDE DEF last
  <2>5. h[k + 1] = last /\ \A n \in 0..k : h[n] = g[n]
    OBVIOUS
  <2>6. h \in [0..(k + 1) -> S]
    BY <2>2
  <2>7. DOMAIN h = 0..(k + 1) /\ h = [n \in 0..(k + 1) |-> h[n]]
    OBVIOUS
  <2> HIDE DEF h
  <2>8. \A n \in 0..(k + 1) : h[n] = IF n = 0 THEN start ELSE f[n][h[n - 1]]
    <3> SUFFICES ASSUME NEW n \in 0..(k + 1)
                 PROVE  h[n] = IF n = 0 THEN start ELSE f[n][h[n - 1]]
      OBVIOUS
    <3>1. CASE n = k + 1
      <4>1. n # 0 /\ n - 1 = k /\ h[n - 1] = g[k]
        BY <2>5, <3>1
      <4>2. QED
        BY <2>4, <2>5, <3>1, <4>1
    <3>2. CASE n # k + 1
      <4>1. n \in 0..k /\ (n # 0 => n - 1 \in 0..k)
        BY <3>2
      <4>2. QED
        BY <2>3, <2>5, <4>1
    <3>3. QED
      BY <3>1, <3>2
  <2>9. IsRun(h, k + 1, start, f)
    BY <2>7, <2>8 DEF IsRun
  <2>10. QED
    BY <2>6, <2>9
<1> HIDE DEF T
<1>3. Nat \subseteq T
  BY <1>1, <1>2, FromZero
<1>4. QED
  BY <1>3 DEF T

\* Its states stay in S.
LEMMA RunStays ==
    ASSUME NEW S, NEW m \in Nat, NEW start \in S, NEW f \in [1..m -> [S -> S]], NEW u,
           u[0] = start, \A n \in 1..m : u[n - 1] \in S => u[n] = f[n][u[n - 1]]
    PROVE  \A n \in 0..m : u[n] \in S
<1> DEFINE T == {k \in Nat : k <= m => u[k] \in S}
<1>1. 0 \in T
  OBVIOUS
<1>2. ASSUME NEW k \in Nat, k \in T
      PROVE  k + 1 \in T
  <2> SUFFICES ASSUME k + 1 <= m PROVE u[k + 1] \in S
    OBVIOUS
  <2>1. k + 1 \in 1..m /\ (k + 1) - 1 = k /\ u[k] \in S
    BY <1>2
  <2>2. u[k + 1] = f[k + 1][u[k]] /\ f[k + 1] \in [S -> S]
    BY <2>1
  <2>3. QED
    BY <2>1, <2>2
<1> HIDE DEF T
<1>3. Nat \subseteq T
  BY <1>1, <1>2, FromZero
<1>4. QED
  BY <1>3 DEF T

\* What ends after k rounds stays as it is.
LEMMA RunEnded ==
    ASSUME NEW m \in Nat, NEW k \in 0..m, NEW u,
           \A n \in 1..m : n > k /\ u[n - 1] = u[k] => u[n] = u[k]
    PROVE  u[m] = u[k]
<1> DEFINE T == {j \in Nat : k + j <= m => u[k + j] = u[k]}
<1>1. 0 \in T
  OBVIOUS
<1>2. ASSUME NEW j \in Nat, j \in T
      PROVE  j + 1 \in T
  <2> SUFFICES ASSUME k + (j + 1) <= m PROVE u[k + (j + 1)] = u[k]
    OBVIOUS
  <2>1. k + (j + 1) \in 1..m /\ (k + (j + 1)) - 1 = k + j /\ k + (j + 1) > k /\ u[k + j] = u[k]
    BY <1>2
  <2>2. QED
    BY <2>1
<1> HIDE DEF T
<1>3. Nat \subseteq T
  BY <1>1, <1>2, FromZero
<1>4. m - k \in T /\ k + (m - k) = m
  BY <1>3
<1>5. QED
  BY <1>4 DEF T

-----------------------------------------------------------------------------
(***************************************************************************)
(* The checksum: its register, shift by shift and byte by byte.            *)
(***************************************************************************)
IsRegister(x) == x \in Int /\ 0 <= x /\ x <= 65535
IsByte(x) == x \in Int /\ 0 <= x /\ x <= 255
IsBit(x) == x \in Int /\ 0 <= x /\ x <= 1

Bit(byte, k) == (byte \div Place[k]) % 2

LEMMA BitIs ==
    ASSUME NEW byte \in Int, NEW k \in 1..8
    PROVE  IsBit(Bit(byte, k))
<1> DEFINE p == Place[k]
<1>1. p \in Int /\ 1 <= p
  BY DEF Place
<1> HIDE DEF p
<1>2. IsBit((byte \div p) % 2)
  BY <1>1, SMT DEF IsBit
<1>3. QED
  BY <1>2 DEF Bit, p

\* The polynom takes a register to a register, and no two to the same.
LEMMA XorType ==
    ASSUME NEW x \in Int, IsRegister(x)
    PROVE  IsRegister(XorPolynom(x))
BY SMT DEF XorPolynom, Half, IsRegister, FlipBit

LEMMA XorDiffers ==
    ASSUME NEW x \in Int, NEW y \in Int, IsRegister(x), IsRegister(y), x # y
    PROVE  XorPolynom(x) # XorPolynom(y)
<1>1. \A u, v \in Int : IsRegister(u) /\ IsRegister(v) /\ u # v =>
          \A p \in {32768, 4, 1} : FlipBit(u, p) # FlipBit(v, p)
  BY SMT DEF IsRegister, FlipBit
<1>2. \A u \in Int : IsRegister(u) =>
          \A p \in {32768, 4, 1} : FlipBit(u, p) \in Int /\ IsRegister(FlipBit(u, p))
  BY SMT DEF IsRegister, FlipBit
<1>3. QED
  BY <1>1, <1>2 DEF XorPolynom, Half

LEMMA XorParity == \A x \in Int : IsRegister(x) => XorPolynom(x) % 2 # x % 2
BY SMT DEF XorPolynom, Half, IsRegister, FlipBit

\* A shift takes a register to a register.
LEMMA ShiftType ==
    ASSUME NEW reg \in Int, NEW bit \in Int, IsRegister(reg), IsBit(bit)
    PROVE  IsRegister(ShiftIn(reg, bit))
<1> DEFINE x == (2 * reg + bit) % Word
<1>1. x \in Int /\ IsRegister(x)
  BY SMT DEF IsRegister, IsBit, Word
<1> HIDE DEF x
<1>2. IsRegister(XorPolynom(x))
  BY <1>1, XorType
<1>3. ShiftIn(reg, bit) = IF reg >= Half THEN XorPolynom(x) ELSE x
  BY DEF ShiftIn, x
<1>4. QED
  BY <1>1, <1>2, <1>3

\* Nothing that differs becomes the same by a shift.
LEMMA ShiftDiffers ==
    ASSUME NEW r \in Int, NEW q \in Int, NEW bit \in Int,
           IsRegister(r), IsRegister(q), IsBit(bit), r # q
    PROVE  ShiftIn(r, bit) # ShiftIn(q, bit)
<1> DEFINE x == (2 * r + bit) % Word
           y == (2 * q + bit) % Word
<1>1. x \in Int /\ y \in Int /\ IsRegister(x) /\ IsRegister(y) /\ x % 2 = bit /\ y % 2 = bit
  BY SMT DEF IsRegister, IsBit, Word
<1>2. (r >= Half) = (q >= Half) => x # y
  BY SMT DEF IsRegister, IsBit, Word, Half
<1>3. /\ ShiftIn(r, bit) = IF r >= Half THEN XorPolynom(x) ELSE x
      /\ ShiftIn(q, bit) = IF q >= Half THEN XorPolynom(y) ELSE y
  BY DEF ShiftIn
<1> HIDE DEF x, y
<1>4. XorPolynom(x) % 2 # bit /\ XorPolynom(y) % 2 # bit
  BY <1>1, XorParity
<1>5. x # y => XorPolynom(x) # XorPolynom(y)
  BY <1>1, XorDiffers
<1>6. XorPolynom(x) # y /\ x # XorPolynom(y)
  BY <1>1, <1>4
<1>7. QED
  BY <1>2, <1>3, <1>5, <1>6

\* What two registers have in common above the bits that differ stays so.
LEMMA XorAbove ==
    ASSUME NEW x \in Int, NEW y \in Int, IsRegister(x), IsRegister(y),
           NEW p \in {2, 4, 8, 16, 32, 64, 128, 256}, x \div p = y \div p
    PROVE  XorPolynom(x) \div p = XorPolynom(y) \div p
<1>1. \A u, v \in Int : IsRegister(u) /\ IsRegister(v) /\ u \div p = v \div p =>
          \A f \in {32768, 4, 1} : FlipBit(u, f) \div p = FlipBit(v, f) \div p
  <2> SUFFICES ASSUME NEW u \in Int, NEW v \in Int, IsRegister(u), IsRegister(v), u \div p = v \div p
               PROVE  \A f \in {32768, 4, 1} : FlipBit(u, f) \div p = FlipBit(v, f) \div p
    OBVIOUS
  <2>1. FlipBit(u, 32768) \div p = FlipBit(v, 32768) \div p
    BY SMT DEF IsRegister, FlipBit
  <2>2. FlipBit(u, 4) \div p = FlipBit(v, 4) \div p
    BY SMT DEF IsRegister, FlipBit
  <2>3. FlipBit(u, 1) \div p = FlipBit(v, 1) \div p
    BY SMT DEF IsRegister, FlipBit
  <2>4. QED
    BY <2>1, <2>2, <2>3
<1>2. \A u \in Int : IsRegister(u) =>
          \A f \in {32768, 4, 1} : FlipBit(u, f) \in Int /\ IsRegister(FlipBit(u, f))
  BY SMT DEF IsRegister, FlipBit
<1>3. QED
  BY <1>1, <1>2 DEF XorPolynom, Half

LEMMA ShiftAbove ==
    ASSUME NEW r \in Int, NEW q \in Int, IsRegister(r), IsRegister(q),
           NEW b \in Int, NEW c \in Int, IsBit(b), IsBit(c),
           NEW p \in {1, 2, 4, 8, 16, 32, 64, 128}, r \div p = q \div p
    PROVE  /\ ShiftIn(r, b) \div (2 * p) = ShiftIn(q, c) \div (2 * p)
           /\ b # c => ShiftIn(r, b) # ShiftIn(q, c)
<1> DEFINE x == (2 * r + b) % Word
           y == (2 * q + c) % Word
           d == 2 * p
<1>1. x \in Int /\ y \in Int /\ IsRegister(x) /\ IsRegister(y) /\ x % 2 = b /\ y % 2 = c
  BY SMT DEF IsRegister, IsBit, Word
<1>2. d \in {2, 4, 8, 16, 32, 64, 128, 256}
  OBVIOUS
<1>3. (r >= Half) = (q >= Half)
  BY SMT DEF IsRegister, Half
<1>4. x \div d = y \div d
  BY SMT DEF IsRegister, IsBit, Word
<1>5. /\ ShiftIn(r, b) = IF r >= Half THEN XorPolynom(x) ELSE x
      /\ ShiftIn(q, c) = IF q >= Half THEN XorPolynom(y) ELSE y
  BY DEF ShiftIn
<1> HIDE DEF x, y, d
<1>6. XorPolynom(x) \div d = XorPolynom(y) \div d
  BY <1>1, <1>2, <1>4, XorAbove
<1>7. b # c => XorPolynom(x) # XorPolynom(y) /\ x # y
  BY <1>1, XorDiffers
<1>8. ShiftIn(r, b) \div d = ShiftIn(q, c) \div d
  BY <1>3, <1>4, <1>5, <1>6
<1>9. b # c => ShiftIn(r, b) # ShiftIn(q, c)
  BY <1>3, <1>5, <1>7
<1>10. QED
  BY <1>8, <1>9 DEF d

\* The values a register can have.
Registers == {x \in Int : IsRegister(x)}
\* The register while a byte is shifted in.
IsShifting(u, reg, byte) ==
    /\ u[0] = reg /\ ShiftInByte(reg, byte) = u[8]
    /\ \A k \in 0..8 : u[k] \in Registers
    /\ \A k \in 1..8 : u[k] = ShiftIn(u[k - 1], Bit(byte, k))

LEMMA ShiftInByteIs ==
    ASSUME NEW reg \in Registers, NEW byte \in Int
    PROVE  \E u : IsShifting(u, reg, byte)
<1> DEFINE f == [k \in 1..8 |-> [r \in Registers |-> ShiftIn(r, Bit(byte, k))]]
           Runs(u) == u = [k \in 0..8 |-> IF k = 0 THEN reg ELSE ShiftIn(u[k - 1], Bit(byte, k))]
           U == CHOOSE u : Runs(u)
<1>1. \A r \in Registers, k \in 1..8 : ShiftIn(r, Bit(byte, k)) \in Registers
  <2> SUFFICES ASSUME NEW r \in Registers, NEW k \in 1..8
               PROVE  ShiftIn(r, Bit(byte, k)) \in Registers
    OBVIOUS
  <2>1. IsBit(Bit(byte, k)) /\ IsRegister(r) /\ r \in Int
    BY BitIs DEF Registers
  <2>2. IsRegister(ShiftIn(r, Bit(byte, k)))
    BY <2>1, ShiftType DEF IsBit
  <2>3. QED
    BY <2>2 DEF Registers, IsRegister
<1>2. f \in [1..8 -> [Registers -> Registers]]
  BY <1>1
<1>3. \A r \in Registers, k \in 1..8 : f[k][r] = ShiftIn(r, Bit(byte, k))
  OBVIOUS
<1> HIDE DEF f
<1>4. PICK g \in [0..8 -> Registers] : IsRun(g, 8, reg, f)
  BY <1>2, RunExists
<1>5. Runs(g)
  <2>1. \A k \in 0..8 : k # 0 => f[k][g[k - 1]] = ShiftIn(g[k - 1], Bit(byte, k))
    <3> SUFFICES ASSUME NEW k \in 0..8, k # 0
                 PROVE  f[k][g[k - 1]] = ShiftIn(g[k - 1], Bit(byte, k))
      OBVIOUS
    <3>1. k \in 1..8 /\ k - 1 \in 0..8
      OBVIOUS
    <3>2. g[k - 1] \in Registers
      BY <3>1
    <3>3. QED
      BY <1>3, <3>1, <3>2
  <2>2. g = [k \in 0..8 |-> IF k = 0 THEN reg ELSE f[k][g[k - 1]]]
    BY <1>4 DEF IsRun
  <2>3. QED
    BY <2>1, <2>2
<1>6. ShiftInByte(reg, byte) = U[8]
  BY DEF ShiftInByte, Bit
<1>7. Runs(U)
  <2> HIDE DEF Runs
  <2>1. QED
    BY <1>5
<1> HIDE DEF U
<1>8. \A k \in 0..8 : U[k] = IF k = 0 THEN reg ELSE ShiftIn(U[k - 1], Bit(byte, k))
  BY <1>7
<1> HIDE DEF Runs
<1>9. \A k \in 1..8 : U[k] = ShiftIn(U[k - 1], Bit(byte, k))
  BY <1>8
<1>10. U[0] = reg
  BY <1>8
<1>11. \A k \in 1..8 : U[k - 1] \in Registers => U[k] = f[k][U[k - 1]]
  BY <1>3, <1>9
<1>12. \A k \in 0..8 : U[k] \in Registers
  BY <1>2, <1>10, <1>11, RunStays
<1>13. QED
  BY <1>6, <1>9, <1>10, <1>12 DEF IsShifting

LEMMA ShiftInByteType ==
    \A reg \in Registers, byte \in Int : ShiftInByte(reg, byte) \in Registers
BY ShiftInByteIs DEF IsShifting

\* A byte that differs changes the register, a register that differs stays different.
LEMMA BytesDiffer ==
    ASSUME NEW b \in Int, NEW c \in Int, IsByte(b), IsByte(c), b # c
    PROVE  \E k \in 1..8 : Bit(b, k) # Bit(c, k)
<1>1. \A a \in Int : IsByte(a) =>
          a = 128 * ((a \div 128) % 2) + 64 * ((a \div 64) % 2) + 32 * ((a \div 32) % 2)
              + 16 * ((a \div 16) % 2) + 8 * ((a \div 8) % 2) + 4 * ((a \div 4) % 2)
              + 2 * ((a \div 2) % 2) + ((a \div 1) % 2)
  BY SMT DEF IsByte
<1>2. /\ Place[1] = 128 /\ Place[2] = 64 /\ Place[3] = 32 /\ Place[4] = 16
      /\ Place[5] = 8 /\ Place[6] = 4 /\ Place[7] = 2 /\ Place[8] = 1
  BY DEF Place
<1>3. \A a \in Int : IsByte(a) =>
          a = 128 * Bit(a, 1) + 64 * Bit(a, 2) + 32 * Bit(a, 3) + 16 * Bit(a, 4)
              + 8 * Bit(a, 5) + 4 * Bit(a, 6) + 2 * Bit(a, 7) + Bit(a, 8)
  BY <1>1, <1>2 DEF Bit
<1>4. SUFFICES ASSUME \A k \in 1..8 : Bit(b, k) = Bit(c, k) PROVE FALSE
  OBVIOUS
<1>5. /\ Bit(b, 1) = Bit(c, 1) /\ Bit(b, 2) = Bit(c, 2) /\ Bit(b, 3) = Bit(c, 3)
      /\ Bit(b, 4) = Bit(c, 4) /\ Bit(b, 5) = Bit(c, 5) /\ Bit(b, 6) = Bit(c, 6)
      /\ Bit(b, 7) = Bit(c, 7) /\ Bit(b, 8) = Bit(c, 8)
  BY <1>4
<1>6. b = c
  BY <1>3, <1>5, Zenon
<1>7. QED
  BY <1>6

LEMMA ShiftInRegisterDiffers ==
    ASSUME NEW r \in Registers, NEW q \in Registers, NEW byte \in Int, r # q
    PROVE  ShiftInByte(r, byte) # ShiftInByte(q, byte)
<1>1. PICK u : IsShifting(u, r, byte)
  BY ShiftInByteIs
<1>2. PICK v : IsShifting(v, q, byte)
  BY ShiftInByteIs
<1> DEFINE T == {k \in Nat : k <= 8 => u[k] # v[k]}
<1>3. 0 \in T
  BY <1>1, <1>2 DEF IsShifting
<1>4. ASSUME NEW k \in Nat, k \in T
      PROVE  k + 1 \in T
  <2> SUFFICES ASSUME k + 1 <= 8 PROVE u[k + 1] # v[k + 1]
    OBVIOUS
  <2>1. k + 1 \in 1..8 /\ k \in 0..8 /\ (k + 1) - 1 = k /\ u[k] # v[k]
    BY <1>4
  <2>2. u[k] \in Registers /\ v[k] \in Registers
    BY <1>1, <1>2, <2>1 DEF IsShifting
  <2>3. IsBit(Bit(byte, k + 1))
    BY <2>1, BitIs
  <2>4. /\ u[k + 1] = ShiftIn(u[k], Bit(byte, k + 1))
        /\ v[k + 1] = ShiftIn(v[k], Bit(byte, k + 1))
    BY <1>1, <1>2, <2>1 DEF IsShifting
  <2>5. QED
    BY <2>1, <2>2, <2>3, <2>4, ShiftDiffers DEF Registers, IsBit
<1> HIDE DEF T
<1>5. Nat \subseteq T
  BY <1>3, <1>4, FromZero
<1>6. u[8] # v[8]
  BY <1>5 DEF T
<1>7. QED
  BY <1>1, <1>2, <1>6 DEF IsShifting

LEMMA ShiftInByteDiffers ==
    ASSUME NEW r \in Registers, NEW b \in Int, NEW c \in Int, IsByte(b), IsByte(c), b # c
    PROVE  ShiftInByte(r, b) # ShiftInByte(r, c)
<1>1. PICK u : IsShifting(u, r, b)
  BY ShiftInByteIs
<1>2. PICK v : IsShifting(v, r, c)
  BY ShiftInByteIs
<1> DEFINE Above(k) == u[k] \div Place[8 - k] = v[k] \div Place[8 - k]
           Apart(k) == (\E j \in 1..k : Bit(b, j) # Bit(c, j)) => u[k] # v[k]
           T == {k \in Nat : k <= 8 => Apart(k) /\ (k <= 7 => Above(k))}
<1>3. 0 \in T
  <2>1. u[0] = v[0]
    BY <1>1, <1>2 DEF IsShifting
  <2>2. QED
    BY <2>1
<1>4. ASSUME NEW k \in Nat, k \in T
      PROVE  k + 1 \in T
  <2> SUFFICES ASSUME k + 1 <= 8 PROVE Apart(k + 1) /\ (k + 1 <= 7 => Above(k + 1))
    OBVIOUS
  <2> DEFINE p == Place[8 - k]
             d == Bit(b, k + 1)
             e == Bit(c, k + 1)
  <2>1. k + 1 \in 1..8 /\ k \in 0..8 /\ (k + 1) - 1 = k /\ Apart(k) /\ Above(k)
    BY <1>4
  <2>2. u[k] \in Registers /\ v[k] \in Registers
    BY <1>1, <1>2, <2>1 DEF IsShifting
  <2>3. IsBit(d) /\ IsBit(e)
    BY <2>1, BitIs
  <2>4. u[k + 1] = ShiftIn(u[k], d) /\ v[k + 1] = ShiftIn(v[k], e)
    BY <1>1, <1>2, <2>1 DEF IsShifting
  <2>5. p \in {1, 2, 4, 8, 16, 32, 64, 128} /\ (k + 1 <= 7 => Place[8 - (k + 1)] = 2 * p)
    <3>1. k \in {0, 1, 2, 3, 4, 5, 6, 7}
      BY <2>1
    <3>2. QED
      BY <3>1 DEF Place
  <2>6. u[k] \div p = v[k] \div p
    BY <2>1
  <2>7. (\E j \in 1..(k + 1) : Bit(b, j) # Bit(c, j)) => (\E j \in 1..k : Bit(b, j) # Bit(c, j)) \/ d # e
    <3>1. \A j \in 1..(k + 1) : j \in 1..k \/ j = k + 1
      OBVIOUS
    <3>2. QED
      BY <3>1
  <2>8. (\E j \in 1..k : Bit(b, j) # Bit(c, j)) => u[k] # v[k]
    BY <2>1
  <2> HIDE DEF p, d, e
  <2>9. /\ ShiftIn(u[k], d) \div (2 * p) = ShiftIn(v[k], e) \div (2 * p)
        /\ d # e => ShiftIn(u[k], d) # ShiftIn(v[k], e)
    <3>1. /\ u[k] \in Int /\ v[k] \in Int /\ d \in Int /\ e \in Int
          /\ IsRegister(u[k]) /\ IsRegister(v[k])
      BY <2>2, <2>3 DEF Registers, IsBit
    <3>2. p \in {1, 2, 4, 8, 16, 32, 64, 128}
      BY <2>5
    <3>3. QED
      BY <2>3, <2>6, <3>1, <3>2, ShiftAbove
  <2>10. d = e /\ u[k] # v[k] => ShiftIn(u[k], d) # ShiftIn(v[k], e)
    <3>1. /\ u[k] \in Int /\ v[k] \in Int /\ d \in Int
          /\ IsRegister(u[k]) /\ IsRegister(v[k])
      BY <2>2, <2>3 DEF Registers, IsBit
    <3>2. SUFFICES ASSUME d = e, u[k] # v[k] PROVE ShiftIn(u[k], d) # ShiftIn(v[k], d)
      OBVIOUS
    <3>3. QED
      BY <2>3, <3>1, <3>2, ShiftDiffers
  <2>11. Apart(k + 1)
    <3>1. d # e => u[k + 1] # v[k + 1]
      BY <2>4, <2>9
    <3>2. d = e /\ u[k] # v[k] => u[k + 1] # v[k + 1]
      BY <2>4, <2>10
    <3>3. QED
      BY <2>7, <2>8, <3>1, <3>2, Zenon
  <2>12. k + 1 <= 7 => Above(k + 1)
    BY <2>4, <2>5, <2>9
  <2>13. QED
    BY <2>11, <2>12
<1> HIDE DEF T
<1>5. Nat \subseteq T
  BY <1>3, <1>4, FromZero
<1>6. Apart(8)
  BY <1>5 DEF T
<1>7. u[8] # v[8]
  BY <1>6, BytesDiffer
<1>8. QED
  BY <1>1, <1>2, <1>7 DEF IsShifting

Octet == 0..255

LEMMA OctetIs == \A n \in Octet : n \in Int /\ IsByte(n)
BY SMT DEF Octet, IsByte

LEMMA OctetIf == \A n \in Int : IsByte(n) => n \in Octet
BY SMT DEF Octet, IsByte

LEMMA PaddedIs ==
    ASSUME NEW bytes \in Seq(Octet), Len(bytes) >= 3
    PROVE  /\ Len(Padded(bytes)) \in {Len(bytes) + 1, Len(bytes) + 2}
           /\ Len(bytes) % 2 = 1 => Len(Padded(bytes)) = Len(bytes) + 1
           /\ Len(bytes) % 2 # 1 => Len(Padded(bytes)) = Len(bytes) + 2
           /\ \A i \in 1..Len(bytes) : Padded(bytes)[i] = bytes[i]
           /\ \A i \in (Len(bytes) + 1)..Len(Padded(bytes)) : Padded(bytes)[i] = 0
<1> DEFINE n == Len(bytes)
           pad == IF n % 2 = 1 THEN <<0>> ELSE <<0, 0>>
<1>1. n \in Nat
  BY LenProperties
<1>2. /\ pad \in Seq(Int) /\ \A i \in 1..Len(pad) : pad[i] = 0
      /\ n % 2 = 1 => Len(pad) = 1
      /\ n % 2 # 1 => Len(pad) = 2
  <2>1. CASE n % 2 = 1
    <3>1. pad = <<0>>
      BY <2>1
    <3>2. QED
      BY <2>1, <3>1
  <2>2. CASE n % 2 # 1
    <3>1. pad = <<0, 0>>
      BY <2>2
    <3>2. QED
      BY <2>2, <3>1
  <2>3. QED
    BY <2>1, <2>2, Zenon
<1>3. bytes \in Seq(Int)
  <2>1. \A i \in 1..n : bytes[i] \in Int
    BY ElementOfSeq, OctetIs
  <2>2. QED
    BY <2>1, <1>1, LenProperties, SeqDef
<1>4. Padded(bytes) = bytes \o pad
  BY DEF Padded
<1> HIDE DEF pad
<1>5. /\ Len(Padded(bytes)) = n + Len(pad)
      /\ \A i \in 1..(n + Len(pad)) :
             Padded(bytes)[i] = IF i <= n THEN bytes[i] ELSE pad[i - n]
  BY <1>2, <1>3, <1>4, ConcatProperties
<1>6. Len(pad) \in {1, 2}
  BY <1>2
<1> HIDE DEF n
<1>7. \A i \in (n + 1)..(n + Len(pad)) : i \in 1..(n + Len(pad)) /\ ~(i <= n) /\ i - n \in 1..Len(pad)
  BY <1>1, <1>6
<1>8. \A i \in 1..n : i \in 1..(n + Len(pad)) /\ i <= n
  BY <1>1, <1>6
<1>9. \A i \in (n + 1)..(n + Len(pad)) : Padded(bytes)[i] = 0
  BY <1>2, <1>5, <1>7
<1>10. \A i \in 1..n : Padded(bytes)[i] = bytes[i]
  BY <1>5, <1>8
<1>11. QED
  BY <1>1, <1>2, <1>5, <1>6, <1>9, <1>10 DEF n

\* The register while the bytes behind the second are shifted in.
IsFilling(u, bytes, m) ==
    /\ u[0] = 256 * bytes[1] + bytes[2] /\ Crc(bytes) = u[m]
    /\ \A i \in 0..m : u[i] \in Registers
    /\ \A i \in 1..m : u[i] = ShiftInByte(u[i - 1], Padded(bytes)[i + 2])

LEMMA FillType ==
    ASSUME NEW a \in Octet, NEW b \in Octet
    PROVE  256 * a + b \in Registers
<1>1. IsByte(a) /\ IsByte(b) /\ a \in Int /\ b \in Int
  BY OctetIs
<1>2. QED
  BY <1>1, SMT DEF Registers, IsRegister, IsByte

LEMMA FillDiffers ==
    ASSUME NEW a \in Octet, NEW b \in Octet, NEW c \in Octet, NEW d \in Octet,
           256 * a + b = 256 * c + d
    PROVE  a = c /\ b = d
<1>1. /\ IsByte(a) /\ IsByte(b) /\ a \in Int /\ b \in Int
      /\ IsByte(c) /\ IsByte(d) /\ c \in Int /\ d \in Int
  BY OctetIs
<1>2. QED
  BY <1>1, SMT DEF IsByte

\* crc is the register after the last byte.
LEMMA CrcIs ==
    ASSUME NEW bytes \in Seq(Octet), Len(bytes) >= 3
    PROVE  \E u : IsFilling(u, bytes, Len(Padded(bytes)) - 2)
<1> DEFINE padded == Padded(bytes)
           m == Len(padded) - 2
           filled == 256 * bytes[1] + bytes[2]
           f == [i \in 1..m |-> [r \in Registers |-> ShiftInByte(r, padded[i + 2])]]
           Runs(u) == u = [i \in 0..m |-> IF i = 0 THEN filled ELSE ShiftInByte(u[i - 1], padded[i + 2])]
           U == CHOOSE u : Runs(u)
<1>1. Len(bytes) \in Nat /\ m \in Nat /\ \A i \in 1..Len(bytes) : bytes[i] \in Octet
  BY PaddedIs, LenProperties, ElementOfSeq
<1>2. filled \in Registers
  <2>1. bytes[1] \in Octet /\ bytes[2] \in Octet
    BY <1>1
  <2>2. QED
    BY <2>1, FillType
<1>3. \A i \in 1..m : padded[i + 2] \in Int
  <2> SUFFICES ASSUME NEW i \in 1..m PROVE padded[i + 2] \in Int
    OBVIOUS
  <2>1. i + 2 \in 1..Len(bytes) \/ i + 2 \in (Len(bytes) + 1)..Len(padded)
    BY <1>1
  <2>2. i + 2 \in 1..Len(bytes) => padded[i + 2] = bytes[i + 2]
    BY PaddedIs
  <2>3. i + 2 \in (Len(bytes) + 1)..Len(padded) => padded[i + 2] = 0
    BY PaddedIs
  <2>4. QED
    BY <1>1, <2>1, <2>2, <2>3, OctetIs
<1>4. Crc(bytes) = U[m]
  <2>1. ~(Len(bytes) < 2) /\ Len(bytes) # 2
    BY <1>1
  <2>2. QED
    BY <2>1, Zenon DEF Crc
<1> HIDE DEF filled, m, padded
<1>5. f \in [1..m -> [Registers -> Registers]]
  BY <1>3, ShiftInByteType
<1>6. \A r \in Registers, i \in 1..m : f[i][r] = ShiftInByte(r, padded[i + 2])
  OBVIOUS
<1> HIDE DEF f
<1>7. PICK g \in [0..m -> Registers] : IsRun(g, m, filled, f)
  BY <1>1, <1>2, <1>5, RunExists
<1>8. Runs(g)
  <2>1. \A i \in 0..m : i # 0 => f[i][g[i - 1]] = ShiftInByte(g[i - 1], padded[i + 2])
    <3> SUFFICES ASSUME NEW i \in 0..m, i # 0
                 PROVE  f[i][g[i - 1]] = ShiftInByte(g[i - 1], padded[i + 2])
      OBVIOUS
    <3>1. i \in 1..m /\ i - 1 \in 0..m
      BY <1>1
    <3>2. g[i - 1] \in Registers
      BY <3>1
    <3>3. QED
      BY <1>6, <3>1, <3>2
  <2>2. g = [i \in 0..m |-> IF i = 0 THEN filled ELSE f[i][g[i - 1]]]
    BY <1>7 DEF IsRun
  <2>3. QED
    BY <2>1, <2>2
<1>9. Runs(U)
  <2> HIDE DEF Runs
  <2>1. QED
    BY <1>8
<1> HIDE DEF U
<1>10. \A i \in 0..m : U[i] = IF i = 0 THEN filled ELSE ShiftInByte(U[i - 1], padded[i + 2])
  BY <1>9
<1> HIDE DEF Runs
<1>11. \A i \in 1..m : U[i] = ShiftInByte(U[i - 1], padded[i + 2])
  BY <1>1, <1>10
<1>12. U[0] = filled
  BY <1>1, <1>10
<1>13. \A i \in 1..m : U[i - 1] \in Registers => U[i] = f[i][U[i - 1]]
  BY <1>6, <1>11
<1>14. \A i \in 0..m : U[i] \in Registers
  BY <1>1, <1>2, <1>5, <1>12, <1>13, RunStays
<1>15. QED
  BY <1>4, <1>11, <1>12, <1>14 DEF IsFilling, m, padded, filled

LEMMA CrcType ==
    ASSUME NEW bytes \in Seq(Octet), Len(bytes) >= 2
    PROVE  Crc(bytes) \in Registers
<1>1. Len(bytes) \in Nat /\ \A i \in 1..Len(bytes) : bytes[i] \in Octet
  BY LenProperties, ElementOfSeq
<1>2. CASE Len(bytes) = 2
  <2>1. Crc(bytes) = 256 * bytes[1] + bytes[2]
    BY <1>2 DEF Crc
  <2>2. bytes[1] \in Octet /\ bytes[2] \in Octet
    BY <1>1, <1>2
  <2>3. QED
    BY <2>1, <2>2, FillType
<1>3. CASE Len(bytes) >= 3
  <2>1. PICK u : IsFilling(u, bytes, Len(Padded(bytes)) - 2)
    BY <1>3, CrcIs
  <2>2. Len(Padded(bytes)) - 2 \in 0..(Len(Padded(bytes)) - 2)
    BY <1>1, <1>3, PaddedIs
  <2>3. QED
    BY <2>1, <2>2 DEF IsFilling
<1>4. Len(bytes) = 2 \/ Len(bytes) >= 3
  <2>1. \A n \in Nat : n >= 2 => n = 2 \/ n >= 3
    OBVIOUS
  <2>2. QED
    BY <1>1, <2>1
<1>5. QED
  BY <1>2, <1>3, <1>4, Zenon

\* Bytes of which one is another.
OneChanged(bytes, other, at) ==
    /\ Len(bytes) = Len(other) /\ at \in 1..Len(bytes) /\ bytes[at] # other[at]
    /\ \A i \in 1..Len(bytes) : i # at => bytes[i] = other[i]

\* The checksum notices whatever is done to one byte of at least two: no byte gives the
\* checksum of another in its place (crc).
THEOREM ChangedByteNoticed ==
    ASSUME NEW bytes \in Seq(Octet), NEW other \in Seq(Octet), NEW at,
           Len(bytes) >= 2, OneChanged(bytes, other, at)
    PROVE  Crc(bytes) # Crc(other)
<1> DEFINE n == Len(bytes)
           p == Padded(bytes)
           q == Padded(other)
           m == Len(p) - 2
<1>1. /\ n \in Nat /\ n = Len(other) /\ at \in 1..n
      /\ bytes[at] # other[at] /\ \A i \in 1..n : i # at => bytes[i] = other[i]
      /\ \A i \in 1..n : bytes[i] \in Octet /\ other[i] \in Octet
  BY LenProperties, ElementOfSeq DEF OneChanged
<1>2. at \in {1, 2} => 256 * bytes[1] + bytes[2] # 256 * other[1] + other[2]
  <2>2. bytes[1] \in Octet /\ bytes[2] \in Octet /\ other[1] \in Octet /\ other[2] \in Octet
    BY <1>1
  <2>3. at = 1 => bytes[1] # other[1] /\ bytes[2] = other[2]
    BY <1>1
  <2>4. at = 2 => bytes[1] = other[1] /\ bytes[2] # other[2]
    BY <1>1
  <2>5. QED
    BY <2>2, <2>3, <2>4, FillDiffers
<1>3. CASE n = 2
  <2>1. Crc(bytes) = 256 * bytes[1] + bytes[2] /\ Crc(other) = 256 * other[1] + other[2]
    BY <1>1, <1>3 DEF Crc
  <2>2. at \in {1, 2}
    BY <1>1, <1>3
  <2>3. QED
    BY <1>2, <2>1, <2>2
<1>4. CASE n >= 3
  <2>1. PICK u : IsFilling(u, bytes, Len(Padded(bytes)) - 2)
    BY <1>4, CrcIs
  <2>2. PICK v : IsFilling(v, other, Len(Padded(other)) - 2)
    BY <1>1, <1>4, CrcIs
  <2>3. /\ Len(p) \in {n + 1, n + 2} /\ Len(q) = Len(p)
        /\ \A i \in 1..n : p[i] = bytes[i] /\ q[i] = other[i]
        /\ \A i \in (n + 1)..Len(p) : p[i] = 0 /\ q[i] = 0
    <3>1. Len(q) = Len(p)
      BY <1>1, <1>4, PaddedIs
    <3>2. /\ Len(p) \in {n + 1, n + 2}
          /\ \A i \in 1..n : p[i] = bytes[i]
          /\ \A i \in (n + 1)..Len(p) : p[i] = 0
      BY <1>4, PaddedIs
    <3>3. /\ \A i \in 1..n : q[i] = other[i]
          /\ \A i \in (n + 1)..Len(q) : q[i] = 0
      BY <1>1, <1>4, PaddedIs
    <3>4. QED
      BY <3>1, <3>2, <3>3
  <2>4. m \in Nat
    BY <1>1, <1>4, <2>3
  <2>5. /\ u[0] = 256 * bytes[1] + bytes[2] /\ Crc(bytes) = u[m]
        /\ v[0] = 256 * other[1] + other[2] /\ Crc(other) = v[m]
        /\ \A i \in 0..m : u[i] \in Registers /\ v[i] \in Registers
        /\ \A i \in 1..m : /\ u[i] = ShiftInByte(u[i - 1], p[i + 2])
                            /\ v[i] = ShiftInByte(v[i - 1], q[i + 2])
    BY <2>1, <2>2, <2>3 DEF IsFilling
  <2>6. \A i \in 1..m : p[i + 2] \in Int /\ q[i + 2] \in Int /\ (i + 2 # at => p[i + 2] = q[i + 2])
    <3> SUFFICES ASSUME NEW i \in 1..m
                 PROVE  p[i + 2] \in Int /\ q[i + 2] \in Int /\ (i + 2 # at => p[i + 2] = q[i + 2])
      OBVIOUS
    <3>1. i + 2 \in 1..n \/ i + 2 \in (n + 1)..Len(p)
      BY <1>1, <2>3
    <3>2. i + 2 \in 1..n => bytes[i + 2] \in Int /\ other[i + 2] \in Int
      BY <1>1, OctetIs
    <3>3. QED
      BY <1>1, <2>3, <3>1, <3>2
  <2> HIDE DEF n, p, q, m
  <2> DEFINE T == {i \in Nat : i <= m => IF i + 2 < at THEN u[i] = v[i] ELSE u[i] # v[i]}
  <2>7. 0 \in T
    <3>1. at > 2 => bytes[1] = other[1] /\ bytes[2] = other[2]
      BY <1>1, <1>4
    <3>2. at > 2 \/ at \in {1, 2}
      BY <1>1
    <3>3. QED
      BY <1>2, <2>5, <3>1, <3>2
  <2>8. ASSUME NEW i \in Nat, i \in T
        PROVE  i + 1 \in T
    <3> SUFFICES ASSUME i + 1 <= m
                 PROVE  IF (i + 1) + 2 < at THEN u[i + 1] = v[i + 1] ELSE u[i + 1] # v[i + 1]
      OBVIOUS
    <3> DEFINE a == p[(i + 1) + 2]
               b == q[(i + 1) + 2]
    <3>1. i + 1 \in 1..m /\ i \in 0..m /\ (i + 1) - 1 = i
      BY <2>4
    <3>2. IF i + 2 < at THEN u[i] = v[i] ELSE u[i] # v[i]
      BY <2>8, <3>1
    <3>3. u[i + 1] = ShiftInByte(u[i], a) /\ v[i + 1] = ShiftInByte(v[i], b)
      BY <2>5, <3>1
    <3>4. u[i] \in Registers /\ v[i] \in Registers /\ a \in Int /\ b \in Int
      BY <2>5, <2>6, <3>1
    <3>5. (i + 1) + 2 # at => a = b
      BY <2>6, <3>1
    <3>6. (i + 1) + 2 = at => IsByte(a) /\ IsByte(b) /\ a # b
      <4>1. (i + 1) + 2 = at => a = bytes[at] /\ b = other[at]
        BY <1>1, <2>3
      <4>2. QED
        BY <1>1, <4>1, OctetIs
    <3> HIDE DEF a, b
    <3>7. CASE (i + 1) + 2 < at
      <4>1. i + 2 < at /\ (i + 1) + 2 # at
        BY <1>1, <3>7
      <4>2. QED
        BY <3>2, <3>3, <3>5, <3>7, <4>1
    <3>8. CASE (i + 1) + 2 = at
      <4>1. i + 2 < at
        BY <1>1, <3>8
      <4>2. ShiftInByte(u[i], a) # ShiftInByte(u[i], b)
        BY <3>4, <3>6, <3>8, ShiftInByteDiffers
      <4>3. ~((i + 1) + 2 < at)
        BY <1>1, <3>8
      <4>4. QED
        BY <3>2, <3>3, <4>1, <4>2, <4>3
    <3>9. CASE (i + 1) + 2 > at
      <4>1. ~(i + 2 < at) /\ (i + 1) + 2 # at /\ ~((i + 1) + 2 < at)
        BY <1>1, <3>9
      <4>2. ShiftInByte(u[i], a) # ShiftInByte(v[i], a)
        BY <3>2, <3>4, <4>1, ShiftInRegisterDiffers
      <4>3. QED
        BY <3>3, <3>5, <4>1, <4>2
    <3>10. (i + 1) + 2 < at \/ (i + 1) + 2 = at \/ (i + 1) + 2 > at
      BY <1>1
    <3>11. QED
      BY <3>7, <3>8, <3>9, <3>10, Zenon
  <2> HIDE DEF T
  <2>9. Nat \subseteq T
    BY <2>7, <2>8, FromZero
  <2>10. ~(m + 2 < at)
    BY <1>1, <2>3, <2>4 DEF m
  <2>11. u[m] # v[m]
    BY <2>4, <2>9, <2>10 DEF T
  <2>12. QED
    BY <2>5, <2>11
<1>5. n = 2 \/ n >= 3
  BY <1>1
<1>6. QED
  BY <1>3, <1>4, <1>5, Zenon

-----------------------------------------------------------------------------
(***************************************************************************)
(* The parsers.  Each is a loop whose states stay in a set of their own.   *)
(***************************************************************************)
Commands == [id : Octet, data : Seq(Octet), control : BOOLEAN]

LEMMA ByteType ==
    ASSUME beyond \in Octet, NEW buf \in Seq(Octet), NEW i \in Int
    PROVE  Byte(buf, i) \in Octet
<1>1. i \in DOMAIN buf => buf[i] \in Octet
  BY ElementOfSeq, LenProperties
<1>2. QED
  BY <1>1 DEF Byte

LEMMA AppendType ==
    ASSUME NEW S, NEW s \in Seq(S), NEW e \in S
    PROVE  Append(s, e) \in Seq(S)
BY AppendProperties

\* A run of m rounds of such a loop, and what it comes to.
IsLoop(u, m, S, start, step, result) ==
    /\ u[0] = start /\ u[m] = result
    /\ \A n \in 0..m : u[n] \in S
    /\ \A n \in 1..m : u[n] = IF GoesOn(u[n - 1]) THEN step[u[n - 1]] ELSE u[n - 1]

IsLoopOf(u, m, start, step) ==
    u = [n \in 0..m |-> IF n = 0 THEN start
                        ELSE IF GoesOn(u[n - 1]) THEN step[u[n - 1]] ELSE u[n - 1]]

LEMMA LoopExists ==
    ASSUME NEW S, NEW m \in Nat, NEW start \in S, NEW step,
           \A s \in S : GoesOn(s) => step[s] \in S
    PROVE  \E g \in [0..m -> S] : IsLoopOf(g, m, start, step)
<1> DEFINE round == [s \in S |-> IF GoesOn(s) THEN step[s] ELSE s]
           f == [n \in 1..m |-> round]
<1>1. round \in [S -> S] /\ \A s \in S : round[s] = IF GoesOn(s) THEN step[s] ELSE s
  OBVIOUS
<1> HIDE DEF round
<1>2. f \in [1..m -> [S -> S]] /\ \A n \in 1..m : f[n] = round
  BY <1>1
<1> HIDE DEF f
<1>3. PICK g \in [0..m -> S] : IsRun(g, m, start, f)
  BY <1>2, RunExists
<1>4. \A n \in 0..m : n # 0 =>
          f[n][g[n - 1]] = IF GoesOn(g[n - 1]) THEN step[g[n - 1]] ELSE g[n - 1]
  <2> SUFFICES ASSUME NEW n \in 0..m, n # 0
               PROVE  f[n][g[n - 1]] = IF GoesOn(g[n - 1]) THEN step[g[n - 1]] ELSE g[n - 1]
    OBVIOUS
  <2>1. n \in 1..m /\ n - 1 \in 0..m
    OBVIOUS
  <2>2. g[n - 1] \in S /\ f[n] = round
    BY <1>2, <2>1
  <2>3. QED
    BY <1>1, <2>2
<1>5. g = [n \in 0..m |-> IF n = 0 THEN start ELSE f[n][g[n - 1]]]
  BY <1>3 DEF IsRun
<1>6. IsLoopOf(g, m, start, step)
  BY <1>4, <1>5 DEF IsLoopOf
<1>7. QED
  BY <1>6

\* What a recursive definition of such a loop comes to, given that it takes a step each round.
LEMMA LoopIs ==
    ASSUME NEW S, NEW m \in Nat, NEW start \in S, NEW step, NEW u,
           \A s \in S : GoesOn(s) => step[s] \in S, u[0] = start,
           \A n \in 1..m : u[n - 1] \in S =>
               u[n] = IF GoesOn(u[n - 1]) THEN step[u[n - 1]] ELSE u[n - 1]
    PROVE  IsLoop(u, m, S, start, step, u[m])
<1> DEFINE round == [s \in S |-> IF GoesOn(s) THEN step[s] ELSE s]
           f == [n \in 1..m |-> round]
<1>1. round \in [S -> S] /\ \A s \in S : round[s] = IF GoesOn(s) THEN step[s] ELSE s
  OBVIOUS
<1> HIDE DEF round
<1>2. f \in [1..m -> [S -> S]] /\ \A n \in 1..m : f[n] = round
  BY <1>1
<1> HIDE DEF f
<1>3. \A n \in 1..m : u[n - 1] \in S => u[n] = f[n][u[n - 1]]
  BY <1>1, <1>2
<1>4. \A n \in 0..m : u[n] \in S
  BY <1>2, <1>3, RunStays
<1>5. \A n \in 1..m : n - 1 \in 0..m
  OBVIOUS
<1>6. \A n \in 1..m : u[n] = IF GoesOn(u[n - 1]) THEN step[u[n - 1]] ELSE u[n - 1]
  BY <1>4, <1>5
<1>7. QED
  BY <1>4, <1>6 DEF IsLoop

\* A loop that has ended has come to its result.
LEMMA LoopEnded ==
    ASSUME NEW m \in Nat, NEW k \in 0..m, NEW u, NEW S, NEW start, NEW step, NEW result,
           IsLoop(u, m, S, start, step, result), ~GoesOn(u[k])
    PROVE  result = u[k]
<1>1. u[m] = result /\ \A n \in 1..m : u[n] = IF GoesOn(u[n - 1]) THEN step[u[n - 1]] ELSE u[n - 1]
  BY DEF IsLoop
<1>2. \A n \in 1..m : n > k /\ u[n - 1] = u[k] => u[n] = u[k]
  BY <1>1
<1>3. QED
  BY <1>1, <1>2, RunEnded

LEMMA LoopType ==
    ASSUME NEW m \in Nat, NEW u, NEW S, NEW start, NEW step, NEW result,
           IsLoop(u, m, S, start, step, result)
    PROVE  result \in S
BY DEF IsLoop

-----------------------------------------------------------------------------
\* The states of the loop that collects the data of a basic command, called at it.
BasicDataStates(it, end) ==
    {s \in [how : {"going", "waits", "found", "stray"}, it : Int, data : Seq(Octet)] :
        it <= s.it /\ (s.how = "found" => s.it < end)}

LEMMA BasicDataStepType ==
    ASSUME beyond \in Octet, NEW buf \in Seq(Octet), NEW it \in Int, NEW end \in Int,
           NEW s \in BasicDataStates(it, end), GoesOn(s)
    PROVE  BasicDataStep(buf, end, s) \in BasicDataStates(it, end)
<1> DEFINE byte == Byte(buf, s.it)
           next == Byte(buf, s.it + 1)
           Take(b, n) == [s EXCEPT !.it = s.it + n, !.data = Append(s.data, b)]
           t == BasicDataStep(buf, end, s)
<1>1. /\ s \in [how : {"going", "waits", "found", "stray"}, it : Int, data : Seq(Octet)]
      /\ s.how = "going" /\ s.it \in Int /\ it <= s.it /\ s.data \in Seq(Octet)
  BY DEF BasicDataStates, GoesOn
<1>2. byte \in Octet /\ next \in Octet
  <2>1. s.it \in Int /\ s.it + 1 \in Int
    BY <1>1
  <2>2. QED
    BY <2>1, ByteType
<1>3. \A b \in Octet : Append(s.data, b) \in Seq(Octet)
  BY <1>1, AppendType
<1>4. \/ t = [s EXCEPT !.how = "waits"]
      \/ t = Take(byte, 1)
      \/ t = Take(next, 2)
      \/ t = [s EXCEPT !.how = "found"] /\ ~(s.it >= end)
      \/ t = [s EXCEPT !.how = "stray"]
  <2>1. CASE s.it >= end
    BY <2>1 DEF BasicDataStep
  <2>2. CASE ~(s.it >= end) /\ byte >= 32
    <3>1. byte # DLE /\ byte # ETX
      BY <1>2, <2>2, SMT DEF DLE, ETX, Octet
    <3>2. QED
      BY <2>2, <3>1, SMT DEF BasicDataStep
  <2>3. CASE ~(s.it >= end) /\ ~(byte >= 32)
    BY <2>3 DEF BasicDataStep
  <2>4. QED
    BY <2>1, <2>2, <2>3, Zenon
<1> HIDE DEF t, byte, next
<1>5. [s EXCEPT !.how = "waits"] \in BasicDataStates(it, end)
  BY <1>1 DEF BasicDataStates
<1>6. \A b \in Octet : Take(b, 1) \in BasicDataStates(it, end) /\ Take(b, 2) \in BasicDataStates(it, end)
  <2> SUFFICES ASSUME NEW b \in Octet, NEW n \in {1, 2}
               PROVE  Take(b, n) \in BasicDataStates(it, end)
    OBVIOUS
  <2> DEFINE data == Append(s.data, b)
  <2>1. data \in Seq(Octet) /\ s.it + n \in Int /\ it <= s.it + n
    BY <1>1, <1>3
  <2> HIDE DEF data
  <2>2. Take(b, n) = [s EXCEPT !.it = s.it + n, !.data = data]
    BY DEF data
  <2>3. QED
    BY <1>1, <2>1, <2>2 DEF BasicDataStates
<1>7. ~(s.it >= end) => [s EXCEPT !.how = "found"] \in BasicDataStates(it, end)
  BY <1>1 DEF BasicDataStates
<1>8. [s EXCEPT !.how = "stray"] \in BasicDataStates(it, end)
  BY <1>1 DEF BasicDataStates
<1> HIDE DEF Take
<1>9. QED
  BY <1>2, <1>4, <1>5, <1>6, <1>7, <1>8, Zenon DEF t

\* The loop that collects the data of a basic command.
LEMMA BasicDataIs ==
    ASSUME beyond \in Octet, NEW buf \in Seq(Octet), NEW it \in Int, NEW end \in Int, end - it + 1 >= 0
    PROVE  /\ BasicData(buf, it, end) \in BasicDataStates(it, end)
           /\ \E u : IsLoop(u, end - it + 1, BasicDataStates(it, end),
                            [how |-> "going", it |-> it, data |-> <<>>],
                            [s \in BasicDataStates(it, end) |-> BasicDataStep(buf, end, s)],
                            BasicData(buf, it, end))
<1> DEFINE S == BasicDataStates(it, end)
           m == end - it + 1
           start == [how |-> "going", it |-> it, data |-> <<>>]
           step == [s \in S |-> BasicDataStep(buf, end, s)]
           Runs(u) == u = [n \in 0..m |-> IF n = 0 THEN start
                               ELSE LET s == u[n - 1] IN IF GoesOn(s) THEN BasicDataStep(buf, end, s) ELSE s]
           U == CHOOSE u : Runs(u)
<1>1. m \in Nat
  OBVIOUS
<1>2. start \in S
  <2>1. <<>> \in Seq(Octet)
    BY EmptySeq
  <2>2. QED
    BY <2>1, SMT DEF BasicDataStates
<1>3. \A s \in S : step[s] = BasicDataStep(buf, end, s)
  OBVIOUS
<1>4. \A s \in S : GoesOn(s) => step[s] \in S
  BY <1>3, BasicDataStepType
<1>5. BasicData(buf, it, end) = U[m]
  BY DEF BasicData
<1> HIDE DEF S, m, start, step
<1>6. PICK g \in [0..m -> S] : IsLoopOf(g, m, start, step)
  BY <1>1, <1>2, <1>4, LoopExists
<1>7. Runs(g)
  <2>1. \A n \in 0..m : n # 0 => step[g[n - 1]] = BasicDataStep(buf, end, g[n - 1])
    <3> SUFFICES ASSUME NEW n \in 0..m, n # 0
                 PROVE  step[g[n - 1]] = BasicDataStep(buf, end, g[n - 1])
      OBVIOUS
    <3>1. n - 1 \in 0..m
      BY <1>1
    <3>2. QED
      BY <1>3, <3>1
  <2>2. QED
    BY <1>6, <2>1 DEF IsLoopOf
<1>8. Runs(U)
  <2> HIDE DEF Runs
  <2>1. QED
    BY <1>7
<1> HIDE DEF U
<1>9. \A n \in 0..m : U[n] = IF n = 0 THEN start
          ELSE IF GoesOn(U[n - 1]) THEN BasicDataStep(buf, end, U[n - 1]) ELSE U[n - 1]
  BY <1>8
<1> HIDE DEF Runs
<1>10. U[0] = start
  BY <1>1, <1>9
<1>11. \A n \in 1..m : U[n - 1] \in S =>
           U[n] = IF GoesOn(U[n - 1]) THEN step[U[n - 1]] ELSE U[n - 1]
  BY <1>1, <1>3, <1>9
<1>12. IsLoop(U, m, S, start, step, U[m])
  BY <1>1, <1>2, <1>4, <1>10, <1>11, LoopIs
<1>13. U[m] \in S
  BY <1>1, <1>12, LoopType
<1>14. QED
  BY <1>5, <1>12, <1>13 DEF S, m, start, step

-----------------------------------------------------------------------------
(***************************************************************************)
(* Basic commands: the loop of extract_commands, basic version.            *)
(***************************************************************************)
\* The states of the loop that extracts basic commands.
BasicExtractStates(it, end) ==
    {s \in [how : {"going", "returns"}, it : Int, keep : Int, out : Seq(Commands)] :
        it <= s.it /\ it <= s.keep /\ s.keep <= end}

LEMMA CommandType ==
    ASSUME NEW id \in Octet, NEW data \in Seq(Octet), NEW control \in BOOLEAN
    PROVE  Command(id, data, control) \in Commands
BY DEF Command, Commands

LEMMA BasicExtractStepType ==
    ASSUME beyond \in Octet, NEW buf \in Seq(Octet), NEW it \in Int, NEW end \in Int,
           NEW s \in BasicExtractStates(it, end), GoesOn(s)
    PROVE  BasicExtractStep(buf, end, s) \in BasicExtractStates(it, end)
<1> DEFINE id == Byte(buf, s.it + 1)
           found == BasicData(buf, s.it + 2, end)
           t == BasicExtractStep(buf, end, s)
           read == Command(id, found.data, FALSE)
           out == Append(s.out, read)
           after == found.it + 1
<1>1. /\ s \in [how : {"going", "returns"}, it : Int, keep : Int, out : Seq(Commands)]
      /\ s.it \in Int /\ s.keep \in Int /\ s.out \in Seq(Commands)
      /\ it <= s.it /\ it <= s.keep /\ s.keep <= end
  BY DEF BasicExtractStates
<1>2. [s EXCEPT !.how = "returns"] \in BasicExtractStates(it, end)
  BY <1>1 DEF BasicExtractStates
<1>3. \A n \in {1, 2, 3} : [s EXCEPT !.it = s.it + n] \in BasicExtractStates(it, end)
  BY <1>1 DEF BasicExtractStates
<1>4. CASE end - s.it < 3
  <2>1. t = [s EXCEPT !.how = "returns"]
    BY <1>1, <1>4 DEF BasicExtractStep
  <2>2. QED
    BY <1>2, <2>1
<1>5. CASE ~(end - s.it < 3)
  <2>1. end - s.it >= 3
    BY <1>1, <1>5
  <2>2. found \in BasicDataStates(s.it + 2, end)
    <3>1. s.it + 2 \in Int /\ end - (s.it + 2) + 1 >= 0
      BY <1>1, <2>1
    <3>2. QED
      BY <3>1, BasicDataIs
  <2>3. /\ found.how \in {"going", "waits", "found", "stray"} /\ found.it \in Int
        /\ found.data \in Seq(Octet) /\ s.it + 2 <= found.it
        /\ found.how = "found" => found.it < end
    <3> HIDE DEF found
    <3>1. QED
      BY <2>2 DEF BasicDataStates
  <2>4. id \in Octet
    <3>1. s.it + 1 \in Int
      BY <1>1
    <3>2. QED
      BY <3>1, ByteType
  <2> HIDE DEF found, id
  <2>5. read \in Commands
    BY <2>3, <2>4, CommandType
  <2> HIDE DEF read
  <2>6. out \in Seq(Commands)
    BY <1>1, <2>5, AppendType
  <2>7. found.how = "found" =>
            [s EXCEPT !.it = after, !.keep = after, !.out = out] \in BasicExtractStates(it, end)
    <3>1. after \in Int /\ it <= after /\ (found.how = "found" => after <= end)
      BY <1>1, <2>3
    <3> HIDE DEF out, after
    <3>2. QED
      BY <1>1, <2>6, <3>1 DEF BasicExtractStates
  <2>8. \/ t = [s EXCEPT !.how = "returns"]
        \/ t = [s EXCEPT !.it = s.it + 1]
        \/ t = [s EXCEPT !.it = s.it + 2]
        \/ t = [s EXCEPT !.it = s.it + 3]
        \/ found.how = "found" /\ t = [s EXCEPT !.it = after, !.keep = after, !.out = out]
    <3> HIDE DEF t
    <3>1. t = BasicExtractStep(buf, end, s)
      BY DEF t
    <3>2. CASE Byte(buf, s.it) # STX
      BY <1>5, <2>1, <3>1, <3>2, Zenon DEF BasicExtractStep
    <3>3. CASE Byte(buf, s.it) = STX /\ ~IsBasic(id)
      BY <1>5, <2>1, <3>1, <3>3, Zenon DEF BasicExtractStep, id
    <3>4. CASE Byte(buf, s.it) = STX /\ IsBasic(id)
      <4>1. t = CASE found.how = "stray" -> [s EXCEPT !.it = s.it + 3]
                  [] found.how = "found" ->
                         [s EXCEPT !.it = after, !.keep = after, !.out = out]
                  [] OTHER -> [s EXCEPT !.how = "returns"]
        BY <1>5, <2>1, <3>1, <3>4, Zenon DEF BasicExtractStep, TakeData, id, found, after, out, read
      <4>2. QED
        <5> HIDE DEF after, out
        <5>1. QED
          BY <4>1
    <3>5. QED
      BY <3>2, <3>3, <3>4, Zenon
  <2> HIDE DEF t, after, out
  <2>9. QED
    BY <1>2, <1>3, <2>7, <2>8 DEF t
<1>6. QED
  BY <1>4, <1>5, Zenon

LEMMA BasicExtractIs ==
    ASSUME beyond \in Octet, NEW buf \in Seq(Octet), NEW it \in Int, NEW end \in Int, it <= end,
           NEW out \in Seq(Commands)
    PROVE  /\ BasicExtract(buf, it, end, out) \in BasicExtractStates(it, end)
           /\ \E u : IsLoop(u, end - it + 1, BasicExtractStates(it, end),
                            [how |-> "going", it |-> it, keep |-> it, out |-> out],
                            [s \in BasicExtractStates(it, end) |-> BasicExtractStep(buf, end, s)],
                            BasicExtract(buf, it, end, out))
<1> DEFINE S == BasicExtractStates(it, end)
           m == end - it + 1
           start == [how |-> "going", it |-> it, keep |-> it, out |-> out]
           step == [s \in S |-> BasicExtractStep(buf, end, s)]
           Runs(u) == u = [n \in 0..m |-> IF n = 0 THEN start
                               ELSE LET s == u[n - 1] IN IF GoesOn(s) THEN BasicExtractStep(buf, end, s) ELSE s]
           U == CHOOSE u : Runs(u)
<1>1. m \in Nat
  OBVIOUS
<1>2. start \in S
  BY DEF BasicExtractStates
<1>3. \A s \in S : step[s] = BasicExtractStep(buf, end, s)
  OBVIOUS
<1>4. \A s \in S : GoesOn(s) => step[s] \in S
  BY <1>3, BasicExtractStepType
<1>5. BasicExtract(buf, it, end, out) = U[m]
  BY DEF BasicExtract
<1> HIDE DEF S, m, start, step
<1>6. PICK g \in [0..m -> S] : IsLoopOf(g, m, start, step)
  BY <1>1, <1>2, <1>4, LoopExists
<1>7. Runs(g)
  <2>1. \A n \in 0..m : n # 0 => step[g[n - 1]] = BasicExtractStep(buf, end, g[n - 1])
    <3> SUFFICES ASSUME NEW n \in 0..m, n # 0
                 PROVE  step[g[n - 1]] = BasicExtractStep(buf, end, g[n - 1])
      OBVIOUS
    <3>1. n - 1 \in 0..m
      BY <1>1
    <3>2. QED
      BY <1>3, <3>1
  <2>2. QED
    BY <1>6, <2>1 DEF IsLoopOf
<1>8. Runs(U)
  <2> HIDE DEF Runs
  <2>1. QED
    BY <1>7
<1> HIDE DEF U
<1>9. \A n \in 0..m : U[n] = IF n = 0 THEN start
          ELSE IF GoesOn(U[n - 1]) THEN BasicExtractStep(buf, end, U[n - 1]) ELSE U[n - 1]
  BY <1>8
<1> HIDE DEF Runs
<1>10. U[0] = start
  BY <1>1, <1>9
<1>11. \A n \in 1..m : U[n - 1] \in S =>
           U[n] = IF GoesOn(U[n - 1]) THEN step[U[n - 1]] ELSE U[n - 1]
  BY <1>1, <1>3, <1>9
<1>12. IsLoop(U, m, S, start, step, U[m])
  BY <1>1, <1>2, <1>4, <1>10, <1>11, LoopIs
<1>13. U[m] \in S
  BY <1>1, <1>12, LoopType
<1>14. QED
  BY <1>5, <1>12, <1>13 DEF S, m, start, step

\* The states of the loop of detect_command.
DetectStates(start, end) ==
    {s \in [how : {"going", "returns", "throws", "overrun"}, it : Int, end : Int, keep : Int,
            control : BOOLEAN, out : Seq(Commands)] :
        s.end = end /\ start <= s.it /\ start <= s.keep /\ s.keep <= end}

LEMMA BytesType ==
    ASSUME beyond \in Octet, NEW buf \in Seq(Octet), NEW first \in Int, NEW last \in Int, last - first + 1 >= 0
    PROVE  /\ Bytes(buf, first, last) \in Seq(Octet)
           /\ Len(Bytes(buf, first, last)) = last - first + 1
           /\ \A i \in 1..(last - first + 1) : Bytes(buf, first, last)[i] = Byte(buf, first + i - 1)
<1> DEFINE n == last - first + 1
<1>1. n \in Nat
  OBVIOUS
<1>2. \A i \in 1..n : Byte(buf, first + i - 1) \in Octet
  <2> SUFFICES ASSUME NEW i \in 1..n PROVE Byte(buf, first + i - 1) \in Octet
    OBVIOUS
  <2>1. first + i - 1 \in Int
    OBVIOUS
  <2>2. QED
    BY <2>1, ByteType
<1>3. Bytes(buf, first, last) = [i \in 1..n |-> Byte(buf, first + i - 1)]
  BY DEF Bytes
<1> HIDE DEF n
<1>4. Bytes(buf, first, last) \in [1..n -> Octet]
  BY <1>2, <1>3
<1>5. Bytes(buf, first, last) \in Seq(Octet) /\ Len(Bytes(buf, first, last)) = n
  BY <1>1, <1>4, SeqDef, LenProperties
<1>6. \A i \in 1..n : Bytes(buf, first, last)[i] = Byte(buf, first + i - 1)
  BY <1>3
<1>7. QED
  BY <1>5, <1>6 DEF n

LEMMA ConsumedType ==
    ASSUME NEW start \in Int, NEW end \in Int, NEW s \in DetectStates(start, end),
           NEW it \in Int, start <= it, it <= end, NEW control \in BOOLEAN, NEW out \in Seq(Commands)
    PROVE  Consumed(s, it, control, out) \in DetectStates(start, end)
BY DEF Consumed, DetectStates

LEMMA FrameStepType ==
    ASSUME beyond \in Octet, NEW buf \in Seq(Octet), NEW start \in Int, NEW end \in Int,
           NEW s \in DetectStates(start, end), GoesOn(s), s.it + 1 < s.end
    PROVE  FrameStep(buf, s) \in DetectStates(start, end)
<1> DEFINE id == Byte(buf, s.it + 1)
           basic == BasicExtract(buf, s.keep, s.end, s.out)
           crc == Checksum(buf, s.it)
           read == Command(id, Bytes(buf, s.it + 3, crc - 1), FALSE)
           out == Append(s.out, read)
           t == FrameStep(buf, s)
<1>1. /\ s \in [how : {"going", "returns", "throws", "overrun"}, it : Int, end : Int, keep : Int,
                control : BOOLEAN, out : Seq(Commands)]
      /\ s.it \in Int /\ s.keep \in Int /\ s.out \in Seq(Commands) /\ s.control \in BOOLEAN
      /\ s.end = end /\ start <= s.it /\ start <= s.keep /\ s.keep <= end
  BY DEF DetectStates
<1>2. /\ basic.keep \in Int /\ s.keep <= basic.keep /\ basic.keep <= end
      /\ basic.out \in Seq(Commands)
  <2>1. basic \in BasicExtractStates(s.keep, s.end)
    BY <1>1, BasicExtractIs
  <2> HIDE DEF basic
  <2>2. QED
    BY <1>1, <2>1 DEF BasicExtractStates
<1>3. crc \in Int /\ s.it + 3 <= crc
  <2>1. s.it + 2 \in Int
    BY <1>1
  <2>2. Byte(buf, s.it + 2) \in Octet
    BY <2>1, ByteType
  <2>3. Byte(buf, s.it + 2) \in Int /\ 0 <= Byte(buf, s.it + 2)
    BY <2>2, OctetIs DEF IsByte
  <2>4. QED
    BY <1>1, <2>3 DEF Checksum
<1> HIDE DEF crc
<1>4. out \in Seq(Commands)
  <2>1. s.it + 1 \in Int /\ s.it + 3 \in Int /\ crc - 1 \in Int /\ (crc - 1) - (s.it + 3) + 1 >= 0
    BY <1>1, <1>3
  <2>2. id \in Octet
    BY <2>1, ByteType
  <2>3. Bytes(buf, s.it + 3, crc - 1) \in Seq(Octet)
    BY <2>1, BytesType
  <2>4. read \in Commands
    BY <2>2, <2>3, CommandType
  <2> HIDE DEF read
  <2>5. QED
    BY <1>1, <2>4, AppendType
<1> HIDE DEF basic, out
<1>5. \/ t = [s EXCEPT !.it = s.it + 2, !.control = FALSE]
      \/ t = Consumed(s, basic.keep, TRUE, basic.out)
      \/ t = [s EXCEPT !.how = "returns"]
      \/ t = [s EXCEPT !.how = "throws"]
      \/ Complete(buf, s.it, s.end) /\ t = Consumed(s, crc + 3, FALSE, out)
  <2> HIDE DEF t
  <2>1. t = FrameStep(buf, s)
    BY DEF t
  <2>2. CASE IsBasic(id)
    BY <2>1, <2>2, Zenon DEF FrameStep, TakeBasic, id, basic
  <2>3. CASE ~IsBasic(id) /\ ~Complete(buf, s.it, s.end)
    BY <2>1, <2>3, Zenon DEF FrameStep, id
  <2>4. CASE ~IsBasic(id) /\ Complete(buf, s.it, s.end)
    BY <2>1, <2>4, Zenon DEF FrameStep, id, crc, out, read
  <2>5. QED
    BY <2>2, <2>3, <2>4, Zenon
<1> HIDE DEF t
<1>6. [s EXCEPT !.it = s.it + 2, !.control = FALSE] \in DetectStates(start, end)
  <2>1. s.it + 2 \in Int /\ start <= s.it + 2
    BY <1>1
  <2>2. QED
    BY <1>1, <2>1 DEF DetectStates
<1>7. Consumed(s, basic.keep, TRUE, basic.out) \in DetectStates(start, end)
  <2>1. start <= basic.keep
    BY <1>1, <1>2
  <2>2. QED
    BY <1>2, <2>1, ConsumedType
<1>8. \A how \in {"returns", "throws"} : [s EXCEPT !.how = how] \in DetectStates(start, end)
  BY <1>1 DEF DetectStates
<1>9. Complete(buf, s.it, s.end) => Consumed(s, crc + 3, FALSE, out) \in DetectStates(start, end)
  <2> SUFFICES ASSUME Complete(buf, s.it, s.end)
               PROVE  Consumed(s, crc + 3, FALSE, out) \in DetectStates(start, end)
    OBVIOUS
  <2>1. crc + 3 <= end
    BY <1>1 DEF Complete, crc
  <2>2. crc + 3 \in Int /\ start <= crc + 3
    BY <1>1, <1>3
  <2>3. QED
    BY <1>4, <2>1, <2>2, ConsumedType
<1>10. QED
  BY <1>5, <1>6, <1>7, <1>8, <1>9 DEF t

LEMMA DetectStepType ==
    ASSUME beyond \in Octet, NEW buf \in Seq(Octet), NEW start \in Int, NEW end \in Int,
           NEW s \in DetectStates(start, end), GoesOn(s)
    PROVE  DetectStep(buf, s) \in DetectStates(start, end)
<1> DEFINE byte == Byte(buf, s.it)
           out == Append(s.out, Command(byte, <<>>, TRUE))
           t == DetectStep(buf, s)
<1>1. /\ s \in [how : {"going", "returns", "throws", "overrun"}, it : Int, end : Int, keep : Int,
                control : BOOLEAN, out : Seq(Commands)]
      /\ s.it \in Int /\ s.keep \in Int /\ s.out \in Seq(Commands)
      /\ s.end = end /\ start <= s.it /\ start <= s.keep /\ s.keep <= end
  BY DEF DetectStates
<1>2. byte \in Octet
  BY <1>1, ByteType
<1>3. out \in Seq(Commands)
  <2>1. <<>> \in Seq(Octet)
    BY EmptySeq
  <2>2. Command(byte, <<>>, TRUE) \in Commands
    BY <1>2, <2>1, CommandType
  <2>3. QED
    BY <1>1, <2>2, AppendType
<1> HIDE DEF byte
<1>4. \A how \in {"returns", "overrun"} : [s EXCEPT !.how = how] \in DetectStates(start, end)
  BY <1>1 DEF DetectStates
<1>5. CASE s.it >= s.end
  <2>1. ~(s.it < s.end)
    BY <1>1, <1>5
  <2>2. t = [s EXCEPT !.how = "returns"]
    BY <1>5, <2>1, Zenon DEF DetectStep
  <2>3. QED
    BY <1>4, <2>2
<1>6. CASE ~(s.it >= s.end) /\ IsControl(s.control, byte)
  <2>1. s.it < s.end /\ byte # STX
    BY <1>1, <1>6 DEF IsControl, STX, ACK, NAK
  <2>2. t = Consumed(s, s.it + 1, TRUE, out)
    BY <1>6, <2>1, Zenon DEF DetectStep, byte
  <2>3. s.it + 1 \in Int /\ start <= s.it + 1 /\ s.it + 1 <= end
    BY <1>1, <2>1
  <2>4. QED
    BY <1>3, <2>2, <2>3, ConsumedType
<1>7. CASE ~(s.it >= s.end) /\ ~IsControl(s.control, byte) /\ byte = STX
  <2>1. s.it < s.end
    BY <1>1, <1>7
  <2>2. t = IF s.it + 1 < s.end THEN FrameStep(buf, s) ELSE [s EXCEPT !.how = "overrun"]
    BY <1>7, <2>1, Zenon DEF DetectStep, byte
  <2>3. s.it + 1 < s.end => FrameStep(buf, s) \in DetectStates(start, end)
    BY FrameStepType
  <2>4. QED
    BY <1>4, <2>2, <2>3
<1>8. CASE ~(s.it >= s.end) /\ ~IsControl(s.control, byte) /\ byte # STX
  <2>1. s.it < s.end
    BY <1>1, <1>8
  <2>2. t = [s EXCEPT !.it = s.it + 1]
    BY <1>8, <2>1, Zenon DEF DetectStep, byte
  <2>3. [s EXCEPT !.it = s.it + 1] \in DetectStates(start, end)
    BY <1>1 DEF DetectStates
  <2>4. QED
    BY <2>2, <2>3
<1>9. QED
  BY <1>5, <1>6, <1>7, <1>8, Zenon

\* The loop of detect_command.
LEMMA DetectIs ==
    ASSUME beyond \in Octet, NEW buf \in Seq(Octet), NEW start \in Int, NEW end \in Int, start <= end,
           NEW out \in Seq(Commands)
    PROVE  /\ Detect(buf, start, end, out) \in DetectStates(start, end)
           /\ \E u : IsLoop(u, end - start + 1, DetectStates(start, end),
                            [how |-> "going", it |-> start, end |-> end, keep |-> start,
                           control |-> TRUE, out |-> out],
                            [s \in DetectStates(start, end) |-> DetectStep(buf, s)],
                            Detect(buf, start, end, out))
<1> DEFINE S == DetectStates(start, end)
           m == end - start + 1
           begin == [how |-> "going", it |-> start, end |-> end, keep |-> start,
                           control |-> TRUE, out |-> out]
           step == [s \in S |-> DetectStep(buf, s)]
           Runs(u) == u = [n \in 0..m |-> IF n = 0 THEN begin
                               ELSE LET s == u[n - 1] IN IF GoesOn(s) THEN DetectStep(buf, s) ELSE s]
           U == CHOOSE u : Runs(u)
<1>1. m \in Nat
  OBVIOUS
<1>2. begin \in S
  BY DEF DetectStates
<1>3. \A s \in S : step[s] = DetectStep(buf, s)
  OBVIOUS
<1>4. \A s \in S : GoesOn(s) => step[s] \in S
  BY <1>3, DetectStepType
<1>5. Detect(buf, start, end, out) = U[m]
  BY DEF Detect
<1> HIDE DEF S, m, begin, step
<1>6. PICK g \in [0..m -> S] : IsLoopOf(g, m, begin, step)
  BY <1>1, <1>2, <1>4, LoopExists
<1>7. Runs(g)
  <2>1. \A n \in 0..m : n # 0 => step[g[n - 1]] = DetectStep(buf, g[n - 1])
    <3> SUFFICES ASSUME NEW n \in 0..m, n # 0
                 PROVE  step[g[n - 1]] = DetectStep(buf, g[n - 1])
      OBVIOUS
    <3>1. n - 1 \in 0..m
      BY <1>1
    <3>2. QED
      BY <1>3, <3>1
  <2>2. QED
    BY <1>6, <2>1 DEF IsLoopOf
<1>8. Runs(U)
  <2> HIDE DEF Runs
  <2>1. QED
    BY <1>7
<1> HIDE DEF U
<1>9. \A n \in 0..m : U[n] = IF n = 0 THEN begin
          ELSE IF GoesOn(U[n - 1]) THEN DetectStep(buf, U[n - 1]) ELSE U[n - 1]
  BY <1>8
<1> HIDE DEF Runs
<1>10. U[0] = begin
  BY <1>1, <1>9
<1>11. \A n \in 1..m : U[n - 1] \in S =>
           U[n] = IF GoesOn(U[n - 1]) THEN step[U[n - 1]] ELSE U[n - 1]
  BY <1>1, <1>3, <1>9
<1>12. IsLoop(U, m, S, begin, step, U[m])
  BY <1>1, <1>2, <1>4, <1>10, <1>11, LoopIs
<1>13. U[m] \in S
  BY <1>1, <1>12, LoopType
<1>14. QED
  BY <1>5, <1>12, <1>13 DEF S, m, begin, step

LEMMA EndStays ==
    ASSUME NEW a \in Int, NEW b \in Int, NEW c \in Int, NEW d \in Int, c - a = d - b
    PROVE  c - (a - b) = d
  OBVIOUS

\* The states of the loop of the basic detect_command.
DetectBasicStates(start, end) ==
    {s \in [how : {"going", "returns", "loops"}, it : Int, end : Int, keep : Int, out : Seq(Commands)] :
        /\ start <= s.it
        /\ s.how = "going" => s.end - s.it = end - start /\ s.keep = start
        /\ s.how = "returns" => s.keep >= start /\ s.keep <= s.end /\ s.end - s.keep <= end - start}

LEMMA DetectBasicStepType ==
    ASSUME beyond \in Octet, NEW buf \in Seq(Octet), NEW start \in Int, NEW end \in Int, start <= end,
           NEW s \in DetectBasicStates(start, end), GoesOn(s)
    PROVE  DetectBasicStep(buf, start, s) \in DetectBasicStates(start, end)
<1> DEFINE byte == Byte(buf, s.it)
           basic == BasicExtract(buf, s.it, s.end, s.out)
           out == Append(s.out, Command(byte, <<>>, TRUE))
           stop == s.end - (s.it - start)
           t == DetectBasicStep(buf, start, s)
           Small == s.it - start < s.end - s.it
<1>1. /\ s \in [how : {"going", "returns", "loops"}, it : Int, end : Int, keep : Int, out : Seq(Commands)]
      /\ s.it \in Int /\ s.end \in Int /\ s.keep \in Int /\ s.out \in Seq(Commands)
      /\ start <= s.it /\ s.end - s.it = end - start /\ s.keep = start
  BY DEF DetectBasicStates, GoesOn
<1>2. byte \in Octet
  BY <1>1, ByteType
<1>3. out \in Seq(Commands)
  <2>1. <<>> \in Seq(Octet)
    BY EmptySeq
  <2>2. Command(byte, <<>>, TRUE) \in Commands
    BY <1>2, <2>1, CommandType
  <2>3. QED
    BY <1>1, <2>2, AppendType
<1>4. Small => /\ basic.keep \in Int /\ s.it <= basic.keep /\ basic.keep <= s.end
               /\ basic.out \in Seq(Commands)
  <2> SUFFICES ASSUME Small PROVE /\ basic.keep \in Int /\ s.it <= basic.keep /\ basic.keep <= s.end
                                  /\ basic.out \in Seq(Commands)
    OBVIOUS
  <2>1. s.it <= s.end
    BY <1>1
  <2>2. basic \in BasicExtractStates(s.it, s.end)
    BY <1>1, <2>1, BasicExtractIs
  <2> HIDE DEF basic
  <2>3. QED
    BY <2>2 DEF BasicExtractStates
<1>5. [s EXCEPT !.how = "returns", !.end = stop] \in DetectBasicStates(start, end)
  <2>1. stop = end
    <3>1. s.it \in Int /\ s.end \in Int /\ s.end - s.it = end - start
      BY <1>1
    <3>2. s.end - (s.it - start) = end
      BY <3>1
    <3>3. QED
      BY <3>2 DEF stop
  <2>2. stop \in Int
    BY <1>1
  <2> HIDE DEF stop
  <2>3. s.keep >= start /\ s.keep <= stop /\ stop - s.keep <= end - start
    BY <1>1, <2>1
  <2>4. QED
    BY <1>1, <2>2, <2>3 DEF DetectBasicStates
<1>6. [s EXCEPT !.how = "loops", !.out = out] \in DetectBasicStates(start, end)
  <2> HIDE DEF out
  <2>1. QED
    BY <1>1, <1>3 DEF DetectBasicStates
<1>7. Small => [s EXCEPT !.how = "returns", !.keep = basic.keep, !.out = basic.out]
                   \in DetectBasicStates(start, end)
  <2> SUFFICES ASSUME Small
               PROVE  [s EXCEPT !.how = "returns", !.keep = basic.keep, !.out = basic.out]
                          \in DetectBasicStates(start, end)
    OBVIOUS
  <2>1. basic.keep >= start /\ s.end - basic.keep <= end - start
    BY <1>1, <1>4
  <2> DEFINE keep == basic.keep
             got == basic.out
  <2>2. keep \in Int /\ got \in Seq(Commands) /\ keep >= start /\ keep <= s.end /\ s.end - keep <= end - start
    BY <1>4, <2>1
  <2> HIDE DEF keep, got
  <2>3. [s EXCEPT !.how = "returns", !.keep = keep, !.out = got] \in DetectBasicStates(start, end)
    BY <1>1, <2>2 DEF DetectBasicStates
  <2>4. QED
    BY <2>3 DEF keep, got
<1>8. [s EXCEPT !.it = s.it + 1, !.end = s.end + 1] \in DetectBasicStates(start, end)
  <2> DEFINE it == s.it + 1
             stop2 == s.end + 1
  <2>1. it \in Int /\ stop2 \in Int /\ start <= it /\ stop2 - it = end - start
    BY <1>1
  <2> HIDE DEF it, stop2
  <2>2. [s EXCEPT !.it = it, !.end = stop2] \in DetectBasicStates(start, end)
    BY <1>1, <2>1 DEF DetectBasicStates, GoesOn
  <2>3. QED
    BY <2>2 DEF it, stop2
<1>9. \/ t = [s EXCEPT !.how = "returns", !.end = stop]
      \/ t = [s EXCEPT !.how = "loops", !.out = out]
      \/ Small /\ t = [s EXCEPT !.how = "returns", !.keep = basic.keep, !.out = basic.out]
      \/ t = [s EXCEPT !.it = s.it + 1, !.end = s.end + 1]
  <2> HIDE DEF t
  <2>1. t = DetectBasicStep(buf, start, s)
    BY DEF t
  <2>2. (s.it - start >= s.end - s.it) = ~Small
    BY <1>1
  <2>3. byte = STX => byte \notin {ACK, NAK}
    BY DEF STX, ACK, NAK
  <2>4. CASE ~Small
    BY <2>1, <2>2, <2>4, Zenon DEF DetectBasicStep, stop
  <2>5. CASE Small /\ byte \in {ACK, NAK}
    BY <2>1, <2>2, <2>3, <2>5, Zenon DEF DetectBasicStep, byte, out
  <2>6. CASE Small /\ byte = STX
    <3>1. t = IF basic.keep = s.it THEN [s EXCEPT !.how = "returns", !.end = stop]
              ELSE [s EXCEPT !.how = "returns", !.keep = basic.keep, !.out = basic.out]
      BY <2>1, <2>2, <2>3, <2>6, Zenon DEF DetectBasicStep, ReturnBasic, byte, basic, stop
    <3>2. QED
      BY <2>6, <3>1, Zenon
  <2>7. CASE Small /\ byte \notin {ACK, NAK} /\ byte # STX
    BY <2>1, <2>2, <2>7, Zenon DEF DetectBasicStep, byte
  <2>8. QED
    BY <2>4, <2>5, <2>6, <2>7, Zenon
<1> HIDE DEF t
<1>10. QED
  BY <1>5, <1>6, <1>7, <1>8, <1>9, Zenon DEF t

\* The loop of the basic detect_command.
LEMMA DetectBasicIs ==
    ASSUME beyond \in Octet, NEW buf \in Seq(Octet), NEW start \in Int, NEW end \in Int, start <= end,
           NEW out \in Seq(Commands)
    PROVE  /\ DetectBasic(buf, start, end, out) \in DetectBasicStates(start, end)
           /\ \E u : IsLoop(u, end - start + 1, DetectBasicStates(start, end),
                            [how |-> "going", it |-> start, end |-> end, keep |-> start, out |-> out],
                            [s \in DetectBasicStates(start, end) |-> DetectBasicStep(buf, start, s)],
                            DetectBasic(buf, start, end, out))
<1> DEFINE S == DetectBasicStates(start, end)
           m == end - start + 1
           begin == [how |-> "going", it |-> start, end |-> end, keep |-> start, out |-> out]
           step == [s \in S |-> DetectBasicStep(buf, start, s)]
           Runs(u) == u = [n \in 0..m |-> IF n = 0 THEN begin
                               ELSE LET s == u[n - 1] IN IF GoesOn(s) THEN DetectBasicStep(buf, start, s) ELSE s]
           U == CHOOSE u : Runs(u)
<1>1. m \in Nat
  OBVIOUS
<1>2. begin \in S
  BY DEF DetectBasicStates
<1>3. \A s \in S : step[s] = DetectBasicStep(buf, start, s)
  OBVIOUS
<1>4. \A s \in S : GoesOn(s) => step[s] \in S
  BY <1>3, DetectBasicStepType
<1>5. DetectBasic(buf, start, end, out) = U[m]
  BY DEF DetectBasic
<1> HIDE DEF S, m, begin, step
<1>6. PICK g \in [0..m -> S] : IsLoopOf(g, m, begin, step)
  BY <1>1, <1>2, <1>4, LoopExists
<1>7. Runs(g)
  <2>1. \A n \in 0..m : n # 0 => step[g[n - 1]] = DetectBasicStep(buf, start, g[n - 1])
    <3> SUFFICES ASSUME NEW n \in 0..m, n # 0
                 PROVE  step[g[n - 1]] = DetectBasicStep(buf, start, g[n - 1])
      OBVIOUS
    <3>1. n - 1 \in 0..m
      BY <1>1
    <3>2. QED
      BY <1>3, <3>1
  <2>2. QED
    BY <1>6, <2>1 DEF IsLoopOf
<1>8. Runs(U)
  <2> HIDE DEF Runs
  <2>1. QED
    BY <1>7
<1> HIDE DEF U
<1>9. \A n \in 0..m : U[n] = IF n = 0 THEN begin
          ELSE IF GoesOn(U[n - 1]) THEN DetectBasicStep(buf, start, U[n - 1]) ELSE U[n - 1]
  BY <1>8
<1> HIDE DEF Runs
<1>10. U[0] = begin
  BY <1>1, <1>9
<1>11. \A n \in 1..m : U[n - 1] \in S =>
           U[n] = IF GoesOn(U[n - 1]) THEN step[U[n - 1]] ELSE U[n - 1]
  BY <1>1, <1>3, <1>9
<1>12. IsLoop(U, m, S, begin, step, U[m])
  BY <1>1, <1>2, <1>4, <1>10, <1>11, LoopIs
<1>13. U[m] \in S
  BY <1>1, <1>12, LoopType
<1>14. QED
  BY <1>5, <1>12, <1>13 DEF S, m, begin, step

-----------------------------------------------------------------------------
(***************************************************************************)
(* The loop of check_input.                                                *)
(***************************************************************************)
LEMMA DetectInType ==
    ASSUME beyond \in Octet, NEW buf \in Seq(Octet), NEW raw \in Int, NEW size \in Int, 0 <= size,
           NEW out \in Seq(Commands), NEW r, r = DetectIn(buf, raw, raw + size, out)
    PROVE  /\ r.how \in {"going", "returns", "throws", "overrun", "loops"} /\ r.out \in Seq(Commands)
           /\ r.how = "returns" => /\ r.keep \in Int /\ r.end \in Int
                                  /\ 0 <= r.end - r.keep /\ r.end - r.keep <= size
<1>1. raw + size \in Int /\ raw <= raw + size
  OBVIOUS
<1>2. CASE protocol = "extended"
  <2>1. r = Detect(buf, raw, raw + size, out)
    BY <1>2 DEF DetectIn
  <2>2. r \in DetectStates(raw, raw + size)
    BY <1>1, <2>1, DetectIs
  <2>3. QED
    BY <2>2 DEF DetectStates
<1>3. CASE protocol # "extended"
  <2>1. r = DetectBasic(buf, raw, raw + size, out)
    BY <1>3 DEF DetectIn
  <2>2. r \in DetectBasicStates(raw, raw + size)
    BY <1>1, <2>1, DetectBasicIs
  <2>3. QED
    BY <2>2 DEF DetectBasicStates
<1>4. QED
  BY <1>2, <1>3

\* The states of the loop of check_input.
CheckInputStates(buf) ==
    {s \in [how : {"going", "returns", "throws", "overrun", "loops"}, raw : Int, size : Int, out : Seq(Commands)] :
        0 <= s.size /\ s.size <= Len(buf)}

LEMMA CheckInputStepType ==
    ASSUME beyond \in Octet, NEW buf \in Seq(Octet), NEW s \in CheckInputStates(buf), GoesOn(s)
    PROVE  CheckInputStep(buf, s) \in CheckInputStates(buf)
<1> DEFINE r == DetectIn(buf, s.raw, s.raw + s.size, s.out)
           size == r.end - r.keep
           next == r.keep + Len(buf) - size
           out == r.out
           how == r.how
           t == CheckInputStep(buf, s)
<1>1. /\ s \in [how : {"going", "returns", "throws", "overrun", "loops"}, raw : Int, size : Int,
                out : Seq(Commands)]
      /\ s.raw \in Int /\ s.size \in Int /\ s.out \in Seq(Commands)
      /\ 0 <= s.size /\ s.size <= Len(buf)
  BY DEF CheckInputStates
<1>2. Len(buf) \in Nat
  BY LenProperties
<1>3. /\ how \in {"going", "returns", "throws", "overrun", "loops"} /\ out \in Seq(Commands)
      /\ how = "returns" => /\ r.keep \in Int /\ r.end \in Int
                            /\ 0 <= r.end - r.keep /\ r.end - r.keep <= s.size
  BY <1>1, DetectInType
<1>4. how = "returns" => size \in Int /\ 0 <= size /\ size <= Len(buf) /\ next \in Int
  BY <1>1, <1>2, <1>3
<1>5. \/ t = [s EXCEPT !.how = how, !.out = out]
      \/ how = "returns" /\ t = [s EXCEPT !.how = "returns", !.size = size, !.out = out]
      \/ how = "returns" /\ t = [s EXCEPT !.raw = next, !.size = size, !.out = out]
  <2> HIDE DEF t
  <2>1. t = CheckInputStep(buf, s)
    BY DEF t
  <2>2. CASE how # "returns"
    BY <2>1, <2>2, Zenon DEF CheckInputStep, AfterCall, how, out, r
  <2>3. CASE how = "returns" /\ (r.keep = s.raw \/ size = 0)
    BY <2>1, <2>3, Zenon DEF CheckInputStep, AfterCall, how, out, size, r
  <2>4. CASE how = "returns" /\ ~(r.keep = s.raw \/ size = 0)
    BY <2>1, <2>4, Zenon DEF CheckInputStep, AfterCall, how, out, size, next, r
  <2>5. QED
    BY <2>2, <2>3, <2>4, Zenon
<1> HIDE DEF t, how, out, size, next
<1>6. [s EXCEPT !.how = how, !.out = out] \in CheckInputStates(buf)
  BY <1>1, <1>3 DEF CheckInputStates
<1>7. how = "returns" => /\ [s EXCEPT !.how = "returns", !.size = size, !.out = out] \in CheckInputStates(buf)
                         /\ [s EXCEPT !.raw = next, !.size = size, !.out = out] \in CheckInputStates(buf)
  BY <1>1, <1>3, <1>4 DEF CheckInputStates
<1>8. QED
  BY <1>5, <1>6, <1>7, Zenon DEF t

LEMMA CheckInputIs ==
    ASSUME beyond \in Octet, NEW buf \in Seq(Octet)
    PROVE  /\ CheckInput(buf) \in CheckInputStates(buf)
           /\ \E u : IsLoop(u, Len(buf) + 1, CheckInputStates(buf),
                            [how |-> "going", raw |-> 1, size |-> Len(buf), out |-> <<>>],
                            [s \in CheckInputStates(buf) |-> CheckInputStep(buf, s)],
                            CheckInput(buf))
<1> DEFINE S == CheckInputStates(buf)
           m == Len(buf) + 1
           start == [how |-> "going", raw |-> 1, size |-> Len(buf), out |-> <<>>]
           step == [s \in S |-> CheckInputStep(buf, s)]
           Runs(u) == u = [n \in 0..m |-> IF n = 0 THEN start
                               ELSE LET s == u[n - 1] IN IF GoesOn(s) THEN CheckInputStep(buf, s) ELSE s]
           U == CHOOSE u : Runs(u)
<1>1. m \in Nat
  BY LenProperties
<1>2. start \in S
  <2>1. <<>> \in Seq(Commands) /\ Len(buf) \in Nat
    BY EmptySeq, LenProperties
  <2>2. QED
    BY <2>1, SMT DEF CheckInputStates
<1>3. \A s \in S : step[s] = CheckInputStep(buf, s)
  OBVIOUS
<1>4. \A s \in S : GoesOn(s) => step[s] \in S
  BY <1>3, CheckInputStepType
<1>5. CheckInput(buf) = U[m]
  BY DEF CheckInput
<1> HIDE DEF S, m, start, step
<1>6. PICK g \in [0..m -> S] : IsLoopOf(g, m, start, step)
  BY <1>1, <1>2, <1>4, LoopExists
<1>7. Runs(g)
  <2>1. \A n \in 0..m : n # 0 => step[g[n - 1]] = CheckInputStep(buf, g[n - 1])
    <3> SUFFICES ASSUME NEW n \in 0..m, n # 0
                 PROVE  step[g[n - 1]] = CheckInputStep(buf, g[n - 1])
      OBVIOUS
    <3>1. n - 1 \in 0..m
      BY <1>1
    <3>2. QED
      BY <1>3, <3>1
  <2>2. QED
    BY <1>6, <2>1 DEF IsLoopOf
<1>8. Runs(U)
  <2> HIDE DEF Runs
  <2>1. QED
    BY <1>7
<1> HIDE DEF U
<1>9. \A n \in 0..m : U[n] = IF n = 0 THEN start
          ELSE IF GoesOn(U[n - 1]) THEN CheckInputStep(buf, U[n - 1]) ELSE U[n - 1]
  BY <1>8
<1> HIDE DEF Runs
<1>10. U[0] = start
  BY <1>1, <1>9
<1>11. \A n \in 1..m : U[n - 1] \in S =>
           U[n] = IF GoesOn(U[n - 1]) THEN step[U[n - 1]] ELSE U[n - 1]
  BY <1>1, <1>3, <1>9
<1>12. IsLoop(U, m, S, start, step, U[m])
  BY <1>1, <1>2, <1>4, <1>10, <1>11, LoopIs
<1>13. U[m] \in S
  BY <1>1, <1>12, LoopType
<1>14. QED
  BY <1>5, <1>12, <1>13 DEF S, m, start, step

-----------------------------------------------------------------------------
(***************************************************************************)
(* The bytes of a frame.                                                   *)
(***************************************************************************)
LEMMA RegisterBytes ==
    ASSUME NEW crc \in Registers
    PROVE  /\ crc \in Int /\ crc \div 256 \in Octet /\ crc % 256 \in Octet
           /\ 256 * (crc \div 256) + (crc % 256) = crc
<1>1. crc \in Int /\ IsRegister(crc)
  BY DEF Registers
<1>2. /\ IsByte(crc \div 256) /\ IsByte(crc % 256) /\ crc \div 256 \in Int /\ crc % 256 \in Int
      /\ 256 * (crc \div 256) + (crc % 256) = crc
  <2>1. 0 <= crc /\ crc <= 65535
    BY <1>1 DEF IsRegister
  <2>2. 256 * (crc \div 256) + (crc % 256) = crc
    BY <1>1, SMT
  <2>3. crc \div 256 \in Int /\ 0 <= crc \div 256 /\ crc \div 256 <= 255
    BY <1>1, <2>1, SMT
  <2>4. crc % 256 \in Int /\ 0 <= crc % 256 /\ crc % 256 <= 255
    BY <1>1, <2>1, SMT
  <2>5. QED
    BY <2>2, <2>3, <2>4 DEF IsByte
<1>3. QED
  BY <1>1, <1>2, OctetIf

LEMMA SmallLength ==
    ASSUME NEW n \in Nat, n <= 255
    PROVE  n % 256 = n /\ n \in Octet
BY SMT DEF Octet

\* What the checksum of a frame is taken of.
Body(id, data) == <<id, Len(data)>> \o data

LEMMA BodyIs ==
    ASSUME NEW id \in Octet, NEW data \in Seq(Octet), Len(data) <= 255
    PROVE  /\ Body(id, data) \in Seq(Octet) /\ Len(Body(id, data)) = Len(data) + 2
           /\ Body(id, data)[1] = id /\ Body(id, data)[2] = Len(data)
           /\ \A i \in 1..Len(data) : Body(id, data)[i + 2] = data[i]
           /\ Crc(Body(id, data)) \in Registers
<1> DEFINE n == Len(data)
           head == <<id, n>>
           body == head \o data
<1>1. n \in Nat
  BY LenProperties
<1>2. n \in Octet
  BY <1>1, SmallLength
<1>3. head \in Seq(Octet) /\ Len(head) = 2 /\ head[1] = id /\ head[2] = n
  BY <1>2
<1> HIDE DEF head
<1>4. /\ body \in Seq(Octet) /\ Len(body) = 2 + n
      /\ \A i \in 1..(2 + n) : body[i] = IF i <= 2 THEN head[i] ELSE data[i - 2]
  <2>1. /\ body \in Seq(Octet) /\ Len(body) = Len(head) + Len(data)
        /\ \A i \in 1..(Len(head) + Len(data)) :
               body[i] = IF i <= Len(head) THEN head[i] ELSE data[i - Len(head)]
    BY <1>3, ConcatProperties
  <2>2. QED
    BY <1>3, <2>1, Zenon
<1> HIDE DEF body
<1>5. body[1] = id /\ body[2] = n
  BY <1>1, <1>3, <1>4
<1>6. \A i \in 1..n : body[i + 2] = data[i]
  <2> SUFFICES ASSUME NEW i \in 1..n PROVE body[i + 2] = data[i]
    OBVIOUS
  <2>1. i + 2 \in 1..(2 + n) /\ ~(i + 2 <= 2) /\ (i + 2) - 2 = i
    BY <1>1
  <2>2. QED
    BY <1>4, <2>1
<1>7. Len(body) >= 2 /\ Len(body) = n + 2
  BY <1>1, <1>4
<1>8. Crc(body) \in Registers
  BY <1>4, <1>7, CrcType
<1>9. QED
  BY <1>4, <1>5, <1>6, <1>7, <1>8 DEF Body, body, head

\* The bytes of a frame of the extended protocol, at their places.
IsFrame(frame, id, data, n) ==
    /\ frame \in Seq(Octet) /\ n = Len(data) /\ Len(frame) = n + 6
    /\ frame[1] = STX /\ frame[2] = id /\ frame[3] = n
    /\ \A i \in 1..n : frame[i + 3] = data[i]
    /\ frame[n + 4] = Crc(Body(id, data)) \div 256 /\ frame[n + 5] = Crc(Body(id, data)) % 256
    /\ frame[n + 6] = ETX

LEMMA WriteDataIs ==
    ASSUME NEW id \in Octet, NEW data \in Seq(Octet), Len(data) <= 255
    PROVE  IsFrame(WriteData(id, data), id, data, Len(data))
<1> DEFINE frame == WriteData(id, data)
           n == Len(data)
           body == Body(id, data)
           crc == Crc(body)
           high == crc \div 256
           low == crc % 256
           tail == <<high, low, ETX>>
           front == <<STX>> \o body
<1>1. n \in Nat /\ n % 256 = n
  BY LenProperties, SmallLength
<1>2. frame = front \o tail
  BY <1>1, Zenon DEF WriteData, Body
<1>3. /\ body \in Seq(Octet) /\ Len(body) = n + 2 /\ body[1] = id /\ body[2] = n
      /\ \A i \in 1..n : body[i + 2] = data[i]
      /\ crc \in Registers
  BY BodyIs
<1>4. high \in Octet /\ low \in Octet
  BY <1>3, RegisterBytes
<1> HIDE DEF body, crc
<1>5. <<STX>> \in Seq(Octet) /\ Len(<<STX>>) = 1 /\ <<STX>>[1] = STX
  <2>1. STX \in Octet
    BY SMT DEF STX, Octet
  <2>2. QED
    BY <2>1
<1>6. /\ front \in Seq(Octet) /\ Len(front) = 1 + (n + 2)
      /\ \A i \in 1..(1 + (n + 2)) : front[i] = IF i <= 1 THEN <<STX>>[i] ELSE body[i - 1]
  BY <1>3, <1>5, ConcatProperties
<1> HIDE DEF front
<1>7. tail \in Seq(Octet) /\ Len(tail) = 3 /\ tail[1] = high /\ tail[2] = low /\ tail[3] = ETX
  <2>1. ETX \in Octet
    BY SMT DEF ETX, Octet
  <2> HIDE DEF high, low
  <2>2. QED
    BY <1>4, <2>1
<1> HIDE DEF tail, high, low, frame
<1>8. /\ frame \in Seq(Octet) /\ Len(frame) = (1 + (n + 2)) + 3
      /\ \A i \in 1..((1 + (n + 2)) + 3) :
             frame[i] = IF i <= 1 + (n + 2) THEN front[i] ELSE tail[i - (1 + (n + 2))]
  <2>0. front \in Seq(Octet) /\ tail \in Seq(Octet)
    BY <1>6, <1>7
  <2>1. /\ front \o tail \in Seq(Octet) /\ Len(front \o tail) = Len(front) + Len(tail)
        /\ \A i \in 1..(Len(front) + Len(tail)) :
               (front \o tail)[i] = IF i <= Len(front) THEN front[i] ELSE tail[i - Len(front)]
    BY <2>0, ConcatProperties
  <2>2. Len(front) = 1 + (n + 2) /\ Len(tail) = 3
    BY <1>6, <1>7
  <2>3. QED
    BY <1>2, <2>1, <2>2, Zenon
<1>9. frame[1] = STX /\ frame[2] = id /\ frame[3] = n
  <2>1. /\ 1 \in 1..((1 + (n + 2)) + 3) /\ 2 \in 1..((1 + (n + 2)) + 3) /\ 3 \in 1..((1 + (n + 2)) + 3)
        /\ 1 <= 1 + (n + 2) /\ 2 <= 1 + (n + 2) /\ 3 <= 1 + (n + 2)
    BY <1>1
  <2>2. frame[1] = front[1] /\ frame[2] = front[2] /\ frame[3] = front[3]
    BY <1>8, <2>1
  <2>3. front[1] = <<STX>>[1] /\ front[2] = body[1] /\ front[3] = body[2]
    BY <1>1, <1>6
  <2>4. QED
    BY <1>3, <1>5, <2>2, <2>3
<1>10. \A i \in 1..n : frame[i + 3] = data[i]
  <2> SUFFICES ASSUME NEW i \in 1..n PROVE frame[i + 3] = data[i]
    OBVIOUS
  <2>1. /\ i + 3 \in 1..((1 + (n + 2)) + 3) /\ i + 3 <= 1 + (n + 2)
        /\ i + 3 \in 1..(1 + (n + 2)) /\ ~(i + 3 <= 1) /\ (i + 3) - 1 = i + 2
    BY <1>1
  <2>2. frame[i + 3] = front[i + 3]
    BY <1>8, <2>1
  <2>3. front[i + 3] = body[i + 2]
    BY <1>6, <2>1
  <2>4. QED
    BY <1>3, <2>2, <2>3
<1>11. frame[n + 4] = high /\ frame[n + 5] = low /\ frame[n + 6] = ETX
  <2>1. \A k \in 1..3 : /\ n + (k + 3) \in 1..((1 + (n + 2)) + 3) /\ ~(n + (k + 3) <= 1 + (n + 2))
                        /\ (n + (k + 3)) - (1 + (n + 2)) = k
    BY <1>1
  <2>2. \A k \in 1..3 : frame[n + (k + 3)] = tail[k]
    BY <1>8, <2>1
  <2>3. /\ n + (1 + 3) = n + 4 /\ n + (2 + 3) = n + 5 /\ n + (3 + 3) = n + 6
        /\ 1 \in 1..3 /\ 2 \in 1..3 /\ 3 \in 1..3
    BY <1>1
  <2>4. frame[n + 4] = tail[1] /\ frame[n + 5] = tail[2] /\ frame[n + 6] = tail[3]
    BY <2>2, <2>3
  <2>5. QED
    BY <1>7, <2>4
<1>12. Len(frame) = n + 6
  BY <1>1, <1>8
<1>13. QED
  BY <1>8, <1>9, <1>10, <1>11, <1>12, Zenon DEF IsFrame, frame, high, low, crc, body

IsFlat(g, pieces, m) ==
    g = [i \in 1..m |-> IF i = 1 THEN pieces[i] ELSE g[i - 1] \o pieces[i]]

\* The pieces of a sequence one behind the other.
LEMMA FlatExists ==
    ASSUME NEW S, NEW pieces \in Seq(Seq(S))
    PROVE  \E g \in [1..Len(pieces) -> Seq(S)] : IsFlat(g, pieces, Len(pieces))
<1> DEFINE n == Len(pieces)
           f == [i \in 1..n |-> [s \in Seq(S) |-> s \o pieces[i]]]
<1>1. n \in Nat /\ \A i \in 1..n : pieces[i] \in Seq(S)
  BY ElementOfSeq, LenProperties
<1>2. f \in [1..n -> [Seq(S) -> Seq(S)]]
  <2>1. \A i \in 1..n : [s \in Seq(S) |-> s \o pieces[i]] \in [Seq(S) -> Seq(S)]
    BY <1>1, ConcatProperties
  <2>2. QED
    BY <2>1
<1>3. \A i \in 1..n, s \in Seq(S) : f[i][s] = s \o pieces[i]
  OBVIOUS
<1> HIDE DEF f
<1>4. <<>> \in Seq(S)
  BY EmptySeq
<1>5. PICK h \in [0..n -> Seq(S)] : IsRun(h, n, <<>>, f)
  BY <1>1, <1>2, <1>4, RunExists
<1>6. /\ \A i \in 0..n : h[i] = IF i = 0 THEN <<>> ELSE f[i][h[i - 1]]
      /\ \A i \in 0..n : h[i] \in Seq(S)
  BY <1>5 DEF IsRun
<1> DEFINE g == [i \in 1..n |-> h[i]]
<1>7. /\ g \in [1..n -> Seq(S)]
      /\ \A i \in 1..n : g[i] = h[i]
      /\ \A i \in 1..n : i # 1 => i - 1 \in 1..n
  <2>1. \A i \in 1..n : h[i] \in Seq(S)
    BY <1>1, <1>6
  <2>2. QED
    BY <1>1, <2>1
<1> HIDE DEF g
<1>8. \A i \in 1..n : g[i] = IF i = 1 THEN pieces[i] ELSE g[i - 1] \o pieces[i]
  <2> SUFFICES ASSUME NEW i \in 1..n
               PROVE  g[i] = IF i = 1 THEN pieces[i] ELSE g[i - 1] \o pieces[i]
    OBVIOUS
  <2>1. i \in 0..n /\ i # 0 /\ i - 1 \in 0..n /\ h[i - 1] \in Seq(S)
    BY <1>1, <1>6
  <2>2. h[i] = h[i - 1] \o pieces[i]
    BY <1>3, <1>6, <2>1
  <2>3. CASE i = 1
    <3>1. i - 1 = 0 /\ 0 \in 0..n
      BY <1>1, <2>3
    <3>2. h[i - 1] = <<>>
      BY <1>6, <3>1
    <3>3. <<>> \o pieces[i] = pieces[i]
      BY <1>1, ConcatEmptySeq
    <3>4. QED
      BY <1>7, <2>2, <2>3, <3>2, <3>3
  <2>4. CASE i # 1
    BY <1>7, <2>2, <2>4
  <2>5. QED
    BY <2>3, <2>4
<1>9. IsFlat(g, pieces, n)
  BY <1>7, <1>8 DEF IsFlat
<1>10. QED
  BY <1>7, <1>9

\* FlattenSeq of sequences is a sequence.
LEMMA FlattenType ==
    ASSUME NEW S, NEW pieces \in Seq(Seq(S))
    PROVE  FlattenSeq(pieces) \in Seq(S)
<1> DEFINE n == Len(pieces)
           U == CHOOSE g : IsFlat(g, pieces, n)
<1>1. n \in Nat
  BY LenProperties
<1>2. PICK g \in [1..n -> Seq(S)] : IsFlat(g, pieces, n)
  BY FlatExists
<1>3. IsFlat(U, pieces, n)
  BY <1>2
<1>4. CASE n = 0
  <2>1. pieces = <<>>
    BY <1>4, EmptySeq
  <2>2. QED
    BY <1>4, <2>1, EmptySeq DEF FlattenSeq
<1>5. CASE n # 0
  <2>1. FlattenSeq(pieces) = U[n]
    BY <1>5 DEF FlattenSeq, IsFlat
  <2> HIDE DEF U
  <2> DEFINE first == [s \in Seq(S) |-> pieces[1]]
             f == [i \in 1..n |-> [s \in Seq(S) |-> IF i = 1 THEN pieces[i] ELSE s \o pieces[i]]]
             v == [i \in 0..n |-> IF i = 0 THEN <<>> ELSE U[i]]
  <2>2. \A i \in 1..n : pieces[i] \in Seq(S)
    BY ElementOfSeq, LenProperties
  <2>3. \A i \in 1..n : U[i] = IF i = 1 THEN pieces[i] ELSE U[i - 1] \o pieces[i]
    BY <1>3 DEF IsFlat
  <2>4. f \in [1..n -> [Seq(S) -> Seq(S)]]
    <3>1. \A i \in 1..n : [s \in Seq(S) |-> IF i = 1 THEN pieces[i] ELSE s \o pieces[i]]
                              \in [Seq(S) -> Seq(S)]
      BY <2>2, ConcatProperties
    <3>2. QED
      BY <3>1
  <2>5. \A i \in 1..n, s \in Seq(S) : f[i][s] = IF i = 1 THEN pieces[i] ELSE s \o pieces[i]
    OBVIOUS
  <2>6. v[0] = <<>> /\ \A i \in 1..n : v[i] = U[i] /\ (i # 1 => v[i - 1] = U[i - 1])
    BY <1>1
  <2> HIDE DEF f, v
  <2>7. \A i \in 1..n : v[i - 1] \in Seq(S) => v[i] = f[i][v[i - 1]]
    <3> SUFFICES ASSUME NEW i \in 1..n, v[i - 1] \in Seq(S) PROVE v[i] = f[i][v[i - 1]]
      OBVIOUS
    <3>1. v[i] = IF i = 1 THEN pieces[i] ELSE U[i - 1] \o pieces[i]
      BY <2>3, <2>6
    <3>2. QED
      BY <2>5, <2>6, <3>1
  <2>8. <<>> \in Seq(S)
    BY EmptySeq
  <2>9. \A i \in 0..n : v[i] \in Seq(S)
    BY <1>1, <2>4, <2>6, <2>7, <2>8, RunStays
  <2>10. v[n] \in Seq(S) /\ v[n] = U[n]
    BY <1>1, <1>5, <2>6, <2>9
  <2>11. QED
    BY <2>1, <2>10
<1>6. QED
  BY <1>4, <1>5

LEMMA WriteDataBasicType ==
    ASSUME NEW id \in Octet, NEW data \in Seq(Octet)
    PROVE  WriteDataBasic(id, data) \in Seq(Octet)
<1> DEFINE piece(i) == IF data[i] <= 31 THEN <<DLE, data[i]>> ELSE <<data[i]>>
           escaped == [i \in DOMAIN data |-> piece(i)]
           flat == FlattenSeq(escaped)
<1>1. Len(data) \in Nat /\ DOMAIN data = 1..Len(data) /\ \A i \in 1..Len(data) : data[i] \in Octet
  BY ElementOfSeq, LenProperties
<1>2. STX \in Octet /\ ETX \in Octet /\ DLE \in Octet
  BY SMT DEF STX, ETX, DLE, Octet
<1>3. \A i \in 1..Len(data) : piece(i) \in Seq(Octet)
  <2> SUFFICES ASSUME NEW i \in 1..Len(data) PROVE piece(i) \in Seq(Octet)
    OBVIOUS
  <2> DEFINE one == <<data[i]>>
             two == <<DLE, data[i]>>
  <2>1. piece(i) = one \/ piece(i) = two
    OBVIOUS
  <2>2. one \in Seq(Octet) /\ two \in Seq(Octet)
    BY <1>1, <1>2
  <2> HIDE DEF one, two, piece
  <2>3. QED
    BY <2>1, <2>2
<1> HIDE DEF piece
<1>4. escaped \in Seq(Seq(Octet))
  BY <1>1, <1>3, IsASeq
<1>5. WriteDataBasic(id, data) = (<<STX, id>> \o flat) \o <<ETX>>
  BY DEF WriteDataBasic, piece
<1>6. flat \in Seq(Octet)
  BY <1>4, FlattenType
<1>7. <<STX, id>> \in Seq(Octet) /\ <<ETX>> \in Seq(Octet)
  BY <1>2
<1> HIDE DEF flat, escaped
<1>8. <<STX, id>> \o flat \in Seq(Octet)
  BY <1>6, <1>7, ConcatProperties
<1>9. QED
  BY <1>5, <1>7, <1>8, ConcatProperties

Items == {item \in Commands : /\ Len(item.data) <= 255
                              /\ item.control => item.id \in {ACK, NAK} /\ item.data = <<>>}

\* What a station sends is a sequence of bytes.
LEMMA EncodedType ==
    ASSUME NEW item \in Items
    PROVE  Encoded(item) \in Seq(Octet)
<1>1. item.id \in Octet /\ item.data \in Seq(Octet) /\ item.control \in BOOLEAN /\ Len(item.data) <= 255
  BY DEF Items, Commands
<1>2. CASE item.control
  <2>1. Encoded(item) = <<item.id>>
    BY <1>2, Zenon DEF Encoded
  <2>2. QED
    BY <1>1, <2>1
<1>3. CASE ~item.control /\ IsBasic(item.id)
  <2>1. Encoded(item) = WriteDataBasic(item.id, item.data)
    BY <1>3, Zenon DEF Encoded
  <2>2. QED
    BY <1>1, <2>1, WriteDataBasicType
<1>4. CASE ~item.control /\ ~IsBasic(item.id)
  <2>1. Encoded(item) = WriteData(item.id, item.data)
    BY <1>4, Zenon DEF Encoded
  <2>2. IsFrame(WriteData(item.id, item.data), item.id, item.data, Len(item.data))
    BY <1>1, WriteDataIs, Zenon
  <2>3. WriteData(item.id, item.data) \in Seq(Octet)
    BY <2>2, Zenon DEF IsFrame
  <2>4. QED
    BY <2>1, <2>3
<1>5. QED
  BY <1>1, <1>2, <1>3, <1>4

-----------------------------------------------------------------------------
(***************************************************************************)
(* Types.                                                                  *)
(***************************************************************************)
LEMMA ItemsAre == \A p \in DOMAIN Item : Item[p] \subseteq Items
<1> SUFFICES ASSUME NEW p \in DOMAIN Item, NEW item \in Item[p]
             PROVE  item \in Items
  OBVIOUS
<1>1. /\ item \in [id : 0..255, data : Seq(0..255), control : BOOLEAN]
      /\ Len(item.data) <= 255
      /\ item.control => item.id \in {ACK, NAK} /\ item.data = <<>>
  BY ItemAssumption, Zenon
<1>2. QED
  BY <1>1, Zenon DEF Items, Commands, Octet

LEMMA CutType ==
    ASSUME NEW S, NEW s \in Seq(S), NEW first \in Int, NEW last \in Int, 1 <= first, last <= Len(s)
    PROVE  SubSeq(s, first, last) \in Seq(S)
<1>1. \A i \in first..last : s[i] \in S
  BY ElementOfSeq, LenProperties
<1>2. QED
  BY <1>1, SubSeqProperties

\* The type invariant of the run, with what Init and the actions keep of protocol.
TypeInv ==
    /\ protocol \in DOMAIN Item
    /\ input \in Seq(Octet) /\ line \in Seq(Octet)
    /\ sent \in Seq(Item[protocol]) /\ Len(sent) \in Nat /\ Len(sent) <= MaxSent
    /\ changed \subseteq 1..Len(sent)
    /\ delivered \in Seq(Commands)
    /\ running \in BOOLEAN /\ beyond \in Octet

LEMMA TypeMeans == TypeInv <=> protocol \in DOMAIN Item /\ TypeOK
<1>1. sent \in Seq(Item[protocol]) => DOMAIN sent = 1..Len(sent) /\ Len(sent) \in Nat
  BY LenProperties
<1>2. QED
  BY <1>1, Zenon DEF TypeInv, TypeOK, Octet, Commands

LEMMA TypeInit == Init => TypeInv
<1> SUFFICES ASSUME Init PROVE protocol \in DOMAIN Item /\ TypeOK
  BY TypeMeans
<1>1. /\ protocol \in DOMAIN Item
      /\ input = <<>> /\ line = <<>> /\ sent = <<>> /\ changed = {} /\ delivered = <<>> /\ running = TRUE
      /\ beyond \in 0..255
  BY BeyondAssumption DEF Init
<1>2. <<>> \in Seq(0..255) /\ <<>> \in Seq(Item[protocol])
      /\ <<>> \in Seq([id : 0..255, data : Seq(0..255), control : BOOLEAN])
  BY EmptySeq
<1>3. Len(<<>>) <= MaxSent
  BY BoundsAssumption
<1>4. QED
  BY <1>1, <1>2, <1>3, Zenon DEF TypeOK

\* One more item, and what it puts on the line.
LEMMA SentType ==
    ASSUME TypeInv, NEW item \in Item[protocol], Len(sent) < MaxSent
    PROVE  /\ Append(sent, item) \in Seq(Item[protocol])
           /\ Len(Append(sent, item)) = Len(sent) + 1 /\ Len(sent) + 1 <= MaxSent
           /\ Encoded(item) \in Seq(Octet)
<1>1. sent \in Seq(Item[protocol]) /\ Len(sent) \in Nat /\ MaxSent \in Nat
  BY BoundsAssumption DEF TypeInv
<1>2. Append(sent, item) \in Seq(Item[protocol]) /\ Len(Append(sent, item)) = Len(sent) + 1
  BY <1>1, AppendProperties
<1>3. item \in Items
  BY ItemsAre DEF TypeInv
<1>4. QED
  BY <1>1, <1>2, <1>3, EncodedType

LEMMA SendType ==
    ASSUME TypeInv, NEW item \in Item[protocol], Send(item)
    PROVE  TypeInv'
<1>1. /\ running = TRUE /\ Len(sent) < MaxSent /\ sent' = Append(sent, item)
      /\ \/ line' = line \o Encoded(item)
         \/ \E b \in Stray[protocol] : line' = line \o <<b>> \o Encoded(item)
      /\ protocol' = protocol /\ input' = input /\ changed' = changed
      /\ delivered' = delivered /\ running' = running /\ beyond' = beyond
  BY DEF Send, MaySend, TypeInv
<1>2. /\ Append(sent, item) \in Seq(Item[protocol])
      /\ Len(Append(sent, item)) = Len(sent) + 1 /\ Len(sent) + 1 <= MaxSent
      /\ Encoded(item) \in Seq(Octet)
  BY <1>1, SentType
<1>3. line' \in Seq(Octet)
  <2>1. line \in Seq(Octet)
    BY DEF TypeInv
  <2>2. CASE line' = line \o Encoded(item)
    BY <1>2, <2>1, <2>2, ConcatProperties
  <2>3. ASSUME NEW b \in Stray[protocol], line' = line \o <<b>> \o Encoded(item)
        PROVE  line' \in Seq(Octet)
    <3>1. b \in Octet
      BY ModeAssumption DEF Octet, TypeInv
    <3>2. <<b>> \in Seq(Octet)
      BY <3>1
    <3>3. line \o <<b>> \in Seq(Octet)
      BY <2>1, <3>2, ConcatProperties
    <3>4. QED
      BY <1>2, <2>3, <3>3, ConcatProperties
  <2>4. QED
    BY <1>1, <2>2, <2>3
<1>4. changed \subseteq 1..(Len(sent) + 1)
  BY DEF TypeInv
<1>5. Len(sent) + 1 \in Nat
  BY DEF TypeInv
<1>6. /\ protocol' \in DOMAIN Item /\ input' \in Seq(Octet)
      /\ delivered' \in Seq(Commands) /\ running' \in BOOLEAN /\ beyond' \in Octet
      /\ sent' \in Seq(Item[protocol']) /\ Len(sent') = Len(sent) + 1
  BY <1>1, <1>2, Zenon DEF TypeInv
<1>7. QED
  BY <1>1, <1>2, <1>3, <1>4, <1>5, <1>6, Zenon DEF TypeInv

LEMMA SendChangedType ==
    ASSUME TypeInv, NEW item \in Item[protocol], NEW i \in Int, NEW b \in Damage, SendChanged(item, i, b)
    PROVE  TypeInv'
<1> DEFINE frame == Encoded(item)
           sentNow == Append(sent, item)
           damaged == [frame EXCEPT ![i] = b]
<1>1. /\ Len(sent) < MaxSent
      /\ i \in 3..(Len(frame) - 1)
      /\ sent' = sentNow
      /\ changed' = changed \cup {Len(sent')}
      /\ line' = line \o damaged
      /\ protocol' = protocol /\ input' = input
      /\ delivered' = delivered /\ running' = running /\ beyond' = beyond
  BY Zenon DEF SendChanged, MaySend
<1>2. /\ sentNow \in Seq(Item[protocol])
      /\ Len(sentNow) = Len(sent) + 1 /\ Len(sent) + 1 <= MaxSent
      /\ frame \in Seq(Octet)
  BY <1>1, SentType
<1>3. damaged \in Seq(Octet)
  <2>1. b \in Octet
    BY ModeAssumption DEF Octet
  <2>2. Len(frame) \in Nat
    BY <1>2, LenProperties
  <2> HIDE DEF frame
  <2>3. i \in 1..Len(frame)
    BY <1>1, <2>2
  <2>4. QED
    BY <1>2, <2>1, <2>3, ExceptSeq
<1> HIDE DEF damaged, sentNow, frame
<1>4. line' \in Seq(Octet)
  <2>1. line \in Seq(Octet)
    BY DEF TypeInv
  <2>2. QED
    BY <1>1, <1>3, <2>1, ConcatProperties
<1>5. Len(sent) + 1 \in Nat /\ Len(sent') = Len(sent) + 1
  BY <1>1, <1>2 DEF TypeInv
<1>6. changed' \subseteq 1..Len(sent')
  <2>1. changed \subseteq 1..(Len(sent) + 1) /\ Len(sent) + 1 \in 1..(Len(sent) + 1)
    BY DEF TypeInv
  <2>2. QED
    BY <1>1, <1>5, <2>1
<1>7. /\ protocol' \in DOMAIN Item /\ input' \in Seq(Octet)
      /\ delivered' \in Seq(Commands) /\ running' \in BOOLEAN /\ beyond' \in Octet
      /\ sent' \in Seq(Item[protocol']) /\ Len(sent') \in Nat /\ Len(sent') <= MaxSent
  BY <1>1, <1>2, <1>5, Zenon DEF TypeInv
<1>8. QED
  BY <1>4, <1>6, <1>7, Zenon DEF TypeInv

LEMMA ReadType ==
    ASSUME TypeInv, NEW n \in Nat, n <= Len(line), Read(n)
    PROVE  TypeInv'
<1> beyond \in Octet
  BY DEF TypeInv
<1> DEFINE buf == input \o SubSeq(line, 1, n)
           r == CheckInput(buf)
<1>1. /\ line' = SubSeq(line, n + 1, Len(line))
      /\ input' = IF r.how = "returns" THEN Rest(buf, r.size) ELSE buf
      /\ delivered' = delivered \o r.out
      /\ running' \in BOOLEAN /\ beyond' \in Octet
      /\ protocol' = protocol /\ sent' = sent /\ changed' = changed
  <2>1. /\ line' = SubSeq(line, n + 1, Len(line))
        /\ input' = IF r.how = "returns" THEN Rest(buf, r.size) ELSE buf
        /\ delivered' = delivered \o r.out
        /\ running' \in CASE r.how = "overrun" -> BOOLEAN
                          [] r.how = "loops" -> {FALSE}
                          [] OTHER -> {TRUE}
        /\ beyond' \in Beyond
        /\ protocol' = protocol /\ sent' = sent /\ changed' = changed
    BY Zenon DEF Read
  <2> HIDE DEF r, buf
  <2>2. r.how = "overrun" => running' \in BOOLEAN
    BY <2>1
  <2>3. r.how = "loops" => running' \in BOOLEAN
    BY <2>1
  <2>4. r.how # "overrun" /\ r.how # "loops" => running' \in BOOLEAN
    BY <2>1
  <2>5. beyond' \in Octet
    BY <2>1, BeyondAssumption DEF Octet
  <2>6. running' \in BOOLEAN
    BY <2>2, <2>3, <2>4
  <2>7. QED
    BY <2>1, <2>5, <2>6
<1>2. line \in Seq(Octet) /\ input \in Seq(Octet) /\ delivered \in Seq(Commands) /\ Len(line) \in Nat
  BY LenProperties DEF TypeInv
<1>3. line' \in Seq(Octet)
  <2>1. n + 1 \in Int /\ 1 <= n + 1
    OBVIOUS
  <2>2. QED
    BY <1>1, <1>2, <2>1, CutType
<1>4. buf \in Seq(Octet) /\ Len(buf) \in Nat
  <2>1. SubSeq(line, 1, n) \in Seq(Octet)
    BY <1>2, CutType
  <2>2. QED
    BY <1>2, <2>1, ConcatProperties, LenProperties
<1> HIDE DEF buf
<1>5. r \in CheckInputStates(buf)
  BY <1>4, CheckInputIs
<1> HIDE DEF r
<1>6. r.size \in Int /\ 0 <= r.size /\ r.size <= Len(buf) /\ r.out \in Seq(Commands)
  BY <1>5 DEF CheckInputStates
<1>7. input' \in Seq(Octet)
  <2>1. Rest(buf, r.size) \in Seq(Octet)
    <3>1. Len(buf) - r.size + 1 \in Int /\ 1 <= Len(buf) - r.size + 1
      BY <1>4, <1>6
    <3>2. QED
      BY <1>4, <3>1, CutType DEF Rest
  <2>2. QED
    BY <1>1, <1>4, <2>1
<1>8. delivered' \in Seq(Commands)
  BY <1>1, <1>2, <1>6, ConcatProperties
<1>9. QED
  BY <1>1, <1>3, <1>7, <1>8, Zenon DEF TypeInv

LEMMA TypeStep == TypeInv /\ [Next]_vars => TypeInv'
<1> SUFFICES ASSUME TypeInv, [Next]_vars PROVE TypeInv'
  OBVIOUS
<1>1. ASSUME NEW item \in Item[protocol], Send(item) PROVE TypeInv'
  BY <1>1, SendType
<1>2. ASSUME NEW item \in Item[protocol], NEW i \in 1..Chunk, NEW b \in Damage, SendChanged(item, i, b)
      PROVE  TypeInv'
  BY <1>2, SendChangedType
<1>3. ASSUME NEW n \in 1..Chunk, n <= Len(line), Read(n) PROVE TypeInv'
  <2>1. n \in Nat
    BY BoundsAssumption
  <2>2. QED
    BY <1>3, <2>1, ReadType
<1>4. CASE UNCHANGED vars
  BY <1>4, Zenon DEF TypeInv, vars
<1>5. QED
  BY <1>1, <1>2, <1>3, <1>4, Zenon DEF Next

\* Every variable has its type in every reachable state: the buffer and the line are bytes, the
\* items and the commands are what Item and the parsers can give (process_input, check_input).
THEOREM TypeCorrect == Spec => []TypeOK
<1>1. Init => TypeInv
  BY TypeInit
<1>2. TypeInv => TypeOK
  BY TypeMeans
<1>3. QED
  BY <1>1, <1>2, TypeStep, PTL DEF Spec

-----------------------------------------------------------------------------
(***************************************************************************)
(* The extended protocol's parser on a buffer with at most one frame.      *)
(***************************************************************************)
\* The states of detect_command when all in front of p has been passed over.
At(s, buf, p) ==
    /\ s \in DetectStates(1, Len(buf) + 1)
    /\ s.how = "going" /\ s.it = p /\ s.end = Len(buf) + 1 /\ s.keep = 1 /\ s.control = TRUE /\ s.out = <<>>

DetectAll(buf) == Detect(buf, 1, Len(buf) + 1, <<>>)

\* The rounds of its loop, up to the one that ends it.
IsDetect(u, buf) ==
    /\ At(u[0], buf, 1)
    /\ \A k \in 0..(Len(buf) + 1) : u[k] \in DetectStates(1, Len(buf) + 1)
    /\ \A k \in 1..(Len(buf) + 1) : GoesOn(u[k - 1]) => u[k] = DetectStep(buf, u[k - 1])
    /\ \A k \in 0..(Len(buf) + 1) : ~GoesOn(u[k]) => DetectAll(buf) = u[k]

LEMMA DetectRuns ==
    ASSUME beyond \in Octet, NEW buf \in Seq(Octet)
    PROVE  \E u : IsDetect(u, buf)
<1> DEFINE end == Len(buf) + 1
           S == DetectStates(1, end)
           begin == [how |-> "going", it |-> 1, end |-> end, keep |-> 1, control |-> TRUE, out |-> <<>>]
           step == [s \in S |-> DetectStep(buf, s)]
           result == Detect(buf, 1, end, <<>>)
<1>1. Len(buf) \in Nat /\ end \in Int /\ 1 <= end /\ end - 1 + 1 = end /\ end \in Nat
  BY LenProperties
<1>2. <<>> \in Seq(Commands)
  BY EmptySeq
<1>3. \E u : IsLoop(u, end - 1 + 1, S, begin, step, result)
  <2>1. 1 \in Int
    OBVIOUS
  <2>2. QED
    BY <1>1, <1>2, <2>1, DetectIs, Zenon
<1> HIDE DEF end
<1>4. PICK u : IsLoop(u, end, S, begin, step, result)
  BY <1>1, <1>3
<1>5. \A s \in S : step[s] = DetectStep(buf, s)
  OBVIOUS
<1> HIDE DEF S, step, result, begin
<1>6. /\ u[0] = begin
      /\ \A k \in 0..end : u[k] \in S
      /\ \A k \in 1..end : u[k] = IF GoesOn(u[k - 1]) THEN step[u[k - 1]] ELSE u[k - 1]
  BY <1>4 DEF IsLoop
<1>7. \A k \in 1..end : GoesOn(u[k - 1]) => u[k] = DetectStep(buf, u[k - 1])
  <2> SUFFICES ASSUME NEW k \in 1..end, GoesOn(u[k - 1])
               PROVE  u[k] = DetectStep(buf, u[k - 1])
    OBVIOUS
  <2>1. k - 1 \in 0..end
    BY <1>1
  <2>2. QED
    BY <1>5, <1>6, <2>1
<1>8. \A k \in 0..end : ~GoesOn(u[k]) => result = u[k]
  BY <1>1, <1>4, LoopEnded
<1>9. /\ begin.how = "going" /\ begin.it = 1 /\ begin.end = end /\ begin.keep = 1 /\ begin.control = TRUE
      /\ begin.out = <<>>
  BY DEF begin
<1>10. u[0] \in S
  BY <1>1, <1>6
<1>11. At(u[0], buf, 1)
  BY <1>6, <1>9, <1>10, Zenon DEF At, S, end
<1>12. IsDetect(u, buf)
  BY <1>6, <1>7, <1>8, <1>11, Zenon DEF IsDetect, DetectAll, end, result, S
<1>13. QED
  BY <1>12

\* A frame of the extended protocol, or the beginning of one, at p, with a byte in front
\* of it that is neither an STX nor a control.
FrameAt(buf, p) ==
    /\ p \in {1, 2}
    /\ p = 2 /\ 1 <= Len(buf) => buf[1] \notin {STX, ACK, NAK}
    /\ p <= Len(buf) => buf[p] = STX
    /\ p + 1 <= Len(buf) => ~IsBasic(buf[p + 1])

LEMMA ByteIs ==
    ASSUME NEW buf \in Seq(Octet), NEW i \in 1..Len(buf)
    PROVE  Byte(buf, i) = buf[i]
<1>1. DOMAIN buf = 1..Len(buf)
  BY LenProperties
<1>2. QED
  BY <1>1 DEF Byte

LEMMA NoControl == STX \notin {ACK, NAK}
BY DEF STX, ACK, NAK

\* The loop comes to the STX.
LEMMA DetectReaches ==
    ASSUME NEW buf \in Seq(Octet), Len(buf) >= 1, NEW p, FrameAt(buf, p), NEW u, IsDetect(u, buf)
    PROVE  At(u[p - 1], buf, p)
<1>1. Len(buf) \in Nat
  BY LenProperties
<1>2. CASE p = 1
  <2>1. p - 1 = 0
    BY <1>2
  <2>2. QED
    BY <1>2, <2>1, Zenon DEF IsDetect
<1>3. CASE p = 2
  <2>1. buf[1] \notin {STX, ACK, NAK}
    BY <1>3 DEF FrameAt
  <2>2. Byte(buf, 1) = buf[1]
    BY <1>1, ByteIs
  <2> DEFINE a == u[0]
             b == [a EXCEPT !.it = a.it + 1]
  <2>3. At(a, buf, 1)
    BY DEF IsDetect
  <2> HIDE DEF a
  <2>4. GoesOn(a) /\ a.it = 1 /\ a.end = Len(buf) + 1 /\ a.control = TRUE
    BY <2>3 DEF At, GoesOn
  <2>5. u[1] = DetectStep(buf, a) /\ u[1] \in DetectStates(1, Len(buf) + 1)
    <3>1. 1 \in 1..(Len(buf) + 1) /\ 1 \in 0..(Len(buf) + 1) /\ 1 - 1 = 0
      BY <1>1
    <3>2. /\ GoesOn(u[1 - 1]) => u[1] = DetectStep(buf, u[1 - 1])
          /\ u[1] \in DetectStates(1, Len(buf) + 1)
      BY <3>1, Zenon DEF IsDetect
    <3>3. QED
      BY <2>4, <3>1, <3>2 DEF a
  <2>6. ~(a.it >= a.end) /\ a.it < a.end
    BY <1>1, <2>4
  <2>7. DetectStep(buf, a) = b
    <3>1. Byte(buf, a.it) \notin {STX, ACK, NAK}
      BY <2>1, <2>2, <2>4
    <3>2. ~IsControl(a.control, Byte(buf, a.it)) /\ Byte(buf, a.it) # STX
      BY <3>1 DEF IsControl
    <3>3. QED
      BY <2>6, <3>2, Zenon DEF DetectStep
  <2>8. /\ b.how = "going" /\ b.it = 2 /\ b.end = Len(buf) + 1 /\ b.keep = 1 /\ b.control = TRUE
        /\ b.out = <<>>
    BY <2>3 DEF At, DetectStates
  <2> HIDE DEF b
  <2>9. p - 1 = 1 /\ u[p - 1] = b
    BY <1>3, <2>5, <2>7
  <2>10. QED
    BY <1>3, <2>5, <2>7, <2>8, <2>9 DEF At
<1>4. QED
  BY <1>2, <1>3 DEF FrameAt

\* And takes a step there.
LEMMA DetectSteps ==
    ASSUME NEW buf \in Seq(Octet), Len(buf) >= 1, NEW p, FrameAt(buf, p), NEW u, IsDetect(u, buf)
    PROVE  /\ p \in 1..(Len(buf) + 1) /\ At(u[p - 1], buf, p) /\ u[p] = DetectStep(buf, u[p - 1])
           /\ u[p] \in DetectStates(1, Len(buf) + 1)
           /\ ~GoesOn(u[p]) => DetectAll(buf) = u[p]
<1>1. Len(buf) \in Nat
  BY LenProperties
<1>2. p \in 1..(Len(buf) + 1) /\ p \in 0..(Len(buf) + 1)
  BY <1>1 DEF FrameAt
<1>3. At(u[p - 1], buf, p) /\ GoesOn(u[p - 1])
  <2>1. At(u[p - 1], buf, p)
    BY DetectReaches
  <2>2. QED
    BY <2>1, Zenon DEF At, GoesOn
<1>4. QED
  BY <1>2, <1>3, Zenon DEF IsDetect

\* What the parser does as long as the frame is not complete: it takes nothing.
LEMMA DetectIncomplete ==
    ASSUME beyond \in Octet, NEW buf \in Seq(Octet), Len(buf) >= 1, NEW p, FrameAt(buf, p),
           p + 2 <= Len(buf) => p + 5 + buf[p + 2] > Len(buf)
    PROVE  LET r == DetectAll(buf)
           IN r.how \in {"returns", "overrun"} /\ r.keep = 1 /\ r.end = Len(buf) + 1 /\ r.out = <<>>
<1>1. Len(buf) \in Nat /\ p \in Int
  BY LenProperties DEF FrameAt
<1>2. PICK u : IsDetect(u, buf)
  BY DetectRuns
<1> DEFINE a == u[p - 1]
           t == DetectStep(buf, a)
<1>4. At(a, buf, p) /\ u[p] = t /\ (~GoesOn(u[p]) => DetectAll(buf) = u[p])
  BY <1>2, DetectSteps
<1> HIDE DEF a
<1>5. /\ a.it = p /\ a.end = Len(buf) + 1 /\ a.control = TRUE
      /\ \A how : LET b == [a EXCEPT !.how = how]
                  IN b.how = how /\ b.keep = 1 /\ b.end = Len(buf) + 1 /\ b.out = <<>>
  BY <1>4 DEF At, DetectStates
<1>6. t = [a EXCEPT !.how = "returns"] \/ t = [a EXCEPT !.how = "overrun"]
  <2>1. CASE p = Len(buf) + 1
    <3>1. a.it >= a.end /\ ~(a.it < a.end)
      BY <1>1, <1>5, <2>1
    <3>2. QED
      BY <3>1, Zenon DEF DetectStep
  <2>2. CASE p <= Len(buf)
    <3>1. a.it < a.end /\ ~(a.it >= a.end) /\ p \in 1..Len(buf)
      BY <1>1, <1>5, <2>2 DEF FrameAt
    <3>2. Byte(buf, a.it) = STX
      BY <1>5, <2>2, <3>1, ByteIs DEF FrameAt
    <3>3. ~IsControl(a.control, Byte(buf, a.it))
      BY <3>2, NoControl DEF IsControl
    <3>4. t = IF a.it + 1 < a.end THEN FrameStep(buf, a) ELSE [a EXCEPT !.how = "overrun"]
      BY <3>1, <3>2, <3>3, Zenon DEF DetectStep
    <3>5. CASE ~(a.it + 1 < a.end)
      BY <3>4, <3>5
    <3>6. CASE a.it + 1 < a.end
      <4>1. p + 1 <= Len(buf) /\ p + 1 \in 1..Len(buf)
        BY <1>1, <1>5, <3>1, <3>6
      <4>2. ~IsBasic(Byte(buf, a.it + 1))
        BY <1>5, <4>1, ByteIs DEF FrameAt
      <4>3. ~Complete(buf, a.it, a.end)
        <5>1. CASE p + 1 = Len(buf)
          BY <1>1, <1>5, <5>1 DEF Complete
        <5>2. CASE p + 2 <= Len(buf)
          <6>1. p + 2 \in 1..Len(buf)
            BY <1>1, <3>1, <5>2
          <6>2. Byte(buf, p + 2) = buf[p + 2] /\ p + 5 + buf[p + 2] > Len(buf)
            BY <5>2, <6>1, ByteIs
          <6>3. buf[p + 2] \in Int
            <7>1. buf[p + 2] \in Octet
              BY <6>1, ElementOfSeq
            <7>2. QED
              BY <7>1, OctetIs
          <6>4. ~(p + 3 + buf[p + 2] + 3 <= Len(buf) + 1)
            BY <1>1, <6>2, <6>3
          <6>5. QED
            BY <1>5, <6>2, <6>4 DEF Complete, Checksum
        <5>3. QED
          BY <1>1, <4>1, <5>1, <5>2
      <4>4. FrameStep(buf, a) = [a EXCEPT !.how = "returns"]
        BY <4>2, <4>3, Zenon DEF FrameStep
      <4>5. QED
        BY <3>4, <3>6, <4>4
    <3>7. QED
      BY <3>5, <3>6
  <2>3. p <= Len(buf) + 1
    BY <1>1 DEF FrameAt
  <2>4. QED
    BY <1>1, <2>1, <2>2, <2>3
<1> HIDE DEF t
<1>7. /\ t.how \in {"returns", "overrun"} /\ t.keep = 1 /\ t.end = Len(buf) + 1 /\ t.out = <<>>
  BY <1>5, <1>6
<1>8. ~GoesOn(t)
  BY <1>7 DEF GoesOn
<1>9. QED
  BY <1>4, <1>7, <1>8

\* An item of the extended protocol that is no control.
Frame == {item \in Items : ~item.control /\ ~IsBasic(item.id)}

\* All of its bytes are in the buffer from p on, and nothing behind them.
WholeAt(buf, p, item) ==
    /\ Len(buf) = p + 5 + Len(item.data)
    /\ \A i \in 1..(Len(item.data) + 6) : buf[p - 1 + i] = Encoded(item)[i]

LEMMA FrameIs ==
    ASSUME NEW item \in Frame
    PROVE  /\ item.id \in Octet /\ item.data \in Seq(Octet) /\ Len(item.data) \in Nat
           /\ Len(item.data) <= 255 /\ item \in Commands
           /\ item.control = FALSE /\ ~IsBasic(item.id)
           /\ IsFrame(Encoded(item), item.id, item.data, Len(item.data))
<1>1. /\ item \in Commands /\ item.id \in Octet /\ item.data \in Seq(Octet) /\ Len(item.data) <= 255
      /\ item.control = FALSE /\ ~IsBasic(item.id)
  BY DEF Frame, Items, Commands
<1>2. Encoded(item) = WriteData(item.id, item.data)
  BY <1>1, Zenon DEF Encoded
<1>3. Len(item.data) \in Nat
  BY <1>1, LenProperties
<1>4. IsFrame(WriteData(item.id, item.data), item.id, item.data, Len(item.data))
  BY <1>1, WriteDataIs, Zenon
<1>5. QED
  BY <1>1, <1>2, <1>3, <1>4, Zenon

LEMMA BytesAre ==
    ASSUME NEW buf \in Seq(Octet), NEW first \in Nat, NEW data \in Seq(Octet), NEW n, n = Len(data),
           first >= 1, first + n - 1 <= Len(buf),
           \A i \in 1..n : buf[first - 1 + i] = data[i]
    PROVE  Bytes(buf, first, first + n - 1) = data
<1> DEFINE last == first + n - 1
<1>1. n \in Nat /\ Len(buf) \in Nat /\ last - first + 1 = n
  BY LenProperties
<1>2. Bytes(buf, first, last) = [i \in 1..n |-> Byte(buf, first + i - 1)]
  BY <1>1, Zenon DEF Bytes
<1>3. \A i \in 1..n : Byte(buf, first + i - 1) = data[i]
  <2> SUFFICES ASSUME NEW i \in 1..n PROVE Byte(buf, first + i - 1) = data[i]
    OBVIOUS
  <2>1. first + i - 1 \in 1..Len(buf) /\ first + i - 1 = first - 1 + i
    BY <1>1
  <2>2. QED
    BY <2>1, ByteIs
<1>4. data = [i \in 1..n |-> data[i]]
  BY LenProperties
<1> HIDE DEF last
<1>5. Bytes(buf, first, last) = [i \in 1..n |-> data[i]]
  BY <1>2, <1>3
<1>6. QED
  BY <1>4, <1>5 DEF last

LEMMA CommandIs ==
    ASSUME NEW item \in Commands, item.control = FALSE
    PROVE  Command(item.id, item.data, FALSE) = item
<1> DEFINE c == Command(item.id, item.data, FALSE)
<1>1. item.id \in Octet /\ item.data \in Seq(Octet)
  BY DEF Commands
<1>2. c \in Commands
  BY <1>1, CommandType
<1>3. c.id = item.id /\ c.data = item.data /\ c.control = FALSE
  BY DEF Command
<1> HIDE DEF c
<1>4. c = item
  BY <1>2, <1>3 DEF Commands
<1>5. QED
  BY <1>4 DEF c

\* The guards of detect_command hold of a frame that has come as it was written.
LEMMA WholeIsSound ==
    ASSUME NEW buf \in Seq(Octet), NEW p \in {1, 2}, NEW item \in Frame, WholeAt(buf, p, item)
    PROVE  /\ Len(buf) \in Nat /\ Byte(buf, p) = STX /\ Byte(buf, p + 1) = item.id
           /\ Checksum(buf, p) = p + 3 + Len(item.data)
           /\ Complete(buf, p, Len(buf) + 1) /\ Sound(buf, p)
           /\ Bytes(buf, p + 3, p + 3 + Len(item.data) - 1) = item.data
<1> DEFINE n == Len(item.data)
           frame == Encoded(item)
           body == Body(item.id, item.data)
           crc == Crc(body)
<1>1. /\ item.id \in Octet /\ item.data \in Seq(Octet) /\ n \in Nat /\ ~IsBasic(item.id)
      /\ frame[1] = STX /\ frame[2] = item.id /\ frame[3] = n
      /\ \A i \in 1..n : frame[i + 3] = item.data[i]
      /\ frame[n + 4] = crc \div 256 /\ frame[n + 5] = crc % 256 /\ frame[n + 6] = ETX
  <2>1. IsFrame(Encoded(item), item.id, item.data, Len(item.data))
    BY FrameIs
  <2>2. item.id \in Octet /\ item.data \in Seq(Octet) /\ Len(item.data) \in Nat /\ ~IsBasic(item.id)
    BY FrameIs
  <2>3. QED
    BY <2>1, <2>2 DEF IsFrame
<1>2. /\ Len(buf) = p + 5 + n /\ \A i \in 1..(n + 6) : buf[p - 1 + i] = frame[i]
  BY Zenon DEF WholeAt
<1>3. /\ body \in Seq(Octet) /\ Len(body) = n + 2 /\ body[1] = item.id /\ body[2] = n
      /\ \A i \in 1..n : body[i + 2] = item.data[i]
      /\ crc \in Registers
  <2>1. Len(item.data) <= 255 /\ item.id \in Octet /\ item.data \in Seq(Octet)
    BY <1>1 DEF Frame, Items
  <2>2. QED
    BY <2>1, BodyIs, Zenon
<1> HIDE DEF frame, body, crc, n
<1>4. Len(buf) \in Nat /\ n \in Nat /\ p \in Nat /\ p >= 1 /\ Len(buf) = p + 5 + n
  BY <1>1, <1>2, LenProperties
<1>5. \A i \in 1..(n + 6) : Byte(buf, p - 1 + i) = frame[i]
  <2> SUFFICES ASSUME NEW i \in 1..(n + 6) PROVE Byte(buf, p - 1 + i) = frame[i]
    OBVIOUS
  <2>1. p - 1 + i \in 1..Len(buf)
    BY <1>4
  <2>2. QED
    BY <1>2, <2>1, ByteIs
<1>6. /\ Byte(buf, p) = STX /\ Byte(buf, p + 1) = item.id /\ Byte(buf, p + 2) = n
      /\ Byte(buf, p + n + 3) = crc \div 256 /\ Byte(buf, p + n + 4) = crc % 256 /\ Byte(buf, p + n + 5) = ETX
  <2>1. /\ 1 \in 1..(n + 6) /\ p - 1 + 1 = p /\ 2 \in 1..(n + 6) /\ p - 1 + 2 = p + 1
        /\ 3 \in 1..(n + 6) /\ p - 1 + 3 = p + 2
        /\ n + 4 \in 1..(n + 6) /\ p - 1 + (n + 4) = p + n + 3
        /\ n + 5 \in 1..(n + 6) /\ p - 1 + (n + 5) = p + n + 4
        /\ n + 6 \in 1..(n + 6) /\ p - 1 + (n + 6) = p + n + 5
    BY <1>4
  <2>2. /\ Byte(buf, p - 1 + 1) = frame[1] /\ Byte(buf, p - 1 + 2) = frame[2] /\ Byte(buf, p - 1 + 3) = frame[3]
        /\ Byte(buf, p - 1 + (n + 4)) = frame[n + 4] /\ Byte(buf, p - 1 + (n + 5)) = frame[n + 5]
        /\ Byte(buf, p - 1 + (n + 6)) = frame[n + 6]
    BY <1>5, <2>1, Zenon
  <2>3. QED
    BY <1>1, <2>1, <2>2, Zenon
<1>7. Checksum(buf, p) = p + 3 + n
  BY <1>6, Zenon DEF Checksum
<1>8. Complete(buf, p, Len(buf) + 1)
  <2>1. p + 2 # Len(buf) + 1 /\ p + 3 + n + 3 <= Len(buf) + 1
    BY <1>4
  <2>2. QED
    BY <1>7, <2>1 DEF Complete
<1>9. Bytes(buf, p + 1, p + 1 + (n + 2) - 1) = body
  <2>1. \A i \in 1..(n + 2) : buf[p + 1 - 1 + i] = body[i]
    <3> SUFFICES ASSUME NEW i \in 1..(n + 2) PROVE buf[p + 1 - 1 + i] = body[i]
      OBVIOUS
    <3>1. i + 1 \in 1..(n + 6) /\ p + 1 - 1 + i = p - 1 + (i + 1)
      BY <1>4
    <3>2. buf[p + 1 - 1 + i] = frame[i + 1]
      BY <1>2, <3>1
    <3>3. frame[i + 1] = body[i]
      <4>1. CASE i = 1
        BY <1>1, <1>3, <4>1
      <4>2. CASE i = 2
        BY <1>1, <1>3, <4>2
      <4>3. CASE i > 2
        <5>1. i - 2 \in 1..n /\ (i - 2) + 3 = i + 1 /\ (i - 2) + 2 = i
          BY <1>4, <4>3
        <5>2. frame[(i - 2) + 3] = item.data[i - 2] /\ body[(i - 2) + 2] = item.data[i - 2]
          BY <1>1, <1>3, <5>1
        <5>3. QED
          BY <5>1, <5>2
      <4>4. QED
        BY <1>4, <4>1, <4>2, <4>3
    <3>4. QED
      BY <3>2, <3>3
  <2> DEFINE first == p + 1
             k == n + 2
  <2>2. first \in Nat /\ first >= 1 /\ first + k - 1 <= Len(buf) /\ k = Len(body)
    BY <1>3, <1>4
  <2>3. \A i \in 1..k : buf[first - 1 + i] = body[i]
    BY <2>1
  <2> HIDE DEF first, k
  <2>4. Bytes(buf, first, first + k - 1) = body
    BY <1>3, <2>2, <2>3, BytesAre
  <2>5. QED
    BY <2>4 DEF first, k
<1>10. Sound(buf, p)
  <2>1. /\ Byte(buf, Checksum(buf, p)) = crc \div 256 /\ Byte(buf, Checksum(buf, p) + 1) = crc % 256
        /\ Byte(buf, Checksum(buf, p) + 2) = ETX
    <3>1. p + 3 + n = p + n + 3 /\ p + 3 + n + 1 = p + n + 4 /\ p + 3 + n + 2 = p + n + 5
      BY <1>4
    <3>2. QED
      BY <1>6, <1>7, <3>1, Zenon
  <2>2. Bytes(buf, p + 1, Checksum(buf, p) - 1) = body
    <3> DEFINE c == Checksum(buf, p)
               last == p + 1 + (n + 2) - 1
    <3>1. c = p + 3 + n
      BY <1>7
    <3> HIDE DEF c
    <3>2. c - 1 = last
      BY <1>4, <3>1
    <3>3. Bytes(buf, p + 1, last) = body
      BY <1>9
    <3> HIDE DEF last
    <3>4. Bytes(buf, p + 1, c - 1) = body
      BY <3>2, <3>3, Zenon
    <3>5. QED
      BY <3>4 DEF c
  <2>3. 256 * (crc \div 256) + (crc % 256) = crc
    BY <1>3, RegisterBytes
  <2>4. QED
    BY <2>1, <2>2, <2>3, Zenon DEF Sound, crc
<1>11. Bytes(buf, p + 3, p + 3 + n - 1) = item.data
  <2>1. \A i \in 1..n : buf[p + 3 - 1 + i] = item.data[i]
    <3> SUFFICES ASSUME NEW i \in 1..n PROVE buf[p + 3 - 1 + i] = item.data[i]
      OBVIOUS
    <3>1. i + 3 \in 1..(n + 6) /\ p + 3 - 1 + i = p - 1 + (i + 3)
      BY <1>4
    <3>2. QED
      BY <1>1, <1>2, <3>1
  <2> DEFINE first == p + 3
             data == item.data
  <2>2. first \in Nat /\ first >= 1 /\ first + n - 1 <= Len(buf)
    BY <1>4
  <2>3. \A i \in 1..n : buf[first - 1 + i] = data[i]
    BY <2>1
  <2>4. n = Len(data) /\ data \in Seq(Octet)
    BY <1>1 DEF n
  <2> HIDE DEF first, data
  <2>5. Bytes(buf, first, first + n - 1) = data
    BY <2>2, <2>3, <2>4, BytesAre
  <2>6. QED
    BY <2>5 DEF first, data
<1>12. QED
  BY <1>4, <1>6, <1>7, <1>8, <1>10, <1>11, Zenon DEF n

LEMMA AppendFirst ==
    ASSUME NEW S, NEW x \in S
    PROVE  Append(<<>>, x) = <<x>>
<1>1. <<>> \in Seq(S) /\ <<x>> \in Seq(S) /\ Len(<<>>) = 0 /\ Len(<<x>>) = 1 /\ <<x>>[1] = x
  BY EmptySeq
<1> DEFINE none == <<>>
           one == <<x>>
<1> HIDE DEF none, one
<1>2. /\ Append(none, x) \in Seq(S) /\ Len(Append(none, x)) = 1 /\ Append(none, x)[1] = x
  <2>1. none \in Seq(S) /\ Len(none) = 0
    BY <1>1 DEF none
  <2>2. /\ Append(none, x) \in Seq(S) /\ Len(Append(none, x)) = Len(none) + 1
        /\ Append(none, x)[Len(none) + 1] = x
    BY <2>1, AppendProperties
  <2>3. QED
    BY <2>1, <2>2
<1>3. one \in Seq(S) /\ Len(one) = 1 /\ one[1] = x
  BY <1>1 DEF one
<1>4. Append(none, x) = one
  <2>1. \A i \in 1..1 : Append(none, x)[i] = one[i]
    BY <1>2, <1>3
  <2>2. QED
    BY <1>2, <1>3, <2>1, SeqEqual
<1>5. QED
  BY <1>4 DEF none, one

\* A round that takes what is left of the buffer is the last but one.
LEMMA DetectTakesAll ==
    ASSUME NEW buf \in Seq(Octet), NEW u, IsDetect(u, buf), NEW p \in 1..Len(buf),
           GoesOn(u[p]), u[p].it = Len(buf) + 1
    PROVE  LET r == DetectAll(buf)
           IN r.how = "returns" /\ r.keep = u[p].keep /\ r.end = Len(buf) + 1 /\ r.out = u[p].out
<1> DEFINE s == u[p]
           t == [s EXCEPT !.how = "returns"]
<1>1. Len(buf) \in Nat
  BY LenProperties
<1>2. /\ p \in 0..(Len(buf) + 1) /\ p + 1 \in 1..(Len(buf) + 1) /\ p + 1 \in 0..(Len(buf) + 1)
      /\ (p + 1) - 1 = p
  BY <1>1
<1>3. s \in DetectStates(1, Len(buf) + 1)
  BY <1>2, Zenon DEF IsDetect
<1>4. u[p + 1] = DetectStep(buf, s)
  <2>1. GoesOn(u[(p + 1) - 1]) => u[p + 1] = DetectStep(buf, u[(p + 1) - 1])
    BY <1>2, Zenon DEF IsDetect
  <2>2. QED
    BY <1>2, <2>1
<1>5. ~GoesOn(u[p + 1]) => DetectAll(buf) = u[p + 1]
  BY <1>2, Zenon DEF IsDetect
<1>6. s.it = Len(buf) + 1
  OBVIOUS
<1> HIDE DEF s
<1>7. s.end = Len(buf) + 1
  BY <1>3 DEF DetectStates
<1>8. DetectStep(buf, s) = t
  <2>1. s.it >= s.end /\ ~(s.it < s.end)
    BY <1>1, <1>6, <1>7
  <2>2. QED
    BY <2>1, Zenon DEF DetectStep
<1>9. t.how = "returns" /\ t.keep = s.keep /\ t.end = Len(buf) + 1 /\ t.out = s.out
  BY <1>3, <1>7 DEF DetectStates
<1> HIDE DEF t
<1>10. ~GoesOn(t)
  BY <1>9 DEF GoesOn
<1>11. DetectAll(buf) = t
  BY <1>4, <1>5, <1>8, <1>10
<1>12. QED
  BY <1>9, <1>11 DEF s

\* What the parser does when the frame is complete.
LEMMA DetectWhole ==
    ASSUME beyond \in Octet, NEW buf \in Seq(Octet), NEW p, FrameAt(buf, p), NEW item \in Frame, WholeAt(buf, p, item)
    PROVE  LET r == DetectAll(buf)
           IN r.how = "returns" /\ r.keep = Len(buf) + 1 /\ r.end = Len(buf) + 1 /\ r.out = <<item>>
<1> DEFINE n == Len(item.data)
<1>1. p \in {1, 2} /\ p \in Nat
  BY DEF FrameAt
<1>2. /\ Len(buf) \in Nat /\ Byte(buf, p) = STX /\ Byte(buf, p + 1) = item.id
      /\ Checksum(buf, p) = p + 3 + n
      /\ Complete(buf, p, Len(buf) + 1) /\ Sound(buf, p)
      /\ Bytes(buf, p + 3, p + 3 + n - 1) = item.data
  BY <1>1, WholeIsSound, Zenon
<1>3. /\ item.id \in Octet /\ item.data \in Seq(Octet) /\ n \in Nat /\ item \in Commands
      /\ item.control = FALSE /\ ~IsBasic(item.id)
  BY FrameIs
<1>4. Len(buf) = p + 5 + n
  BY DEF WholeAt
<1> HIDE DEF n
<1>5. Len(buf) >= 1 /\ p \in 1..Len(buf) /\ p < Len(buf) + 1 /\ p + 1 < Len(buf) + 1
      /\ p + 3 + n + 3 = Len(buf) + 1 /\ ~(p >= Len(buf) + 1)
  BY <1>1, <1>2, <1>3, <1>4
<1>6. PICK u : IsDetect(u, buf)
  BY DetectRuns
<1> DEFINE a == u[p - 1]
           b == Consumed(a, Len(buf) + 1, FALSE, <<item>>)
<1>7. At(a, buf, p) /\ u[p] = DetectStep(buf, a)
  BY <1>5, <1>6, DetectSteps
<1> HIDE DEF a
<1>8. a.it = p /\ a.end = Len(buf) + 1 /\ a.control = TRUE /\ a.how = "going" /\ a.out = <<>>
      /\ a \in DetectStates(1, Len(buf) + 1)
  BY <1>7 DEF At
<1>9. DetectStep(buf, a) = FrameStep(buf, a)
  <2>1. a.it < a.end /\ ~(a.it >= a.end) /\ a.it + 1 < a.end
    BY <1>5, <1>8
  <2>2. Byte(buf, a.it) = STX
    BY <1>2, <1>8
  <2>3. ~IsControl(a.control, Byte(buf, a.it))
    BY <2>2, NoControl DEF IsControl
  <2>4. QED
    BY <2>1, <2>2, <2>3, Zenon DEF DetectStep
<1>10. FrameStep(buf, a) = b
  <2>1. Byte(buf, a.it + 1) = item.id /\ Complete(buf, a.it, a.end) /\ Sound(buf, a.it)
    BY <1>2, <1>8, Zenon
  <2>2. Checksum(buf, a.it) + 3 = Len(buf) + 1
    BY <1>2, <1>5, <1>8
  <2>3. Bytes(buf, a.it + 3, Checksum(buf, a.it) - 1) = item.data
    <3> DEFINE c == Checksum(buf, p)
               last == p + 3 + n - 1
    <3>0. c - 1 = last /\ Bytes(buf, p + 3, last) = item.data
      BY <1>1, <1>2, <1>3
    <3> HIDE DEF c, last
    <3>1. Bytes(buf, p + 3, c - 1) = item.data
      BY <3>0, Zenon
    <3>2. QED
      BY <1>8, <3>1, Zenon DEF c
  <2>4. Append(a.out, Command(item.id, item.data, FALSE)) = <<item>>
    <3>1. Command(item.id, item.data, FALSE) = item
      BY <1>3, CommandIs
    <3>2. QED
      BY <1>3, <1>8, <3>1, AppendFirst, Zenon
  <2>5. ~IsBasic(Byte(buf, a.it + 1))
    BY <1>3, <2>1
  <2>6. QED
    BY <2>1, <2>2, <2>3, <2>4, <2>5, Zenon DEF FrameStep
<1>11. b.how = "going" /\ b.it = Len(buf) + 1 /\ b.keep = Len(buf) + 1 /\ b.out = <<item>>
  <2> DEFINE out == <<item>>
             it == Len(buf) + 1
  <2> HIDE DEF out, it
  <2>1. b = Consumed(a, it, FALSE, out)
    BY DEF out, it
  <2> HIDE DEF b
  <2>2. b.how = a.how /\ b.it = it /\ b.keep = it /\ b.out = out
    <3>1. a \in DetectStates(1, Len(buf) + 1)
      BY <1>8
    <3>2. QED
      BY <2>1, <3>1 DEF Consumed, DetectStates
  <2>3. QED
    BY <1>8, <2>2, Zenon DEF it, out
<1> HIDE DEF b
<1>12. u[p] = b /\ GoesOn(u[p])
  BY <1>7, <1>9, <1>10, <1>11 DEF GoesOn
<1>13. QED
  BY <1>5, <1>6, <1>11, <1>12, DetectTakesAll

\* A control by itself.
LEMMA DetectControl ==
    ASSUME beyond \in Octet, NEW buf \in Seq(Octet), NEW item \in Items, item.control, buf = <<item.id>>
    PROVE  LET r == DetectAll(buf)
           IN r.how = "returns" /\ r.keep = Len(buf) + 1 /\ r.end = Len(buf) + 1 /\ r.out = <<item>>
<1>1. item \in Commands /\ item.id \in {ACK, NAK} /\ item.data = <<>> /\ item.control = TRUE
  BY DEF Items, Commands
<1>2. Len(buf) = 1 /\ buf[1] = item.id /\ 1 \in 1..Len(buf)
  OBVIOUS
<1>3. Byte(buf, 1) = item.id
  BY <1>2, ByteIs
<1>4. Command(item.id, <<>>, TRUE) = item
  <2> DEFINE c == Command(item.id, <<>>, TRUE)
  <2>1. <<>> \in Seq(Octet) /\ item.id \in Octet
    BY <1>1, EmptySeq DEF Commands
  <2>2. c \in Commands
    BY <2>1, CommandType
  <2>3. c.id = item.id /\ c.data = <<>> /\ c.control = TRUE
    BY DEF Command
  <2> HIDE DEF c
  <2>4. c = item
    <3> DEFINE none == <<>>
    <3>1. c.data = none /\ item.data = none /\ c.id = item.id
      BY <1>1, <2>3
    <3> HIDE DEF none
    <3>2. c.control = TRUE /\ item.control = TRUE
      BY <1>1, <2>3
    <3>3. item \in Commands
      BY <1>1
    <3>4. QED
      BY <2>2, <3>1, <3>2, <3>3 DEF Commands
  <2>5. QED
    BY <2>4 DEF c
<1>5. PICK u : IsDetect(u, buf)
  BY DetectRuns
<1> DEFINE a == u[0]
           b == Consumed(a, 2, TRUE, <<item>>)
<1>6. At(a, buf, 1)
  BY <1>5, Zenon DEF IsDetect
<1> HIDE DEF a
<1>7. a.it = 1 /\ a.end = 2 /\ a.control = TRUE /\ a.how = "going" /\ a.out = <<>>
      /\ a \in DetectStates(1, Len(buf) + 1)
  BY <1>2, <1>6 DEF At
<1>8. u[1] = DetectStep(buf, a)
  <2>1. 1 \in 1..(Len(buf) + 1) /\ 1 - 1 = 0
    BY <1>2
  <2>2. GoesOn(u[1 - 1]) => u[1] = DetectStep(buf, u[1 - 1])
    BY <1>5, <2>1, Zenon DEF IsDetect
  <2>3. GoesOn(a)
    BY <1>7 DEF GoesOn
  <2>4. QED
    BY <2>1, <2>2, <2>3 DEF a
<1>9. DetectStep(buf, a) = b
  <2>1. a.it < a.end /\ ~(a.it >= a.end) /\ a.it + 1 = 2
    BY <1>7
  <2>2. Byte(buf, a.it) = item.id
    BY <1>3, <1>7
  <2>3. IsControl(a.control, Byte(buf, a.it))
    BY <1>1, <1>7, <2>2 DEF IsControl
  <2>4. Byte(buf, a.it) # STX
    BY <1>1, <2>2, NoControl
  <2>5. Append(a.out, Command(Byte(buf, a.it), <<>>, TRUE)) = <<item>>
    BY <1>1, <1>4, <1>7, <2>2, AppendFirst, Zenon
  <2>6. QED
    BY <2>1, <2>3, <2>4, <2>5, Zenon DEF DetectStep
<1>10. b.how = "going" /\ b.it = 2 /\ b.keep = 2 /\ b.out = <<item>>
  <2> DEFINE out == <<item>>
  <2> HIDE DEF out
  <2>1. b = Consumed(a, 2, TRUE, out)
    BY DEF out
  <2> HIDE DEF b
  <2>2. b.how = a.how /\ b.it = 2 /\ b.keep = 2 /\ b.out = out
    <3>1. a \in DetectStates(1, Len(buf) + 1)
      BY <1>7
    <3>2. QED
      BY <2>1, <3>1 DEF Consumed, DetectStates
  <2>3. QED
    BY <1>7, <2>2, Zenon DEF out
<1> HIDE DEF b
<1>11. u[1] = b /\ GoesOn(u[1]) /\ u[1].it = Len(buf) + 1
  BY <1>2, <1>8, <1>9, <1>10 DEF GoesOn
<1>12. DetectAll(buf).how = "returns" /\ DetectAll(buf).keep = u[1].keep
       /\ DetectAll(buf).end = Len(buf) + 1 /\ DetectAll(buf).out = u[1].out
  BY <1>2, <1>5, <1>11, DetectTakesAll
<1>13. Len(buf) + 1 = 2
  BY <1>2
<1>14. QED
  BY <1>10, <1>11, <1>12, <1>13, Zenon

\* The first round of check_input, when it is the last one too.
LEMMA CheckInputOnce ==
    ASSUME beyond \in Octet, NEW buf \in Seq(Octet), protocol = "extended", NEW r, r = DetectAll(buf),
           \/ r.how \in {"overrun", "throws"}
           \/ r.how = "returns" /\ (r.keep = 1 \/ r.end = r.keep)
    PROVE  /\ CheckInput(buf).how = r.how /\ CheckInput(buf).out = r.out
           /\ r.how = "returns" => CheckInput(buf).size = r.end - r.keep
<1> DEFINE S == CheckInputStates(buf)
           step == [s \in S |-> CheckInputStep(buf, s)]
           start == [how |-> "going", raw |-> 1, size |-> Len(buf), out |-> <<>>]
           result == CheckInput(buf)
           m == Len(buf) + 1
           size == r.end - r.keep
<1>1. Len(buf) \in Nat /\ m \in Nat /\ 0 \in 0..m /\ 1 \in 0..m /\ 1 \in 1..m /\ 1 - 1 = 0
  BY LenProperties
<1>2. PICK u : IsLoop(u, m, S, start, step, result)
  BY CheckInputIs, Zenon
<1>3. \A s \in S : step[s] = CheckInputStep(buf, s)
  OBVIOUS
<1>4. start.how = "going" /\ start.raw = 1 /\ start.size = Len(buf) /\ start.out = <<>>
  OBVIOUS
<1> HIDE DEF S, step, start, m, result
<1>5. /\ u[0] = start /\ u[0] \in S /\ u[1] \in S
      /\ u[1] = IF GoesOn(u[0]) THEN step[u[0]] ELSE u[0]
  <2>1. /\ u[0] = start /\ \A n \in 0..m : u[n] \in S
        /\ \A n \in 1..m : u[n] = IF GoesOn(u[n - 1]) THEN step[u[n - 1]] ELSE u[n - 1]
    BY <1>2, Zenon DEF IsLoop
  <2>2. u[1] = IF GoesOn(u[1 - 1]) THEN step[u[1 - 1]] ELSE u[1 - 1]
    BY <1>1, <2>1
  <2>3. QED
    BY <1>1, <2>1, <2>2
<1> DEFINE a == u[0]
           b == u[1]
<1>6. a \in S /\ a.how = "going" /\ a.raw = 1 /\ a.size = Len(buf) /\ a.out = <<>>
  BY <1>4, <1>5
<1>7. b = CheckInputStep(buf, a)
  BY <1>3, <1>5, <1>6 DEF GoesOn
<1>8. ~GoesOn(b) => result = b
  BY <1>1, <1>2, LoopEnded
<1> HIDE DEF a, b
<1>9. DetectIn(buf, a.raw, a.raw + a.size, a.out) = r
  <2>1. a.raw + a.size = Len(buf) + 1
    BY <1>1, <1>6
  <2>2. QED
    BY <1>6, <2>1, Zenon DEF DetectIn, DetectAll
<1>10. \/ r.how \in {"overrun", "throws"} /\ b = [a EXCEPT !.how = r.how, !.out = r.out]
       \/ r.how = "returns" /\ b = [a EXCEPT !.how = "returns", !.size = size, !.out = r.out]
  <2>1. CASE r.how \in {"overrun", "throws"}
    <3>1. r.how # "returns"
      BY <2>1
    <3>2. QED
      BY <1>7, <1>9, <2>1, <3>1, Zenon DEF CheckInputStep, AfterCall
  <2>2. CASE r.how = "returns" /\ (r.keep = 1 \/ r.end = r.keep)
    <3>1. r.keep = a.raw \/ size = 0
      <4>1. r.keep \in Int /\ r.end \in Int
        <5>1. Len(buf) + 1 \in Int /\ 1 \in Int /\ 1 <= Len(buf) + 1 /\ <<>> \in Seq(Commands)
          BY <1>1, EmptySeq
        <5>2. r \in DetectStates(1, Len(buf) + 1)
          BY <5>1, DetectIs, Zenon DEF DetectAll
        <5>3. QED
          BY <5>2 DEF DetectStates
      <4>2. QED
        BY <1>6, <2>2, <4>1
    <3>2. QED
      BY <1>7, <1>9, <2>2, <3>1, Zenon DEF CheckInputStep, AfterCall
  <2>3. QED
    BY <2>1, <2>2
<1> HIDE DEF size
<1>11. /\ b.how = r.how /\ b.out = r.out
       /\ r.how = "returns" => b.size = size
  BY <1>6, <1>10 DEF S, CheckInputStates
<1>12. ~GoesOn(b)
  BY <1>10, <1>11 DEF GoesOn
<1>13. QED
  BY <1>8, <1>11, <1>12 DEF result, size

\* What stays in the buffer.
LEMMA RestAll ==
    ASSUME NEW buf \in Seq(Octet)
    PROVE  Rest(buf, Len(buf)) = buf /\ Rest(buf, 0) = <<>>
<1>1. Len(buf) \in Nat /\ Len(buf) - Len(buf) + 1 = 1 /\ Len(buf) - 0 + 1 = Len(buf) + 1
  BY LenProperties
<1>2. SubSeq(buf, 1, Len(buf)) = buf
  BY SubSeqFull
<1>3. SubSeq(buf, Len(buf) + 1, Len(buf)) = <<>>
  BY <1>1, SubSeqEmpty
<1>4. QED
  BY <1>1, <1>2, <1>3 DEF Rest

\* Bytes that are cut off a line and put behind a buffer.
LEMMA CutIs ==
    ASSUME NEW x \in Seq(Octet), NEW y \in Seq(Octet), NEW n \in Nat, n <= Len(y)
    PROVE  LET buf == x \o SubSeq(y, 1, n)
               rest == SubSeq(y, n + 1, Len(y))
           IN /\ buf \in Seq(Octet) /\ Len(buf) = Len(x) + n
              /\ \A i \in 1..Len(buf) : buf[i] = (x \o y)[i]
              /\ rest \in Seq(Octet) /\ Len(rest) = Len(y) - n
              /\ buf \o rest = x \o y
<1> DEFINE cut == SubSeq(y, 1, n)
           rest == SubSeq(y, n + 1, Len(y))
           buf == x \o cut
           whole == x \o y
           again == buf \o rest
<1>1. Len(x) \in Nat /\ Len(y) \in Nat /\ \A i \in 1..Len(y) : y[i] \in Octet
  BY LenProperties, ElementOfSeq
<1>2. /\ cut \in Seq(Octet) /\ Len(cut) = n /\ \A i \in 1..n : cut[i] = y[i]
  <2>1. \A i \in 1..n : y[i] \in Octet
    BY <1>1
  <2>2. /\ cut \in Seq(Octet) /\ Len(cut) = IF 1 <= n THEN n - 1 + 1 ELSE 0
        /\ \A i \in 1..(n - 1 + 1) : cut[i] = y[1 + i - 1]
    BY <2>1, SubSeqProperties
  <2> HIDE DEF cut
  <2>3. \A i \in 1..n : cut[i] = y[i]
    <3> SUFFICES ASSUME NEW i \in 1..n PROVE cut[i] = y[i]
      OBVIOUS
    <3>1. i \in 1..(n - 1 + 1) /\ 1 + i - 1 = i
      OBVIOUS
    <3>2. QED
      BY <2>2, <3>1
  <2>4. Len(cut) = n
    BY <2>2
  <2>5. QED
    BY <2>2, <2>3, <2>4
<1>3. /\ rest \in Seq(Octet) /\ Len(rest) = Len(y) - n
      /\ \A i \in 1..(Len(y) - n) : rest[i] = y[n + i]
  <2>1. \A i \in (n + 1)..Len(y) : y[i] \in Octet
    BY <1>1
  <2>2. /\ rest \in Seq(Octet) /\ Len(rest) = IF n + 1 <= Len(y) THEN Len(y) - (n + 1) + 1 ELSE 0
        /\ \A i \in 1..(Len(y) - (n + 1) + 1) : rest[i] = y[n + 1 + i - 1]
    BY <1>1, <2>1, SubSeqProperties
  <2> HIDE DEF rest
  <2>3. \A i \in 1..(Len(y) - n) : rest[i] = y[n + i]
    <3> SUFFICES ASSUME NEW i \in 1..(Len(y) - n) PROVE rest[i] = y[n + i]
      OBVIOUS
    <3>1. i \in 1..(Len(y) - (n + 1) + 1) /\ n + 1 + i - 1 = n + i
      BY <1>1
    <3>2. QED
      BY <2>2, <3>1
  <2>4. Len(rest) = Len(y) - n
    BY <1>1, <2>2
  <2>5. QED
    BY <2>2, <2>3, <2>4
<1> HIDE DEF cut, rest
<1>4. /\ buf \in Seq(Octet) /\ Len(buf) = Len(x) + Len(cut)
      /\ \A i \in 1..(Len(x) + Len(cut)) : buf[i] = IF i <= Len(x) THEN x[i] ELSE cut[i - Len(x)]
  BY <1>2, ConcatProperties
<1>5. /\ whole \in Seq(Octet) /\ Len(whole) = Len(x) + Len(y)
      /\ \A i \in 1..(Len(x) + Len(y)) : whole[i] = IF i <= Len(x) THEN x[i] ELSE y[i - Len(x)]
  BY ConcatProperties
<1> HIDE DEF buf, whole
<1>6. /\ again \in Seq(Octet) /\ Len(again) = Len(buf) + Len(rest)
      /\ \A i \in 1..(Len(buf) + Len(rest)) : again[i] = IF i <= Len(buf) THEN buf[i] ELSE rest[i - Len(buf)]
  <2>1. buf \in Seq(Octet) /\ rest \in Seq(Octet)
    BY <1>3, <1>4
  <2>2. QED
    BY <2>1, ConcatProperties
<1> HIDE DEF again
<1>7. Len(buf) = Len(x) + n
  BY <1>2, <1>4
<1>8. \A i \in 1..(Len(x) + n) : buf[i] = whole[i]
  <2> SUFFICES ASSUME NEW i \in 1..(Len(x) + n) PROVE buf[i] = whole[i]
    OBVIOUS
  <2>1. i \in 1..(Len(x) + Len(y)) /\ (~(i <= Len(x)) => i - Len(x) \in 1..n)
    BY <1>1
  <2>2. buf[i] = IF i <= Len(x) THEN x[i] ELSE cut[i - Len(x)]
    BY <1>2, <1>4
  <2>3. whole[i] = IF i <= Len(x) THEN x[i] ELSE y[i - Len(x)]
    BY <1>5, <2>1
  <2>4. ~(i <= Len(x)) => cut[i - Len(x)] = y[i - Len(x)]
    BY <1>2, <2>1
  <2>5. QED
    BY <2>2, <2>3, <2>4
<1>9. Len(again) = Len(whole)
  BY <1>1, <1>3, <1>5, <1>6, <1>7
<1>10. \A i \in 1..Len(again) : again[i] = whole[i]
  <2> SUFFICES ASSUME NEW i \in 1..Len(again) PROVE again[i] = whole[i]
    OBVIOUS
  <2>1. again[i] = IF i <= Len(buf) THEN buf[i] ELSE rest[i - Len(buf)]
    BY <1>6
  <2>2. Len(again) = Len(x) + Len(y)
    BY <1>5, <1>9
  <2>3. CASE i <= Len(x) + n
    BY <1>1, <1>7, <1>8, <2>1, <2>3
  <2>4. CASE ~(i <= Len(x) + n)
    <3>1. /\ i - Len(buf) \in 1..(Len(y) - n) /\ n + (i - Len(buf)) = i - Len(x)
          /\ ~(i <= Len(buf)) /\ ~(i <= Len(x)) /\ i \in 1..(Len(x) + Len(y))
      BY <1>1, <1>7, <2>2, <2>4
    <3>2. rest[i - Len(buf)] = y[i - Len(x)]
      BY <1>3, <3>1
    <3>3. whole[i] = y[i - Len(x)]
      BY <1>5, <3>1
    <3>4. QED
      BY <2>1, <3>1, <3>2, <3>3
  <2>5. QED
    BY <2>3, <2>4
<1>11. again = whole
  BY <1>5, <1>6, <1>9, <1>10, SeqEqual
<1>12. QED
  BY <1>3, <1>4, <1>7, <1>8, <1>11, Zenon DEF buf, cut, rest, whole, again

-----------------------------------------------------------------------------
(***************************************************************************)
(* What is on its way.                                                     *)
(***************************************************************************)
\* The extended protocol, and no frame of the basic one on it.
ExtendedOnly ==
    protocol = "extended" /\ \A i \in 1..Len(sent) : sent[i].control \/ ~IsBasic(sent[i].id)

\* Stations wait for each other, and a stray byte is nothing that the parser looks for.
Orderly == Pipelined = FALSE /\ Stray["extended"] \cap {STX, ACK, NAK} = {}

\* The bytes of an item, read or not: a control, or a frame from p on.
Arriving(bytes, p, item) ==
    \/ item.control /\ bytes = <<item.id>>
    \/ item \in Frame /\ WholeAt(bytes, p, item) /\ (p = 2 => bytes[1] \notin {STX, ACK, NAK})

OnItsWay ==
    \E item \in Items, p \in {1, 2} :
        line # <<>> /\ sent = Append(delivered, item) /\ Arriving(input \o line, p, item)

AllRead == line = <<>> /\ input = <<>> /\ delivered = sent

LastMissing == delivered = sent \/ \E item \in Items : sent = Append(delivered, item)

\* The invariant: nothing is in the buffer but the beginning of the one item that is on its way.
ArrivalInv == ExtendedOnly /\ changed = {} => LastMissing /\ (running => AllRead \/ OnItsWay)

LEMMA ArrivalInvInit == Init => ArrivalInv
BY Zenon DEF Init, ArrivalInv, LastMissing, AllRead

\* The items sent before were of the same kind.
LEMMA ExtendedBefore ==
    ASSUME TypeInv, NEW item \in Item[protocol], Len(sent) < MaxSent, protocol' = protocol,
           sent' = Append(sent, item), ExtendedOnly'
    PROVE  /\ ExtendedOnly /\ item \in Items /\ (item.control \/ item \in Frame)
<1>1. sent \in Seq(Item[protocol]) /\ Len(sent) \in Nat
  BY DEF TypeInv
<1>2. /\ Len(sent') = Len(sent) + 1 /\ sent'[Len(sent) + 1] = item
      /\ \A i \in 1..Len(sent) : sent'[i] = sent[i]
  BY <1>1, AppendProperties
<1>3. protocol' = "extended" /\ \A i \in 1..Len(sent') : sent'[i].control \/ ~IsBasic(sent'[i].id)
  BY DEF ExtendedOnly
<1>4. ExtendedOnly
  <2>1. \A i \in 1..Len(sent) : i \in 1..Len(sent')
    BY <1>1, <1>2
  <2>2. \A i \in 1..Len(sent) : sent[i].control \/ ~IsBasic(sent[i].id)
    BY <1>2, <1>3, <2>1
  <2>3. QED
    BY <1>3, <2>2 DEF ExtendedOnly
<1>5. item \in Items
  BY ItemsAre DEF TypeInv
<1>6. item.control \/ ~IsBasic(item.id)
  <2>1. Len(sent) + 1 \in 1..Len(sent')
    BY <1>1, <1>2
  <2>2. QED
    BY <1>2, <1>3, <2>1
<1>7. QED
  BY <1>4, <1>5, <1>6 DEF Frame

\* An item that has just been sent.
LEMMA SentArrives ==
    ASSUME NEW item \in Items, item.control \/ item \in Frame, NEW bytes, NEW p \in {1, 2},
           \/ p = 1 /\ bytes = Encoded(item)
           \/ p = 2 /\ ~item.control /\ \E b \in Octet \ {STX, ACK, NAK} : bytes = <<b>> \o Encoded(item)
    PROVE  Arriving(bytes, p, item) /\ bytes # <<>>
<1>1. CASE item.control
  <2>1. Encoded(item) = <<item.id>>
    BY <1>1, Zenon DEF Encoded
  <2>2. bytes = <<item.id>>
    BY <1>1, <2>1
  <2>3. Len(<<item.id>>) = 1 /\ Len(<<>>) = 0
    OBVIOUS
  <2>4. bytes # <<>>
    BY <2>2
  <2>5. QED
    BY <1>1, <2>2, <2>4, Zenon DEF Arriving
<1>2. CASE item \in Frame
  <2> DEFINE n == Len(item.data)
             frame == Encoded(item)
  <2>1. n \in Nat /\ frame \in Seq(Octet) /\ Len(frame) = n + 6
    <3>1. n \in Nat /\ IsFrame(frame, item.id, item.data, n)
      BY <1>2, FrameIs, Zenon
    <3>2. QED
      BY <3>1 DEF IsFrame
  <2> HIDE DEF n, frame
  <2>2. CASE p = 1
    <3>1. bytes = frame
      BY <2>2 DEF frame
    <3>2. Len(bytes) = p + 5 + n /\ \A i \in 1..(n + 6) : p - 1 + i = i
      BY <2>1, <2>2, <3>1
    <3>3. \A i \in 1..(n + 6) : bytes[p - 1 + i] = frame[i]
      BY <3>1, <3>2
    <3>4. bytes # <<>>
      BY <2>1, <3>1, EmptySeq
    <3>5. QED
      BY <1>2, <2>2, <3>2, <3>3, <3>4 DEF Arriving, WholeAt, n, frame
  <2>3. CASE p = 2
    <3>1. PICK b \in Octet \ {STX, ACK, NAK} : bytes = <<b>> \o frame
      <4>1. p # 1
        BY <2>3
      <4>2. \E b \in Octet \ {STX, ACK, NAK} : bytes = <<b>> \o Encoded(item)
        BY <4>1
      <4>3. QED
        BY <4>2, Zenon DEF frame
    <3> DEFINE front == <<b>>
    <3>2. front \in Seq(Octet) /\ Len(front) = 1 /\ front[1] = b
      OBVIOUS
    <3> HIDE DEF front
    <3>3. /\ bytes \in Seq(Octet) /\ Len(bytes) = Len(front) + Len(frame)
          /\ \A i \in 1..(Len(front) + Len(frame)) :
                bytes[i] = IF i <= Len(front) THEN front[i] ELSE frame[i - Len(front)]
      <4>1. bytes = front \o frame
        BY <3>1 DEF front
      <4>2. QED
        BY <2>1, <3>2, <4>1, ConcatProperties
    <3>4. Len(bytes) = p + 5 + n
      BY <2>1, <2>3, <3>2, <3>3
    <3>5. bytes[1] = b
      <4>1. 1 \in 1..(Len(front) + Len(frame)) /\ 1 <= Len(front)
        BY <2>1, <3>2
      <4>2. QED
        BY <3>2, <3>3, <4>1
    <3>6. \A i \in 1..(n + 6) : bytes[p - 1 + i] = frame[i]
      <4> SUFFICES ASSUME NEW i \in 1..(n + 6) PROVE bytes[p - 1 + i] = frame[i]
        OBVIOUS
      <4>1. /\ p - 1 + i = i + 1 /\ i + 1 \in 1..(Len(front) + Len(frame))
            /\ ~(i + 1 <= Len(front)) /\ (i + 1) - Len(front) = i
        BY <2>1, <2>3, <3>2
      <4>2. QED
        BY <3>3, <4>1
    <3>7. bytes # <<>>
      BY <2>1, <3>3, <3>4, <2>3, EmptySeq
    <3>8. bytes[1] \notin {STX, ACK, NAK}
      BY <3>1, <3>5
    <3>9. QED
      BY <1>2, <3>4, <3>6, <3>7, <3>8 DEF Arriving, WholeAt, n, frame
  <2>4. QED
    BY <2>2, <2>3
<1>3. QED
  BY <1>1, <1>2

LEMMA ArrivalInvSend ==
    ASSUME Orderly, TypeInv, ArrivalInv, NEW item \in Item[protocol], Send(item)
    PROVE  ArrivalInv'
<1> SUFFICES ASSUME ExtendedOnly', changed' = {}
             PROVE  LastMissing' /\ OnItsWay'
  BY DEF ArrivalInv
<1>1. /\ running = TRUE /\ Len(sent) < MaxSent /\ sent' = Append(sent, item)
      /\ \/ line' = line \o Encoded(item)
         \/ \E b \in Stray[protocol] : ~item.control /\ line' = line \o <<b>> \o Encoded(item)
      /\ protocol' = protocol /\ input' = input /\ changed' = changed
      /\ delivered' = delivered /\ line = <<>>
  BY DEF Send, MaySend, TypeInv, Orderly
<1>2. ExtendedOnly /\ item \in Items /\ (item.control \/ item \in Frame)
  BY <1>1, ExtendedBefore
<1>3. input = <<>> /\ delivered = sent
  <2>1. AllRead \/ OnItsWay
    BY <1>1, <1>2 DEF ArrivalInv
  <2>2. ~OnItsWay
    BY <1>1 DEF OnItsWay
  <2>3. QED
    BY <2>1, <2>2 DEF AllRead
<1>4. Encoded(item) \in Seq(Octet)
  BY <1>2, EncodedType
<1>5. \E p \in {1, 2} : line' # <<>> /\ Arriving(input' \o line', p, item)
  <2>1. CASE line' = line \o Encoded(item)
    <3>1. line' = Encoded(item)
      BY <1>1, <1>4, <2>1, ConcatEmptySeq
    <3>2. input' \o line' = line'
      BY <1>1, <1>3, <1>4, <3>1, ConcatEmptySeq
    <3>3. Arriving(line', 1, item) /\ line' # <<>>
      BY <1>2, <3>1, SentArrives
    <3>4. QED
      BY <3>2, <3>3
  <2>2. ASSUME NEW b \in Stray[protocol], ~item.control, line' = line \o <<b>> \o Encoded(item)
        PROVE  \E p \in {1, 2} : line' # <<>> /\ Arriving(input' \o line', p, item)
    <3>1. b \in Octet \ {STX, ACK, NAK}
      BY <1>2, ModeAssumption DEF Octet, Orderly, ExtendedOnly, TypeInv
    <3>2. <<b>> \in Seq(Octet)
      BY <3>1
    <3>3. line \o <<b>> = <<b>>
      BY <1>1, <3>2, ConcatEmptySeq
    <3>4. line' = <<b>> \o Encoded(item)
      BY <2>2, <3>3
    <3>5. line' \in Seq(Octet)
      BY <1>4, <3>2, <3>4, ConcatProperties
    <3>6. input' \o line' = line'
      BY <1>1, <1>3, <3>5, ConcatEmptySeq
    <3>7. Arriving(line', 2, item) /\ line' # <<>>
      BY <1>2, <2>2, <3>1, <3>4, SentArrives
    <3>8. QED
      BY <3>6, <3>7
  <2>3. QED
    BY <1>1, <2>1, <2>2
<1>6. sent' = Append(delivered', item)
  BY <1>1, <1>3
<1>7. QED
  BY <1>2, <1>5, <1>6 DEF LastMissing, OnItsWay

\* The first bytes of what arrives, when they are not all of it: a frame in the making.
LEMMA BeginningIs ==
    ASSUME NEW item \in Items, NEW p \in {1, 2}, NEW bytes \in Seq(Octet), Arriving(bytes, p, item),
           NEW buf \in Seq(Octet), 1 <= Len(buf), Len(buf) <= Len(bytes),
           \A i \in 1..Len(buf) : buf[i] = bytes[i], item \in Frame
    PROVE  /\ FrameAt(buf, p)
           /\ Len(buf) < Len(bytes) /\ p + 2 <= Len(buf) => p + 5 + buf[p + 2] > Len(buf)
<1> DEFINE n == Len(item.data)
           frame == Encoded(item)
<1>1. /\ item.id \in Octet /\ n \in Nat /\ item.control = FALSE /\ ~IsBasic(item.id)
      /\ IsFrame(frame, item.id, item.data, n)
  BY FrameIs
<1>2. frame[1] = STX /\ frame[2] = item.id /\ frame[3] = n
  BY <1>1, Zenon DEF IsFrame
<1>3. /\ Len(bytes) = p + 5 + n /\ \A i \in 1..(n + 6) : bytes[p - 1 + i] = frame[i]
      /\ p = 2 => bytes[1] \notin {STX, ACK, NAK}
  BY <1>1, Zenon DEF Arriving, WholeAt
<1> HIDE DEF n, frame
<1>4. p \in Nat /\ Len(buf) \in Nat /\ Len(bytes) \in Nat /\ n \in Nat
  BY <1>1, LenProperties
<1>5. bytes[p] = STX /\ bytes[p + 1] = item.id /\ bytes[p + 2] = n
  <2>1. /\ 1 \in 1..(n + 6) /\ p - 1 + 1 = p /\ 2 \in 1..(n + 6) /\ p - 1 + 2 = p + 1
        /\ 3 \in 1..(n + 6) /\ p - 1 + 3 = p + 2
    BY <1>4
  <2>2. bytes[p - 1 + 1] = frame[1] /\ bytes[p - 1 + 2] = frame[2] /\ bytes[p - 1 + 3] = frame[3]
    BY <1>3, <2>1, Zenon
  <2>3. QED
    BY <1>2, <2>1, <2>2, Zenon
<1>6. p <= Len(buf) => buf[p] = STX
  BY <1>4, <1>5
<1>7. p + 1 <= Len(buf) => buf[p + 1] = item.id
  BY <1>4, <1>5
<1>8. p + 2 <= Len(buf) => buf[p + 2] = n
  BY <1>4, <1>5
<1>9. p = 2 => buf[1] \notin {STX, ACK, NAK}
  <2>1. buf[1] = bytes[1]
    BY <1>4
  <2>2. QED
    BY <1>3, <2>1
<1>10. FrameAt(buf, p)
  BY <1>1, <1>6, <1>7, <1>9, Zenon DEF FrameAt
<1>11. Len(buf) < Len(bytes) /\ p + 2 <= Len(buf) => p + 5 + buf[p + 2] > Len(buf)
  BY <1>3, <1>4, <1>8
<1>12. QED
  BY <1>10, <1>11

\* A read, in the terms of what it does to the buffer.
LEMMA ReadIs ==
    ASSUME TypeInv, NEW n \in Nat, 1 <= n, n <= Len(line), Read(n), protocol = "extended",
           NEW buf, buf = input \o SubSeq(line, 1, n)
    PROVE  LET r == DetectAll(buf)
           IN /\ r.how \in {"overrun", "throws"} => input' = buf /\ delivered' = delivered \o r.out
              /\ r.how = "returns" /\ (r.keep = 1 \/ r.end = r.keep) =>
                     input' = Rest(buf, r.end - r.keep) /\ delivered' = delivered \o r.out
<1> beyond \in Octet
  BY DEF TypeInv
<1> DEFINE r == DetectAll(buf)
           c == CheckInput(buf)
<1>1. buf \in Seq(Octet)
  <2>1. input \in Seq(Octet) /\ line \in Seq(Octet)
    BY DEF TypeInv
  <2>2. QED
    BY <2>1, CutIs
<1>2. /\ input' = IF c.how = "returns" THEN Rest(buf, c.size) ELSE buf
      /\ delivered' = delivered \o c.out
  BY Zenon DEF Read
<1>3. (\/ r.how \in {"overrun", "throws"}
       \/ r.how = "returns" /\ (r.keep = 1 \/ r.end = r.keep)) =>
          /\ c.how = r.how /\ c.out = r.out
          /\ r.how = "returns" => c.size = r.end - r.keep
  BY <1>1, CheckInputOnce
<1> HIDE DEF r, c
<1>4. r.how \in {"overrun", "throws"} => input' = buf /\ delivered' = delivered \o r.out
  <2> SUFFICES ASSUME r.how \in {"overrun", "throws"} PROVE input' = buf /\ delivered' = delivered \o r.out
    OBVIOUS
  <2>1. c.how = r.how /\ c.out = r.out
    BY <1>3, Zenon
  <2>2. c.how # "returns"
    BY <2>1
  <2>3. QED
    BY <1>2, <2>1, <2>2, Zenon
<1>5. r.how = "returns" /\ (r.keep = 1 \/ r.end = r.keep) =>
          input' = Rest(buf, r.end - r.keep) /\ delivered' = delivered \o r.out
  BY <1>2, <1>3
<1>6. QED
  BY <1>4, <1>5 DEF r

LEMMA ArrivalInvRead ==
    ASSUME Orderly, TypeInv, ArrivalInv, NEW n \in Nat, 1 <= n, n <= Len(line), Read(n)
    PROVE  ArrivalInv'
<1> beyond \in Octet
  BY DEF TypeInv
<1> SUFFICES ASSUME ExtendedOnly', changed' = {}
             PROVE  LastMissing' /\ (AllRead' \/ OnItsWay')
  BY DEF ArrivalInv
<1>1. /\ running = TRUE /\ line' = SubSeq(line, n + 1, Len(line))
      /\ protocol' = protocol /\ sent' = sent /\ changed' = changed
  BY Zenon DEF Read, TypeInv
<1>2. ExtendedOnly /\ protocol = "extended" /\ changed = {}
  BY <1>1 DEF ExtendedOnly
<1>3. /\ line \in Seq(Octet) /\ input \in Seq(Octet) /\ Len(line) \in Nat /\ Len(input) \in Nat
      /\ delivered \in Seq(Commands)
  BY LenProperties DEF TypeInv
<1>4. OnItsWay
  <2>1. AllRead \/ OnItsWay
    BY <1>1, <1>2 DEF ArrivalInv
  <2>2. line # <<>>
    BY <1>3, EmptySeq
  <2>3. QED
    BY <2>1, <2>2 DEF AllRead
<1>5. PICK item \in Items, p \in {1, 2} : sent = Append(delivered, item) /\ Arriving(input \o line, p, item)
  BY <1>4 DEF OnItsWay
<1> DEFINE bytes == input \o line
           buf == input \o SubSeq(line, 1, n)
           rest == SubSeq(line, n + 1, Len(line))
           r == DetectAll(buf)
<1>6. /\ buf \in Seq(Octet) /\ Len(buf) = Len(input) + n
      /\ \A i \in 1..Len(buf) : buf[i] = bytes[i]
      /\ rest \in Seq(Octet) /\ Len(rest) = Len(line) - n
      /\ buf \o rest = bytes
  BY <1>3, CutIs
<1>7. bytes \in Seq(Octet) /\ Len(bytes) = Len(input) + Len(line)
  BY <1>3, ConcatProperties
<1>8. /\ r.how \in {"overrun", "throws"} => input' = buf /\ delivered' = delivered \o r.out
      /\ r.how = "returns" /\ (r.keep = 1 \/ r.end = r.keep) =>
             input' = Rest(buf, r.end - r.keep) /\ delivered' = delivered \o r.out
  BY <1>2, ReadIs
<1>9. line' = rest /\ Arriving(bytes, p, item)
  BY <1>1, <1>5
<1>10. item.control \/ item \in Frame
  BY <1>9 DEF Arriving
<1> HIDE DEF bytes, buf, rest, r
<1>11. 1 <= Len(buf) /\ Len(buf) <= Len(bytes) /\ Len(buf) \in Nat
  BY <1>3, <1>6, <1>7
<1>12. CASE Len(buf) = Len(bytes)
  <2>1. rest = <<>>
    <3>1. Len(rest) = 0
      BY <1>3, <1>6, <1>7, <1>12
    <3>2. QED
      BY <1>6, <3>1, EmptySeq
  <2>2. buf = bytes
    BY <1>6, <2>1, ConcatEmptySeq
  <2>3. r.how = "returns" /\ r.keep = Len(buf) + 1 /\ r.end = Len(buf) + 1 /\ r.out = <<item>>
    <3>1. CASE item.control
      <4>1. item \notin Frame
        BY <3>1 DEF Frame
      <4>2. buf = <<item.id>>
        BY <1>9, <2>2, <4>1 DEF Arriving
      <4>3. QED
        BY <1>6, <3>1, <4>2, DetectControl DEF r
    <3>2. CASE item \in Frame
      <4>1. FrameAt(buf, p)
        BY <1>6, <1>7, <1>9, <1>11, <3>2, BeginningIs
      <4>2. WholeAt(buf, p, item)
        BY <1>9, <2>2, <3>2 DEF Arriving, Frame
      <4>3. QED
        BY <1>6, <3>2, <4>1, <4>2, DetectWhole DEF r
    <3>3. QED
      BY <1>10, <3>1, <3>2
  <2>4. r.end - r.keep = 0 /\ r.end = r.keep
    BY <1>11, <2>3
  <2>5. input' = <<>> /\ delivered' = delivered \o <<item>>
    <3>1. input' = Rest(buf, r.end - r.keep) /\ delivered' = delivered \o r.out
      BY <1>8, <2>3, <2>4
    <3>2. Rest(buf, 0) = <<>>
      BY <1>6, RestAll
    <3>3. QED
      BY <2>3, <2>4, <3>1, <3>2, Zenon
  <2>6. delivered \o <<item>> = Append(delivered, item)
    <3>1. item \in Commands
      BY DEF Items
    <3>2. QED
      BY <1>3, <3>1, AppendIsConcat
  <2>7. delivered' = sent'
    BY <1>1, <1>5, <2>5, <2>6, Zenon
  <2>8. QED
    BY <1>9, <2>1, <2>5, <2>7 DEF LastMissing, AllRead
<1>13. CASE Len(buf) < Len(bytes)
  <2>1. item \in Frame
    <3>1. CASE item.control /\ bytes = <<item.id>>
      <4>1. Len(bytes) = 1
        BY <3>1
      <4>2. QED
        BY <1>11, <1>13, <4>1
    <3>2. QED
      BY <1>9, <3>1 DEF Arriving
  <2>2. FrameAt(buf, p) /\ (p + 2 <= Len(buf) => p + 5 + buf[p + 2] > Len(buf))
    BY <1>6, <1>7, <1>9, <1>11, <1>13, <2>1, BeginningIs
  <2>3. r.how \in {"returns", "overrun"} /\ r.keep = 1 /\ r.end = Len(buf) + 1 /\ r.out = <<>>
    BY <1>6, <1>11, <2>2, DetectIncomplete DEF r
  <2>4. r.end - r.keep = Len(buf)
    BY <1>11, <2>3
  <2>5. input' = buf /\ delivered' = delivered
    <3>1. Rest(buf, Len(buf)) = buf
      BY <1>6, RestAll
    <3>2. delivered \o <<>> = delivered
      BY <1>3, ConcatEmptySeq
    <3>3. delivered' = delivered \o r.out
      BY <1>8, <2>3
    <3>4. input' = buf
      <4>1. r.how = "returns" => input' = Rest(buf, r.end - r.keep)
        BY <1>8, <2>3
      <4>2. r.how = "returns" => input' = buf
        BY <2>4, <3>1, <4>1, Zenon
      <4>3. QED
        BY <1>8, <2>3, <4>2
    <3>5. QED
      BY <2>3, <3>2, <3>3, <3>4, Zenon
  <2>6. line' # <<>>
    <3>1. Len(rest) > 0
      BY <1>3, <1>6, <1>7, <1>13
    <3>2. QED
      BY <1>9, <3>1, EmptySeq
  <2>7. input' \o line' = bytes
    BY <1>6, <1>9, <2>5
  <2>8. sent' = Append(delivered', item)
    BY <1>1, <1>5, <2>5
  <2>9. Arriving(input' \o line', p, item)
    BY <1>9, <2>7
  <2>10. QED
    BY <2>6, <2>8, <2>9 DEF LastMissing, OnItsWay
<1>14. Len(bytes) \in Nat
  BY <1>3, <1>7
<1>15. Len(buf) = Len(bytes) \/ Len(buf) < Len(bytes)
  BY <1>11, <1>14
<1>16. QED
  BY <1>12, <1>13, <1>15

LEMMA ArrivalInvStep ==
    ASSUME Orderly, TypeInv, ArrivalInv, [Next]_vars
    PROVE  ArrivalInv'
<1>1. ASSUME NEW item \in Item[protocol], Send(item) PROVE ArrivalInv'
  BY <1>1, ArrivalInvSend
<1>2. ASSUME NEW item \in Item[protocol], NEW i \in 1..Chunk, NEW b \in Damage, SendChanged(item, i, b)
      PROVE  ArrivalInv'
  <2>1. changed' = changed \cup {Len(sent')}
    BY <1>2, Zenon DEF SendChanged
  <2>2. changed' # {}
    BY <2>1
  <2>3. QED
    BY <2>2, Zenon DEF ArrivalInv
<1>3. ASSUME NEW n \in 1..Chunk, n <= Len(line), Read(n) PROVE ArrivalInv'
  <2>1. n \in Nat /\ 1 <= n
    BY BoundsAssumption
  <2>2. QED
    BY <1>3, <2>1, ArrivalInvRead
<1>4. CASE UNCHANGED vars
  BY <1>4, Zenon DEF ArrivalInv, ExtendedOnly, LastMissing, AllRead, OnItsWay, vars
<1>5. QED
  BY <1>1, <1>2, <1>3, <1>4, Zenon DEF Next

\* While the line changes nothing and the stations wait for each other, every frame of the
\* extended protocol and every control reaches the program with its last byte (check_input).
THEOREM DeliveredHolds ==
    ASSUME Orderly
    PROVE  Spec => [](ExtendedOnly => DeliveredWhenRead)
<1>1. Init => TypeInv /\ ArrivalInv
  BY TypeInit, ArrivalInvInit
<1>2. TypeInv /\ ArrivalInv /\ [Next]_vars => (TypeInv /\ ArrivalInv)'
  BY TypeStep, ArrivalInvStep
<1>3. TypeInv /\ ArrivalInv => (ExtendedOnly => DeliveredWhenRead)
  BY DEF ArrivalInv, AllRead, OnItsWay, DeliveredWhenRead
<1>4. QED
  BY <1>1, <1>2, <1>3, PTL DEF Spec

-----------------------------------------------------------------------------
(***************************************************************************)
(* A frame that has been changed on the line.                              *)
(***************************************************************************)
\* The bytes begin with the frame of an item, but for a byte of its data or checksum.
Damaged(bytes, item, at) ==
    /\ item \in Frame /\ at \in 4..(Len(item.data) + 5)
    /\ Len(bytes) >= Len(item.data) + 6
    /\ \A i \in 1..(Len(item.data) + 6) : i # at => bytes[i] = Encoded(item)[i]
    /\ bytes[at] # Encoded(item)[at]

LEMMA DamagedIsUnsound ==
    ASSUME beyond \in Octet, NEW buf \in Seq(Octet), NEW item, NEW at, Damaged(buf, item, at)
    PROVE  /\ Byte(buf, 1) = STX /\ ~IsBasic(Byte(buf, 2))
           /\ Complete(buf, 1, Len(buf) + 1) /\ ~Sound(buf, 1)
<1> DEFINE n == Len(item.data)
           frame == Encoded(item)
           body == Body(item.id, item.data)
           crc == Crc(body)
           other == Bytes(buf, 2, n + 3)
           high == Byte(buf, n + 4)
           low == Byte(buf, n + 5)
<1>1. item \in Frame
  BY DEF Damaged
<1>2. /\ item.id \in Octet /\ item.data \in Seq(Octet) /\ n \in Nat /\ n <= 255 /\ ~IsBasic(item.id)
      /\ IsFrame(frame, item.id, item.data, n)
  BY <1>1, FrameIs
<1>3. /\ frame[1] = STX /\ frame[2] = item.id /\ frame[3] = n
      /\ \A i \in 1..n : frame[i + 3] = item.data[i]
      /\ frame[n + 4] = crc \div 256 /\ frame[n + 5] = crc % 256 /\ frame[n + 6] = ETX
  BY <1>2, Zenon DEF IsFrame
<1>4. /\ body \in Seq(Octet) /\ Len(body) = n + 2 /\ body[1] = item.id /\ body[2] = n
      /\ \A i \in 1..n : body[i + 2] = item.data[i]
      /\ crc \in Registers
  BY <1>2, BodyIs, Zenon
<1>5. /\ at \in 4..(n + 5) /\ Len(buf) >= n + 6
      /\ \A i \in 1..(n + 6) : i # at => buf[i] = frame[i]
      /\ buf[at] # frame[at]
  BY Zenon DEF Damaged
<1>6. n \in Nat /\ Len(buf) \in Nat
  BY <1>2, LenProperties
<1> HIDE DEF n, frame, body, crc
<1>7. \A i \in 1..(n + 6) : Byte(buf, i) = buf[i]
  <2> SUFFICES ASSUME NEW i \in 1..(n + 6) PROVE Byte(buf, i) = buf[i]
    OBVIOUS
  <2>1. i \in 1..Len(buf)
    BY <1>5, <1>6
  <2>2. QED
    BY <2>1, ByteIs
<1>8. Byte(buf, 1) = STX /\ Byte(buf, 2) = item.id /\ Byte(buf, 3) = n /\ Byte(buf, n + 6) = ETX
  <2>1. /\ 1 \in 1..(n + 6) /\ 2 \in 1..(n + 6) /\ 3 \in 1..(n + 6) /\ n + 6 \in 1..(n + 6)
        /\ 1 # at /\ 2 # at /\ 3 # at /\ n + 6 # at
    BY <1>5, <1>6
  <2>2. QED
    BY <1>3, <1>5, <1>7, <2>1
<1>9. Checksum(buf, 1) = n + 4
  <2>1. Byte(buf, 1 + 2) = n
    BY <1>8
  <2>2. Checksum(buf, 1) = 1 + 3 + n
    BY <2>1, Zenon DEF Checksum
  <2>3. QED
    BY <1>6, <2>2
<1>10. Complete(buf, 1, Len(buf) + 1)
  <2>1. 1 + 2 # Len(buf) + 1 /\ n + 4 + 3 <= Len(buf) + 1
    BY <1>5, <1>6
  <2>2. QED
    BY <1>9, <2>1 DEF Complete
<1>11. /\ other \in Seq(Octet) /\ Len(other) = n + 2
       /\ \A i \in 1..(n + 2) : other[i] = buf[i + 1]
  <2> DEFINE last == n + 3
             first == 2
  <2>1. last - first + 1 >= 0 /\ last - first + 1 = n + 2 /\ last \in Int /\ first \in Int
    BY <1>6
  <2>2. other = Bytes(buf, first, last)
    OBVIOUS
  <2> HIDE DEF last, first, other
  <2>3. /\ Bytes(buf, first, last) \in Seq(Octet) /\ Len(Bytes(buf, first, last)) = last - first + 1
        /\ \A i \in 1..(last - first + 1) : Bytes(buf, first, last)[i] = Byte(buf, first + i - 1)
    BY <2>1, BytesType
  <2>4. \A i \in 1..(n + 2) : other[i] = buf[i + 1]
    <3> SUFFICES ASSUME NEW i \in 1..(n + 2) PROVE other[i] = buf[i + 1]
      OBVIOUS
    <3>1. first + i - 1 = i + 1 /\ i + 1 \in 1..(n + 6)
      BY <1>6 DEF first
    <3>2. other[i] = Byte(buf, first + i - 1)
      BY <2>1, <2>2, <2>3
    <3>3. QED
      BY <1>7, <3>1, <3>2
  <2>5. QED
    BY <2>1, <2>2, <2>3, <2>4
<1> HIDE DEF other, high, low
<1>12. \A i \in 1..(n + 2) : frame[i + 1] = body[i]
  <2> SUFFICES ASSUME NEW i \in 1..(n + 2) PROVE frame[i + 1] = body[i]
    OBVIOUS
  <2>1. CASE i = 1
    BY <1>3, <1>4, <2>1
  <2>2. CASE i = 2
    BY <1>3, <1>4, <2>2
  <2>3. CASE i > 2
    <3>1. i - 2 \in 1..n /\ (i - 2) + 3 = i + 1 /\ (i - 2) + 2 = i
      BY <1>6, <2>3
    <3>2. frame[(i - 2) + 3] = item.data[i - 2] /\ body[(i - 2) + 2] = item.data[i - 2]
      BY <1>3, <1>4, <3>1
    <3>3. QED
      BY <3>1, <3>2
  <2>4. QED
    BY <1>6, <2>1, <2>2, <2>3
<1>13. high = buf[n + 4] /\ low = buf[n + 5] /\ high \in Octet /\ low \in Octet
  <2>1. n + 4 \in 1..(n + 6) /\ n + 5 \in 1..(n + 6) /\ n + 4 \in Int /\ n + 5 \in Int
    BY <1>6
  <2>2. QED
    BY <1>7, <2>1, ByteType DEF high, low
<1>14. crc \div 256 \in Octet /\ crc % 256 \in Octet /\ 256 * (crc \div 256) + (crc % 256) = crc
  BY <1>4, RegisterBytes
<1>15. Crc(other) # 256 * high + low
  <2>1. CASE at <= n + 3
    <3> DEFINE k == at - 1
    <3>1. k \in 1..(n + 2) /\ k + 1 = at /\ n + 4 # at /\ n + 5 # at
          /\ n + 4 \in 1..(n + 6) /\ n + 5 \in 1..(n + 6)
      BY <1>5, <1>6, <2>1
    <3> HIDE DEF k
    <3>2. body[k] # other[k]
      BY <1>5, <1>11, <1>12, <3>1
    <3>3. \A i \in 1..(n + 2) : i # k => body[i] = other[i]
      <4> SUFFICES ASSUME NEW i \in 1..(n + 2), i # k PROVE body[i] = other[i]
        OBVIOUS
      <4>1. i + 1 \in 1..(n + 6) /\ i + 1 # at
        BY <1>6, <3>1
      <4>2. QED
        BY <1>5, <1>11, <1>12, <4>1
    <3>4. OneChanged(body, other, k)
      BY <1>4, <1>11, <3>1, <3>2, <3>3 DEF OneChanged
    <3>5. Len(body) >= 2
      BY <1>4, <1>6
    <3>6. Crc(body) # Crc(other)
      <4>1. body \in Seq(Octet) /\ other \in Seq(Octet)
        BY <1>4, <1>11
      <4>2. QED
        BY <3>4, <3>5, <4>1, ChangedByteNoticed
    <3>7. high = crc \div 256 /\ low = crc % 256
      BY <1>3, <1>5, <1>13, <3>1
    <3>8. QED
      BY <1>14, <3>6, <3>7, Zenon DEF crc
  <2>2. CASE at > n + 3
    <3>1. \A i \in 1..(n + 2) : other[i] = body[i]
      <4> SUFFICES ASSUME NEW i \in 1..(n + 2) PROVE other[i] = body[i]
        OBVIOUS
      <4>1. i + 1 \in 1..(n + 6) /\ i + 1 # at
        BY <1>6, <2>2
      <4>2. QED
        BY <1>5, <1>11, <1>12, <4>1
    <3>2. other = body
      <4>1. body \in Seq(Octet) /\ other \in Seq(Octet) /\ Len(other) = Len(body)
        BY <1>4, <1>11
      <4>2. \A i \in 1..Len(other) : other[i] = body[i]
        BY <1>11, <3>1
      <4>3. QED
        BY <4>1, <4>2, SeqEqual
    <3>3. ~(high = crc \div 256 /\ low = crc % 256)
      <4>1. at = n + 4 \/ at = n + 5
        BY <1>5, <1>6, <2>2
      <4>2. QED
        BY <1>3, <1>5, <1>13, <4>1
    <3>4. 256 * high + low # 256 * (crc \div 256) + (crc % 256)
      BY <1>13, <1>14, <3>3, FillDiffers
    <3>5. QED
      BY <1>14, <3>2, <3>4, Zenon DEF crc
  <2>3. QED
    BY <1>5, <1>6, <2>1, <2>2
<1>16. ~Sound(buf, 1)
  <2>1. /\ n + 4 - 1 = n + 3 /\ n + 4 + 1 = n + 5 /\ 1 + 1 = 2
    BY <1>6
  <2> DEFINE c == Checksum(buf, 1)
  <2>2. c - 1 = n + 3 /\ c = n + 4 /\ c + 1 = n + 5
    BY <1>6, <1>9
  <2> HIDE DEF c
  <2>3. Sound(buf, 1) => Crc(Bytes(buf, 1 + 1, c - 1)) = 256 * Byte(buf, c) + Byte(buf, c + 1)
    BY Zenon DEF Sound, c
  <2>4. Crc(Bytes(buf, 1 + 1, c - 1)) = Crc(other)
    BY <2>1, <2>2, Zenon DEF other
  <2>5. Byte(buf, c) = high /\ Byte(buf, c + 1) = low
    BY <2>2, Zenon DEF high, low
  <2>6. QED
    BY <1>15, <2>3, <2>4, <2>5, Zenon
<1>17. QED
  BY <1>2, <1>8, <1>10, <1>16, Zenon

\* The parser throws at a frame that has been changed, and has taken nothing by then.
LEMMA DetectDamaged ==
    ASSUME beyond \in Octet, NEW buf \in Seq(Octet), NEW item, NEW at, Damaged(buf, item, at)
    PROVE  LET r == DetectAll(buf) IN r.how = "throws" /\ r.out = <<>>
<1>1. Len(buf) \in Nat /\ Len(item.data) \in Nat /\ Len(buf) >= Len(item.data) + 6
  <2>1. item \in Frame
    BY DEF Damaged
  <2>2. QED
    BY <2>1, FrameIs, LenProperties DEF Damaged
<1>2. /\ Byte(buf, 1) = STX /\ ~IsBasic(Byte(buf, 2))
      /\ Complete(buf, 1, Len(buf) + 1) /\ ~Sound(buf, 1)
  BY DamagedIsUnsound
<1>3. Len(buf) >= 1 /\ 1 \in 1..Len(buf) /\ 2 \in 1..Len(buf) /\ 1 + 1 = 2 /\ 2 < Len(buf) + 1
      /\ 1 < Len(buf) + 1 /\ ~(1 >= Len(buf) + 1)
  BY <1>1
<1>4. FrameAt(buf, 1)
  <2>1. Byte(buf, 1) = buf[1] /\ Byte(buf, 2) = buf[2]
    BY <1>3, ByteIs
  <2>2. 1 # 2
    OBVIOUS
  <2>3. QED
    BY <1>2, <1>3, <2>1, <2>2, Zenon DEF FrameAt
<1>5. PICK u : IsDetect(u, buf)
  BY DetectRuns
<1> DEFINE a == u[1 - 1]
           t == [a EXCEPT !.how = "throws"]
<1>6. At(a, buf, 1) /\ u[1] = DetectStep(buf, a) /\ (~GoesOn(u[1]) => DetectAll(buf) = u[1])
  BY <1>3, <1>4, <1>5, DetectSteps
<1> HIDE DEF a
<1>7. a.it = 1 /\ a.end = Len(buf) + 1 /\ a.control = TRUE
  BY <1>6 DEF At
<1>8. t.how = "throws" /\ t.out = <<>>
  BY <1>6 DEF At, DetectStates
<1>9. DetectStep(buf, a) = FrameStep(buf, a)
  <2>1. a.it < a.end /\ ~(a.it >= a.end) /\ a.it + 1 < a.end
    BY <1>3, <1>7
  <2>2. Byte(buf, a.it) = STX
    BY <1>2, <1>7
  <2>3. ~IsControl(a.control, Byte(buf, a.it))
    BY <2>2, NoControl DEF IsControl
  <2>4. QED
    BY <2>1, <2>2, <2>3, Zenon DEF DetectStep
<1>10. FrameStep(buf, a) = t
  <2>1. ~IsBasic(Byte(buf, a.it + 1)) /\ Complete(buf, a.it, a.end) /\ ~Sound(buf, a.it)
    BY <1>2, <1>3, <1>7, Zenon
  <2>2. QED
    BY <2>1, Zenon DEF FrameStep
<1> HIDE DEF t
<1>11. ~GoesOn(t)
  BY <1>8 DEF GoesOn
<1>12. DetectAll(buf) = t
  BY <1>6, <1>9, <1>10, <1>11
<1>13. QED
  BY <1>8, <1>12

\* The first bytes of a frame that has been changed.
LEMMA DamagedBeginning ==
    ASSUME NEW bytes \in Seq(Octet), NEW item, NEW at, Damaged(bytes, item, at),
           NEW buf \in Seq(Octet), 1 <= Len(buf), Len(buf) <= Len(bytes),
           \A i \in 1..Len(buf) : buf[i] = bytes[i]
    PROVE  \/ Damaged(buf, item, at)
           \/ /\ FrameAt(buf, 1)
              /\ 1 + 2 <= Len(buf) => 1 + 5 + buf[1 + 2] > Len(buf)
<1> DEFINE n == Len(item.data)
           frame == Encoded(item)
<1>1. /\ item \in Frame /\ at \in 4..(n + 5)
      /\ Len(bytes) >= n + 6
      /\ \A i \in 1..(n + 6) : i # at => bytes[i] = frame[i]
      /\ bytes[at] # frame[at]
  BY Zenon DEF Damaged
<1>2. n \in Nat /\ ~IsBasic(item.id) /\ IsFrame(frame, item.id, item.data, n)
  BY <1>1, FrameIs
<1>3. frame[1] = STX /\ frame[2] = item.id /\ frame[3] = n
  BY <1>2, Zenon DEF IsFrame
<1> HIDE DEF n, frame
<1>4. Len(buf) \in Nat /\ Len(bytes) \in Nat /\ n \in Nat
  BY <1>2, LenProperties
<1>5. CASE Len(buf) >= n + 6
  <2>1. \A i \in 1..(n + 6) : buf[i] = bytes[i]
    BY <1>4, <1>5
  <2>2. at \in 1..(n + 6)
    BY <1>1, <1>4
  <2>3. QED
    BY <1>1, <1>5, <2>1, <2>2 DEF Damaged, n, frame
<1>6. CASE Len(buf) < n + 6
  <2>1. /\ 1 <= Len(buf) => buf[1] = frame[1]
        /\ 2 <= Len(buf) => buf[2] = frame[2]
        /\ 3 <= Len(buf) => buf[3] = frame[3]
    <3>1. \A i \in 1..3 : i \in 1..(n + 6) /\ i # at /\ (i <= Len(buf) => i \in 1..Len(buf))
      BY <1>1, <1>4
    <3>2. \A i \in 1..3 : i <= Len(buf) => buf[i] = frame[i]
      BY <1>1, <3>1
    <3>3. 1 \in 1..3 /\ 2 \in 1..3 /\ 3 \in 1..3
      OBVIOUS
    <3>4. QED
      BY <3>2, <3>3
  <2>2. FrameAt(buf, 1)
    <3>1. 1 + 1 = 2 /\ 1 # 2
      OBVIOUS
    <3>2. QED
      BY <1>2, <1>3, <2>1, <3>1, Zenon DEF FrameAt
  <2>3. 1 + 2 <= Len(buf) => 1 + 5 + buf[1 + 2] > Len(buf)
    <3>1. 1 + 2 = 3 /\ 1 + 5 + n > Len(buf)
      BY <1>4, <1>6
    <3>2. QED
      BY <1>3, <2>1, <3>1
  <2>4. QED
    BY <2>2, <2>3
<1>7. QED
  BY <1>4, <1>5, <1>6

\* More bytes behind it change nothing.
LEMMA DamagedAndMore ==
    ASSUME NEW bytes \in Seq(Octet), NEW more \in Seq(Octet), NEW item, NEW at, Damaged(bytes, item, at)
    PROVE  Damaged(bytes \o more, item, at)
<1> DEFINE n == Len(item.data)
           frame == Encoded(item)
           all == bytes \o more
<1>1. /\ item \in Frame /\ at \in 4..(n + 5)
      /\ Len(bytes) >= n + 6
      /\ \A i \in 1..(n + 6) : i # at => bytes[i] = frame[i]
      /\ bytes[at] # frame[at]
  BY Zenon DEF Damaged
<1>2. n \in Nat
  BY <1>1, FrameIs
<1> HIDE DEF n, frame
<1>3. /\ Len(all) = Len(bytes) + Len(more) /\ Len(bytes) \in Nat /\ Len(more) \in Nat
      /\ \A i \in 1..(Len(bytes) + Len(more)) :
             all[i] = IF i <= Len(bytes) THEN bytes[i] ELSE more[i - Len(bytes)]
  BY ConcatProperties, LenProperties
<1> HIDE DEF all
<1>4. \A i \in 1..(n + 6) : all[i] = bytes[i]
  <2>1. \A i \in 1..(n + 6) : i \in 1..(Len(bytes) + Len(more)) /\ i <= Len(bytes)
    BY <1>1, <1>2, <1>3
  <2>2. QED
    BY <1>3, <2>1
<1>5. Len(all) >= n + 6 /\ at \in 1..(n + 6)
  BY <1>1, <1>2, <1>3
<1>6. Damaged(all, item, at)
  BY <1>1, <1>4, <1>5 DEF Damaged, n, frame
<1>7. QED
  BY <1>6 DEF all

\* Damage does not reach the byte that says how long a frame is.
SizeSpared == ~\E item \in Item[protocol], b \in Damage : SendChanged(item, 3, b)

Blocked == \E item, at : Damaged(input \o line, item, at)

\* The invariant once a frame has been changed: it is what the buffer begins with, and
\* what was sent in front of it has been delivered.
DamageInv ==
    ExtendedOnly /\ changed # {} =>
        \E k \in 1..Len(sent) : /\ changed = {k} /\ delivered = SubSeq(sent, 1, k - 1)
                                /\ running => Blocked

LEMMA DamageInvInit == Init => DamageInv
BY Zenon DEF Init, DamageInv

\* What is sent behind it stays behind it.
LEMMA CutAppended ==
    ASSUME NEW S, NEW s \in Seq(S), NEW e \in S, NEW n \in Nat, n <= Len(s)
    PROVE  SubSeq(Append(s, e), 1, n) = SubSeq(s, 1, n)
<1> DEFINE t == Append(s, e)
           x == SubSeq(t, 1, n)
           y == SubSeq(s, 1, n)
<1>1. Len(s) \in Nat /\ \A i \in 1..Len(s) : s[i] \in S
  BY LenProperties, ElementOfSeq
<1>2. \A i \in 1..Len(s) : t[i] = s[i]
  BY AppendProperties
<1> HIDE DEF t
<1>3. \A i \in 1..n : s[i] \in S /\ t[i] \in S /\ t[i] = s[i]
  BY <1>1, <1>2
<1>4. /\ x \in Seq(S) /\ Len(x) = (IF 1 <= n THEN n - 1 + 1 ELSE 0)
      /\ \A i \in 1..(n - 1 + 1) : x[i] = t[1 + i - 1]
  BY <1>3, SubSeqProperties
<1>5. /\ y \in Seq(S) /\ Len(y) = (IF 1 <= n THEN n - 1 + 1 ELSE 0)
      /\ \A i \in 1..(n - 1 + 1) : y[i] = s[1 + i - 1]
  BY <1>3, SubSeqProperties
<1> HIDE DEF x, y
<1>6. Len(x) = n /\ Len(y) = n
  BY <1>4, <1>5
<1>7. \A i \in 1..n : x[i] = y[i]
  <2> SUFFICES ASSUME NEW i \in 1..n PROVE x[i] = y[i]
    OBVIOUS
  <2>1. i \in 1..(n - 1 + 1) /\ 1 + i - 1 = i
    OBVIOUS
  <2>2. QED
    BY <1>3, <1>4, <1>5, <2>1
<1>8. x = y
  BY <1>4, <1>5, <1>6, <1>7, SeqEqual
<1>9. QED
  BY <1>8 DEF x, y, t

LEMMA OctetsJoined ==
    ASSUME NEW s \in Seq(Octet), NEW t \in Seq(Octet), NEW u \in Seq(Octet)
    PROVE  s \o (t \o u) = (s \o t) \o u
BY ConcatAssociative, SMT

LEMMA DamageInvSend ==
    ASSUME Orderly, TypeInv, DamageInv, NEW item \in Item[protocol], Send(item)
    PROVE  DamageInv'
<1> SUFFICES ASSUME ExtendedOnly', changed' # {}
             PROVE  \E k \in 1..Len(sent') : /\ changed' = {k} /\ delivered' = SubSeq(sent', 1, k - 1)
                                             /\ running' => Blocked'
  BY DEF DamageInv
<1>1. /\ running = TRUE /\ Len(sent) < MaxSent /\ sent' = Append(sent, item)
      /\ \/ line' = line \o Encoded(item)
         \/ \E b \in Stray[protocol] : ~item.control /\ line' = line \o <<b>> \o Encoded(item)
      /\ protocol' = protocol /\ input' = input /\ changed' = changed
      /\ delivered' = delivered
  BY DEF Send, MaySend, TypeInv
<1>2. ExtendedOnly /\ item \in Items
  BY <1>1, ExtendedBefore
<1>3. PICK k \in 1..Len(sent) : changed = {k} /\ delivered = SubSeq(sent, 1, k - 1) /\ Blocked
  BY <1>1, <1>2 DEF DamageInv
<1>4. sent \in Seq(Item[protocol]) /\ Len(sent) \in Nat /\ Len(sent') = Len(sent) + 1
  BY <1>1, AppendProperties DEF TypeInv
<1>5. k \in 1..Len(sent') /\ k - 1 \in Nat /\ k - 1 <= Len(sent)
  BY <1>4
<1>6. SubSeq(sent', 1, k - 1) = SubSeq(sent, 1, k - 1)
  BY <1>1, <1>4, <1>5, CutAppended
<1>7. Blocked'
  <2>1. Encoded(item) \in Seq(Octet) /\ input \in Seq(Octet) /\ line \in Seq(Octet)
    BY <1>2, EncodedType DEF TypeInv
  <2>2. PICK one, at : Damaged(input \o line, one, at)
    BY <1>3 DEF Blocked
  <2>3. ASSUME NEW more \in Seq(Octet), line' = line \o more
        PROVE  Blocked'
    <3>1. input' \o line' = (input \o line) \o more
      <4>1. input' = input /\ line' = line \o more
        BY <1>1, <2>3
      <4>2. input \o (line \o more) = (input \o line) \o more
        BY <2>1, <2>3, OctetsJoined
      <4>3. QED
        BY <4>1, <4>2, Zenon
    <3>2. input \o line \in Seq(Octet)
      BY <2>1, ConcatProperties
    <3>3. Damaged((input \o line) \o more, one, at)
      BY <2>2, <3>2, DamagedAndMore
    <3>4. QED
      BY <3>1, <3>3 DEF Blocked
  <2>4. CASE line' = line \o Encoded(item)
    BY <2>1, <2>3, <2>4
  <2>5. ASSUME NEW b \in Stray[protocol], line' = line \o <<b>> \o Encoded(item)
        PROVE  Blocked'
    <3> DEFINE more == <<b>> \o Encoded(item)
    <3>1. b \in Octet
      BY ModeAssumption DEF Octet, TypeInv
    <3>2. <<b>> \in Seq(Octet)
      BY <3>1
    <3>3. more \in Seq(Octet) /\ line' = line \o more
      BY <2>1, <2>5, <3>2, ConcatProperties, ConcatAssociative
    <3> HIDE DEF more
    <3>4. QED
      BY <2>3, <3>3
  <2>6. QED
    BY <1>1, <2>4, <2>5
<1>8. QED
  BY <1>1, <1>3, <1>5, <1>6, <1>7

LEMMA DamageInvDamage ==
    ASSUME Orderly, TypeInv, ArrivalInv, NEW item \in Item[protocol], NEW i \in Int, NEW b \in Damage,
           SendChanged(item, i, b), i # 3
    PROVE  DamageInv'
<1> SUFFICES ASSUME ExtendedOnly'
             PROVE  \E k \in 1..Len(sent') : /\ changed' = {k} /\ delivered' = SubSeq(sent', 1, k - 1)
                                             /\ running' => Blocked'
  BY DEF DamageInv
<1> DEFINE frame == Encoded(item)
           damaged == [frame EXCEPT ![i] = b]
           n == Len(item.data)
<1>1. /\ Len(sent) < MaxSent /\ changed = {} /\ ~item.control /\ running = TRUE /\ line = <<>>
      /\ i \in 3..(Len(frame) - 1) /\ frame[i] # b
      /\ sent' = Append(sent, item)
      /\ changed' = changed \cup {Len(sent')}
      /\ line' = line \o damaged
      /\ protocol' = protocol /\ input' = input
      /\ delivered' = delivered /\ running' = running /\ beyond' = beyond
  BY DEF SendChanged, MaySend, TypeInv, Orderly
<1>2. ExtendedOnly /\ item \in Items /\ item \in Frame
  BY <1>1, ExtendedBefore
<1>3. input = <<>> /\ delivered = sent
  <2>1. AllRead \/ OnItsWay
    BY <1>1, <1>2 DEF ArrivalInv
  <2>2. ~OnItsWay
    BY <1>1 DEF OnItsWay
  <2>3. QED
    BY <2>1, <2>2 DEF AllRead
<1>4. sent \in Seq(Item[protocol]) /\ Len(sent) \in Nat /\ Len(sent') = Len(sent) + 1
  BY <1>1, AppendProperties DEF TypeInv
<1>5. n \in Nat /\ frame \in Seq(Octet) /\ Len(frame) = n + 6
  <2>1. n \in Nat /\ IsFrame(frame, item.id, item.data, n)
    BY <1>2, FrameIs
  <2>2. QED
    BY <2>1, Zenon DEF IsFrame
<1> HIDE DEF n, frame
<1>6. i \in 1..Len(frame) /\ b \in Octet /\ i \in 4..(n + 5)
  BY <1>1, <1>5, ModeAssumption DEF Octet
<1>7. /\ damaged \in Seq(Octet) /\ Len(damaged) = n + 6
      /\ \A j \in 1..(n + 6) : damaged[j] = IF j = i THEN b ELSE frame[j]
  BY <1>5, <1>6, ExceptSeq
<1> HIDE DEF damaged
<1>8. Damaged(damaged, item, i)
  <2>1. damaged[i] = b /\ \A j \in 1..(n + 6) : j # i => damaged[j] = frame[j]
    BY <1>5, <1>6, <1>7
  <2>2. Len(damaged) >= n + 6
    BY <1>5, <1>7
  <2>3. damaged[i] # frame[i]
    BY <1>1, <2>1
  <2>4. QED
    BY <1>2, <1>6, <2>1, <2>2, <2>3 DEF Damaged, n, frame
<1>9. input' \o line' = damaged
  <2>1. line' = damaged
    BY <1>1, <1>7, ConcatEmptySeq
  <2>2. QED
    BY <1>1, <1>3, <1>7, <2>1, ConcatEmptySeq
<1>10. Blocked'
  BY <1>8, <1>9 DEF Blocked
<1> DEFINE k == Len(sent) + 1
<1>11. k \in 1..Len(sent') /\ changed' = {k} /\ k - 1 = Len(sent)
  BY <1>1, <1>4
<1>12. delivered' = SubSeq(sent', 1, Len(sent))
  <2>1. SubSeq(sent', 1, Len(sent)) = SubSeq(sent, 1, Len(sent))
    BY <1>1, <1>4, CutAppended
  <2>2. SubSeq(sent, 1, Len(sent)) = sent
    BY <1>4, SubSeqFull
  <2>3. QED
    BY <1>1, <1>3, <2>1, <2>2
<1> HIDE DEF k
<1>13. delivered' = SubSeq(sent', 1, k - 1)
  BY <1>11, <1>12
<1>14. QED
  BY <1>10, <1>11, <1>13

LEMMA DamageInvRead ==
    ASSUME TypeInv, DamageInv, NEW n \in Nat, 1 <= n, n <= Len(line), Read(n)
    PROVE  DamageInv'
<1> beyond \in Octet
  BY DEF TypeInv
<1> SUFFICES ASSUME ExtendedOnly', changed' # {}
             PROVE  \E k \in 1..Len(sent') : /\ changed' = {k} /\ delivered' = SubSeq(sent', 1, k - 1)
                                             /\ running' => Blocked'
  BY DEF DamageInv
<1>1. /\ running = TRUE /\ line' = SubSeq(line, n + 1, Len(line))
      /\ protocol' = protocol /\ sent' = sent /\ changed' = changed
  BY Zenon DEF Read, TypeInv
<1>2. ExtendedOnly /\ protocol = "extended"
  BY <1>1 DEF ExtendedOnly
<1>3. PICK k \in 1..Len(sent) : changed = {k} /\ delivered = SubSeq(sent, 1, k - 1) /\ Blocked
  BY <1>1, <1>2 DEF DamageInv
<1> DEFINE bytes == input \o line
           buf == input \o SubSeq(line, 1, n)
           rest == SubSeq(line, n + 1, Len(line))
           r == DetectAll(buf)
<1>4. PICK item, at : Damaged(bytes, item, at)
  BY <1>3 DEF Blocked
<1>5. /\ line \in Seq(Octet) /\ input \in Seq(Octet) /\ Len(line) \in Nat /\ Len(input) \in Nat
      /\ delivered \in Seq(Commands)
  BY LenProperties DEF TypeInv
<1>6. /\ buf \in Seq(Octet) /\ Len(buf) = Len(input) + n
      /\ \A i \in 1..Len(buf) : buf[i] = bytes[i]
      /\ buf \o rest = bytes
  BY <1>5, CutIs
<1>7. bytes \in Seq(Octet) /\ Len(bytes) = Len(input) + Len(line)
  BY <1>5, ConcatProperties
<1>8. /\ r.how \in {"overrun", "throws"} => input' = buf /\ delivered' = delivered \o r.out
      /\ r.how = "returns" /\ (r.keep = 1 \/ r.end = r.keep) =>
             input' = Rest(buf, r.end - r.keep) /\ delivered' = delivered \o r.out
  BY <1>2, ReadIs
<1>9. line' = rest
  BY <1>1
<1> HIDE DEF bytes, buf, rest, r
<1>10. 1 <= Len(buf) /\ Len(buf) <= Len(bytes) /\ Len(buf) \in Nat
  BY <1>5, <1>6, <1>7
<1>11. \/ Damaged(buf, item, at)
       \/ FrameAt(buf, 1) /\ (1 + 2 <= Len(buf) => 1 + 5 + buf[1 + 2] > Len(buf))
  <2>1. \A i \in 1..Len(buf) : buf[i] = bytes[i]
    BY <1>6
  <2>2. buf \in Seq(Octet) /\ bytes \in Seq(Octet)
    BY <1>6, <1>7
  <2>3. QED
    BY <1>4, <1>10, <2>1, <2>2, DamagedBeginning
<1>12. input' = buf /\ r.out = <<>> /\ delivered' = delivered \o r.out
  <2>1. CASE Damaged(buf, item, at)
    <3>1. r.how = "throws" /\ r.out = <<>>
      BY <1>6, <2>1, DetectDamaged DEF r
    <3>2. QED
      BY <1>8, <3>1
  <2>2. CASE FrameAt(buf, 1) /\ (1 + 2 <= Len(buf) => 1 + 5 + buf[1 + 2] > Len(buf))
    <3>1. r.how \in {"returns", "overrun"} /\ r.keep = 1 /\ r.end = Len(buf) + 1 /\ r.out = <<>>
      BY <1>6, <1>10, <2>2, DetectIncomplete DEF r
    <3>2. r.end - r.keep = Len(buf)
      BY <1>10, <3>1
    <3>3. Rest(buf, Len(buf)) = buf
      BY <1>6, RestAll
    <3>4. r.how = "returns" => input' = Rest(buf, r.end - r.keep) /\ delivered' = delivered \o r.out
      BY <1>8, <3>1
    <3>5. r.how = "returns" => input' = buf
      BY <3>2, <3>3, <3>4, Zenon
    <3>6. r.how = "overrun" => input' = buf /\ delivered' = delivered \o r.out
      BY <1>8
    <3>7. QED
      BY <3>1, <3>4, <3>5, <3>6
  <2>3. QED
    BY <1>11, <2>1, <2>2
<1>13. delivered' = delivered
  BY <1>5, <1>12, ConcatEmptySeq
<1>14. Blocked'
  <2>1. input' \o line' = bytes
    BY <1>6, <1>9, <1>12
  <2>2. QED
    BY <1>4, <2>1 DEF Blocked
<1>15. QED
  BY <1>1, <1>3, <1>13, <1>14

LEMMA DamageInvStep ==
    ASSUME Orderly, TypeInv, ArrivalInv, DamageInv, [Next]_vars, [SizeSpared]_vars
    PROVE  DamageInv'
<1>1. ASSUME NEW item \in Item[protocol], Send(item) PROVE DamageInv'
  BY <1>1, DamageInvSend
<1>2. ASSUME NEW item \in Item[protocol], NEW i \in 1..Chunk, NEW b \in Damage, SendChanged(item, i, b)
      PROVE  DamageInv'
  <2>1. CASE i = 3
    <3>1. ~SizeSpared
      BY <1>2, <2>1 DEF SizeSpared
    <3>2. UNCHANGED vars
      BY <3>1
    <3>3. QED
      BY <3>2, Zenon DEF DamageInv, ExtendedOnly, Blocked, vars
  <2>2. CASE i # 3
    <3>1. i \in Int
      OBVIOUS
    <3>2. QED
      BY <1>2, <2>2, <3>1, DamageInvDamage
  <2>3. QED
    BY <2>1, <2>2
<1>3. ASSUME NEW n \in 1..Chunk, n <= Len(line), Read(n) PROVE DamageInv'
  <2>1. n \in Nat /\ 1 <= n
    BY BoundsAssumption
  <2>2. QED
    BY <1>3, <2>1, DamageInvRead
<1>4. CASE UNCHANGED vars
  BY <1>4, Zenon DEF DamageInv, ExtendedOnly, Blocked, vars
<1>5. QED
  BY <1>1, <1>2, <1>3, <1>4, Zenon DEF Next

-----------------------------------------------------------------------------
(***************************************************************************)
(* The items that reached the program as they were sent, up to the first   *)
(* changed one.                                                            *)
(***************************************************************************)
LEMMA IntactBegins ==
    ASSUME NEW S, sent \in Seq(S), NEW j \in Nat, j <= Len(sent), \A i \in 1..j : i \notin changed
    PROVE  Intact \in Seq(S) /\ j <= Len(Intact) /\ \A i \in 1..j : Intact[i] = sent[i]
<1> DEFINE m == Len(sent)
           f == [n \in 1..m |-> [s \in Seq(S) |-> IF n \in changed THEN s ELSE Append(s, sent[n])]]
           Runs(u) == u = [n \in 0..m |-> IF n = 0 THEN <<>>
                               ELSE IF n \in changed THEN u[n - 1] ELSE Append(u[n - 1], sent[n])]
           U == CHOOSE u : Runs(u)
<1>1. m \in Nat /\ \A n \in 1..m : sent[n] \in S
  BY LenProperties, ElementOfSeq
<1>2. Intact = U[m]
  BY DEF Intact
<1>3. f \in [1..m -> [Seq(S) -> Seq(S)]]
  <2>1. \A n \in 1..m : [s \in Seq(S) |-> IF n \in changed THEN s ELSE Append(s, sent[n])]
                        \in [Seq(S) -> Seq(S)]
    BY <1>1, AppendProperties
  <2>2. QED
    BY <2>1
<1>4. \A n \in 1..m, s \in Seq(S) : f[n][s] = IF n \in changed THEN s ELSE Append(s, sent[n])
  OBVIOUS
<1> HIDE DEF f
<1>5. <<>> \in Seq(S) /\ Len(<<>>) = 0
  BY EmptySeq
<1>6. PICK g \in [0..m -> Seq(S)] : IsRun(g, m, <<>>, f)
  BY <1>1, <1>3, <1>5, RunExists
<1>7. Runs(g)
  <2>1. g = [n \in 0..m |-> IF n = 0 THEN <<>> ELSE f[n][g[n - 1]]]
    BY <1>6 DEF IsRun
  <2>2. \A n \in 0..m : n # 0 =>
            f[n][g[n - 1]] = IF n \in changed THEN g[n - 1] ELSE Append(g[n - 1], sent[n])
    <3> SUFFICES ASSUME NEW n \in 0..m, n # 0
                 PROVE  f[n][g[n - 1]] = IF n \in changed THEN g[n - 1] ELSE Append(g[n - 1], sent[n])
      OBVIOUS
    <3>1. n \in 1..m /\ n - 1 \in 0..m
      BY <1>1
    <3>2. QED
      BY <1>4, <3>1
  <2>3. QED
    BY <2>1, <2>2
<1>8. Runs(U)
  <2> HIDE DEF Runs
  <2>1. QED
    BY <1>7
<1> HIDE DEF U
<1>9. U[0] = <<>> /\ \A n \in 1..m : U[n] = IF n \in changed THEN U[n - 1] ELSE Append(U[n - 1], sent[n])
  <2>1. 0 \in 0..m /\ \A n \in 1..m : n \in 0..m /\ n # 0
    BY <1>1
  <2>2. QED
    BY <1>8, <2>1
<1> HIDE DEF m
<1> DEFINE Good(n) == /\ U[n] \in Seq(S) /\ (n <= j => Len(U[n]) = n) /\ (j <= n => j <= Len(U[n]))
                      /\ \A i \in 1..j : i <= n => U[n][i] = sent[i]
           T == {n \in Nat : n <= m => Good(n)}
<1>10. 0 \in T
  <2>1. U[0] \in Seq(S) /\ Len(U[0]) = 0
    BY <1>5, <1>9, Zenon
  <2>2. \A i \in 1..j : ~(i <= 0)
    OBVIOUS
  <2>3. Good(0)
    BY <2>1, <2>2
  <2>4. QED
    BY <2>3, Zenon
<1>11. ASSUME NEW n \in Nat, n \in T
       PROVE  n + 1 \in T
  <2> SUFFICES ASSUME n + 1 <= m
               PROVE  Good(n + 1)
    OBVIOUS
  <2> DEFINE old == U[n]
             new == U[n + 1]
  <2>1. n + 1 \in 1..m /\ (n + 1) - 1 = n /\ n <= m /\ sent[n + 1] \in S
    BY <1>1
  <2>2. Good(n)
    BY <1>11, <2>1
  <2>3. old \in Seq(S) /\ Len(old) \in Nat
    BY <2>2, LenProperties
  <2>4. new = IF n + 1 \in changed THEN old ELSE Append(old, sent[n + 1])
    BY <1>9, <2>1
  <2>5. /\ n <= j => Len(old) = n
        /\ j <= n => j <= Len(old)
        /\ \A i \in 1..j : i <= n => old[i] = sent[i]
    BY <2>2
  <2> HIDE DEF old, new
  <2>6. CASE n + 1 \in changed
    <3>1. new = old /\ ~(n + 1 <= j)
      BY <2>4, <2>6
    <3>2. QED
      BY <2>3, <2>5, <3>1 DEF old, new
  <2>7. CASE n + 1 \notin changed
    <3>1. new = Append(old, sent[n + 1])
      BY <2>4, <2>7
    <3>2. /\ new \in Seq(S) /\ Len(new) = Len(old) + 1
          /\ \A i \in 1..Len(old) : new[i] = old[i]
          /\ new[Len(old) + 1] = sent[n + 1]
      BY <2>1, <2>3, <3>1, AppendProperties
    <3>3. /\ n + 1 <= j => Len(new) = n + 1
          /\ j <= n + 1 => j <= Len(new)
      BY <2>3, <2>5, <3>2
    <3>4. \A i \in 1..j : i <= n + 1 => new[i] = sent[i]
      <4> SUFFICES ASSUME NEW i \in 1..j, i <= n + 1 PROVE new[i] = sent[i]
        OBVIOUS
      <4>1. CASE i <= n
        <5>1. i \in 1..Len(old)
          BY <2>3, <2>5, <4>1
        <5>2. QED
          BY <2>5, <3>2, <4>1, <5>1
      <4>2. CASE i = n + 1
        <5>1. Len(old) + 1 = i
          BY <2>5, <4>2
        <5>2. QED
          BY <3>2, <4>2, <5>1
      <4>3. QED
        BY <4>1, <4>2
    <3>5. QED
      BY <3>2, <3>3, <3>4 DEF new
  <2>8. QED
    BY <2>6, <2>7
<1>12. Nat \subseteq T
  <2> HIDE DEF T
  <2>1. QED
    BY <1>10, <1>11, FromZero
<1>13. Good(m)
  BY <1>1, <1>12
<1>14. j <= m
  BY DEF m
<1>15. QED
  BY <1>1, <1>2, <1>13, <1>14

LEMMA PrefixIs ==
    ASSUME NEW S, sent \in Seq(S), NEW j \in Nat, j <= Len(sent), \A i \in 1..j : i \notin changed
    PROVE  IsPrefix(SubSeq(sent, 1, j), Intact)
<1> DEFINE s == SubSeq(sent, 1, j)
           t == SubSeq(Intact, 1, j)
<1>1. Intact \in Seq(S) /\ j <= Len(Intact) /\ \A i \in 1..j : Intact[i] = sent[i]
  BY IntactBegins
<1>2. \A i \in 1..j : sent[i] \in S /\ Intact[i] \in S
  <2>1. \A i \in 1..j : i \in 1..Len(sent)
    BY LenProperties
  <2>2. QED
    BY <1>1, <2>1, ElementOfSeq
<1>3. /\ s \in Seq(S) /\ Len(s) = (IF 1 <= j THEN j - 1 + 1 ELSE 0)
      /\ \A i \in 1..(j - 1 + 1) : s[i] = sent[1 + i - 1]
  BY <1>2, SubSeqProperties
<1>4. /\ t \in Seq(S) /\ Len(t) = (IF 1 <= j THEN j - 1 + 1 ELSE 0)
      /\ \A i \in 1..(j - 1 + 1) : t[i] = Intact[1 + i - 1]
  BY <1>2, SubSeqProperties
<1> HIDE DEF s, t
<1>5. Len(s) = j /\ Len(t) = j
  BY <1>3, <1>4
<1>6. \A i \in 1..j : s[i] = t[i]
  <2> SUFFICES ASSUME NEW i \in 1..j PROVE s[i] = t[i]
    OBVIOUS
  <2>1. i \in 1..(j - 1 + 1) /\ 1 + i - 1 = i
    OBVIOUS
  <2>2. QED
    BY <1>1, <1>3, <1>4, <2>1
<1>7. s = t
  BY <1>3, <1>4, <1>5, <1>6, SeqEqual
<1>8. SubSeq(s, 1, Len(s)) = s
  BY <1>3, SubSeqFull
<1>9. SubSeq(Intact, 1, Len(s)) = t
  BY <1>5 DEF t
<1>10. Len(s) <= Len(Intact)
  BY <1>1, <1>5
<1>11. IsPrefix(s, Intact)
  BY <1>7, <1>8, <1>9, <1>10 DEF IsPrefix
<1>12. QED
  BY <1>11 DEF s

\* What has been delivered is what was sent first.
LEMMA BeginningDelivered ==
    ASSUME TypeInv, LastMissing
    PROVE  \E j \in Nat : j <= Len(sent) /\ delivered = SubSeq(sent, 1, j)
<1>1. sent \in Seq(Item[protocol]) /\ Len(sent) \in Nat /\ delivered \in Seq(Commands) /\ Len(delivered) \in Nat
  BY LenProperties DEF TypeInv
<1>2. CASE delivered = sent
  <2>1. SubSeq(sent, 1, Len(sent)) = sent
    BY <1>1, SubSeqFull
  <2>2. Len(sent) \in Nat /\ Len(sent) <= Len(sent)
    BY <1>1
  <2>3. delivered = SubSeq(sent, 1, Len(sent))
    BY <1>2, <2>1
  <2>4. QED
    BY <2>2, <2>3, Zenon
<1>3. ASSUME NEW item \in Items, sent = Append(delivered, item)
      PROVE  \E j \in Nat : j <= Len(sent) /\ delivered = SubSeq(sent, 1, j)
  <2>1. item \in Commands
    BY Zenon DEF Items
  <2>2. Len(Append(delivered, item)) = Len(delivered) + 1
    BY <1>1, <2>1, AppendProperties
  <2>3. Len(delivered) <= Len(sent)
    BY <1>1, <1>3, <2>2
  <2>4. SubSeq(Append(delivered, item), 1, Len(delivered)) = SubSeq(delivered, 1, Len(delivered))
    BY <1>1, <2>1, CutAppended
  <2>5. SubSeq(delivered, 1, Len(delivered)) = delivered
    BY <1>1, SubSeqFull
  <2>6. delivered = SubSeq(sent, 1, Len(delivered))
    BY <1>3, <2>4, <2>5
  <2>7. QED
    BY <1>1, <2>3, <2>6
<1>4. QED
  BY <1>2, <1>3 DEF LastMissing

LEMMA InOrderThen ==
    ASSUME TypeInv, ArrivalInv, DamageInv, ExtendedOnly
    PROVE  OnceInOrder
<1>1. sent \in Seq(Item[protocol]) /\ Len(sent) \in Nat
  BY DEF TypeInv
<1>2. CASE changed = {}
  <2>1. PICK j \in Nat : j <= Len(sent) /\ delivered = SubSeq(sent, 1, j)
    BY <1>2, BeginningDelivered DEF ArrivalInv
  <2>2. IsPrefix(SubSeq(sent, 1, j), Intact)
    BY <1>1, <1>2, <2>1, PrefixIs
  <2>3. QED
    BY <2>1, <2>2 DEF OnceInOrder
<1>3. CASE changed # {}
  <2>1. PICK k \in 1..Len(sent) : changed = {k} /\ delivered = SubSeq(sent, 1, k - 1)
    BY <1>3 DEF DamageInv
  <2>2. k - 1 \in Nat /\ k - 1 <= Len(sent) /\ \A i \in 1..(k - 1) : i \notin changed
    BY <1>1, <2>1
  <2>3. IsPrefix(SubSeq(sent, 1, k - 1), Intact)
    BY <1>1, <2>2, PrefixIs
  <2>4. QED
    BY <2>1, <2>3 DEF OnceInOrder
<1>4. QED
  BY <1>2, <1>3

\* However the bytes of frames of the extended protocol and of controls are cut into reads, and
\* also when a byte of the data or of the checksum of one of them is changed on the line, the
\* commands are delivered in the order in which they were sent, none twice, and none that was not
\* sent: what was changed is never delivered (check_input, detect_command).
THEOREM OnceInOrderHolds ==
    ASSUME Orderly
    PROVE  Spec /\ [][SizeSpared]_vars => [](ExtendedOnly => OnceInOrder)
<1> DEFINE I == TypeInv /\ ArrivalInv /\ DamageInv
<1>1. Init => I
  BY TypeInit, ArrivalInvInit, DamageInvInit
<1>2. I /\ [Next]_vars /\ [SizeSpared]_vars => I'
  BY TypeStep, ArrivalInvStep, DamageInvStep
<1>3. I => (ExtendedOnly => OnceInOrder)
  BY InOrderThen
<1>4. QED
  BY <1>1, <1>2, <1>3, PTL DEF Spec
=============================================================================
