--------------------------- MODULE ReadoutProofs ---------------------------
(***************************************************************************)
(* What follows from the promise of Readout, for all cards and blocks.     *)
(***************************************************************************)
EXTENDS Readout, SequenceTheorems, TLAPS

Pair == Nat \X SUBSET [bn : Parts(Card), card : Card]

TypesOK == /\ owners \in Seq(Card)
           /\ open \subseteq 1..Len(owners)
           /\ records \in Seq(Pair)
           /\ overlooked \in BOOLEAN

\* A record is of a session that has been announced, and comes before the ones under way.
Behind == /\ \A i \in DOMAIN records : records[i][1] <= Len(owners)
          /\ ~overlooked => \A i \in DOMAIN records : \A s \in open : records[i][1] < s

\* The inductive invariant.
IInv == TypesOK /\ OneRecord /\ InTurn /\ Behind

LEMMA InitIInv == Init => IInv
<1> SUFFICES ASSUME Init PROVE IInv
  OBVIOUS
<1>1. DOMAIN records = {} /\ open = {}
  BY DEF Init
<1>2. OneRecord /\ InTurn /\ Behind
  BY <1>1 DEF OneRecord, InTurn, Behind
<1>3. overlooked \in BOOLEAN
  BY DEF Init
<1>4. TypesOK
  BY <1>3 DEF Init, TypesOK
<1>5. QED
  BY <1>2, <1>4 DEF IInv

LEMMA RecordIsPair ==
    ASSUME NEW s \in Nat, NEW cs \in SUBSET Card, NEW from \in [Parts(cs) -> Card]
    PROVE  <<s, Read(cs, from)>> \in Pair
<1>1. Parts(cs) \subseteq Parts(Card)
  BY DEF Parts
<1>2. \A n \in Parts(cs) : n \in Parts(Card) /\ from[n] \in Card
  BY <1>1
<1>3. Read(cs, from) \subseteq [bn : Parts(Card), card : Card]
  BY <1>2 DEF Read
<1>4. QED
  BY <1>3 DEF Pair

LEMMA StepIInv == IInv /\ [Next]_vars => IInv'
<1> SUFFICES ASSUME IInv, [Next]_vars PROVE IInv'
  OBVIOUS
<1> USE DEF IInv
<1>0. /\ Len(owners) \in Nat /\ Len(records) \in Nat
      /\ DOMAIN records = 1..Len(records)
      /\ \A i \in DOMAIN records : records[i] \in Pair
      /\ \A i \in DOMAIN records : records[i][1] \in Nat
      /\ \A s \in open : s \in Nat /\ s <= Len(owners)
  <2>1. \A r \in Pair : r[1] \in Nat
    BY DEF Pair
  <2>2. \A i \in DOMAIN records : records[i] \in Pair
    BY DEF TypesOK
  <2>3. QED
    BY <2>1, <2>2 DEF TypesOK
<1>1. CASE Overlook
  BY <1>1 DEF Overlook, TypesOK, OneRecord, InTurn, Behind
<1>2. ASSUME NEW c \in Card, Announce(c)
      PROVE  IInv'
  <2>1. owners' \in Seq(Card) /\ Len(owners') = Len(owners) + 1 /\ open' = open \cup {Len(owners) + 1}
    BY <1>2 DEF Announce, TypesOK
  <2>2. UNCHANGED <<records, overlooked>> /\ (open = {} \/ overlooked)
    BY <1>2 DEF Announce
  <2>3. TypesOK'
    <3>1. overlooked' \in BOOLEAN
      BY <2>2 DEF TypesOK
    <3>2. open' \subseteq 1..Len(owners')
      BY <1>0, <2>1 DEF TypesOK
    <3>3. QED
      BY <2>1, <2>2, <3>1, <3>2 DEF TypesOK
  <2>4. OneRecord'
    BY <1>0, <2>1, <2>2 DEF OneRecord, Behind
  <2>5. InTurn'
    BY <2>1, <2>2 DEF InTurn
  <2>6. Behind'
    BY <1>0, <2>1, <2>2 DEF Behind
  <2>7. QED
    BY <2>3, <2>4, <2>5, <2>6
<1>3. ASSUME NEW s \in open, Record(s)
      PROVE  IInv'
  <2>1. PICK cs \in SUBSET Card : \E from \in [Parts(cs) -> Card] :
               records' = Append(records, <<s, Read(cs, from)>>)
    BY <1>3 DEF Record
  <2>2. PICK from \in [Parts(cs) -> Card] : records' = Append(records, <<s, Read(cs, from)>>)
    BY <2>1
  <2> DEFINE r == <<s, Read(cs, from)>>
  <2>3. s \in Nat /\ r \in Pair /\ r[1] = s
    BY <1>0, RecordIsPair
  <2> HIDE DEF r
  <2>4. /\ records' \in Seq(Pair) /\ DOMAIN records' = 1..(Len(records) + 1)
        /\ \A i \in DOMAIN records : records'[i] = records[i]
        /\ records'[Len(records) + 1] = r
    BY <2>2, <2>3 DEF TypesOK, r
  <2>5. open' = open \ {s} /\ UNCHANGED <<owners, overlooked>>
    BY <1>3 DEF Record
  <2>6. \A i \in DOMAIN records' : \/ i \in DOMAIN records /\ records'[i][1] = records[i][1]
                                   \/ i = Len(records) + 1 /\ records'[i][1] = s
    BY <1>0, <2>3, <2>4
  <2>7. TypesOK'
    BY <2>4, <2>5 DEF TypesOK
  <2>8. OneRecord'
    BY <1>0, <2>4, <2>5, <2>6 DEF OneRecord
  <2>9. InTurn'
    BY <1>0, <2>4, <2>5, <2>6 DEF InTurn, Behind
  <2>10. Behind'
    BY <1>0, <2>5, <2>6 DEF Behind, InTurn
  <2>11. QED
    BY <2>7, <2>8, <2>9, <2>10
<1>4. ASSUME NEW s \in open, GiveUp(s)
      PROVE  IInv'
  BY <1>4 DEF GiveUp, TypesOK, OneRecord, InTurn, Behind
<1>5. CASE UNCHANGED vars
  BY <1>5 DEF vars, TypesOK, OneRecord, InTurn, Behind
<1>6. QED
  BY <1>1, <1>2, <1>3, <1>4, <1>5 DEF Next

LEMMA IInvHolds == Spec => []IInv
BY InitIInv, StepIInv, PTL DEF Spec

\* A readout never hands the callback a second record of a session.
THEOREM OneRecordEach == Spec => []OneRecord
<1>1. IInv => OneRecord
  BY DEF IInv
<1>2. QED
  BY <1>1, IInvHolds, PTL

\* Sessions take turns, and records come in the order the cards were announced in.
THEOREM RecordsInTurn == Spec => []InTurn
<1>1. IInv => InTurn
  BY DEF IInv
<1>2. QED
  BY <1>1, IInvHolds, PTL
=============================================================================
