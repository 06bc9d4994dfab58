-------------------------- MODULE ChipReadoutProofs --------------------------
(***************************************************************************)
(* Proofs about ChipReadout for all cards, whatever blocks they have, and  *)
(* every bound on insertions and registrations.                            *)
(***************************************************************************)
EXTENDS ChipReadout, SequenceTheorems, WellFoundedInduction, TLAPS

Registration == 1..MaxRegistrations

-----------------------------------------------------------------------------
\* The channel as far as the readout relies on it, and the rest of it.
ListTypeOK == /\ next \in 1..(MaxRegistrations + 1)
              /\ response \in [Registration -> Response]
              /\ timer \in [Registration -> {"none", "armed", "queued", "done"}]
              /\ listed \subseteq Registration

CallsTypeOK == /\ life_bound \in BOOLEAN /\ running \in BOOLEAN
               /\ reactions \in [Registration -> 0..2]
               /\ timeouts \in [Registration -> 0..2]

\* The blocks of the card c.
Whole(c) == {0} \cup MoreBlocks[c]

\* What the station says of the card c: that it is there, that it has gone, a block.
InsertedOf(c) == [type |-> Comm(c).inserted, card |-> c]
RemovedOf(c) == [type |-> Comm(c).removed]
BlockOf(c, n) == [type |-> Comm(c).get, bn |-> n, card |-> c]

ReadableCard == {c \in Card : Readable(c)}

Said(c) == {InsertedOf(c), RemovedOf(c)} \cup {BlockOf(c, n) : n \in Whole(c)}

Message == {[type |-> "nak"]} \cup UNION {Said(c) : c \in ReadableCard}

\* The numbers of blocks there are.
Number == {n \in 0..7 : n = 0 \/ \E c \in Card : n \in MoreBlocks[c]}

Request == [type : {"ack"}] \cup [type : Get, bn : Number]

StationTypeOK == /\ protocol \in DOMAIN comm_switch
                 /\ reader \in ReadableCard \cup {NoCard}
                 /\ insertions \in 0..MaxInsertions
                 /\ lost \subseteq {"insertion", "removal"}
                 /\ hung \in BOOLEAN

LineTypeOK == line \in Seq(Message) /\ outgoing \in Seq(Request)

BlockRecord == [bn : 0..7, card : Card]

Session == [comm : Comms, owner : Card, needed : SUBSET (0..7), read : SUBSET BlockRecord]

ReadoutTypeOK == /\ blocks \in Seq(Session)
                 /\ session \in [Registration -> 0..Len(blocks)]
                 /\ records \in Seq([session : Nat, owner : Card, read : SUBSET BlockRecord])

-----------------------------------------------------------------------------
\* The numbers of the blocks a session has read.
Gathered(b) == {r.bn : r \in b.read}

\* What is read and what is still needed are together the blocks of the cards cs.
MadeOf(b, cs) == \/ b.read = {} /\ b.needed = {0}
                 \/ b.needed \cup Gathered(b) = UNION {Whole(c) : c \in cs}

OneOfEach(b) == \A q, r \in b.read : q.bn = r.bn => q = r

\* The state of a session whatever gets lost ...
SessionOK(b) == /\ b.owner \in ReadableCard /\ b.comm = Comm(b.owner)
                /\ OneOfEach(b)
                /\ \E cs \in SUBSET Card : cs # {} /\ MadeOf(b, cs)

\* ... and as long as no removal of a card does.
Faithful(b) == MadeOf(b, {b.owner}) /\ \A r \in b.read : r.card = b.owner

Heard == "removal" \notin lost

SessionsOK == \A s \in DOMAIN blocks : SessionOK(blocks[s]) /\ (Heard => Faithful(blocks[s]))

\* Each registration in the list is the one of start or one of a session, which has
\* no other.
Serves(e) == \/ e = 1 /\ response[e] = "start" /\ session[e] = 0
             \/ session[e] \in DOMAIN blocks /\ response[e] = blocks[session[e]].comm.get

ListOK == /\ \A e \in listed : e < next /\ Serves(e)
          /\ \A e \in Registration : e >= next => session[e] = 0
          /\ \A d, e \in listed : session[d] # 0 /\ session[d] = session[e] => d = e

\* As long as no removal gets lost there is one session at most.
OneSession == Heard => \A d, e \in listed : session[d] # 0 /\ session[e] # 0 => d = e

\* A session of the card c is open.
Reads(c) == \E e \in listed : session[e] # 0 /\ blocks[session[e]].owner = c

Moves(m) == m.type \in Inserted \cup Removed

\* After the first j commands of the line a session of c may be open.
After(c, j) == \/ Reads(c) /\ \A k \in 1..j : ~Moves(line[k])
               \/ \E i \in 1..j : /\ line[i] = InsertedOf(c)
                                  /\ \A k \in (i + 1)..j : ~Moves(line[k])

\* Then what comes next are blocks of c, or c goes.
InOrder == Heard => \A c \in Card : \A j \in 0..Len(line) : After(c, j) =>
               /\ j = Len(line) => reader = c
               /\ j < Len(line) => /\ line[j + 1].type \notin Inserted
                                   /\ line[j + 1].type \in Get => line[j + 1].card = c

TypesOK == ListTypeOK /\ CallsTypeOK /\ StationTypeOK /\ LineTypeOK /\ ReadoutTypeOK

\* The inductive invariant.
IInv == TypesOK /\ SessionsOK /\ ListOK /\ OneSession /\ InOrder /\ RecordIsWhole

-----------------------------------------------------------------------------
(***************************************************************************)
(* The table of commands.                                                  *)
(***************************************************************************)
Extended5 == [inserted |-> "si_card5_inserted", get |-> "si_card5_get", removed |-> "si_card_removed"]
Extended6 == [inserted |-> "si_card6_inserted", get |-> "si_card6_get", removed |-> "si_card_removed"]
Extended8 == [inserted |-> "si_card8_inserted", get |-> "si_card8_get", removed |-> "si_card_removed"]
Basic5 == [inserted |-> "moved I", get |-> "basic si_card5_get", removed |-> "moved O"]
Basic6 == [inserted |-> "basic si_card6_inserted", get |-> "basic si_card6_get", removed |-> "moved O"]

LEMMA TableIs ==
    /\ DOMAIN comm_switch = {"extended", "basic"}
    /\ DOMAIN comm_switch["extended"] = {"card_5", "card_6", "card_8_family"}
    /\ DOMAIN comm_switch["basic"] = {"card_5", "card_6"}
    /\ comm_switch["extended"]["card_5"] = Extended5
    /\ comm_switch["extended"]["card_6"] = Extended6
    /\ comm_switch["extended"]["card_8_family"] = Extended8
    /\ comm_switch["basic"]["card_5"] = Basic5
    /\ comm_switch["basic"]["card_6"] = Basic6
BY DEF comm_switch, Extended5, Extended6, Extended8, Basic5, Basic6

LEMMA FieldsAre ==
    /\ Extended5.inserted = "si_card5_inserted" /\ Extended6.inserted = "si_card6_inserted"
    /\ Extended8.inserted = "si_card8_inserted"
    /\ Basic5.inserted = "moved I" /\ Basic6.inserted = "basic si_card6_inserted"
    /\ Extended5.removed = "si_card_removed" /\ Extended6.removed = "si_card_removed"
    /\ Extended8.removed = "si_card_removed"
    /\ Basic5.removed = "moved O" /\ Basic6.removed = "moved O"
    /\ Extended5.get = "si_card5_get" /\ Extended6.get = "si_card6_get"
    /\ Extended8.get = "si_card8_get"
    /\ Basic5.get = "basic si_card5_get" /\ Basic6.get = "basic si_card6_get"
BY DEF Extended5, Extended6, Extended8, Basic5, Basic6

LEMMA CommsAre == Comms = {Extended5, Extended6, Extended8, Basic5, Basic6}
<1>1. Comms = Range(comm_switch["extended"]) \cup Range(comm_switch["basic"])
  BY TableIs DEF Comms
<1>2. Range(comm_switch["extended"]) = {Extended5, Extended6, Extended8}
  BY TableIs DEF Range
<1>3. Range(comm_switch["basic"]) = {Basic5, Basic6}
  BY TableIs DEF Range
<1>4. QED
  BY <1>1, <1>2, <1>3

\* The kinds of commands, none of them of two kinds.
LEMMA KindsAre ==
    /\ Inserted = {"si_card5_inserted", "si_card6_inserted", "si_card8_inserted", "moved I",
                   "basic si_card6_inserted"}
    /\ Removed = {"si_card_removed", "moved O"}
    /\ Get = {"si_card5_get", "si_card6_get", "si_card8_get", "basic si_card5_get",
              "basic si_card6_get"}
<1>1. /\ Inserted = {comm.inserted : comm \in {Extended5, Extended6, Extended8, Basic5, Basic6}}
      /\ Removed = {comm.removed : comm \in {Extended5, Extended6, Extended8, Basic5, Basic6}}
      /\ Get = {comm.get : comm \in {Extended5, Extended6, Extended8, Basic5, Basic6}}
  BY CommsAre DEF Inserted, Removed, Get
<1>2. QED
  BY <1>1, FieldsAre

LEMMA KindsDiffer ==
    /\ Inserted \cap Removed = {} /\ Inserted \cap Get = {} /\ Removed \cap Get = {}
    /\ "nak" \notin Inserted \cup Removed \cup Get
    /\ "start" \notin Inserted \cup Removed \cup Get
    /\ "ack" \notin Get
BY KindsAre

\* A comm of the table is told from the others by the announcement of its cards, and
\* by its blocks.
LEMMA CommsDiffer ==
    ASSUME NEW j \in Comms, NEW k \in Comms, j.inserted = k.inserted \/ j.get = k.get
    PROVE  j = k
<1>1. j \in {Extended5, Extended6, Extended8, Basic5, Basic6}
      /\ k \in {Extended5, Extended6, Extended8, Basic5, Basic6}
  BY CommsAre
<1>2. CASE j = Extended5
  BY <1>1, <1>2, FieldsAre
<1>3. CASE j = Extended6
  BY <1>1, <1>3, FieldsAre
<1>4. CASE j = Extended8
  BY <1>1, <1>4, FieldsAre
<1>5. CASE j = Basic5
  BY <1>1, <1>5, FieldsAre
<1>6. CASE j = Basic6
  BY <1>1, <1>6, FieldsAre
<1>7. QED
  BY <1>1, <1>2, <1>3, <1>4, <1>5, <1>6

LEMMA CommOfCard ==
    ASSUME StationTypeOK, NEW c \in ReadableCard
    PROVE  /\ Comm(c) \in Comms
           /\ Comm(c).inserted \in Inserted /\ Comm(c).removed \in Removed /\ Comm(c).get \in Get
<1>1. Family[c] \in DOMAIN comm_switch[protocol] /\ protocol \in DOMAIN comm_switch
  BY DEF StationTypeOK, ReadableCard, Readable
<1>2. Comm(c) \in Range(comm_switch[protocol])
  BY <1>1 DEF Comm, Range
<1>3. Comm(c) \in Comms
  BY <1>1, <1>2 DEF Comms
<1>4. QED
  BY <1>3 DEF Inserted, Removed, Get

\* The cards of a protocol share their removal.
LEMMA OneRemoved ==
    ASSUME StationTypeOK, NEW c \in ReadableCard, NEW d \in ReadableCard
    PROVE  Comm(c).removed = Comm(d).removed
<1>1. protocol \in DOMAIN comm_switch /\ Family[c] \in DOMAIN comm_switch[protocol]
      /\ Family[d] \in DOMAIN comm_switch[protocol]
  BY DEF StationTypeOK, ReadableCard, Readable
<1>2. CASE protocol = "extended"
  <2>1. Comm(c) \in {Extended5, Extended6, Extended8} /\ Comm(d) \in {Extended5, Extended6, Extended8}
    BY <1>1, <1>2, TableIs DEF Comm
  <2>2. QED
    BY <2>1, FieldsAre
<1>3. CASE protocol = "basic"
  <2>1. Comm(c) \in {Basic5, Basic6} /\ Comm(d) \in {Basic5, Basic6}
    BY <1>1, <1>3, TableIs DEF Comm
  <2>2. QED
    BY <2>1, FieldsAre
<1>4. QED
  BY <1>1, <1>2, <1>3, TableIs

\* The session of a card takes its blocks and the removal of a card.
LEMMA SessionTakes ==
    ASSUME StationTypeOK, NEW c \in ReadableCard
    PROVE  Comm(c).get \in Accepts[Comm(c).get] /\ Comm(c).removed \in Accepts[Comm(c).get]
<1>1. Comm(c) \in Comms /\ Comm(c).get \in Get
  BY CommOfCard
<1>2. Comm(c).get \in Response /\ Comm(c).get # "start"
  BY <1>1, KindsDiffer DEF Response
<1>3. Accepts[Comm(c).get] = UNION {Takes(comm) : comm \in {k \in Comms : k.get = Comm(c).get}}
  BY <1>2 DEF Accepts
<1>4. Takes(Comm(c)) \subseteq Accepts[Comm(c).get]
  BY <1>1, <1>3
<1>5. QED
  BY <1>4 DEF Takes

\* The start of a session knows the comm of the card.
LEMMA CommByInserted ==
    ASSUME StationTypeOK, NEW c \in ReadableCard
    PROVE  (CHOOSE k \in Comms : k.inserted = Comm(c).inserted) = Comm(c)
BY CommOfCard, CommsDiffer

\* What the station sends, by its type.
LEMMA MessageKinds ==
    ASSUME StationTypeOK, NEW m \in Message
    PROVE  /\ m.type \in Command
           /\ m.type \in Inserted => \E c \in ReadableCard : m = InsertedOf(c)
           /\ m.type \in Removed => \E c \in ReadableCard : m = RemovedOf(c)
           /\ m.type \in Get => \E c \in ReadableCard : \E n \in Whole(c) : m = BlockOf(c, n)
<1>1. CASE m = [type |-> "nak"]
  BY <1>1, KindsDiffer DEF Command
<1>2. ASSUME NEW c \in ReadableCard, m = InsertedOf(c)
      PROVE  m.type \in Inserted
  BY <1>2, CommOfCard DEF InsertedOf
<1>3. ASSUME NEW c \in ReadableCard, m = RemovedOf(c)
      PROVE  m.type \in Removed
  BY <1>3, CommOfCard DEF RemovedOf
<1>4. ASSUME NEW c \in ReadableCard, NEW n \in Whole(c), m = BlockOf(c, n)
      PROVE  m.type \in Get
  BY <1>4, CommOfCard DEF BlockOf
<1>5. QED
  BY <1>1, <1>2, <1>3, <1>4, KindsDiffer DEF Message, Said, Command

-----------------------------------------------------------------------------
(***************************************************************************)
(* What a callback does to the channel: it registers one more expectation, *)
(* or nothing.                                                             *)
(***************************************************************************)
LEMMA ResponsesAre ==
    /\ Permanent = {"start"} /\ "start" \in Response /\ Get \subseteq Response
    /\ "start" \notin Get /\ \A r \in Response : r # "start" => r \in Get
BY KindsDiffer DEF Permanent, Response

LEMMA BumpType == \A n \in 0..2 : Channel!Bump(n) \in 0..2
BY DEF Channel!Bump

LEMMA CallbackRegisters ==
    ASSUME ListTypeOK, NEW r \in Response, NEW kept, NEW clocks,
           Channel!Callback(kept, clocks), Registers(r)
    PROVE  /\ next \in Registration /\ next' = next + 1
           /\ response' = [response EXCEPT ![next] = r]
           /\ listed' = kept \cup {next}
           /\ timer' = [clocks EXCEPT ![next] = IF r = "start" THEN "none" ELSE "armed"]
           /\ life_bound' = TRUE
<1>1. next \in Nat
  BY RegistrationsAssumption DEF ListTypeOK
<1>2. next' # next
  BY <1>1 DEF Registers
<1>3. PICK s \in Response : Channel!Push(kept, clocks, s)
  BY <1>2 DEF Channel!Callback
<1>4. response'[next] = s
  BY <1>3 DEF Channel!Push, Channel!Registration, ListTypeOK, Registration
<1>5. s = r
  BY <1>4 DEF Registers
<1>6. QED
  BY <1>3, <1>5, ResponsesAre DEF Channel!Push, Channel!Registration, Registration, Registers

LEMMA CallbackRegistersNothing ==
    ASSUME ListTypeOK, NEW kept, NEW clocks,
           Channel!Callback(kept, clocks), RegistersNothing
    PROVE  listed' = kept /\ timer' = clocks /\ UNCHANGED <<next, response, life_bound>>
<1>1. next \in Nat
  BY RegistrationsAssumption DEF ListTypeOK
<1>2. QED
  BY <1>1 DEF Channel!Callback, Channel!Push, RegistersNothing

\* The newest registration that accepts t is the one that takes it, ...
LEMMA TakerIs ==
    ASSUME NEW t, NEW e, TakenBy(t, e)
    PROVE  /\ e \in listed /\ t \in Accepts[response[e]]
           /\ \A d \in listed : t \in Accepts[response[d]] => d <= e
BY DEF TakenBy, Channel!Taker

\* ... and a one_shot registration is then gone.
Kept(e) == IF response[e] = "start" THEN listed ELSE listed \ {e}

LEMMA TakenCallback ==
    ASSUME ListTypeOK, CallsTypeOK, NEW t, NEW e, TakenBy(t, e)
    PROVE  /\ Channel!Callback(Kept(e), Channel!Cancelled(e))
           /\ Channel!Cancelled(e) \in [Registration -> {"none", "armed", "queued", "done"}]
           /\ reactions' \in [Registration -> 0..2]
           /\ running' = running /\ timeouts' = timeouts
<1>1. e \in listed /\ e \in Registration /\ response[e] \in Response
  BY TakerIs DEF ListTypeOK
<1>2. PICK d \in Channel!Registration :
          /\ Channel!Taker(t, d)
          /\ Channel!Callback(IF response[d] \in Permanent THEN listed ELSE listed \ {d},
                              Channel!Cancelled(d))
          /\ reactions' = [reactions EXCEPT ![d] = Channel!Bump(@)]
  BY DEF TakenBy, Channel!ProcessCommandInput
<1>3. d = e
  <2>1. d \in Nat /\ e \in Nat /\ d <= e /\ e <= d
    BY <1>1, <1>2 DEF TakenBy, Channel!Taker, Channel!Registration, Registration
  <2>2. QED
    BY <2>1
<1>4. Channel!Callback(Kept(e), Channel!Cancelled(e))
  BY <1>2, <1>3, ResponsesAre DEF Kept
<1>5. Channel!Cancelled(e) \in [Registration -> {"none", "armed", "queued", "done"}]
  BY <1>1 DEF ListTypeOK, Channel!Cancelled
<1>6. reactions' \in [Registration -> 0..2]
  BY <1>1, <1>2, <1>3, BumpType DEF CallsTypeOK
<1>7. QED
  BY <1>4, <1>5, <1>6 DEF TakenBy, Channel!ProcessCommandInput

LEMMA TakenRegisters ==
    ASSUME ListTypeOK, CallsTypeOK, NEW r \in Response, NEW t, NEW e, TakenBy(t, e), Registers(r)
    PROVE  /\ ListTypeOK' /\ CallsTypeOK'
           /\ next \in Registration /\ next' = next + 1
           /\ response' = [response EXCEPT ![next] = r]
           /\ listed' = Kept(e) \cup {next}
<1>1. /\ Channel!Callback(Kept(e), Channel!Cancelled(e))
      /\ Channel!Cancelled(e) \in [Registration -> {"none", "armed", "queued", "done"}]
      /\ reactions' \in [Registration -> 0..2]
      /\ running' = running /\ timeouts' = timeouts
  BY TakenCallback
<1>2. /\ next \in Registration /\ next' = next + 1
      /\ response' = [response EXCEPT ![next] = r]
      /\ listed' = Kept(e) \cup {next}
      /\ timer' = [Channel!Cancelled(e) EXCEPT ![next] = IF r = "start" THEN "none" ELSE "armed"]
      /\ life_bound' = TRUE
  BY <1>1, CallbackRegisters
<1>3. ListTypeOK'
  <2>1. timer' \in [Registration -> {"none", "armed", "queued", "done"}]
    BY <1>1, <1>2
  <2>2. response' \in [Registration -> Response]
    BY <1>2 DEF ListTypeOK
  <2>3. next' \in 1..(MaxRegistrations + 1)
    BY <1>2, RegistrationsAssumption DEF Registration
  <2>4. listed' \subseteq Registration
    BY <1>2 DEF ListTypeOK, Kept
  <2>5. QED
    BY <2>1, <2>2, <2>3, <2>4 DEF ListTypeOK
<1>4. CallsTypeOK'
  BY <1>1, <1>2 DEF CallsTypeOK
<1>5. QED
  BY <1>2, <1>3, <1>4

LEMMA TakenRegistersNothing ==
    ASSUME ListTypeOK, CallsTypeOK, NEW t, NEW e, TakenBy(t, e), RegistersNothing
    PROVE  /\ ListTypeOK' /\ CallsTypeOK'
           /\ UNCHANGED <<next, response>>
           /\ listed' = Kept(e)
<1>1. /\ Channel!Callback(Kept(e), Channel!Cancelled(e))
      /\ Channel!Cancelled(e) \in [Registration -> {"none", "armed", "queued", "done"}]
      /\ reactions' \in [Registration -> 0..2]
      /\ running' = running /\ timeouts' = timeouts
  BY TakenCallback
<1>2. /\ listed' = Kept(e) /\ timer' = Channel!Cancelled(e)
      /\ UNCHANGED <<next, response, life_bound>>
  BY <1>1, CallbackRegistersNothing
<1>3. ListTypeOK'
  BY <1>1, <1>2 DEF ListTypeOK, Kept
<1>4. CallsTypeOK'
  BY <1>1, <1>2 DEF CallsTypeOK
<1>5. QED
  BY <1>2, <1>3, <1>4

\* A timeout ends its own registration, if it is there.
LEMMA TimeoutEffect ==
    ASSUME ListTypeOK, CallsTypeOK, NEW e \in Channel!Registration, CardReadTimeout(e)
    PROVE  /\ ListTypeOK' /\ CallsTypeOK'
           /\ UNCHANGED <<next, response>>
           /\ listed' = listed \ {e}
<1>1. e \in Registration /\ timer[e] = "queued" /\ running' = running /\ reactions' = reactions
  BY DEF CardReadTimeout, Channel!TimeoutExpired, Channel!Registration, Registration
<1>2. CASE e \notin listed
  <2>1. /\ timer' = [timer EXCEPT ![e] = "done"] /\ UNCHANGED <<next, response, listed, life_bound, timeouts>>
    BY <1>2 DEF CardReadTimeout, Channel!TimeoutExpired
  <2>2. ListTypeOK' /\ CallsTypeOK'
    BY <1>1, <2>1 DEF ListTypeOK, CallsTypeOK
  <2>3. QED
    BY <1>2, <2>1, <2>2
<1>3. CASE e \in listed
  <2>1. /\ Channel!Callback(listed \ {e}, [timer EXCEPT ![e] = "done"])
        /\ timeouts' = [timeouts EXCEPT ![e] = Channel!Bump(@)]
    BY <1>3 DEF CardReadTimeout, Channel!TimeoutExpired
  <2>2. /\ listed' = listed \ {e} /\ timer' = [timer EXCEPT ![e] = "done"]
        /\ UNCHANGED <<next, response, life_bound>>
    BY <2>1, CallbackRegistersNothing DEF CardReadTimeout
  <2>3. timeouts' \in [Registration -> 0..2]
    BY <1>1, <2>1, BumpType DEF CallsTypeOK
  <2>4. ListTypeOK'
    BY <1>1, <2>2 DEF ListTypeOK
  <2>5. CallsTypeOK'
    BY <1>1, <2>2, <2>3 DEF CallsTypeOK
  <2>6. QED
    BY <2>2, <2>4, <2>5
<1>4. QED
  BY <1>2, <1>3

-----------------------------------------------------------------------------
(***************************************************************************)
(* A block comes to a session.                                             *)
(***************************************************************************)
LEMMA WholeType == \A c \in Card : 0 \in Whole(c) /\ Whole(c) \subseteq 0..7
BY MoreBlocksAssumption DEF Whole

\* Every set of numbers has a least one.
LEMMA LeastNumber ==
    ASSUME NEW S \in SUBSET Nat, S # {}
    PROVE  \E x \in S : \A y \in S : x <= y
<1> DEFINE R == OpToRel(<, Nat)
<1>1. IsWellFoundedOn(R, Nat)
  BY NatLessThanWellFounded
<1>2. PICK x \in S : \A y \in S : ~(<<y, x>> \in R)
  <2> HIDE DEF R
  <2> QED
    BY <1>1, WFMin
<1>3. \A y \in S : ~(y < x)
  BY <1>2 DEF OpToRel
<1>4. QED
  BY <1>3

LEMMA FirstNeededType ==
    ASSUME NEW S \in SUBSET (0..7), S # {}
    PROVE  FirstNeeded(S) \in S
<1>1. \E x \in S : \A y \in S : x <= y
  BY LeastNumber
<1>2. QED
  BY <1>1 DEF FirstNeeded, Min

\* What the session needs once it knows what block 0 asks for.
Asked(b, c, n) == b.needed \cup (IF n = 0 THEN Whole(c) ELSE {})

LEMMA BlockReadIs ==
    ASSUME NEW b \in Session, NEW c \in Card, NEW n \in Whole(c),
           NEW d, d = BlockRead(b, BlockOf(c, n))
    PROVE  /\ d \in Session /\ d.owner = b.owner /\ d.comm = b.comm
           /\ d.needed = Asked(b, c, n) \ {n}
           /\ n \in Asked(b, c, n) /\ n \notin Gathered(b) => d.read = b.read \cup {[bn |-> n, card |-> c]}
           /\ ~(n \in Asked(b, c, n) /\ n \notin Gathered(b)) => d.read = b.read
<1>1. BlockOf(c, n).bn = n /\ BlockOf(c, n).card = c
  BY DEF BlockOf
<1>2. n \in 0..7 /\ Asked(b, c, n) \subseteq 0..7 /\ [bn |-> n, card |-> c] \in BlockRecord
  BY WholeType DEF Asked, Session, BlockRecord
<1>3. (\E r \in b.read : r.bn = n) <=> n \in Gathered(b)
  BY DEF Gathered
<1>4. d = [b EXCEPT !.needed = Asked(b, c, n) \ {n},
                    !.read = IF n \in Asked(b, c, n) /\ ~(n \in Gathered(b)) THEN b.read \cup {[bn |-> n, card |-> c]} ELSE b.read]
  BY <1>1, <1>3 DEF BlockRead, Whole, Asked, Session
<1>5. /\ b.comm \in Comms /\ b.owner \in Card /\ b.needed \subseteq 0..7 /\ b.read \subseteq BlockRecord
      /\ b = [comm |-> b.comm, owner |-> b.owner, needed |-> b.needed, read |-> b.read]
  BY DEF Session
<1>6. d = [comm |-> b.comm, owner |-> b.owner, needed |-> Asked(b, c, n) \ {n},
           read |-> IF n \in Asked(b, c, n) /\ ~(n \in Gathered(b)) THEN b.read \cup {[bn |-> n, card |-> c]} ELSE b.read]
  BY <1>4, <1>5
<1>7. d \in Session
  BY <1>2, <1>5, <1>6 DEF Session
<1>8. QED
  BY <1>6, <1>7

LEMMA BlockReadKeeps ==
    ASSUME NEW b \in Session, SessionOK(b), NEW c \in Card, NEW n \in Whole(c),
           NEW d, d = BlockRead(b, BlockOf(c, n))
    PROVE  /\ d \in Session /\ d.owner = b.owner /\ d.comm = b.comm
           /\ SessionOK(d)
           /\ Faithful(b) /\ c = b.owner => Faithful(d)
<1> DEFINE asked == Asked(b, c, n)
           entry == [bn |-> n, card |-> c]
<1>1. /\ d \in Session /\ d.owner = b.owner /\ d.comm = b.comm
      /\ d.needed = asked \ {n}
      /\ n \in asked /\ n \notin Gathered(b) => d.read = b.read \cup {entry}
      /\ ~(n \in asked /\ n \notin Gathered(b)) => d.read = b.read
  BY BlockReadIs
<1>2. entry.bn = n /\ entry.card = c
  OBVIOUS
<1> HIDE DEF asked, entry
<1>3. /\ n \in asked => Gathered(d) = Gathered(b) \cup {n}
      /\ n \notin asked => Gathered(d) = Gathered(b)
  BY <1>1, <1>2 DEF Gathered
<1>4. ASSUME NEW cs, MadeOf(b, cs), n = 0
      PROVE  MadeOf(d, cs \cup {c}) \/ MadeOf(d, {c})
  <2>1. asked = b.needed \cup Whole(c) /\ n \in asked
    BY <1>4, WholeType DEF asked, Asked
  <2>2. d.needed \cup Gathered(d) = b.needed \cup Gathered(b) \cup Whole(c)
    BY <1>1, <1>3, <2>1
  <2>3. CASE b.read = {} /\ b.needed = {0}
    <3>1. Gathered(b) = {}
      BY <2>3 DEF Gathered
    <3>2. d.needed \cup Gathered(d) = Whole(c)
      BY <2>2, <2>3, <3>1, WholeType
    <3>3. QED
      BY <3>2 DEF MadeOf
  <2>4. CASE b.needed \cup Gathered(b) = UNION {Whole(x) : x \in cs}
    BY <2>2, <2>4 DEF MadeOf
  <2>5. QED
    BY <1>4, <2>3, <2>4 DEF MadeOf
<1>5. ASSUME NEW cs, MadeOf(b, cs), n # 0
      PROVE  MadeOf(d, cs)
  <2>1. asked = b.needed
    BY <1>5 DEF asked, Asked
  <2>2. CASE b.read = {} /\ b.needed = {0}
    BY <1>1, <1>5, <2>1, <2>2 DEF MadeOf
  <2>3. CASE b.needed \cup Gathered(b) = UNION {Whole(x) : x \in cs}
    <3>1. d.needed \cup Gathered(d) = b.needed \cup Gathered(b)
      <4>1. CASE n \in asked
        BY <1>1, <1>3, <2>1, <4>1
      <4>2. CASE n \notin asked
        BY <1>1, <1>3, <2>1, <4>2
      <4>3. QED
        BY <4>1, <4>2
    <3>2. QED
      BY <2>3, <3>1 DEF MadeOf
  <2>4. QED
    BY <1>5, <2>2, <2>3 DEF MadeOf
<1>6. SessionOK(d)
  <2>1. OneOfEach(d)
    BY <1>1, <1>2 DEF SessionOK, OneOfEach, Gathered
  <2>2. PICK cs \in SUBSET Card : cs # {} /\ MadeOf(b, cs)
    BY DEF SessionOK
  <2>3. \E ds \in SUBSET Card : ds # {} /\ MadeOf(d, ds)
    <3>1. {c} \in SUBSET Card /\ {c} # {} /\ cs \cup {c} \in SUBSET Card /\ cs \cup {c} # {}
      OBVIOUS
    <3>2. CASE n = 0
      BY <1>4, <2>2, <3>1, <3>2
    <3>3. CASE n # 0
      BY <1>5, <2>2, <3>3
    <3>4. QED
      BY <3>2, <3>3
  <2>4. QED
    BY <1>1, <2>1, <2>3 DEF SessionOK
<1>7. ASSUME Faithful(b), c = b.owner
      PROVE  Faithful(d)
  <2>1. MadeOf(d, {c})
    <3>1. MadeOf(b, {c}) /\ {c} \cup {c} = {c}
      BY <1>7 DEF Faithful
    <3>2. CASE n = 0
      BY <1>4, <3>1, <3>2
    <3>3. CASE n # 0
      BY <1>5, <3>1, <3>3
    <3>4. QED
      BY <3>2, <3>3
  <2>2. \A r \in d.read : r.card = c
    BY <1>1, <1>2, <1>7 DEF Faithful
  <2>3. QED
    BY <1>1, <1>7, <2>1, <2>2 DEF Faithful
<1>8. QED
  BY <1>1, <1>6, <1>7

\* A session that needs nothing more has all blocks of the cards it is made of, and of
\* its own card only as long as no removal gets lost.
LEMMA NothingNeeded ==
    ASSUME NEW b \in Session, b.needed = {}
    PROVE  /\ \A cs : MadeOf(b, cs) => Gathered(b) = UNION {Whole(c) : c \in cs}
           /\ Faithful(b) => b.read = {[bn |-> n, card |-> b.owner] : n \in Whole(b.owner)}
<1>1. ASSUME NEW cs, MadeOf(b, cs)
      PROVE  Gathered(b) = UNION {Whole(c) : c \in cs}
  BY <1>1 DEF MadeOf
<1>2. ASSUME Faithful(b)
      PROVE  b.read = {[bn |-> n, card |-> b.owner] : n \in Whole(b.owner)}
  <2>1. Gathered(b) = Whole(b.owner)
    BY <1>1, <1>2 DEF Faithful
  <2>2. \A r \in b.read : r = [bn |-> r.bn, card |-> b.owner] /\ r.bn \in Whole(b.owner)
    BY <1>2, <2>1 DEF Faithful, Session, BlockRecord, Gathered
  <2>3. \A n \in Whole(b.owner) : \E r \in b.read : r.bn = n
    BY <2>1 DEF Gathered
  <2>4. QED
    BY <2>2, <2>3
<1>3. QED
  BY <1>1, <1>2

-----------------------------------------------------------------------------
(***************************************************************************)
(* The line, the list and the sessions after a step.  The protocol stays,  *)
(* so the station says the same of its cards.                              *)
(***************************************************************************)
LEMMA SameProtocol ==
    ASSUME UNCHANGED protocol
    PROVE  /\ ReadableCard' = ReadableCard /\ Message' = Message
           /\ \A c : InsertedOf(c)' = InsertedOf(c)
BY DEF ReadableCard, Readable, Message, Said, InsertedOf, RemovedOf, BlockOf, Comm

LEMMA SameLine ==
    ASSUME InOrder, UNCHANGED <<line, protocol, reader, lost>>,
           \A c \in Card : Reads(c)' => Reads(c)
    PROVE  InOrder'
<1>1. \A c \in Card : \A j : After(c, j)' => After(c, j)
  BY SameProtocol DEF After, Moves
<1>2. QED
  BY <1>1 DEF InOrder, Heard

\* The io thread takes the first command of the line.
LEMMA LineGoesOn ==
    ASSUME InOrder, line \in Seq(Message), line # <<>>, line' = Tail(line),
           UNCHANGED <<protocol, reader, lost>>,
           \A c \in Card : Heard /\ Reads(c)' =>
               \/ Reads(c) /\ ~Moves(Head(line))
               \/ Head(line) = InsertedOf(c)
    PROVE  InOrder'
<1>1. /\ Len(line) \in Nat /\ Len(line') \in Nat /\ Len(line) = Len(line') + 1
      /\ Head(line) = line[1]
      /\ \A k \in 1..Len(line') : line'[k] = line[k + 1]
  OBVIOUS
<1>2. ASSUME Heard, NEW c \in Card, NEW j \in 0..Len(line'), After(c, j)'
      PROVE  After(c, j + 1)
  <2>1. \A k \in 1..j : line'[k] = line[k + 1]
    BY <1>1
  <2>2. CASE Reads(c)' /\ \A k \in 1..j : ~Moves(line'[k])
    <3>1. \A k \in 2..(j + 1) : ~Moves(line[k])
      <4>1. ASSUME NEW k \in 2..(j + 1)
            PROVE  ~Moves(line[k])
        <5>1. k - 1 \in 1..j /\ (k - 1) + 1 = k
          OBVIOUS
        <5>2. QED
          BY <2>1, <2>2, <5>1
      <4>2. QED
        BY <4>1
    <3>2. CASE Reads(c) /\ ~Moves(Head(line))
      <4>1. \A k \in 1..(j + 1) : k = 1 \/ k \in 2..(j + 1)
        OBVIOUS
      <4>2. QED
        BY <1>1, <3>1, <3>2, <4>1 DEF After
    <3>3. CASE Head(line) = InsertedOf(c)
      <4>1. 1 \in 1..(j + 1) /\ 1 + 1 = 2
        OBVIOUS
      <4>2. QED
        BY <1>1, <3>1, <3>3, <4>1 DEF After
    <3>4. QED
      BY <1>2, <2>2, <3>2, <3>3
  <2>3. ASSUME NEW i \in 1..j, line'[i] = InsertedOf(c),
               \A k \in (i + 1)..j : ~Moves(line'[k])
        PROVE  After(c, j + 1)
    <3>1. i + 1 \in 1..(j + 1) /\ line[i + 1] = InsertedOf(c)
      BY <2>1, <2>3
    <3>2. ASSUME NEW k \in ((i + 1) + 1)..(j + 1)
          PROVE  ~Moves(line[k])
      <4>1. k - 1 \in (i + 1)..j /\ k - 1 \in 1..j /\ (k - 1) + 1 = k
        OBVIOUS
      <4>2. QED
        BY <2>1, <2>3, <4>1
    <3>3. QED
      BY <3>1, <3>2 DEF After
  <2>4. QED
    BY <1>2, <2>2, <2>3, SameProtocol DEF After, Moves
<1>3. ASSUME Heard, NEW c \in Card, NEW j \in 0..Len(line'), After(c, j)'
      PROVE  /\ j = Len(line') => reader' = c
             /\ j < Len(line') => /\ line'[j + 1].type \notin Inserted
                                  /\ line'[j + 1].type \in Get => line'[j + 1].card = c
  <2>1. After(c, j + 1) /\ j + 1 \in 0..Len(line)
    BY <1>1, <1>2, <1>3
  <2>2. j < Len(line') => line'[j + 1] = line[(j + 1) + 1] /\ j + 1 < Len(line)
    BY <1>1
  <2>3. j = Len(line') => j + 1 = Len(line)
    BY <1>1
  <2>4. QED
    BY <1>3, <2>1, <2>2, <2>3 DEF InOrder
<1>4. QED
  BY <1>3 DEF InOrder, Heard

\* The station sends m.
LEMMA LineGrows ==
    ASSUME InOrder, line \in Seq(Message), NEW m, line' = Append(line, m),
           UNCHANGED protocol, Heard' => Heard,
           \A c \in Card : Reads(c)' => Reads(c),
           \A c \in Card : Heard /\ After(c, Len(line)) =>
               m.type \notin Inserted /\ (m.type \in Get => m.card = c),
           \A c \in Card : Heard' /\ m = InsertedOf(c) => reader' = c,
           \A c \in Card : Heard' /\ ~Moves(m) /\ After(c, Len(line)) => reader' = c
    PROVE  InOrder'
<1>1. /\ Len(line) \in Nat /\ Len(line') = Len(line) + 1
      /\ \A k \in 1..Len(line) : line'[k] = line[k]
      /\ line'[Len(line) + 1] = m
  OBVIOUS
<1>2. ASSUME NEW c \in Card, NEW j \in 0..Len(line), After(c, j)'
      PROVE  After(c, j)
  <2>1. \A k \in 1..j : line'[k] = line[k]
    BY <1>1
  <2>2. \A i \in 1..j : \A k \in (i + 1)..j : line'[k] = line[k]
    BY <1>1
  <2>3. QED
    BY <1>2, <2>1, <2>2, SameProtocol DEF After, Moves
<1>3. ASSUME NEW c \in Card, NEW j, j = Len(line) + 1, After(c, j)'
      PROVE  m = InsertedOf(c) \/ (~Moves(m) /\ After(c, Len(line)))
  <2> DEFINE n == Len(line)
  <2>1. \A k \in 1..n : line'[k] = line[k]
    BY <1>1
  <2>2. CASE Reads(c)' /\ \A k \in 1..(n + 1) : ~Moves(line'[k])
    <3>1. n + 1 \in 1..(n + 1) /\ \A k \in 1..n : k \in 1..(n + 1)
      BY <1>1
    <3>2. ~Moves(m) /\ \A k \in 1..n : ~Moves(line[k])
      BY <1>1, <2>1, <2>2, <3>1
    <3>3. QED
      BY <2>2, <3>2 DEF After
  <2>3. ASSUME NEW i \in 1..(n + 1), line'[i] = InsertedOf(c),
               \A k \in (i + 1)..(n + 1) : ~Moves(line'[k])
        PROVE  m = InsertedOf(c) \/ (~Moves(m) /\ After(c, Len(line)))
    <3>1. CASE i = n + 1
      BY <1>1, <2>3, <3>1
    <3>2. CASE i # n + 1
      <4>1. i \in 1..n /\ n + 1 \in (i + 1)..(n + 1)
        BY <1>1, <3>2
      <4>2. line[i] = InsertedOf(c) /\ ~Moves(m)
        BY <1>1, <2>1, <2>3, <4>1
      <4>3. \A k \in (i + 1)..n : ~Moves(line[k])
        <5>1. \A k \in (i + 1)..n : k \in 1..n /\ k \in (i + 1)..(n + 1)
          BY <1>1
        <5>2. QED
          BY <2>1, <2>3, <5>1
      <4>4. QED
        BY <4>1, <4>2, <4>3 DEF After
    <3>3. QED
      BY <3>1, <3>2
  <2>4. QED
    BY <1>3, <2>2, <2>3, SameProtocol DEF After, Moves
<1>4. ASSUME Heard', NEW c \in Card, NEW j \in 0..Len(line'), After(c, j)'
      PROVE  /\ j = Len(line') => reader' = c
             /\ j < Len(line') => /\ line'[j + 1].type \notin Inserted
                                  /\ line'[j + 1].type \in Get => line'[j + 1].card = c
  <2>1. CASE j = Len(line) + 1
    <3>1. m = InsertedOf(c) \/ (~Moves(m) /\ After(c, Len(line)))
      BY <1>3, <1>4, <2>1
    <3>2. reader' = c
      BY <1>4, <3>1
    <3>3. j = Len(line') /\ ~(j < Len(line'))
      BY <1>1, <2>1
    <3>4. QED
      BY <3>2, <3>3
  <2>2. CASE j = Len(line)
    <3>1. After(c, Len(line)) /\ Heard
      BY <1>2, <1>4, <2>2
    <3>2. m.type \notin Inserted /\ (m.type \in Get => m.card = c)
      BY <3>1
    <3>3. j # Len(line') /\ line'[j + 1] = m
      BY <1>1, <2>2
    <3>4. QED
      BY <3>2, <3>3
  <2>3. CASE j < Len(line)
    <3>1. After(c, j) /\ Heard /\ j \in 0..Len(line)
      BY <1>1, <1>2, <1>4, <2>3
    <3>2. line'[j + 1] = line[j + 1] /\ j # Len(line')
      BY <1>1, <2>3
    <3>3. QED
      BY <2>3, <3>1, <3>2 DEF InOrder
  <2>4. QED
    BY <1>1, <2>1, <2>2, <2>3
<1>5. QED
  BY <1>4 DEF InOrder

\* The sessions there are keep their card and their commands.
SessionsStay == \A s \in DOMAIN blocks : /\ s \in DOMAIN blocks'
                                         /\ blocks'[s].owner = blocks[s].owner
                                         /\ blocks'[s].comm = blocks[s].comm

\* No new registration: no new session either.
LEMMA ListShrinks ==
    ASSUME ListTypeOK, ListOK, OneSession, UNCHANGED <<next, response, session>>,
           listed' \subseteq listed, SessionsStay, Heard' => Heard
    PROVE  ListOK' /\ OneSession' /\ \A c \in Card : Reads(c)' => Reads(c)
<1>1. \A e \in listed : e < next /\ Serves(e)
  BY DEF ListOK
<1>2. \A e \in listed : Serves(e)'
  BY <1>1 DEF Serves, SessionsStay
<1>3. ListOK'
  BY <1>1, <1>2 DEF ListOK
<1>4. OneSession'
  BY DEF OneSession
<1>5. ASSUME NEW c \in Card, Reads(c)'
      PROVE  Reads(c)
  <2>1. PICK e \in listed : session[e] # 0 /\ blocks'[session[e]].owner = c
    BY <1>5 DEF Reads
  <2>2. session[e] \in DOMAIN blocks
    BY <1>1, <2>1 DEF Serves
  <2>3. QED
    BY <2>1, <2>2 DEF Reads, SessionsStay
<1>6. QED
  BY <1>3, <1>4, <1>5

\* A registration for the session s, when those of kept stay: none of them is of s.
LEMMA ListGrows ==
    ASSUME ListTypeOK, ListOK, ReadoutTypeOK, NEW kept \in SUBSET listed, NEW s \in DOMAIN blocks',
           NEW r, r = blocks'[s].comm.get,
           next \in Registration, next' = next + 1,
           response' = [response EXCEPT ![next] = r],
           session' = [session EXCEPT ![next] = s],
           listed' = kept \cup {next}, SessionsStay,
           \A e \in kept : session[e] # s,
           Heard' => \A e \in kept : session[e] = 0
    PROVE  /\ ListOK' /\ OneSession'
           /\ \A c \in Card : Reads(c)' => \/ blocks'[s].owner = c
                                           \/ ~Heard' /\ Reads(c)
<1>1. \A e \in listed : e < next /\ Serves(e) /\ e \in Registration /\ e # next
  BY DEF ListOK, ListTypeOK, Registration
<1>2. /\ \A e \in Registration : e # next => response'[e] = response[e] /\ session'[e] = session[e]
      /\ response'[next] = r /\ session'[next] = s
  BY DEF ListTypeOK, ReadoutTypeOK
<1>3. \A e \in kept : e \in listed /\ response'[e] = response[e] /\ session'[e] = session[e]
  BY <1>1, <1>2
<1>4. \A e \in listed' : e < next' /\ Serves(e)'
  <2>1. \A e \in kept : Serves(e)'
    BY <1>1, <1>3 DEF Serves, SessionsStay
  <2>2. session'[next] \in DOMAIN blocks' /\ response'[next] = blocks'[session'[next]].comm.get
    BY <1>2
  <2>3. \A e \in listed' : e < next'
    BY <1>1 DEF Registration
  <2>4. \A e : e = next => Serves(e)'
    BY <2>2 DEF Serves
  <2>5. QED
    BY <2>1, <2>3, <2>4
<1>5. \A e \in Registration : e >= next' => session'[e] = 0
  BY <1>2 DEF ListOK, Registration
<1>6. \A d, e \in listed' : session'[d] # 0 /\ session'[d] = session'[e] => d = e
  BY <1>2, <1>3 DEF ListOK
<1>7. ListOK'
  BY <1>4, <1>5, <1>6 DEF ListOK
<1>8. OneSession'
  BY <1>2, <1>3 DEF OneSession
<1>9. ASSUME NEW c \in Card, Reads(c)', blocks'[s].owner # c
      PROVE  ~Heard' /\ Reads(c)
  <2>1. PICK e \in listed' : session'[e] # 0 /\ blocks'[session'[e]].owner = c
    BY <1>9 DEF Reads
  <2>2. e \in kept
    BY <1>2, <1>9, <2>1
  <2>3. session[e] \in DOMAIN blocks /\ session[e] # 0 /\ ~Heard'
    BY <1>1, <1>3, <2>1, <2>2 DEF Serves
  <2>4. QED
    BY <1>3, <2>1, <2>2, <2>3 DEF Reads, SessionsStay
<1>10. QED
  BY <1>7, <1>8, <1>9

\* The sessions stay as they are, but for those that are new or go on.
LEMMA SessionsKept ==
    ASSUME SessionsOK, UNCHANGED protocol, Heard' => Heard,
           \A s \in DOMAIN blocks' : \/ s \in DOMAIN blocks /\ blocks'[s] = blocks[s]
                                     \/ /\ SessionOK(blocks'[s])
                                        /\ Heard => Faithful(blocks'[s])
    PROVE  SessionsOK'
<1>1. ASSUME NEW b, SessionOK(b)
      PROVE  SessionOK(b)'
  BY <1>1, SameProtocol DEF SessionOK, Comm
<1>2. ASSUME NEW s \in DOMAIN blocks'
      PROVE  SessionOK(blocks'[s]) /\ (Heard => Faithful(blocks'[s]))
  BY <1>2 DEF SessionsOK
<1>3. \A s \in DOMAIN blocks' : SessionOK(blocks[s])'
  BY <1>2, SameProtocol DEF SessionOK, Comm
<1>4. QED
  BY <1>2, <1>3 DEF SessionsOK, Faithful, MadeOf, Gathered

-----------------------------------------------------------------------------
LEMMA InitIInv == Init => IInv
<1> SUFFICES ASSUME Init PROVE IInv
  OBVIOUS
<1> DEFINE some == CHOOSE r \in Response : TRUE
<1>1. some \in Response
  BY ResponsesAre
<1>2. /\ response = [e \in Registration |-> some]
      /\ next = 1 /\ listed = {} /\ timer = [e \in Registration |-> "none"]
      /\ reactions = [e \in Registration |-> 0] /\ timeouts = [e \in Registration |-> 0]
      /\ life_bound = FALSE /\ running = TRUE
      /\ session = [e \in Registration |-> 0]
  BY DEF Init, Channel!Init, Channel!Registration, Registration
<1> HIDE DEF some
<1>3. ListTypeOK
  BY <1>1, <1>2, RegistrationsAssumption DEF ListTypeOK, Registration
<1>4. CallsTypeOK
  <2>1. reactions \in [Registration -> 0..2] /\ timeouts \in [Registration -> 0..2]
    BY <1>2
  <2>2. life_bound \in BOOLEAN /\ running \in BOOLEAN
    BY <1>2
  <2>3. QED
    BY <2>1, <2>2 DEF CallsTypeOK
<1>5. StationTypeOK /\ LineTypeOK
  <2>1. hung \in BOOLEAN
    BY DEF Init
  <2>2. QED
    BY <2>1, InsertionsAssumption DEF Init, StationTypeOK, LineTypeOK
<1>6. ReadoutTypeOK
  BY <1>2 DEF Init, ReadoutTypeOK
<1>7. SessionsOK /\ ListOK /\ OneSession /\ RecordIsWhole
  BY <1>2 DEF Init, SessionsOK, ListOK, OneSession, RecordIsWhole
<1>8. InOrder
  BY <1>2 DEF Init, InOrder, After, Reads
<1>9. QED
  BY <1>3, <1>4, <1>5, <1>6, <1>7, <1>8 DEF IInv, TypesOK

(***************************************************************************)
(* The station announces, refuses and gives blocks: the channel and the    *)
(* sessions stay as they are.                                              *)
(***************************************************************************)
LEMMA StationMoves ==
    ASSUME IInv, UNCHANGED <<channel, protocol, readout>>, Heard' => Heard,
           StationTypeOK', LineTypeOK', InOrder'
    PROVE  IInv'
<1>1. /\ UNCHANGED <<next, response, timer, listed, life_bound, running, reactions, timeouts>>
      /\ UNCHANGED <<blocks, session, records, protocol>>
  BY DEF channel, readout
<1>2. TypesOK'
  BY <1>1 DEF IInv, TypesOK, ListTypeOK, CallsTypeOK, ReadoutTypeOK
<1>3. SessionsOK'
  BY <1>1, SessionsKept DEF IInv
<1>4. SessionsStay
  BY <1>1 DEF SessionsStay
<1>5. ListOK' /\ OneSession'
  BY <1>1, <1>4, ListShrinks DEF IInv, TypesOK
<1>6. RecordIsWhole'
  BY <1>1 DEF IInv, RecordIsWhole, Heard
<1>7. QED
  BY <1>2, <1>3, <1>5, <1>6 DEF IInv

LEMMA InsertCardKeeps == ASSUME IInv, NEW c \in Card, InsertCard(c) PROVE IInv'
<1> DEFINE m == InsertedOf(c)
<1>1. /\ reader = NoCard /\ insertions < MaxInsertions /\ c \in ReadableCard
      /\ reader' = c /\ insertions' = insertions + 1
      /\ UNCHANGED <<channel, protocol, outgoing, readout, hung>>
      /\ \/ line' = Append(line, m) /\ lost' = lost
         \/ line' = line /\ lost' = lost \cup {"insertion"}
  BY DEF InsertCard, Announces, ReadableCard, InsertedOf
<1>2. m \in Message
  BY <1>1 DEF Message, Said
<1>3. UNCHANGED <<listed, session, blocks, protocol>>
  BY <1>1 DEF channel, readout
<1>4. \A d \in Card : Reads(d)' => Reads(d)
  BY <1>3 DEF Reads
<1>5. Heard' <=> Heard
  BY <1>1 DEF Heard
<1>6. StationTypeOK'
  <2>1. hung' \in BOOLEAN
    BY <1>1 DEF IInv, TypesOK, StationTypeOK
  <2>2. ReadableCard' = ReadableCard /\ protocol' = protocol
    BY <1>1, SameProtocol
  <2>3. insertions' \in 0..MaxInsertions
    BY <1>1, InsertionsAssumption DEF IInv, TypesOK, StationTypeOK
  <2>4. lost' \subseteq {"insertion", "removal"}
    BY <1>1 DEF IInv, TypesOK, StationTypeOK
  <2>5. reader' \in ReadableCard' \cup {NoCard} /\ protocol' \in DOMAIN comm_switch
    BY <1>1, <2>2 DEF IInv, TypesOK, StationTypeOK
  <2>6. QED
    BY <2>1, <2>3, <2>4, <2>5 DEF StationTypeOK
<1>7. LineTypeOK'
  <2>1. line' \in Seq(Message)
    BY <1>1, <1>2 DEF IInv, TypesOK, LineTypeOK
  <2>2. QED
    BY <1>1, <2>1, SameProtocol DEF IInv, TypesOK, LineTypeOK
<1>8. \A d \in Card : Heard => ~After(d, Len(line))
  <2>1. Len(line) \in 0..Len(line)
    BY DEF IInv, TypesOK, LineTypeOK
  <2>2. QED
    BY <1>1, <2>1, NoCardAssumption DEF IInv, InOrder
<1>9. InOrder'
  <2>1. CASE line' = Append(line, m) /\ lost' = lost
    <3>1. \A d \in Card : m = InsertedOf(d) => reader' = d
      BY <1>1 DEF InsertedOf
    <3>2. QED
      BY <1>3, <1>4, <1>5, <1>8, <2>1, <3>1, LineGrows DEF IInv, TypesOK, LineTypeOK
  <2>2. CASE line' = line /\ lost' = lost \cup {"insertion"}
    <3>1. \A d \in Card : \A j : After(d, j)' => After(d, j)
      BY <1>3, <1>4, <2>2, SameProtocol DEF After, Moves
    <3>2. \A d \in Card : Heard => ~After(d, Len(line))'
      BY <1>8, <2>2, <3>1
    <3>3. QED
      BY <1>5, <2>2, <3>1, <3>2, <1>8 DEF IInv, InOrder
  <2>3. QED
    BY <1>1, <2>1, <2>2
<1>10. QED
  BY <1>1, <1>5, <1>6, <1>7, <1>9, StationMoves

LEMMA RemoveCardKeeps == ASSUME IInv, RemoveCard PROVE IInv'
<1> DEFINE m == RemovedOf(reader)
<1>1. /\ reader \in ReadableCard /\ reader' = NoCard
      /\ UNCHANGED <<channel, protocol, insertions, outgoing, readout, hung>>
      /\ \/ line' = Append(line, m) /\ lost' = lost
         \/ line' = line /\ lost' = lost \cup {"removal"}
  BY DEF RemoveCard, Announces, RemovedOf, IInv, TypesOK, StationTypeOK
<1>2. m \in Message /\ m.type \in Removed
  BY <1>1, CommOfCard DEF Message, Said, RemovedOf, IInv, TypesOK
<1>3. UNCHANGED <<listed, session, blocks, protocol>>
  BY <1>1 DEF channel, readout
<1>4. \A d \in Card : Reads(d)' => Reads(d)
  BY <1>3 DEF Reads
<1>5. Heard' => Heard
  BY <1>1 DEF Heard
<1>6. StationTypeOK'
  <2>1. hung' \in BOOLEAN
    BY <1>1 DEF IInv, TypesOK, StationTypeOK
  <2>2. QED
    BY <1>1, <2>1 DEF IInv, TypesOK, StationTypeOK
<1>7. LineTypeOK'
  <2>1. line' \in Seq(Message)
    BY <1>1, <1>2 DEF IInv, TypesOK, LineTypeOK
  <2>2. QED
    BY <1>1, <2>1, SameProtocol DEF IInv, TypesOK, LineTypeOK
<1>8. InOrder'
  <2>1. CASE line' = Append(line, m) /\ lost' = lost
    <3>1. Moves(m) /\ m.type \notin Inserted /\ m.type \notin Get
      BY <1>2, KindsDiffer DEF Moves
    <3>2. \A d \in Card : m # InsertedOf(d)
      <4>1. DOMAIN m = {"type"} /\ \A d : DOMAIN InsertedOf(d) = {"type", "card"}
        BY DEF RemovedOf, InsertedOf
      <4>2. {"type"} # {"type", "card"}
        OBVIOUS
      <4>3. QED
        BY <4>1, <4>2
    <3>3. QED
      BY <1>3, <1>4, <1>5, <2>1, <3>1, <3>2, LineGrows DEF IInv, TypesOK, LineTypeOK
  <2>2. CASE line' = line /\ lost' = lost \cup {"removal"}
    BY <2>2 DEF InOrder, Heard
  <2>3. QED
    BY <1>1, <2>1, <2>2
<1>9. QED
  BY <1>1, <1>5, <1>6, <1>7, <1>8, StationMoves

\* Blocks are of the card that is there, which is the one whose session is open when
\* they arrive.
LEMMA ServeKeeps == ASSUME IInv, Serve PROVE IInv'
<1> DEFINE asked == Head(outgoing)
<1>1. /\ outgoing # <<>> /\ outgoing' = Tail(outgoing)
      /\ UNCHANGED <<channel, protocol, station, readout, hung>>
      /\ \/ line' = line
         \/ /\ asked.type = Comm(reader).get /\ asked.bn \in Whole(reader) /\ reader # NoCard
            /\ line' = Append(line, [type |-> asked.type, bn |-> asked.bn, card |-> reader])
         \/ line' = Append(line, [type |-> "nak"])
  BY DEF Serve, Whole
<1>2. UNCHANGED <<listed, session, blocks, protocol, reader, insertions, lost, hung>>
  BY <1>1 DEF channel, readout, station
<1>3. \A d \in Card : Reads(d)' => Reads(d)
  BY <1>2 DEF Reads
<1>4. Heard' <=> Heard
  BY <1>2 DEF Heard
<1>5. StationTypeOK'
  <2>1. ReadableCard' = ReadableCard
    BY <1>2, SameProtocol
  <2>2. hung' \in BOOLEAN
    BY <1>2 DEF IInv, TypesOK, StationTypeOK
  <2>3. QED
    BY <1>2, <2>1, <2>2 DEF IInv, TypesOK, StationTypeOK
<1>6. outgoing' \in Seq(Request)
  BY <1>1 DEF IInv, TypesOK, LineTypeOK
<1>7. ASSUME NEW m \in Message, line' = Append(line, m), m.type \notin Inserted \cup Removed,
             m.type \in Get => m.card = reader,
             \A c \in Card : m # InsertedOf(c)
      PROVE  LineTypeOK' /\ InOrder'
  <2>1. line' \in Seq(Message)
    BY <1>7 DEF IInv, TypesOK, LineTypeOK
  <2>2. LineTypeOK'
    BY <1>2, <1>6, <2>1, SameProtocol DEF LineTypeOK
  <2>3. \A c \in Card : Heard /\ After(c, Len(line)) => reader = c
    <3>1. Len(line) \in 0..Len(line)
      BY DEF IInv, TypesOK, LineTypeOK
    <3>2. QED
      BY <3>1 DEF IInv, InOrder
  <2>4. /\ \A c \in Card : Heard /\ After(c, Len(line)) =>
               m.type \notin Inserted /\ (m.type \in Get => m.card = c)
        /\ \A c \in Card : Heard' /\ m = InsertedOf(c) => reader' = c
        /\ \A c \in Card : Heard' /\ ~Moves(m) /\ After(c, Len(line)) => reader' = c
    BY <1>2, <1>4, <1>7, <2>3
  <2>5. InOrder'
    BY <1>2, <1>3, <1>4, <1>7, <2>4, LineGrows DEF IInv, TypesOK, LineTypeOK
  <2>6. QED
    BY <2>2, <2>5
<1>8. \A d : DOMAIN InsertedOf(d) = {"type", "card"} /\ {"type"} # {"type", "card"}
      /\ {"type", "bn", "card"} # {"type", "card"}
  BY DEF InsertedOf
<1>9. LineTypeOK' /\ InOrder'
  <2>1. CASE line' = line
    <3>1. LineTypeOK'
      BY <1>2, <1>6, <2>1, SameProtocol DEF IInv, TypesOK, LineTypeOK
    <3>2. QED
      BY <1>2, <1>3, <2>1, <3>1, SameLine DEF IInv
  <2>2. CASE /\ asked.type = Comm(reader).get /\ asked.bn \in Whole(reader) /\ reader # NoCard
             /\ line' = Append(line, [type |-> asked.type, bn |-> asked.bn, card |-> reader])
    <3> DEFINE m == [type |-> asked.type, bn |-> asked.bn, card |-> reader]
    <3>1. reader \in ReadableCard
      BY <2>2 DEF IInv, TypesOK, StationTypeOK
    <3>2. m = BlockOf(reader, asked.bn)
      BY <2>2 DEF BlockOf
    <3>3. m \in Message
      BY <2>2, <3>1, <3>2 DEF Message, Said
    <3>4. m.type \notin Inserted \cup Removed /\ m.card = reader
      BY <2>2, <3>1, CommOfCard, KindsDiffer DEF IInv, TypesOK
    <3>5. \A c \in Card : m # InsertedOf(c)
      BY <1>8
    <3> HIDE DEF m
    <3>6. QED
      BY <1>7, <2>2, <3>3, <3>4, <3>5 DEF m
  <2>3. CASE line' = Append(line, [type |-> "nak"])
    <3> DEFINE m == [type |-> "nak"]
    <3>1. m \in Message /\ m.type = "nak"
      BY DEF Message
    <3>2. \A c \in Card : m # InsertedOf(c)
      BY <1>8
    <3> HIDE DEF m
    <3>3. QED
      BY <1>7, <2>3, <3>1, <3>2, KindsDiffer DEF m
  <2>4. QED
    BY <1>1, <2>1, <2>2, <2>3
<1>10. QED
  BY <1>1, <1>4, <1>5, <1>9, StationMoves

(***************************************************************************)
(* The first registration is the one of start.                             *)
(***************************************************************************)
LEMMA StartKeeps == ASSUME IInv, Start PROVE IInv'
<1>1. /\ next = 1 /\ Channel!Push(listed, timer, "start")
      /\ UNCHANGED <<running, reactions, timeouts>>
      /\ UNCHANGED <<protocol, station, outgoing, line, readout, hung>>
  BY DEF Start, Channel!Register
<1>2. /\ 1 \in Registration /\ next' = 2
      /\ response' = [response EXCEPT ![1] = "start"]
      /\ timer' = [timer EXCEPT ![1] = "none"]
      /\ listed' = listed \cup {1} /\ life_bound' = TRUE
  BY <1>1, ResponsesAre DEF Channel!Push, Channel!Registration, Registration
<1>3. listed = {}
  BY <1>1 DEF IInv, TypesOK, ListOK, ListTypeOK, Registration
<1>4. UNCHANGED <<reader, insertions, lost, blocks, session, records, protocol, outgoing, line, hung>>
  BY <1>1 DEF station, readout
<1>5. ListTypeOK'
  <2>1. next' \in 1..(MaxRegistrations + 1)
    BY <1>2, RegistrationsAssumption DEF Registration
  <2>2. response' \in [Registration -> Response]
    BY <1>2, ResponsesAre DEF IInv, TypesOK, ListTypeOK
  <2>3. timer' \in [Registration -> {"none", "armed", "queued", "done"}] /\ listed' \subseteq Registration
    BY <1>2, <1>3 DEF IInv, TypesOK, ListTypeOK
  <2>4. QED
    BY <2>1, <2>2, <2>3 DEF ListTypeOK
<1>6. CallsTypeOK'
  BY <1>1, <1>2 DEF IInv, TypesOK, CallsTypeOK
<1>7. StationTypeOK' /\ LineTypeOK' /\ ReadoutTypeOK'
  <2>1. hung' \in BOOLEAN
    BY <1>4 DEF IInv, TypesOK, StationTypeOK
  <2>2. QED
    BY <1>4, <2>1, SameProtocol DEF IInv, TypesOK, StationTypeOK, LineTypeOK, ReadoutTypeOK
<1>8. SessionsOK' /\ RecordIsWhole'
  BY <1>4, SessionsKept DEF IInv, Heard, RecordIsWhole
<1>9. response'[1] = "start" /\ session'[1] = 0 /\ listed' = {1}
  BY <1>1, <1>2, <1>3, <1>4 DEF IInv, TypesOK, ListTypeOK, ListOK
<1>10. ListOK'
  <2>1. \A e : e = 1 => Serves(e)'
    BY <1>9 DEF Serves
  <2>2. \A e \in Registration : e >= next' => session'[e] = 0
    BY <1>1, <1>2, <1>4 DEF IInv, ListOK, Registration
  <2>3. QED
    BY <1>2, <1>9, <2>1, <2>2 DEF ListOK
<1>11. OneSession'
  BY <1>9 DEF OneSession
<1>12. InOrder'
  <2>1. \A c \in Card : Reads(c)' => Reads(c)
    BY <1>9 DEF Reads
  <2>2. QED
    BY <1>4, <2>1, SameLine DEF IInv
<1>13. QED
  BY <1>5, <1>6, <1>7, <1>8, <1>10, <1>11, <1>12 DEF IInv, TypesOK

-----------------------------------------------------------------------------
(***************************************************************************)
(* The io thread handles the first command of the line.                    *)
(***************************************************************************)
LEMMA HandledLine ==
    ASSUME IInv, NEW t, Handles(t)
    PROVE  /\ line \in Seq(Message) /\ line # <<>> /\ line' = Tail(line)
           /\ Head(line) \in Message /\ Head(line).type = t /\ Head(line) = line[1]
           /\ 0 \in 0..Len(line) /\ 0 < Len(line)
           /\ line' \in Seq(Message)'
           /\ UNCHANGED <<protocol, reader, insertions, lost>>
           /\ Heard' <=> Heard
           /\ hung' \in BOOLEAN => StationTypeOK'
<1>1. line \in Seq(Message) /\ line # <<>> /\ line' = Tail(line) /\ Head(line).type = t
      /\ UNCHANGED <<protocol, reader, insertions, lost>>
  BY DEF Handles, station, IInv, TypesOK, LineTypeOK
<1>2. Head(line) \in Message /\ Head(line) = line[1] /\ 0 \in 0..Len(line) /\ 0 < Len(line)
      /\ line' \in Seq(Message)
  BY <1>1
<1>3. ReadableCard' = ReadableCard /\ Message' = Message
  BY <1>1, SameProtocol
<1>4. hung' \in BOOLEAN => StationTypeOK'
  BY <1>1, <1>3 DEF IInv, TypesOK, StationTypeOK
<1>5. QED
  BY <1>1, <1>2, <1>3, <1>4 DEF Heard

\* The card of a session that is open: what comes first is a block of it, or something
\* that the session takes.
LEMMA ReadsNow ==
    ASSUME IInv, Heard, NEW t, Handles(t), NEW c \in Card, Reads(c)
    PROVE  /\ t \notin Inserted
           /\ t \in Get => Head(line).card = c
<1>1. After(c, 0)
  BY DEF After
<1>2. 0 \in 0..Len(line) /\ 0 < Len(line) /\ Head(line) = line[0 + 1] /\ Head(line).type = t
  BY HandledLine
<1>3. QED
  BY <1>1, <1>2 DEF IInv, InOrder

LEMMA OpenSession ==
    ASSUME IInv, NEW d \in listed, session[d] # 0
    PROVE  /\ session[d] \in DOMAIN blocks /\ blocks[session[d]] \in Session
           /\ SessionOK(blocks[session[d]])
           /\ response[d] = blocks[session[d]].comm.get /\ response[d] \in Get
           /\ response[d] # "start"
           /\ Reads(blocks[session[d]].owner)
<1>1. session[d] \in DOMAIN blocks /\ response[d] = blocks[session[d]].comm.get
  BY DEF IInv, ListOK, Serves
<1>2. blocks[session[d]] \in Session /\ SessionOK(blocks[session[d]])
  BY <1>1 DEF IInv, TypesOK, ReadoutTypeOK, SessionsOK
<1>3. response[d] \in Get /\ response[d] # "start"
  BY <1>1, <1>2, CommOfCard, KindsDiffer DEF SessionOK, IInv, TypesOK
<1>4. QED
  BY <1>1, <1>2, <1>3 DEF Reads

LEMMA NoSession ==
    ASSUME IInv, NEW e \in listed, response[e] = "start" \/ session[e] = 0
    PROVE  e = 1 /\ response[e] = "start" /\ session[e] = 0
<1>1. session[e] = 0
  BY OpenSession
<1>2. session[e] \notin DOMAIN blocks
  BY <1>1 DEF IInv, TypesOK, ReadoutTypeOK
<1>3. QED
  BY <1>2 DEF IInv, ListOK, Serves

\* A session takes the removal of a card, whichever it is.
LEMMA SessionTakesRemoval ==
    ASSUME IInv, Heard, NEW t \in Removed, Handles(t), NEW d \in listed, session[d] # 0
    PROVE  Channel!Taker(t, d)
<1>1. PICK c \in ReadableCard : Head(line) = RemovedOf(c)
  BY HandledLine, MessageKinds DEF IInv, TypesOK
<1>2. t = Comm(c).removed
  BY <1>1, HandledLine DEF RemovedOf
<1>3. t \in Accepts[response[d]]
  <2> DEFINE x == blocks[session[d]].owner
  <2>1. x \in ReadableCard /\ response[d] = Comm(x).get
    BY OpenSession DEF SessionOK
  <2>2. Comm(x).removed = Comm(c).removed /\ Comm(x).removed \in Accepts[Comm(x).get]
    BY <2>1, OneRemoved, SessionTakes DEF IInv, TypesOK
  <2>3. QED
    BY <1>2, <2>1, <2>2
<1>4. ASSUME NEW e \in listed
      PROVE  e <= d
  <2>1. d \in Registration /\ e \in Registration
    BY DEF IInv, TypesOK, ListTypeOK
  <2>2. CASE session[e] # 0
    <3>1. e = d
      BY <2>2 DEF IInv, OneSession
    <3>2. QED
      BY <2>1, <3>1 DEF Registration
  <2>3. CASE session[e] = 0
    <3>1. e = 1
      BY <2>3, NoSession
    <3>2. QED
      BY <2>1, <3>1 DEF Registration
  <2>4. QED
    BY <2>2, <2>3
<1>5. QED
  BY <1>3, <1>4 DEF Channel!Taker

LEMMA OneTaker ==
    ASSUME IInv, NEW t, NEW d, NEW e, Channel!Taker(t, d), Channel!Taker(t, e)
    PROVE  d = e
<1>1. d \in Nat /\ e \in Nat /\ d <= e /\ e <= d
  BY DEF Channel!Taker, IInv, TypesOK, ListTypeOK, Registration
<1>2. QED
  BY <1>1

(***************************************************************************)
(* A command that brings no new registration: what is listed afterwards    *)
(* has been listed before, and nothing of it if a card has moved.          *)
(***************************************************************************)
LEMMA HandledWithoutNew ==
    ASSUME IInv, NEW t, Handles(t), ListTypeOK', CallsTypeOK',
           UNCHANGED <<next, response, outgoing, readout>>, listed' \subseteq listed,
           hung' \in BOOLEAN,
           Heard /\ t \in Inserted \cup Removed => \A d \in listed' : session[d] = 0
    PROVE  IInv'
<1>1. UNCHANGED <<blocks, session, records, protocol>> /\ (Heard' => Heard)
  BY HandledLine DEF readout
<1>2. TypesOK'
  <2>1. StationTypeOK'
    BY HandledLine
  <2>2. LineTypeOK'
    BY HandledLine DEF IInv, TypesOK, LineTypeOK
  <2>3. ReadoutTypeOK'
    BY <1>1 DEF IInv, TypesOK, ReadoutTypeOK
  <2>4. QED
    BY <2>1, <2>2, <2>3 DEF TypesOK
<1>3. SessionsOK' /\ RecordIsWhole'
  BY <1>1, SessionsKept, HandledLine DEF IInv, RecordIsWhole
<1>4. SessionsStay
  BY <1>1 DEF SessionsStay
<1>5. ListOK' /\ OneSession' /\ \A c \in Card : Reads(c)' => Reads(c)
  BY <1>1, <1>4, ListShrinks DEF IInv, TypesOK
<1>6. ASSUME NEW c \in Card, Heard, Reads(c)'
      PROVE  Reads(c) /\ ~Moves(Head(line))
  <2>1. t \notin Inserted \cup Removed
    BY <1>1, <1>6 DEF Reads
  <2>2. QED
    BY <1>5, <1>6, <2>1, HandledLine DEF Moves
<1>7. InOrder'
  BY <1>6, HandledLine, LineGoesOn DEF IInv
<1>8. QED
  BY <1>2, <1>3, <1>5, <1>7 DEF IInv

LEMMA CardRemovedKeeps == ASSUME IInv, NEW t \in Command, CardRemoved(t) PROVE IInv'
<1>1. PICK e \in listed : TakenBy(t, e) /\ (response[e] = "start" => t \in Removed)
  BY DEF CardRemoved
<1>2. /\ Handles(t) /\ t \in Inserted \cup Removed /\ RegistersNothing
      /\ UNCHANGED <<outgoing, readout, hung>>
  BY DEF CardRemoved
<1>3. /\ ListTypeOK' /\ CallsTypeOK' /\ UNCHANGED <<next, response>> /\ listed' = Kept(e)
  BY <1>1, <1>2, TakenRegistersNothing DEF IInv, TypesOK
<1>4. listed' \subseteq listed /\ hung' \in BOOLEAN
  <2>1. hung' \in BOOLEAN
    BY <1>2 DEF IInv, TypesOK, StationTypeOK
  <2>2. QED
    BY <1>3, <2>1 DEF Kept
<1>5. ASSUME Heard, NEW d \in listed', session[d] # 0
      PROVE  FALSE
  <2>1. d \in listed
    BY <1>4
  <2>2. blocks[session[d]].owner \in Card /\ Reads(blocks[session[d]].owner)
    BY <1>5, <2>1, OpenSession DEF SessionOK, ReadableCard
  <2>3. t \in Removed
    BY <1>2, <1>5, <2>2, ReadsNow
  <2>4. Channel!Taker(t, d)
    BY <1>2, <1>5, <2>1, <2>3, SessionTakesRemoval
  <2>5. d = e
    BY <1>1, <2>4, OneTaker DEF TakenBy
  <2>6. response[e] # "start"
    BY <1>5, <2>5, OpenSession
  <2>7. QED
    BY <1>3, <1>5, <2>5, <2>6 DEF Kept
<1>6. QED
  BY <1>2, <1>3, <1>4, <1>5, HandledWithoutNew

LEMMA NakRetryKeeps == ASSUME IInv, NakRetry PROVE IInv'
<1>1. PICK e \in listed : TakenBy("nak", e)
  BY DEF NakRetry
<1>2. Handles("nak") /\ RegistersNothing /\ UNCHANGED <<outgoing, readout>> /\ hung' \in BOOLEAN
  BY DEF NakRetry
<1>3. /\ ListTypeOK' /\ CallsTypeOK' /\ UNCHANGED <<next, response>> /\ listed' \subseteq listed
  BY <1>1, <1>2, TakenRegistersNothing DEF IInv, TypesOK, Kept
<1>4. QED
  BY <1>2, <1>3, KindsDiffer, HandledWithoutNew

LEMMA NoTakerKeeps == ASSUME IInv, NEW t \in Command, NoTaker(t) PROVE IInv'
<1>1. /\ Handles(t) /\ \A e \in listed : ~Channel!Taker(t, e)
      /\ UNCHANGED <<channel, outgoing, readout>> /\ hung' \in BOOLEAN
  BY DEF NoTaker
<1>2. UNCHANGED <<next, response, timer, listed, life_bound, running, reactions, timeouts>>
  BY <1>1 DEF channel
<1>3. ListTypeOK' /\ CallsTypeOK'
  BY <1>2 DEF IInv, TypesOK, ListTypeOK, CallsTypeOK
<1>4. ASSUME Heard, t \in Inserted \cup Removed, NEW d \in listed, session[d] # 0
      PROVE  FALSE
  <2>1. blocks[session[d]].owner \in Card /\ Reads(blocks[session[d]].owner)
    BY <1>4, OpenSession DEF SessionOK, ReadableCard
  <2>2. t \in Removed
    BY <1>1, <1>4, <2>1, ReadsNow
  <2>3. QED
    BY <1>1, <1>4, <2>2, SessionTakesRemoval
<1>5. QED
  BY <1>1, <1>2, <1>3, <1>4, HandledWithoutNew

-----------------------------------------------------------------------------
\* What the session s asks for next.
LEMMA RequestType ==
    ASSUME NEW b \in Session, SessionOK(b), b.needed # {}, b.comm.get \in Get
    PROVE  [type |-> b.comm.get, bn |-> FirstNeeded(b.needed)] \in Request
<1>1. FirstNeeded(b.needed) \in b.needed
  BY FirstNeededType DEF Session
<1>2. PICK cs \in SUBSET Card : MadeOf(b, cs)
  BY DEF SessionOK
<1>3. \A n \in b.needed : n \in Number
  <2>1. \A n \in b.needed : n \in 0..7
    BY DEF Session
  <2>2. CASE b.needed = {0}
    BY <2>1, <2>2 DEF Number
  <2>3. CASE b.needed \cup Gathered(b) = UNION {Whole(c) : c \in cs}
    <3>1. \A n \in b.needed : \E c \in cs : n \in Whole(c)
      BY <2>3
    <3>2. QED
      BY <1>2, <2>1, <3>1 DEF Whole, Number
  <2>4. QED
    BY <1>2, <2>2, <2>3 DEF MadeOf
<1>4. QED
  BY <1>1, <1>3 DEF Request

\* A card is put in: as long as no removal gets lost, no session is open.
LEMMA CardInsertedKeeps == ASSUME IInv, NEW t \in Command, CardInserted(t) PROVE IInv'
<1> DEFINE new == [comm |-> CHOOSE k \in Comms : k.inserted = t, owner |-> Head(line).card,
                   needed |-> {0}, read |-> {}]
           s == Len(blocks')
<1>1. PICK e \in listed : TakenBy(t, e) /\ response[e] = "start"
  BY DEF CardInserted
<1>2. /\ Handles(t) /\ t \in Inserted
      /\ blocks' = Append(blocks, new) /\ CommandRead(s, new)
      /\ UNCHANGED <<records, hung>>
  BY DEF CardInserted
<1>3. PICK c \in ReadableCard : Head(line) = InsertedOf(c)
  BY <1>2, HandledLine, MessageKinds DEF IInv, TypesOK
<1>4. new = [comm |-> Comm(c), owner |-> c, needed |-> {0}, read |-> {}]
  <2>1. Head(line).card = c /\ Head(line).type = Comm(c).inserted
    BY <1>3 DEF InsertedOf
  <2>2. QED
    BY <1>2, <2>1, HandledLine, CommByInserted DEF IInv, TypesOK
<1> HIDE DEF new
<1>5. new \in Session /\ SessionOK(new) /\ Faithful(new) /\ new.comm.get \in Get
  <2>1. Comm(c) \in Comms /\ c \in Card /\ Comm(c).get \in Get
    BY CommOfCard DEF IInv, TypesOK, ReadableCard
  <2>2. new \in Session
    BY <1>4, <2>1 DEF Session
  <2>3. \A cs : MadeOf(new, cs)
    BY <1>4 DEF MadeOf
  <2>4. {c} \in SUBSET Card /\ {c} # {}
    BY <2>1
  <2>5. SessionOK(new)
    BY <1>4, <2>3, <2>4 DEF SessionOK, OneOfEach
  <2>6. QED
    BY <1>4, <2>1, <2>2, <2>3, <2>5 DEF Faithful
<1>6. /\ s = Len(blocks) + 1 /\ s \in Nat /\ Len(blocks) \in Nat /\ blocks' \in Seq(Session)
      /\ DOMAIN blocks' = 1..s /\ DOMAIN blocks = 1..Len(blocks)
      /\ \A i \in DOMAIN blocks : i \in DOMAIN blocks' /\ blocks'[i] = blocks[i]
      /\ s \in DOMAIN blocks' /\ blocks'[s] = new
      /\ \A i \in DOMAIN blocks' : i \in DOMAIN blocks \/ i = s
  BY <1>2, <1>5 DEF IInv, TypesOK, ReadoutTypeOK
<1> HIDE DEF s
<1>7. /\ Registers(new.comm.get) /\ session' = [session EXCEPT ![next] = s]
      /\ outgoing' = Append(outgoing, [type |-> new.comm.get, bn |-> FirstNeeded(new.needed)])
  BY <1>2 DEF CommandRead
<1>8. /\ ListTypeOK' /\ CallsTypeOK'
      /\ next \in Registration /\ next' = next + 1
      /\ response' = [response EXCEPT ![next] = new.comm.get]
      /\ listed' = listed \cup {next}
  BY <1>1, <1>5, <1>7, TakenRegisters, ResponsesAre DEF IInv, TypesOK, Kept
<1>9. TypesOK'
  <2>1. hung' \in BOOLEAN
    BY <1>2 DEF IInv, TypesOK, StationTypeOK
  <2>2. StationTypeOK'
    BY <1>2, <2>1, HandledLine
  <2>3. outgoing' \in Seq(Request)
    <3>1. new.needed # {}
      BY <1>4
    <3>2. QED
      BY <1>5, <1>7, <3>1, RequestType DEF IInv, TypesOK, LineTypeOK
  <2>4. LineTypeOK'
    <3>1. line' \in Seq(Message)'
      BY <1>2, HandledLine
    <3>2. Get' = Get /\ Request' = Request
      BY DEF Request
    <3>3. QED
      BY <2>3, <3>1, <3>2 DEF LineTypeOK
  <2>5. session' \in [Registration -> 0..s]
    BY <1>6, <1>7, <1>8 DEF IInv, TypesOK, ReadoutTypeOK
  <2>6. ReadoutTypeOK'
    BY <1>2, <1>6, <2>5 DEF IInv, TypesOK, ReadoutTypeOK, s
  <2>7. QED
    BY <1>8, <2>2, <2>4, <2>6 DEF TypesOK
<1>10. SessionsOK'
  BY <1>2, <1>5, <1>6, HandledLine, SessionsKept DEF IInv
<1>11. SessionsStay
  BY <1>6 DEF SessionsStay
<1>12. ASSUME Heard, NEW d \in listed, session[d] # 0
       PROVE  FALSE
  <2>1. blocks[session[d]].owner \in Card /\ Reads(blocks[session[d]].owner)
    BY <1>12, OpenSession DEF SessionOK, ReadableCard
  <2>2. QED
    BY <1>2, <1>12, <2>1, ReadsNow
<1>13. /\ ListOK' /\ OneSession'
       /\ \A d \in Card : Reads(d)' => d = c \/ ~Heard'
  <2>1. \A d \in listed : session[d] # s
    BY <1>6 DEF IInv, TypesOK, ReadoutTypeOK, ListTypeOK
  <2>2. Heard' => \A d \in listed : session[d] = 0
    BY <1>2, <1>12, HandledLine
  <2>3. blocks'[s].comm.get = new.comm.get /\ blocks'[s].owner = c
    BY <1>4, <1>6
  <2>4. QED
    BY <1>6, <1>7, <1>8, <1>11, <2>1, <2>2, <2>3, ListGrows DEF IInv, TypesOK
<1>14. InOrder'
  <2>1. \A d \in Card : Heard /\ Reads(d)' => Head(line) = InsertedOf(d)
    BY <1>2, <1>3, <1>13, HandledLine
  <2>2. QED
    BY <1>2, <2>1, HandledLine, LineGoesOn DEF IInv
<1>15. RecordIsWhole'
  BY <1>2, HandledLine DEF IInv, RecordIsWhole
<1>16. QED
  BY <1>9, <1>10, <1>13, <1>14, <1>15 DEF IInv

(***************************************************************************)
(* A block comes to the session of e, which turns into b.                  *)
(***************************************************************************)
LEMMA BlockComes ==
    ASSUME IInv, NEW t \in Command, Handles(t), NEW e \in listed, TakenBy(t, e), t = response[e],
           NEW b, b = BlockRead(blocks[session[e]], Head(line))
    PROVE  /\ session[e] # 0 /\ session[e] \in DOMAIN blocks /\ response[e] # "start"
           /\ t \in Get
           /\ b \in Session /\ SessionOK(b) /\ (Heard => Faithful(b))
           /\ b.owner = blocks[session[e]].owner /\ b.comm = blocks[session[e]].comm
           /\ b.comm.get = response[e] /\ b.comm.get \in Get
           /\ b.owner \in Card /\ Reads(b.owner)
<1> DEFINE old == blocks[session[e]]
<1>1. response[e] # "start"
  BY KindsDiffer DEF Command
<1>2. session[e] # 0
  BY <1>1, NoSession
<1>3. /\ session[e] \in DOMAIN blocks /\ old \in Session /\ SessionOK(old)
      /\ response[e] = old.comm.get /\ response[e] \in Get /\ Reads(old.owner)
  BY <1>2, OpenSession
<1>4. old.owner \in Card
  BY <1>3 DEF SessionOK, ReadableCard
<1>5. PICK c \in ReadableCard : \E n \in Whole(c) : Head(line) = BlockOf(c, n)
  BY <1>3, HandledLine, MessageKinds DEF IInv, TypesOK
<1>6. PICK n \in Whole(c) : Head(line) = BlockOf(c, n)
  BY <1>5
<1>7. c \in Card /\ Head(line).card = c
  BY <1>6 DEF ReadableCard, BlockOf
<1>8. Heard => c = old.owner
  BY <1>3, <1>4, <1>7, ReadsNow
<1>9. Heard => Faithful(old)
  BY <1>3 DEF IInv, SessionsOK
<1> HIDE DEF old
<1>10. b = BlockRead(old, BlockOf(c, n))
  BY <1>6 DEF old
<1>11. /\ b \in Session /\ b.owner = old.owner /\ b.comm = old.comm /\ SessionOK(b)
       /\ Faithful(old) /\ c = old.owner => Faithful(b)
  BY <1>3, <1>7, <1>10, BlockReadKeeps
<1>12. QED
  BY <1>1, <1>2, <1>3, <1>4, <1>8, <1>9, <1>11 DEF old

\* The session s, which turns into b, and the others.
LEMMA BlocksThen ==
    ASSUME IInv, NEW s \in DOMAIN blocks, NEW b \in Session,
           b.owner = blocks[s].owner, b.comm = blocks[s].comm,
           blocks' = [blocks EXCEPT ![s] = b]
    PROVE  /\ blocks' \in Seq(Session) /\ DOMAIN blocks' = DOMAIN blocks /\ Len(blocks') = Len(blocks)
           /\ blocks'[s] = b /\ \A i \in DOMAIN blocks : i # s => blocks'[i] = blocks[i]
           /\ SessionsStay
<1>1. blocks \in Seq(Session)
  BY DEF IInv, TypesOK, ReadoutTypeOK
<1>2. /\ blocks' \in Seq(Session) /\ DOMAIN blocks' = DOMAIN blocks /\ Len(blocks') = Len(blocks)
      /\ blocks'[s] = b /\ \A i \in DOMAIN blocks : i # s => blocks'[i] = blocks[i]
  BY <1>1
<1>3. QED
  BY <1>2 DEF SessionsStay

LEMMA NotMoving ==
    ASSUME IInv, NEW t \in Get, Handles(t)
    PROVE  ~Moves(Head(line))
BY HandledLine, KindsDiffer DEF Moves

LEMMA CardReadKeeps == ASSUME IInv, NEW t \in Command, CardRead(t) PROVE IInv'
<1>1. PICK e \in listed : /\ TakenBy(t, e) /\ t = response[e]
                          /\ LET b == BlockRead(blocks[session[e]], Head(line))
                             IN /\ blocks' = [blocks EXCEPT ![session[e]] = b]
                                /\ b.needed = {}
                                /\ records' = Append(records, [session |-> session[e],
                                                               owner |-> b.owner, read |-> b.read])
  BY DEF CardRead
<1> DEFINE b == BlockRead(blocks[session[e]], Head(line))
           s == session[e]
           record == [session |-> s, owner |-> b.owner, read |-> b.read]
<1>2. /\ Handles(t) /\ RegistersNothing /\ outgoing' = Append(outgoing, [type |-> "ack"])
      /\ UNCHANGED <<session, hung>>
  BY DEF CardRead
<1>3. blocks' = [blocks EXCEPT ![s] = b] /\ b.needed = {} /\ records' = Append(records, record)
  BY <1>1
<1>4. /\ s # 0 /\ s \in DOMAIN blocks /\ response[e] # "start" /\ t \in Get
      /\ b \in Session /\ SessionOK(b) /\ (Heard => Faithful(b))
      /\ b.owner = blocks[s].owner /\ b.comm = blocks[s].comm
  BY <1>1, <1>2, BlockComes
<1> HIDE DEF b
<1>5. /\ ListTypeOK' /\ CallsTypeOK' /\ UNCHANGED <<next, response>> /\ listed' = listed \ {e}
  BY <1>1, <1>2, <1>4, TakenRegistersNothing DEF IInv, TypesOK, Kept
<1>6. /\ blocks' \in Seq(Session) /\ DOMAIN blocks' = DOMAIN blocks /\ Len(blocks') = Len(blocks)
      /\ blocks'[s] = b /\ \A i \in DOMAIN blocks : i # s => blocks'[i] = blocks[i]
      /\ SessionsStay
  BY <1>3, <1>4, BlocksThen
<1>7. record \in [session : Nat, owner : Card, read : SUBSET BlockRecord]
  <2>1. s \in Nat
    BY <1>4 DEF IInv, TypesOK, ReadoutTypeOK
  <2>2. QED
    BY <1>4, <2>1 DEF Session
<1>8. TypesOK'
  <2>1. hung' \in BOOLEAN
    BY <1>2 DEF IInv, TypesOK, StationTypeOK
  <2>2. StationTypeOK'
    BY <1>2, <2>1, HandledLine
  <2>3. LineTypeOK'
    <3>1. outgoing' \in Seq(Request)
      BY <1>2 DEF IInv, TypesOK, LineTypeOK, Request
    <3>2. line' \in Seq(Message)' /\ Request' = Request
      BY <1>2, HandledLine DEF Request
    <3>3. QED
      BY <3>1, <3>2 DEF LineTypeOK
  <2>4. ReadoutTypeOK'
    BY <1>2, <1>3, <1>6, <1>7 DEF IInv, TypesOK, ReadoutTypeOK
  <2>5. QED
    BY <1>5, <2>2, <2>3, <2>4 DEF TypesOK
<1>9. SessionsOK'
  BY <1>2, <1>4, <1>6, HandledLine, SessionsKept DEF IInv
<1>10. ListOK' /\ OneSession' /\ \A c \in Card : Reads(c)' => Reads(c)
  BY <1>2, <1>5, <1>6, HandledLine, ListShrinks DEF IInv, TypesOK
<1>11. InOrder'
  BY <1>2, <1>4, <1>10, NotMoving, HandledLine, LineGoesOn DEF IInv
<1>12. RecordIsWhole'
  <2>1. /\ DOMAIN records' = 1..(Len(records) + 1) /\ DOMAIN records = 1..Len(records)
        /\ records'[Len(records) + 1] = record
        /\ \A i \in DOMAIN records : records'[i] = records[i]
        /\ Len(records) \in Nat
    BY <1>3, <1>7 DEF IInv, TypesOK, ReadoutTypeOK
  <2>2. Heard => b.read = {[bn |-> n, card |-> b.owner] : n \in Whole(b.owner)}
    BY <1>3, <1>4, NothingNeeded
  <2>3. Heard => record.read = {[bn |-> n, card |-> record.owner] : n \in {0} \cup MoreBlocks[record.owner]}
    BY <2>2 DEF Whole
  <2>4. \A i \in DOMAIN records' : i \in DOMAIN records \/ i = Len(records) + 1
    BY <2>1
  <2> HIDE DEF record
  <2>5. lost' = lost
    BY <1>2, HandledLine
  <2>6. QED
    BY <2>1, <2>3, <2>4, <2>5 DEF IInv, RecordIsWhole, Heard
<1>13. QED
  BY <1>8, <1>9, <1>10, <1>11, <1>12 DEF IInv

LEMMA NextBlockKeeps == ASSUME IInv, NEW t \in Command, NextBlock(t) PROVE IInv'
<1>1. PICK e \in listed : /\ TakenBy(t, e) /\ t = response[e]
                          /\ LET b == BlockRead(blocks[session[e]], Head(line))
                             IN /\ blocks' = [blocks EXCEPT ![session[e]] = b]
                                /\ b.needed # {}
                                /\ CommandRead(session[e], b)
  BY DEF NextBlock
<1> DEFINE b == BlockRead(blocks[session[e]], Head(line))
           s == session[e]
<1>2. /\ Handles(t) /\ UNCHANGED <<records, hung>>
  BY DEF NextBlock
<1>3. /\ blocks' = [blocks EXCEPT ![s] = b] /\ b.needed # {}
      /\ Registers(b.comm.get) /\ session' = [session EXCEPT ![next] = s]
      /\ outgoing' = Append(outgoing, [type |-> b.comm.get, bn |-> FirstNeeded(b.needed)])
  BY <1>1 DEF CommandRead
<1>4. /\ s # 0 /\ s \in DOMAIN blocks /\ response[e] # "start" /\ t \in Get
      /\ b \in Session /\ SessionOK(b) /\ (Heard => Faithful(b))
      /\ b.owner = blocks[s].owner /\ b.comm = blocks[s].comm
      /\ b.comm.get \in Get /\ b.owner \in Card /\ Reads(b.owner)
  BY <1>1, <1>2, BlockComes
<1> HIDE DEF b
<1>5. /\ ListTypeOK' /\ CallsTypeOK'
      /\ next \in Registration /\ next' = next + 1
      /\ response' = [response EXCEPT ![next] = b.comm.get]
      /\ listed' = (listed \ {e}) \cup {next}
  BY <1>1, <1>3, <1>4, TakenRegisters, ResponsesAre DEF IInv, TypesOK, Kept
<1>6. /\ blocks' \in Seq(Session) /\ DOMAIN blocks' = DOMAIN blocks /\ Len(blocks') = Len(blocks)
      /\ blocks'[s] = b /\ \A i \in DOMAIN blocks : i # s => blocks'[i] = blocks[i]
      /\ SessionsStay
  BY <1>3, <1>4, BlocksThen
<1>7. TypesOK'
  <2>1. hung' \in BOOLEAN
    BY <1>2 DEF IInv, TypesOK, StationTypeOK
  <2>2. StationTypeOK'
    BY <1>2, <2>1, HandledLine
  <2>3. outgoing' \in Seq(Request)
    BY <1>3, <1>4, RequestType DEF IInv, TypesOK, LineTypeOK
  <2>4. LineTypeOK'
    <3>1. line' \in Seq(Message)' /\ Request' = Request
      BY <1>2, HandledLine DEF Request
    <3>2. QED
      BY <2>3, <3>1 DEF LineTypeOK
  <2>5. session' \in [Registration -> 0..Len(blocks)]
    <3>1. s \in 0..Len(blocks) /\ session \in [Registration -> 0..Len(blocks)]
      BY <1>4 DEF IInv, TypesOK, ReadoutTypeOK
    <3>2. QED
      BY <1>3, <1>5, <3>1
  <2>6. ReadoutTypeOK'
    BY <1>2, <1>6, <2>5 DEF IInv, TypesOK, ReadoutTypeOK
  <2>7. QED
    BY <1>5, <2>2, <2>4, <2>6 DEF TypesOK
<1>8. SessionsOK'
  BY <1>2, <1>4, <1>6, HandledLine, SessionsKept DEF IInv
<1>9. /\ ListOK' /\ OneSession'
      /\ \A c \in Card : Reads(c)' => Reads(c)
  <2>1. \A d \in listed \ {e} : session[d] # s
    BY <1>4 DEF IInv, ListOK
  <2>2. Heard' => \A d \in listed \ {e} : session[d] = 0
    BY <1>2, <1>4, HandledLine DEF IInv, OneSession
  <2>3. listed \ {e} \in SUBSET listed /\ s \in DOMAIN blocks' /\ blocks'[s].comm.get = b.comm.get
        /\ blocks'[s].owner = b.owner
    BY <1>4, <1>6
  <2> DEFINE kept == listed \ {e}
  <2>4. kept \in SUBSET listed /\ listed' = kept \cup {next}
        /\ (\A d \in kept : session[d] # s)
        /\ (Heard' => \A d \in kept : session[d] = 0)
    BY <1>5, <2>1, <2>2
  <2> HIDE DEF s, kept
  <2>5. /\ ListTypeOK /\ ListOK /\ ReadoutTypeOK
        /\ next \in Registration /\ next' = next + 1
        /\ response' = [response EXCEPT ![next] = b.comm.get]
        /\ session' = [session EXCEPT ![next] = s] /\ SessionsStay
    BY <1>3, <1>5, <1>6 DEF IInv, TypesOK
  <2>6. /\ ListOK' /\ OneSession'
        /\ \A c \in Card : Reads(c)' => blocks'[s].owner = c \/ (~Heard' /\ Reads(c))
    BY <2>3, <2>4, <2>5, ListGrows
  <2>7. QED
    BY <1>4, <2>3, <2>6
<1>10. InOrder'
  BY <1>2, <1>4, <1>9, NotMoving, HandledLine, LineGoesOn DEF IInv
<1>11. RecordIsWhole'
  BY <1>2, HandledLine DEF IInv, RecordIsWhole
<1>12. QED
  BY <1>7, <1>8, <1>9, <1>10, <1>11 DEF IInv

-----------------------------------------------------------------------------
\* A timer runs, or its handler: the line stays, and no session is new.
LEMMA ClockKeeps ==
    ASSUME IInv, ListTypeOK', CallsTypeOK', UNCHANGED <<next, response>>, listed' \subseteq listed,
           UNCHANGED <<protocol, station, outgoing, line, readout, hung>>
    PROVE  IInv'
<1>1. /\ UNCHANGED <<reader, insertions, lost, protocol, outgoing, line, hung>>
      /\ UNCHANGED <<blocks, session, records>>
  BY DEF station, readout
<1>2. TypesOK'
  <2>1. hung' \in BOOLEAN
    BY <1>1 DEF IInv, TypesOK, StationTypeOK
  <2>2. StationTypeOK' /\ LineTypeOK'
    BY <1>1, <2>1, SameProtocol DEF IInv, TypesOK, StationTypeOK, LineTypeOK, Request
  <2>3. ReadoutTypeOK'
    BY <1>1 DEF IInv, TypesOK, ReadoutTypeOK
  <2>4. QED
    BY <2>2, <2>3 DEF TypesOK
<1>3. (Heard' => Heard) /\ SessionsStay
  BY <1>1 DEF Heard, SessionsStay
<1>4. SessionsOK' /\ RecordIsWhole'
  BY <1>1, <1>3, SessionsKept DEF IInv, RecordIsWhole
<1>5. ListOK' /\ OneSession' /\ \A c \in Card : Reads(c)' => Reads(c)
  BY <1>1, <1>3, ListShrinks DEF IInv, TypesOK
<1>6. InOrder'
  BY <1>1, <1>5, SameLine DEF IInv
<1>7. QED
  BY <1>2, <1>4, <1>5, <1>6 DEF IInv

LEMMA TimerExpiresKeeps == ASSUME IInv, NEW e \in Channel!Registration, TimerExpires(e) PROVE IInv'
<1>1. /\ timer' = [timer EXCEPT ![e] = "queued"]
      /\ UNCHANGED <<next, response, listed, life_bound, running, reactions, timeouts>>
      /\ UNCHANGED <<protocol, station, outgoing, line, readout, hung>>
  BY DEF TimerExpires, Channel!TimerExpires
<1>2. ListTypeOK' /\ CallsTypeOK'
  BY <1>1 DEF IInv, TypesOK, ListTypeOK, CallsTypeOK
<1>3. QED
  BY <1>1, <1>2, ClockKeeps

LEMMA CardReadTimeoutKeeps ==
    ASSUME IInv, NEW e \in Channel!Registration, CardReadTimeout(e)
    PROVE  IInv'
<1>1. ListTypeOK' /\ CallsTypeOK' /\ UNCHANGED <<next, response>> /\ listed' = listed \ {e}
  BY TimeoutEffect DEF IInv, TypesOK
<1>2. UNCHANGED <<protocol, station, outgoing, line, readout, hung>>
  BY DEF CardReadTimeout
<1>3. QED
  BY <1>1, <1>2, ClockKeeps

LEMMA StepKeeps == IInv /\ [Next]_vars => IInv'
<1> SUFFICES ASSUME IInv, [Next]_vars PROVE IInv'
  OBVIOUS
<1>1. ASSUME NEW c \in Card, InsertCard(c) PROVE IInv'
  BY <1>1, InsertCardKeeps
<1>2. CASE RemoveCard
  BY <1>2, RemoveCardKeeps
<1>3. CASE Serve
  BY <1>3, ServeKeeps
<1>4. CASE Start
  BY <1>4, StartKeeps
<1>5. ASSUME NEW t \in Command, CardInserted(t) PROVE IInv'
  BY <1>5, CardInsertedKeeps
<1>6. ASSUME NEW t \in Command, CardRemoved(t) PROVE IInv'
  BY <1>6, CardRemovedKeeps
<1>7. ASSUME NEW t \in Command, NoTaker(t) PROVE IInv'
  BY <1>7, NoTakerKeeps
<1>8. ASSUME NEW t \in Command, CardRead(t) PROVE IInv'
  BY <1>8, CardReadKeeps
<1>9. ASSUME NEW t \in Command, NextBlock(t) PROVE IInv'
  BY <1>9, NextBlockKeeps
<1>10. CASE NakRetry
  BY <1>10, NakRetryKeeps
<1>11. ASSUME NEW e \in Channel!Registration, TimerExpires(e) PROVE IInv'
  BY <1>11, TimerExpiresKeeps
<1>12. ASSUME NEW e \in Channel!Registration, CardReadTimeout(e) PROVE IInv'
  BY <1>12, CardReadTimeoutKeeps
<1>13. CASE UNCHANGED vars
  <2>1. /\ UNCHANGED <<next, response, timer, listed, life_bound, running, reactions, timeouts>>
        /\ UNCHANGED <<protocol, station, outgoing, line, readout, hung>>
    BY <1>13 DEF vars, channel
  <2>2. ListTypeOK' /\ CallsTypeOK'
    BY <2>1 DEF IInv, TypesOK, ListTypeOK, CallsTypeOK
  <2>3. QED
    BY <2>1, <2>2, ClockKeeps
<1>14. QED
  BY <1>1, <1>2, <1>3, <1>4, <1>5, <1>6, <1>7, <1>8, <1>9, <1>10, <1>11, <1>12, <1>13 DEF Next

\* The inductive invariant holds in every state of the readout.
LEMMA IInvHolds == Spec => []IInv
BY InitIInv, StepKeeps, PTL DEF Spec

LEMMA IInvTypes == IInv => TypeOK
<1> SUFFICES ASSUME IInv PROVE TypeOK
  OBVIOUS
<1>1. Channel!TypeOK
  <2>1. ListTypeOK
    BY DEF IInv, TypesOK
  <2>2. CallsTypeOK
    BY DEF IInv, TypesOK
  <2>3. Channel!Registration = Registration
        /\ Channel!TimerState = {"none", "armed", "queued", "done"}
    BY DEF Channel!Registration, Registration, Channel!TimerState
  <2>4. life_bound \in BOOLEAN /\ running \in BOOLEAN
    BY <2>2 DEF CallsTypeOK
  <2>5. QED
    BY <2>1, <2>2, <2>3, <2>4 DEF Channel!TypeOK, ListTypeOK, CallsTypeOK
<1>2. protocol \in DOMAIN comm_switch /\ reader \in Card \cup {NoCard}
      /\ insertions \in 0..MaxInsertions /\ lost \subseteq {"insertion", "removal"}
  BY DEF IInv, TypesOK, StationTypeOK, ReadableCard
<1>3. hung \in BOOLEAN
  BY DEF IInv, TypesOK, StationTypeOK
<1>4. \A i \in DOMAIN outgoing : \/ outgoing[i].type = "ack"
                                 \/ outgoing[i].bn \in {0} \cup UNION Range(MoreBlocks)
  <2>1. \A i \in DOMAIN outgoing : outgoing[i] \in Request
    BY DEF IInv, TypesOK, LineTypeOK
  <2>2. \A c \in Card : MoreBlocks[c] \in Range(MoreBlocks)
    BY MoreBlocksAssumption DEF Range
  <2>3. \A n \in Number : n \in {0} \cup UNION Range(MoreBlocks)
    BY <2>2 DEF Number
  <2>4. QED
    BY <2>1, <2>3 DEF Request
<1>5. \A i \in DOMAIN line : line[i].type \in Command
  <2>1. \A i \in DOMAIN line : line[i] \in Message
    BY DEF IInv, TypesOK, LineTypeOK
  <2>2. QED
    BY <2>1, MessageKinds DEF IInv, TypesOK
<1>6. \A s \in DOMAIN blocks : blocks[s].comm \in Comms /\ blocks[s].needed \subseteq 0..7
  <2>1. \A s \in DOMAIN blocks : blocks[s] \in Session
    BY DEF IInv, TypesOK, ReadoutTypeOK
  <2>2. QED
    BY <2>1 DEF Session
<1>7. session \in [Channel!Registration -> 0..Len(blocks)]
  BY DEF IInv, TypesOK, ReadoutTypeOK, Registration, Channel!Registration
<1>8. QED
  BY <1>1, <1>2, <1>3, <1>4, <1>5, <1>6, <1>7 DEF TypeOK

\* The variables of the readout and of its channel keep their types: a session never
\* asks for a block no card has, and its iterator never stands behind the last one.
THEOREM TypeCorrect == Spec => []TypeOK
BY IInvHolds, IInvTypes, PTL

\* Whatever requests, blocks and announcements of cards get lost, repeated and refused,
\* and whenever timers run out: as long as the removal of every card is heard, a record
\* has all the blocks of the card it was opened for, and no block of another.
THEOREM RecordsAreWhole == Spec => []RecordIsWhole
<1>1. IInv => RecordIsWhole
  BY DEF IInv
<1>2. QED
  BY IInvHolds, <1>1, PTL

-----------------------------------------------------------------------------
(***************************************************************************)
(* Every step of the readout is a step of its channel, or none.            *)
(***************************************************************************)
LEMMA StepOfChannel == [Next]_vars => [Channel!Next]_(Channel!vars)
<1> SUFFICES ASSUME [Next]_vars PROVE Channel!Next \/ UNCHANGED Channel!vars
  OBVIOUS
<1>1. UNCHANGED channel => UNCHANGED Channel!vars
  BY DEF channel, Channel!vars
<1>2. CASE (\E c \in Card : InsertCard(c)) \/ RemoveCard \/ Serve \/ \E t \in Command : NoTaker(t)
  BY <1>1, <1>2 DEF InsertCard, RemoveCard, Serve, NoTaker
<1>3. CASE Start
  BY <1>3, ResponsesAre DEF Start, Channel!Next
<1>4. ASSUME NEW t \in Command, CardInserted(t) \/ CardRemoved(t) \/ CardRead(t) \/ NextBlock(t)
      PROVE  Channel!ProcessCommandInput(t)
  BY <1>4 DEF CardInserted, CardRemoved, CardRead, NextBlock, TakenBy
<1>5. CASE NakRetry
  BY <1>5 DEF NakRetry, TakenBy, Command, Channel!Next
<1>6. CASE \E e \in Channel!Registration : TimerExpires(e) \/ CardReadTimeout(e)
  BY <1>6 DEF TimerExpires, CardReadTimeout, Channel!Next
<1>7. CASE UNCHANGED vars
  BY <1>1, <1>7 DEF vars
<1>8. QED
  BY <1>2, <1>3, <1>4, <1>5, <1>6, <1>7 DEF Next, Channel!Next

\* The readout uses its channel as ChannelInput allows, so all that is proved of
\* ChannelInput holds of the channel of a readout.
THEOREM ReadoutUsesChannel == Spec => Channel!Spec
<1>1. Init => Channel!Init
  BY DEF Init
<1>2. QED
  BY <1>1, StepOfChannel, PTL DEF Spec, Channel!Spec

LEMMA ReadoutChannel == /\ Response # {} /\ Permanent \subseteq Response
                        /\ Accepts \in [Response -> SUBSET Command]
                        /\ MaxRegistrations \in Nat
<1>1. ASSUME NEW comm \in Comms
      PROVE  Takes(comm) \subseteq Command
  <2>1. comm.get \in Get /\ comm.removed \in Removed
    BY DEF Get, Removed
  <2>2. {"moved I", "moved O", "nak"} \subseteq Command
    BY KindsAre DEF Command
  <2>3. QED
    BY <2>1, <2>2 DEF Takes, Command
<1>2. ASSUME NEW r \in Response
      PROVE  Accepts[r] \subseteq Command
  <2>1. CASE r = "start"
    BY <2>1 DEF Accepts, Command
  <2>2. CASE r # "start"
    <3>1. Accepts[r] = UNION {Takes(comm) : comm \in {k \in Comms : k.get = r}}
      BY <2>2 DEF Accepts
    <3>2. QED
      BY <1>1, <3>1
  <2>3. QED
    BY <2>1, <2>2
<1>3. DOMAIN Accepts = Response /\ Accepts = [r \in Response |-> Accepts[r]]
  BY DEF Accepts
<1>4. Accepts \in [Response -> SUBSET Command]
  BY <1>2, <1>3
<1>5. QED
  BY <1>4, RegistrationsAssumption, ResponsesAre

\* The theorems about ChannelInput, for this channel.
ChannelP == INSTANCE ChannelInputProofs

LEMMA SameChannel ==
    /\ Channel!Init => ChannelP!Init
    /\ [Channel!Next]_(Channel!vars) => [ChannelP!Next]_(ChannelP!vars)
    /\ ChannelP!OneOutcome => Channel!OneOutcome
    /\ ChannelP!NoLostTimer => Channel!NoLostTimer
<1>1. Channel!Init => ChannelP!Init
  BY DEF Channel!Init, ChannelP!Init, Channel!Registration, ChannelP!Registration
<1>2. \A c : Channel!Bump(c) = ChannelP!Bump(c)
  BY DEF Channel!Bump, ChannelP!Bump
<1>3. \A kept, clocks : Channel!Callback(kept, clocks) <=> ChannelP!Callback(kept, clocks)
  BY DEF Channel!Callback, ChannelP!Callback, Channel!Push, ChannelP!Push, Channel!Registration,
         ChannelP!Registration
<1>4. \A r : Channel!Register(r) <=> ChannelP!Register(r)
  BY DEF Channel!Register, ChannelP!Register, Channel!Push, ChannelP!Push, Channel!Registration,
         ChannelP!Registration
<1>5. \A r : Channel!Unregister(r) <=> ChannelP!Unregister(r)
  BY DEF Channel!Unregister, ChannelP!Unregister
<1>6. \A c : Channel!ProcessCommandInput(c) <=> ChannelP!ProcessCommandInput(c)
  BY <1>2, <1>3 DEF Channel!ProcessCommandInput, ChannelP!ProcessCommandInput, Channel!Taker,
         ChannelP!Taker, Channel!Cancelled, ChannelP!Cancelled, Channel!Registration,
         ChannelP!Registration
<1>7. \A c : Channel!ReactionThrows(c) <=> ChannelP!ReactionThrows(c)
  BY <1>3 DEF Channel!ReactionThrows, ChannelP!ReactionThrows, Channel!Taker, ChannelP!Taker,
         Channel!Registration, ChannelP!Registration
<1>8. \A e : /\ Channel!TimerExpires(e) <=> ChannelP!TimerExpires(e)
             /\ Channel!TimeoutExpired(e) <=> ChannelP!TimeoutExpired(e)
  BY <1>2, <1>3 DEF Channel!TimerExpires, ChannelP!TimerExpires, Channel!TimeoutExpired,
         ChannelP!TimeoutExpired
<1>9. Channel!Next => ChannelP!Next
  BY <1>4, <1>5, <1>6, <1>7, <1>8 DEF Channel!Next, ChannelP!Next, Channel!Registration,
         ChannelP!Registration
<1>10. /\ ChannelP!OneOutcome => Channel!OneOutcome
       /\ ChannelP!NoLostTimer => Channel!NoLostTimer
  BY DEF Channel!OneOutcome, ChannelP!OneOutcome, Channel!NoLostTimer, ChannelP!NoLostTimer,
         Channel!OneShot, ChannelP!OneShot, Channel!Registration, ChannelP!Registration
<1>11. QED
  BY <1>1, <1>9, <1>10 DEF Channel!vars, ChannelP!vars

\* The request of a block is answered or times out, never both ...
THEOREM BlockResolvedOnce == Spec => []Channel!OneOutcome
<1>1. ChannelP!Spec => []ChannelP!OneOutcome
  BY ReadoutChannel, ChannelP!OneOutcomeHolds
<1>2. Channel!Spec => ChannelP!Spec
  BY SameChannel, PTL DEF Channel!Spec, ChannelP!Spec
<1>3. QED
  BY <1>1, <1>2, SameChannel, ReadoutUsesChannel, PTL

\* ... and a session that waits for one has a timer to end it: no block, refusal or
\* removal that crosses another one leaves it without.
THEOREM SessionHasTimer == Spec => []Channel!NoLostTimer
<1>1. ChannelP!Spec => []ChannelP!NoLostTimer
  BY ReadoutChannel, ChannelP!NoLostTimerHolds
<1>2. Channel!Spec => ChannelP!Spec
  BY SameChannel, PTL DEF Channel!Spec, ChannelP!Spec
<1>3. QED
  BY <1>1, <1>2, SameChannel, ReadoutUsesChannel, PTL

-----------------------------------------------------------------------------
(***************************************************************************)
(* The refinement of Readout: what the mapping makes of the state, and of  *)
(* every step.                                                             *)
(***************************************************************************)
Owners == [s \in DOMAIN blocks |-> blocks[s].owner]
OpenSessions == {s \in DOMAIN blocks : Open(s)}
Handed == [i \in DOMAIN records |-> <<records[i].session, records[i].read>>]
Overlooked == "removal" \in lost

\* A step of Readout, in terms of the mapped state.
Announced(c) == /\ OpenSessions = {} \/ Overlooked
                /\ Owners' = Append(Owners, c)
                /\ OpenSessions' = OpenSessions \cup {Len(Owners')}
                /\ Handed' = Handed /\ Overlooked' = Overlooked

GivesUp(s) == /\ s \in OpenSessions
              /\ OpenSessions' = OpenSessions \ {s}
              /\ Owners' = Owners /\ Handed' = Handed /\ Overlooked' = Overlooked

Overlooks == /\ Overlooked' = TRUE
             /\ Owners' = Owners /\ OpenSessions' = OpenSessions /\ Handed' = Handed

Stutters == /\ Owners' = Owners /\ OpenSessions' = OpenSessions
            /\ Handed' = Handed /\ Overlooked' = Overlooked

RecordsFrom(s, cs, from) ==
    /\ s \in OpenSessions
    /\ OpenSessions' = OpenSessions \ {s}
    /\ cs # {}
    /\ Overlooked \/ (cs = {Owners[s]} /\ \A n \in DOMAIN from : from[n] = Owners[s])
    /\ Handed' = Append(Handed, <<s, {[bn |-> n, card |-> from[n]] : n \in DOMAIN from}>>)
    /\ Owners' = Owners /\ Overlooked' = Overlooked

LEMMA ReadoutParts ==
    ASSUME NEW cs \in SUBSET Card
    PROVE  Promise!Parts(cs) = UNION {Whole(c) : c \in cs}
<1>1. \A c \in cs : [x \in Card |-> {0} \cup MoreBlocks[x]][c] = Whole(c)
  BY DEF Whole
<1>2. {[x \in Card |-> {0} \cup MoreBlocks[x]][c] : c \in cs} = {Whole(c) : c \in cs}
  BY <1>1
<1>3. QED
  BY <1>2 DEF Promise!Parts

\* The steps above are steps of Readout.
LEMMA StepsOfReadout ==
    /\ Stutters \/ Overlooks \/ (\E c \in Card : Announced(c)) \/ (\E s : GivesUp(s))
          => [Promise!Next]_(Promise!vars)
    /\ \A s : \A cs \in SUBSET Card :
          (\E from \in [UNION {Whole(c) : c \in cs} -> Card] : RecordsFrom(s, cs, from))
          => [Promise!Next]_(Promise!vars)
<1>1. Stutters => UNCHANGED Promise!vars
  BY DEF Stutters, Promise!vars, Owners, OpenSessions, Handed, Overlooked
<1>2. Overlooks => Promise!Next
  BY DEF Overlooks, Promise!Next, Promise!Overlook, Owners, OpenSessions, Handed, Overlooked
<1>3. \A c \in Card : Announced(c) => Promise!Next
  BY DEF Announced, Promise!Next, Promise!Announce, Owners, OpenSessions, Handed, Overlooked
<1>4. \A s : GivesUp(s) => Promise!Next
  BY DEF GivesUp, Promise!Next, Promise!GiveUp, Owners, OpenSessions, Handed, Overlooked
<1>5. ASSUME NEW s, NEW cs \in SUBSET Card, NEW from \in [UNION {Whole(c) : c \in cs} -> Card],
             RecordsFrom(s, cs, from)
      PROVE  Promise!Next
  <2>1. Promise!Parts(cs) = DOMAIN from /\ from \in [Promise!Parts(cs) -> Card]
    BY ReadoutParts
  <2>2. Promise!Read(cs, from) = {[bn |-> n, card |-> from[n]] : n \in DOMAIN from}
    BY <2>1 DEF Promise!Read
  <2>3. /\ cs # {}
        /\ Overlooked \/ (cs = {Owners[s]} /\ \A n \in Promise!Parts(cs) : from[n] = Owners[s])
        /\ Handed' = Append(Handed, <<s, Promise!Read(cs, from)>>)
    BY <1>5, <2>1, <2>2 DEF RecordsFrom
  <2>4. \E c \in SUBSET Card : \E f \in [Promise!Parts(c) -> Card] :
            /\ c # {}
            /\ Overlooked \/ (c = {Owners[s]} /\ \A n \in Promise!Parts(c) : f[n] = Owners[s])
            /\ Handed' = Append(Handed, <<s, Promise!Read(c, f)>>)
    BY <2>1, <2>3
  <2>5. /\ s \in OpenSessions /\ OpenSessions' = OpenSessions \ {s}
        /\ Owners' = Owners /\ Overlooked' = Overlooked
    BY <1>5 DEF RecordsFrom
  <2>6. Promise!Record(s)
    BY <2>4, <2>5 DEF Promise!Record, Owners, OpenSessions, Handed, Overlooked
  <2>7. QED
    BY <2>5, <2>6 DEF Promise!Next, OpenSessions
<1>6. QED
  BY <1>1, <1>2, <1>3, <1>4, <1>5

LEMMA OpenIs ==
    ASSUME IInv
    PROVE  /\ \A e \in listed : session[e] # 0 => session[e] \in OpenSessions
           /\ \A s \in OpenSessions : s # 0 /\ \E e \in listed : session[e] = s
BY OpenSession DEF OpenSessions, Open, IInv, TypesOK, ReadoutTypeOK

LEMMA SameRecords ==
    /\ UNCHANGED blocks => Owners' = Owners
    /\ UNCHANGED records => Handed' = Handed
    /\ UNCHANGED lost => Overlooked' = Overlooked
    /\ UNCHANGED <<blocks, listed, session>> => OpenSessions' = OpenSessions
BY DEF Owners, Handed, Overlooked, OpenSessions, Open

\* A registration ends, and its session if it is of one.
LEMMA LessListed ==
    ASSUME IInv, NEW e, listed' = listed \ {e}, UNCHANGED <<session, records, blocks, lost>>
    PROVE  Stutters \/ \E s : GivesUp(s)
<1>1. Owners' = Owners /\ Handed' = Handed /\ Overlooked' = Overlooked
  BY SameRecords
<1>2. CASE e \in listed /\ session[e] # 0
  <2>1. session[e] \in OpenSessions
    BY <1>2, OpenIs
  <2>2. \A d \in listed : d # e => session[d] # session[e]
    BY <1>2 DEF IInv, ListOK
  <2>3. OpenSessions' = OpenSessions \ {session[e]}
    BY <1>2, <2>2 DEF OpenSessions, Open
  <2>4. QED
    BY <1>1, <2>1, <2>3 DEF GivesUp
<1>3. CASE e \in listed /\ session[e] = 0
  <2>1. 0 \notin DOMAIN blocks
    BY DEF IInv, TypesOK, ReadoutTypeOK
  <2>2. OpenSessions' = OpenSessions
    BY <1>3, <2>1 DEF OpenSessions, Open
  <2>3. QED
    BY <1>1, <2>2 DEF Stutters
<1>4. CASE e \notin listed
  <2>1. listed' = listed
    BY <1>4
  <2>2. QED
    BY <1>1, <2>1, SameRecords DEF Stutters
<1>5. QED
  BY <1>2, <1>3, <1>4

\* What was read, as the blocks of some cards each from a card.
LEMMA ReadFrom ==
    ASSUME NEW b \in Session, OneOfEach(b)
    PROVE  \E from \in [Gathered(b) -> Card] :
              /\ b.read = {[bn |-> n, card |-> from[n]] : n \in DOMAIN from}
              /\ \A n \in DOMAIN from : \E r \in b.read : r.card = from[n]
<1> DEFINE of(n) == CHOOSE r \in b.read : r.bn = n
           from == [n \in Gathered(b) |-> of(n).card]
<1>1. \A n \in Gathered(b) : of(n) \in b.read /\ of(n).bn = n
  BY DEF Gathered
<1>2. \A r \in b.read : r \in BlockRecord /\ r.bn \in Gathered(b)
  BY DEF Session, Gathered
<1>3. \A r \in b.read : of(r.bn) = r
  BY <1>1, <1>2 DEF OneOfEach
<1> HIDE DEF of
<1>4. from \in [Gathered(b) -> Card]
  BY <1>1, <1>2 DEF BlockRecord
<1>5. \A r \in b.read : r = [bn |-> r.bn, card |-> from[r.bn]]
  BY <1>2, <1>3 DEF BlockRecord
<1>6. \A n \in Gathered(b) : [bn |-> n, card |-> from[n]] \in b.read
  <2>1. ASSUME NEW n \in Gathered(b)
        PROVE  [bn |-> n, card |-> from[n]] \in b.read
    <3>1. of(n) \in b.read /\ of(n).bn = n
      BY <1>1
    <3>2. of(n) = [bn |-> n, card |-> from[n]]
      BY <1>5, <3>1
    <3>3. QED
      BY <3>1, <3>2
  <2>2. QED
    BY <2>1
<1>7. \A n \in Gathered(b) : \E r \in b.read : r.card = from[n]
  BY <1>1
<1> HIDE DEF from
<1>8. b.read = {[bn |-> n, card |-> from[n]] : n \in Gathered(b)}
  <2>1. \A r \in b.read : r \in {[bn |-> n, card |-> from[n]] : n \in Gathered(b)}
    BY <1>2, <1>5
  <2>2. \A r \in {[bn |-> n, card |-> from[n]] : n \in Gathered(b)} : r \in b.read
    BY <1>6
  <2>3. QED
    BY <2>1, <2>2
<1>9. DOMAIN from = Gathered(b)
  BY <1>4
<1>10. QED
  BY <1>4, <1>7, <1>8, <1>9

LEMMA ElementOf ==
    \A S : \A q \in Seq(S) : DOMAIN q = 1..Len(q) /\ \A i \in DOMAIN q : q[i] \in S
OBVIOUS

LEMMA AppendIs ==
    \A S : \A q \in Seq(S) : \A x \in S :
        Append(q, x) = [i \in 1..(Len(q) + 1) |-> IF i = Len(q) + 1 THEN x ELSE q[i]]
<1> SUFFICES ASSUME NEW S, NEW q \in Seq(S), NEW x \in S
             PROVE  Append(q, x) = [i \in 1..(Len(q) + 1) |-> IF i = Len(q) + 1 THEN x ELSE q[i]]
  OBVIOUS
<1>1. Append(q, x) \in Seq(S) /\ Len(Append(q, x)) = Len(q) + 1
  OBVIOUS
<1>2. Append(q, x) \in [1..(Len(q) + 1) -> S]
  BY <1>1, LenProperties
<1>3. \A i \in 1..(Len(q) + 1) : Append(q, x)[i] = IF i = Len(q) + 1 THEN x ELSE q[i]
  OBVIOUS
<1>4. QED
  BY <1>2, <1>3

LEMMA CardInsertedImplements ==
    ASSUME IInv, NEW t \in Command, CardInserted(t)
    PROVE  \E c \in Card : Announced(c)
<1> DEFINE new == [comm |-> CHOOSE k \in Comms : k.inserted = t, owner |-> Head(line).card,
                   needed |-> {0}, read |-> {}]
           n == Len(blocks)
           c == Head(line).card
<1>1. PICK e \in listed : TakenBy(t, e) /\ response[e] = "start"
  BY DEF CardInserted
<1>2. /\ Handles(t) /\ t \in Inserted
      /\ blocks' = Append(blocks, new) /\ CommandRead(Len(blocks'), new)
      /\ UNCHANGED records
  BY DEF CardInserted
<1>3. PICK x \in ReadableCard : Head(line) = InsertedOf(x)
  BY <1>2, HandledLine, MessageKinds DEF IInv, TypesOK
<1>4. /\ c = x /\ c \in Card /\ Comm(c) \in Comms /\ Comm(c).get \in Get
      /\ new = [comm |-> Comm(c), owner |-> c, needed |-> {0}, read |-> {}]
  <2>1. Head(line).card = x /\ Head(line).type = Comm(x).inserted /\ x \in Card
    BY <1>3 DEF InsertedOf, ReadableCard
  <2>2. Comm(x) \in Comms /\ Comm(x).get \in Get
    BY CommOfCard DEF IInv, TypesOK
  <2>3. QED
    BY <1>2, <2>1, <2>2, HandledLine, CommByInserted DEF IInv, TypesOK
<1>0. lost' = lost
  BY <1>2, HandledLine
<1> HIDE DEF new, c
<1>5. /\ n \in Nat /\ Len(blocks') = n + 1 /\ DOMAIN blocks = 1..n /\ DOMAIN blocks' = 1..(n + 1)
      /\ \A i \in 1..n : blocks'[i] = blocks[i]
      /\ blocks'[n + 1] = new /\ new.owner = c /\ new.comm.get \in Get
      /\ \A i \in 1..n : blocks[i].owner \in Card
  <2>1. new \in Session /\ new.owner = c /\ new.comm.get \in Get
    BY <1>4 DEF Session
  <2>2. blocks \in Seq(Session) /\ blocks' = Append(blocks, new)
    BY <1>2 DEF IInv, TypesOK, ReadoutTypeOK
  <2>3. \A i \in DOMAIN blocks : blocks[i].owner \in Card
    <3>1. \A b \in Session : b.owner \in Card
      BY DEF Session
    <3>2. QED
      BY <2>2, <3>1, ElementOf
  <2>4. QED
    BY <2>1, <2>2, <2>3
<1>6. Owners' = Append(Owners, c) /\ Len(Owners') = n + 1
  <2>1. Owners \in Seq(Card) /\ Len(Owners) = n
    BY <1>5 DEF Owners
  <2>2. Append(Owners, c) = [i \in 1..(n + 1) |-> IF i = n + 1 THEN c ELSE Owners[i]]
    BY <1>4, <2>1, AppendIs
  <2>3. \A i \in 1..(n + 1) : blocks'[i].owner = IF i = n + 1 THEN c ELSE Owners[i]
    BY <1>5 DEF Owners
  <2>4. Owners' = [i \in 1..(n + 1) |-> blocks'[i].owner]
    BY <1>5 DEF Owners
  <2>5. Owners' = Append(Owners, c)
    BY <2>2, <2>3, <2>4
  <2>6. QED
    BY <1>4, <2>1, <2>5
<1>7. /\ next \in Registration /\ listed' = listed \cup {next} /\ session' = [session EXCEPT ![next] = n + 1]
  <2>1. Registers(new.comm.get) /\ session' = [session EXCEPT ![next] = n + 1]
    BY <1>2, <1>5 DEF CommandRead
  <2>2. new.comm.get \in Response
    BY <1>5, ResponsesAre
  <2>3. QED
    BY <1>1, <2>1, <2>2, TakenRegisters DEF IInv, TypesOK, Kept
<1>8. /\ \A d \in listed : d # next /\ d \in Registration
      /\ \A d \in Registration : session[d] \in 0..n
      /\ \A d \in listed : session'[d] = session[d]
      /\ session'[next] = n + 1
  <2>1. \A d \in listed : d # next /\ d \in Registration
    BY <1>7 DEF IInv, ListOK, TypesOK, ListTypeOK, Registration
  <2>2. session \in [Registration -> 0..n]
    BY DEF IInv, TypesOK, ReadoutTypeOK
  <2>3. QED
    BY <1>7, <2>1, <2>2
<1>9. OpenSessions' = OpenSessions \cup {n + 1}
  <2>1. \A s \in 1..n : Open(s)' <=> Open(s)
    BY <1>5, <1>7, <1>8 DEF Open
  <2>2. \A s : s = n + 1 => Open(s)'
    BY <1>7, <1>8 DEF Open
  <2>3. QED
    BY <1>5, <2>1, <2>2 DEF OpenSessions
<1>10. OpenSessions = {} \/ Overlooked
  <2>1. ASSUME Heard, NEW s \in OpenSessions
        PROVE  FALSE
    <3>1. PICK d \in listed : session[d] = s /\ session[d] # 0
      BY OpenIs
    <3>2. blocks[session[d]].owner \in Card /\ Reads(blocks[session[d]].owner)
      BY <3>1, OpenSession DEF SessionOK, ReadableCard
    <3>3. QED
      BY <1>2, <2>1, <3>2, ReadsNow
  <2>2. QED
    BY <2>1 DEF Overlooked, Heard
<1>11. Handed' = Handed /\ Overlooked' = Overlooked
  BY <1>0, <1>2, SameRecords
<1>12. QED
  BY <1>4, <1>6, <1>9, <1>10, <1>11 DEF Announced

LEMMA CardReadImplements ==
    ASSUME IInv, NEW t \in Command, CardRead(t)
    PROVE  \E s : \E cs \in SUBSET Card :
               \E from \in [UNION {Whole(c) : c \in cs} -> Card] : RecordsFrom(s, cs, from)
<1>1. PICK e \in listed : /\ TakenBy(t, e) /\ t = response[e]
                          /\ LET b == BlockRead(blocks[session[e]], Head(line))
                             IN /\ blocks' = [blocks EXCEPT ![session[e]] = b]
                                /\ b.needed = {}
                                /\ records' = Append(records, [session |-> session[e],
                                                               owner |-> b.owner, read |-> b.read])
  BY DEF CardRead
<1> DEFINE b == BlockRead(blocks[session[e]], Head(line))
           s == session[e]
           record == [session |-> s, owner |-> b.owner, read |-> b.read]
<1>2. Handles(t) /\ RegistersNothing /\ UNCHANGED session
  BY DEF CardRead
<1>3. blocks' = [blocks EXCEPT ![s] = b] /\ b.needed = {} /\ records' = Append(records, record)
  BY <1>1
<1>4. /\ s # 0 /\ s \in DOMAIN blocks /\ response[e] # "start"
      /\ b \in Session /\ SessionOK(b) /\ (Heard => Faithful(b))
      /\ b.owner = blocks[s].owner /\ b.comm = blocks[s].comm
  BY <1>1, <1>2, BlockComes
<1> HIDE DEF b
<1>5. listed' = listed \ {e} /\ lost' = lost
  BY <1>1, <1>2, <1>4, TakenRegistersNothing, HandledLine DEF IInv, TypesOK, Kept
<1>6. /\ DOMAIN blocks' = DOMAIN blocks /\ \A i \in DOMAIN blocks : blocks'[i].owner = blocks[i].owner
  BY <1>3, <1>4, BlocksThen DEF SessionsStay
<1>7. Owners' = Owners
  BY <1>6 DEF Owners
<1>8. s \in OpenSessions /\ OpenSessions' = OpenSessions \ {s}
  <2>1. s \in OpenSessions
    BY <1>4, OpenIs
  <2>2. \A d \in listed : d # e => session[d] # s
    BY <1>4 DEF IInv, ListOK
  <2>3. QED
    BY <1>2, <1>5, <1>6, <2>1, <2>2 DEF OpenSessions, Open
<1>9. Handed' = Append(Handed, <<s, b.read>>)
  <2> DEFINE n == Len(records)
             Pair == Nat \X SUBSET BlockRecord
  <2>1. record.session = s /\ record.read = b.read /\ s \in Nat /\ b.read \in SUBSET BlockRecord
        /\ record \in [session : Nat, owner : Card, read : SUBSET BlockRecord]
    <3>1. s \in Nat
      BY <1>4 DEF IInv, TypesOK, ReadoutTypeOK
    <3>2. QED
      BY <1>4, <3>1 DEF Session
  <2> HIDE DEF record
  <2>2. /\ n \in Nat /\ DOMAIN records = 1..n /\ DOMAIN records' = 1..(n + 1)
        /\ \A i \in 1..n : records'[i] = records[i]
        /\ records'[n + 1] = record
        /\ \A i \in 1..n : <<records[i].session, records[i].read>> \in Pair
    <3>1. /\ records \in Seq([session : Nat, owner : Card, read : SUBSET BlockRecord])
          /\ records' = Append(records, record)
      BY <1>3 DEF IInv, TypesOK, ReadoutTypeOK
    <3>2. \A i \in DOMAIN records : /\ records[i].session \in Nat
                                    /\ records[i].read \in SUBSET BlockRecord
      <4>1. \A r \in [session : Nat, owner : Card, read : SUBSET BlockRecord] :
                r.session \in Nat /\ r.read \in SUBSET BlockRecord
        OBVIOUS
      <4>2. QED
        BY <3>1, <4>1, ElementOf
    <3>3. QED
      BY <2>1, <3>1, <3>2
  <2>3. Handed \in Seq(Pair) /\ Len(Handed) = n
    BY <2>2 DEF Handed
  <2>4. Append(Handed, <<s, b.read>>) =
            [i \in 1..(n + 1) |-> IF i = n + 1 THEN <<s, b.read>> ELSE Handed[i]]
    BY <2>1, <2>3
  <2>5. \A i \in 1..(n + 1) : <<records'[i].session, records'[i].read>> =
                                  IF i = n + 1 THEN <<s, b.read>> ELSE Handed[i]
    BY <2>1, <2>2 DEF Handed
  <2>6. Handed' = [i \in 1..(n + 1) |-> <<records'[i].session, records'[i].read>>]
    BY <2>2 DEF Handed
  <2>7. QED
    BY <2>4, <2>5, <2>6
<1>10. \E cs \in SUBSET Card : /\ cs # {} /\ Gathered(b) = UNION {Whole(c) : c \in cs}
                               /\ Heard => cs = {b.owner}
  <2>1. CASE Heard
    <3>1. {b.owner} \in SUBSET Card /\ MadeOf(b, {b.owner})
      BY <1>4, <2>1 DEF Faithful, Session
    <3>2. QED
      BY <1>3, <1>4, <3>1, NothingNeeded
  <2>2. CASE ~Heard
    BY <1>3, <1>4, <2>2, NothingNeeded DEF SessionOK
  <2>3. QED
    BY <2>1, <2>2
<1>11. PICK cs \in SUBSET Card : /\ cs # {} /\ Gathered(b) = UNION {Whole(c) : c \in cs}
                                 /\ Heard => cs = {b.owner}
  BY <1>10
<1>12. PICK from \in [Gathered(b) -> Card] :
              /\ b.read = {[bn |-> n, card |-> from[n]] : n \in DOMAIN from}
              /\ \A n \in DOMAIN from : \E r \in b.read : r.card = from[n]
  BY <1>4, ReadFrom DEF SessionOK
<1>13. Owners[s] = b.owner
  BY <1>4 DEF Owners
<1>14. Overlooked \/ (cs = {Owners[s]} /\ \A n \in DOMAIN from : from[n] = Owners[s])
  BY <1>4, <1>11, <1>12, <1>13 DEF Overlooked, Heard, Faithful
<1>15. Overlooked' = Overlooked
  BY <1>5, SameRecords
<1>16. RecordsFrom(s, cs, from)
  BY <1>7, <1>8, <1>9, <1>11, <1>12, <1>14, <1>15 DEF RecordsFrom
<1>17. QED
  BY <1>11, <1>12, <1>16

\* The session goes on: one registration of it for another.
LEMMA NextBlockImplements ==
    ASSUME IInv, NEW t \in Command, NextBlock(t)
    PROVE  Stutters
<1>1. PICK e \in listed : /\ TakenBy(t, e) /\ t = response[e]
                          /\ LET b == BlockRead(blocks[session[e]], Head(line))
                             IN /\ blocks' = [blocks EXCEPT ![session[e]] = b]
                                /\ b.needed # {}
                                /\ CommandRead(session[e], b)
  BY DEF NextBlock
<1> DEFINE b == BlockRead(blocks[session[e]], Head(line))
           s == session[e]
<1>2. Handles(t) /\ UNCHANGED records
  BY DEF NextBlock
<1>3. /\ blocks' = [blocks EXCEPT ![s] = b]
      /\ Registers(b.comm.get) /\ session' = [session EXCEPT ![next] = s]
  BY <1>1 DEF CommandRead
<1>4. /\ s # 0 /\ s \in DOMAIN blocks /\ response[e] # "start" /\ b \in Session
      /\ b.owner = blocks[s].owner /\ b.comm = blocks[s].comm /\ b.comm.get \in Get
  BY <1>1, <1>2, BlockComes
<1> HIDE DEF b
<1>5. next \in Registration /\ listed' = (listed \ {e}) \cup {next} /\ lost' = lost
  BY <1>1, <1>2, <1>3, <1>4, TakenRegisters, ResponsesAre, HandledLine DEF IInv, TypesOK, Kept
<1>6. /\ DOMAIN blocks' = DOMAIN blocks /\ \A i \in DOMAIN blocks : blocks'[i].owner = blocks[i].owner
  BY <1>3, <1>4, BlocksThen DEF SessionsStay
<1>7. Owners' = Owners /\ Handed' = Handed /\ Overlooked' = Overlooked
  BY <1>2, <1>5, <1>6, SameRecords DEF Owners
<1>8. /\ \A d \in listed : d # next /\ session'[d] = session[d]
      /\ session'[next] = s
  <2>1. \A d \in listed : d # next /\ d \in Registration
    BY <1>5 DEF IInv, ListOK, TypesOK, ListTypeOK, Registration
  <2>2. session \in [Registration -> 0..Len(blocks)]
    BY DEF IInv, TypesOK, ReadoutTypeOK
  <2>3. QED
    BY <1>3, <1>5, <2>1, <2>2
<1>9. OpenSessions' = OpenSessions
  <2>1. \A i : Open(i) <=> Open(i)'
    BY <1>5, <1>8 DEF Open
  <2>2. QED
    BY <1>6, <2>1 DEF OpenSessions
<1>10. QED
  BY <1>7, <1>9 DEF Stutters

LEMMA InitImplements == Init => Promise!Init
<1> SUFFICES ASSUME Init PROVE Promise!Init
  OBVIOUS
<1>1. blocks = <<>> /\ records = <<>> /\ lost = {}
  BY DEF Init
<1>2. DOMAIN blocks = {} /\ DOMAIN records = {}
  BY <1>1
<1>3. Owners = <<>> /\ Handed = <<>> /\ OpenSessions = {} /\ ~Overlooked
  BY <1>1, <1>2 DEF Owners, Handed, OpenSessions, Overlooked
<1>4. Overlooked = FALSE
  BY <1>3 DEF Overlooked
<1>5. QED
  BY <1>3, <1>4 DEF Promise!Init, Owners, Handed, OpenSessions, Overlooked

LEMMA StepImplements == IInv /\ [Next]_vars => [Promise!Next]_(Promise!vars)
<1> SUFFICES ASSUME IInv, [Next]_vars PROVE [Promise!Next]_(Promise!vars)
  OBVIOUS
<1>1. UNCHANGED <<channel, readout, lost>> => Stutters
  BY SameRecords DEF channel, readout, Stutters
<1>2. ASSUME NEW c \in Card, InsertCard(c)
      PROVE  Stutters
  <2>1. Overlooked' = Overlooked
    BY <1>2 DEF InsertCard, Announces, Overlooked
  <2>2. QED
    BY <1>2, <2>1, SameRecords DEF InsertCard, channel, readout, Stutters
<1>3. CASE RemoveCard
  <2>1. UNCHANGED <<channel, readout>> /\ (lost' = lost \/ lost' = lost \cup {"removal"})
    BY <1>3 DEF RemoveCard, Announces
  <2>2. CASE lost' = lost
    BY <1>1, <2>1, <2>2, StepsOfReadout
  <2>3. CASE lost' = lost \cup {"removal"}
    <3>1. Overlooked' = TRUE
      BY <2>3 DEF Overlooked
    <3>2. Overlooks
      BY <2>1, <3>1, SameRecords DEF channel, readout, Overlooks
    <3>3. QED
      BY <3>2, StepsOfReadout
  <2>4. QED
    BY <2>1, <2>2, <2>3
<1>4. CASE Serve
  <2>1. UNCHANGED <<channel, readout, lost>>
    BY <1>4 DEF Serve, station
  <2>2. QED
    BY <1>1, <2>1, StepsOfReadout
<1>5. CASE Start
  <2>1. /\ next = 1 /\ Channel!Push(listed, timer, "start")
        /\ UNCHANGED <<station, readout>>
    BY <1>5 DEF Start, Channel!Register
  <2>2. listed' = listed \cup {1} /\ UNCHANGED <<blocks, session, records, lost>> /\ 1 \in Registration
    BY <2>1 DEF Channel!Push, readout, station, Channel!Registration, Registration
  <2>3. session[1] = 0 /\ 0 \notin DOMAIN blocks
    BY <2>1, <2>2 DEF IInv, ListOK, TypesOK, ReadoutTypeOK
  <2>4. OpenSessions' = OpenSessions
    BY <2>2, <2>3 DEF OpenSessions, Open
  <2>5. Stutters
    BY <2>2, <2>4, SameRecords DEF Stutters
  <2>6. QED
    BY <2>5, StepsOfReadout
<1>6. ASSUME NEW t \in Command, CardInserted(t)
      PROVE  [Promise!Next]_(Promise!vars)
  BY <1>6, CardInsertedImplements, StepsOfReadout
<1>7. ASSUME NEW t \in Command, NEW e \in listed, TakenBy(t, e), Handles(t), RegistersNothing,
             UNCHANGED readout
      PROVE  Stutters \/ \E s : GivesUp(s)
  <2>1. listed' = Kept(e) /\ lost' = lost
    BY <1>7, TakenRegistersNothing, HandledLine DEF IInv, TypesOK
  <2>2. CASE response[e] = "start"
    BY <1>7, <2>1, <2>2, SameRecords DEF Kept, readout, Stutters
  <2>3. CASE response[e] # "start"
    BY <1>7, <2>1, <2>3, LessListed DEF Kept, readout
  <2>4. QED
    BY <2>2, <2>3
<1>8. ASSUME NEW t \in Command, CardRemoved(t)
      PROVE  Stutters \/ \E s : GivesUp(s)
  BY <1>7, <1>8 DEF CardRemoved
<1>9. CASE NakRetry
  <2>1. "nak" \in Command
    BY DEF Command
  <2>2. QED
    BY <1>7, <1>9, <2>1, StepsOfReadout DEF NakRetry
<1>10. ASSUME NEW t \in Command, NoTaker(t)
       PROVE  Stutters
  BY <1>1, <1>10, HandledLine DEF NoTaker
<1>11. ASSUME NEW t \in Command, CardRead(t)
       PROVE  [Promise!Next]_(Promise!vars)
  BY <1>11, CardReadImplements, StepsOfReadout
<1>12. ASSUME NEW t \in Command, NextBlock(t)
       PROVE  Stutters
  BY <1>12, NextBlockImplements
<1>13. ASSUME NEW e \in Channel!Registration, TimerExpires(e)
       PROVE  Stutters
  <2>1. UNCHANGED <<listed, station, readout>>
    BY <1>13 DEF TimerExpires, Channel!TimerExpires
  <2>2. QED
    BY <2>1, SameRecords DEF station, readout, Stutters
<1>14. ASSUME NEW e \in Channel!Registration, CardReadTimeout(e)
       PROVE  Stutters \/ \E s : GivesUp(s)
  <2>1. listed' = listed \ {e}
    BY <1>14, TimeoutEffect DEF IInv, TypesOK
  <2>2. UNCHANGED <<station, readout>>
    BY <1>14 DEF CardReadTimeout
  <2>3. QED
    BY <2>1, <2>2, LessListed DEF station, readout
<1>15. CASE UNCHANGED vars
  BY <1>1, <1>15, StepsOfReadout DEF vars, station
<1>16. QED
  BY <1>2, <1>3, <1>4, <1>5, <1>6, <1>8, <1>9, <1>10, <1>11, <1>12, <1>13, <1>14, <1>15,
     StepsOfReadout DEF Next

\* The program keeps the promise of a readout: what it does with expectations, timers,
\* naks and announcements comes down, for every card and every loss, to sessions that
\* are announced, end without a record, or end with the one record they have.
THEOREM ImplementsReadout == Spec => ReadsAsPromised
<1>1. IInv /\ IInv' /\ [Next]_vars => [Promise!Next]_(Promise!vars)
  BY StepImplements
<1>2. QED
  BY IInvHolds, InitImplements, <1>1, PTL DEF Spec, ReadsAsPromised, Promise!Spec

-----------------------------------------------------------------------------
(***************************************************************************)
(* What is proved of the promise holds of the program.                     *)
(***************************************************************************)
Readouts == INSTANCE ReadoutProofs WITH
    Blocks <- [c \in Card |-> {0} \cup MoreBlocks[c]],
    owners <- Owners, open <- OpenSessions, records <- Handed, overlooked <- Overlooked

LEMMA SamePromise == Spec => Readouts!Spec
<1>1. Promise!Init => Readouts!Init
  BY DEF Promise!Init, Readouts!Init, Owners, OpenSessions, Handed, Overlooked
<1>2. [Promise!Next]_(Promise!vars) => [Readouts!Next]_(Readouts!vars)
  BY DEF Promise!Next, Promise!Overlook, Promise!Announce, Promise!Record, Promise!GiveUp,
         Promise!Read, Promise!Parts, Promise!vars,
         Readouts!Next, Readouts!Overlook, Readouts!Announce, Readouts!Record, Readouts!GiveUp,
         Readouts!Read, Readouts!Parts, Readouts!vars,
         Owners, OpenSessions, Handed, Overlooked
<1>3. QED
  BY ImplementsReadout, <1>1, <1>2, PTL DEF ReadsAsPromised, Promise!Spec, Readouts!Spec

\* chip_read_cb gets no second record of a session.
THEOREM OneRecordEach == Spec => [](\A i, j \in DOMAIN records :
                                        records[i].session = records[j].session => i = j)
<1>1. Readouts!OneRecord => \A i, j \in DOMAIN records :
                                records[i].session = records[j].session => i = j
  <2>1. DOMAIN Handed = DOMAIN records /\ \A i \in DOMAIN records : Handed[i][1] = records[i].session
    BY DEF Handed
  <2>2. QED
    BY <2>1 DEF Readouts!OneRecord
<1>2. QED
  BY SamePromise, Readouts!OneRecordEach, <1>1, PTL

\* As long as no removal of a card is lost, chip_read_cb gets the records in the order in
\* which the station announced the cards.
THEOREM RecordsInTurn == Spec => [](Heard => \A i, j \in DOMAIN records :
                                        i < j => records[i].session < records[j].session)
<1>1. Readouts!InTurn => (Heard => \A i, j \in DOMAIN records :
                                       i < j => records[i].session < records[j].session)
  <2>1. DOMAIN Handed = DOMAIN records /\ \A i \in DOMAIN records : Handed[i][1] = records[i].session
    BY DEF Handed
  <2>2. QED
    BY <2>1 DEF Readouts!InTurn, Heard, Overlooked
<1>2. QED
  BY SamePromise, Readouts!RecordsInTurn, <1>1, PTL

=============================================================================
