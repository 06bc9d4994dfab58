----------------------------- MODULE ChipReadout -----------------------------
(***************************************************************************)
(* chip_readout.h and blocks_read.h on a channel: a permanent expectation  *)
(* for cards that are put into the station, and for each of them a session *)
(* that asks for one block after the other.                                *)
(*                                                                         *)
(* Every step that touches the expectations is a step of ChannelInput,     *)
(* whose callbacks are here the member functions of chip_readout.          *)
(***************************************************************************)
EXTENDS Naturals, Sequences, SequencesExt, FiniteSetsExt

CONSTANTS
    Card,
    Family,            \* [Card -> the key of comm_switch]
    MoreBlocks,        \* [Card -> SUBSET (1..7)]: what its block 0 asks for (CardLayout)
    MaxInsertions,     \* bound: cards put into the station
    MaxRegistrations

ASSUME FamilyAssumption == Family \in [Card -> {"card_5", "card_6", "card_8_family"}]
ASSUME MoreBlocksAssumption ==
    /\ MoreBlocks \in [Card -> SUBSET (1..7)]
    /\ \A c \in Card : Family[c] = "card_5" => MoreBlocks[c] = {}
ASSUME InsertionsAssumption == MaxInsertions \in Nat
ASSUME RegistrationsAssumption == MaxRegistrations \in Nat

NoCard == "no card"
ASSUME NoCardAssumption == NoCard \notin Card

VARIABLES
    next, response, timer, listed, life_bound, running, reactions, timeouts,   \* the channel
    protocol,      \* the one the startup has ended with
    reader,        \* the card in the station
    insertions,    \* how many there have been
    lost,          \* history: the kinds of announcements that did not arrive
    outgoing,      \* commands written and not yet seen by the station
    line,          \* what the station sends and the io thread has not handled
    blocks,        \* the blocks_read objects, one per session
    session,       \* [Registration -> 0..Len(blocks)]: the one its reactions are bound to
    hung,          \* the io thread is in check_input for ever
    records        \* history: what chip_read_cb got, in order

channel == <<next, response, timer, listed, life_bound, running, reactions, timeouts>>
station == <<reader, insertions, lost>>
readout == <<blocks, session, records>>
vars == <<channel, protocol, station, outgoing, line, readout, hung>>

-----------------------------------------------------------------------------
\* Commands by protocol and family; the basic protocol says of a card_5, and of the
\* removal of any card, that a card has moved.
comm_switch ==
    [extended |->
        [card_5 |-> [inserted |-> "si_card5_inserted", get |-> "si_card5_get", removed |-> "si_card_removed"],
         card_6 |-> [inserted |-> "si_card6_inserted", get |-> "si_card6_get", removed |-> "si_card_removed"],
         card_8_family |->
                    [inserted |-> "si_card8_inserted", get |-> "si_card8_get", removed |-> "si_card_removed"]],
     basic |->
        [card_5 |-> [inserted |-> "moved I", get |-> "basic si_card5_get", removed |-> "moved O"],
         card_6 |-> [inserted |-> "basic si_card6_inserted", get |-> "basic si_card6_get", removed |-> "moved O"]]]

Comms == UNION {Range(comm_switch[p]) : p \in DOMAIN comm_switch}
Inserted == {comm.inserted : comm \in Comms}
Removed == {comm.removed : comm \in Comms}
Get == {comm.get : comm \in Comms}

\* The expectations: the one of start, and one for each kind of block, named as it.
Response == {"start"} \cup Get
Permanent == {"start"}
Command == Inserted \cup Removed \cup Get \cup {"nak"}

\* Mutant: a session does not look at the removal of its card.
TakesIgnoringRemoval(comm) == {comm.get, "nak"}

\* What the expectation of a session takes besides its block.
Takes(comm) == {comm.get, "nak"} \cup (IF comm.removed = "moved O" THEN {"moved I", "moved O"}
                                                                    ELSE {comm.removed})

Accepts == [r \in Response |->
               IF r = "start" THEN Inserted \cup Removed
               ELSE UNION {Takes(comm) : comm \in {k \in Comms : k.get = r}}]

Channel == INSTANCE ChannelInput

Registers(r) == next' = next + 1 /\ response'[next] = r
RegistersNothing == next' = next

Init == /\ Channel!Init
        /\ protocol \in DOMAIN comm_switch
        /\ reader = NoCard /\ insertions = 0 /\ lost = {}
        /\ outgoing = <<>> /\ line = <<>>
        /\ blocks = <<>> /\ session = [e \in Channel!Registration |-> 0]
        /\ hung = FALSE
        /\ records = <<>>

-----------------------------------------------------------------------------
(***************************************************************************)
(* The station: it announces cards, gives the blocks of the card that is   *)
(* there when it sees the request, refuses, or says nothing.               *)
(***************************************************************************)
Readable(c) == Family[c] \in DOMAIN comm_switch[protocol]
Comm(c) == comm_switch[protocol][Family[c]]

\* An announcement arrives, or its bytes are damaged and the parser drops them.
Announces(m, kind) == \/ line' = Append(line, m) /\ lost' = lost
                      \/ line' = line /\ lost' = lost \cup {kind}

InsertCard(c) ==
    /\ reader = NoCard /\ insertions < MaxInsertions /\ Readable(c)
    /\ reader' = c
    /\ insertions' = insertions + 1
    /\ Announces([type |-> Comm(c).inserted, card |-> c], "insertion")
    /\ UNCHANGED <<channel, protocol, outgoing, readout, hung>>

RemoveCard ==
    /\ reader # NoCard
    /\ reader' = NoCard
    /\ Announces([type |-> Comm(reader).removed], "removal")
    /\ UNCHANGED <<channel, protocol, insertions, outgoing, readout, hung>>

Serve == /\ outgoing # <<>>
         /\ outgoing' = Tail(outgoing)
         /\ LET asked == Head(outgoing)
                has == /\ reader # NoCard
                       /\ asked.type = Comm(reader).get
                       /\ asked.bn \in {0} \cup MoreBlocks[reader]
            IN \/ line' = line
               \/ /\ asked.type \in Get /\ has
                  /\ line' = Append(line, [type |-> asked.type, bn |-> asked.bn, card |-> reader])
               \/ /\ asked.type \in Get /\ ~has
                  /\ line' = Append(line, [type |-> "nak"])
         /\ UNCHANGED <<channel, protocol, station, readout, hung>>

-----------------------------------------------------------------------------
\* start, called by the success of the startup.
Start == /\ next = 1
         /\ Channel!Register("start")
         /\ UNCHANGED <<protocol, station, outgoing, line, readout, hung>>

(***************************************************************************)
(* handle_read decodes the next command and process_command_input finds    *)
(* its taker.                                                              *)
(***************************************************************************)
Handles(t) == /\ ~hung
              /\ line # <<>> /\ Head(line).type = t
              /\ line' = Tail(line)
              /\ UNCHANGED <<protocol, station>>

TakenBy(t, e) == /\ Channel!ProcessCommandInput(t)
                 /\ Channel!Taker(t, e)

\* Mutant: the iterator is one past the block.
FirstNeededPast(needed) == Max(needed) + 1

\* fill_block; a card_5 has one block and no number for it.
FirstNeeded(needed) == Min(needed)

\* si_card_command_read for the session s with the state b.
CommandRead(s, b) ==
    /\ Registers(b.comm.get)
    /\ session' = [session EXCEPT ![next] = s]
    /\ outgoing' = Append(outgoing, [type |-> b.comm.get, bn |-> FirstNeeded(b.needed)])

\* si_card_inserted
CardInserted(t) ==
    /\ Handles(t)
    /\ t \in Inserted
    /\ \E e \in listed : TakenBy(t, e) /\ response[e] = "start"
    /\ LET new == [comm |-> CHOOSE k \in Comms : k.inserted = t, owner |-> Head(line).card,
                   needed |-> {0}, read |-> {}]
       IN /\ blocks' = Append(blocks, new)
          /\ CommandRead(Len(blocks'), new)
    /\ UNCHANGED <<records, hung>>

\* si_card_removed; si_card_removed_during_readout, which a card that moves in under
\* the basic protocol also runs: the session gets no further expectation.
CardRemoved(t) ==
    /\ Handles(t)
    /\ t \in Inserted \cup Removed
    /\ \E e \in listed : TakenBy(t, e) /\ (response[e] = "start" => t \in Removed)
    /\ RegistersNothing
    /\ UNCHANGED <<outgoing, readout, hung>>

\* nak_retry: the count of 1 is decremented before it is tested.  detect_command of
\* the basic protocol does not consume the nak, which then has no taker for ever.
NakRetry == /\ Handles("nak")
            /\ \E e \in listed : TakenBy("nak", e)
            /\ RegistersNothing
            /\ hung' = (protocol = "basic")
            /\ UNCHANGED <<outgoing, readout>>

NoTaker(t) == /\ Handles(t)
              /\ \A e \in listed : ~Channel!Taker(t, e)
              /\ hung' = (t = "nak" /\ protocol = "basic")
              /\ UNCHANGED <<channel, outgoing, readout>>

\* blocks_read::block_read, behind get_blocks_needed for a block 0.
BlockRead(b, block) ==
    LET asked == b.needed \cup (IF block.bn = 0 THEN {0} \cup MoreBlocks[block.card] ELSE {})
        there == \E r \in b.read : r.bn = block.bn
    IN [b EXCEPT !.needed = asked \ {block.bn},
                 !.read = IF block.bn \in asked /\ ~there
                          THEN @ \cup {[bn |-> block.bn, card |-> block.card]} ELSE @]

\* Mutant: the session goes on behind its record.
CardReadGoesOn(t) ==
    /\ Handles(t)
    /\ \E e \in listed :
         /\ TakenBy(t, e) /\ t = response[e]
         /\ LET b == BlockRead(blocks[session[e]], Head(line))
            IN /\ blocks' = [blocks EXCEPT ![session[e]] = b]
               /\ b.needed = {}
               /\ records' = Append(records, [session |-> session[e], owner |-> b.owner, read |-> b.read])
               /\ CommandRead(session[e], [b EXCEPT !.needed = {0}])
    /\ UNCHANGED hung

\* si_card_read when the session is ready, and si_card_5_read: ack, and the record.
CardRead(t) ==
    /\ Handles(t)
    /\ \E e \in listed :
         /\ TakenBy(t, e) /\ t = response[e]
         /\ LET b == BlockRead(blocks[session[e]], Head(line))
            IN /\ blocks' = [blocks EXCEPT ![session[e]] = b]
               /\ b.needed = {}
               /\ records' = Append(records, [session |-> session[e], owner |-> b.owner, read |-> b.read])
    /\ RegistersNothing
    /\ outgoing' = Append(outgoing, [type |-> "ack"])
    /\ UNCHANGED <<session, hung>>

\* si_card_read when a block is still needed.
NextBlock(t) ==
    /\ Handles(t)
    /\ \E e \in listed :
         /\ TakenBy(t, e) /\ t = response[e]
         /\ LET b == BlockRead(blocks[session[e]], Head(line))
            IN /\ blocks' = [blocks EXCEPT ![session[e]] = b]
               /\ b.needed # {}
               /\ CommandRead(session[e], b)
    /\ UNCHANGED <<records, hung>>

-----------------------------------------------------------------------------
TimerExpires(e) == /\ Channel!TimerExpires(e)
                   /\ UNCHANGED <<protocol, station, outgoing, line, readout, hung>>

\* si_card_read_timeout only logs; a wait handler whose registration is gone does nothing.
CardReadTimeout(e) == /\ ~hung
                      /\ Channel!TimeoutExpired(e)
                      /\ RegistersNothing /\ UNCHANGED running
                      /\ UNCHANGED <<protocol, station, outgoing, line, readout, hung>>

Next == \/ \E c \in Card : InsertCard(c)
        \/ RemoveCard \/ Serve \/ Start
        \/ \E t \in Command : \/ CardInserted(t) \/ CardRemoved(t) \/ NoTaker(t)
                              \/ CardRead(t) \/ NextBlock(t)
        \/ NakRetry
        \/ \E e \in Channel!Registration : TimerExpires(e) \/ CardReadTimeout(e)

Spec == Init /\ [][Next]_vars

\* The clock and the io thread run; nothing is assumed of cards and station.
FairSpec == /\ Spec
            /\ \A e \in Channel!Registration :
                   WF_vars(TimerExpires(e)) /\ WF_vars(CardReadTimeout(e))

-----------------------------------------------------------------------------
TypeOK == /\ Channel!TypeOK
          /\ protocol \in DOMAIN comm_switch
          /\ reader \in Card \cup {NoCard}
          /\ insertions \in 0..MaxInsertions
          /\ lost \subseteq {"insertion", "removal"}
          /\ \A i \in DOMAIN outgoing : \/ outgoing[i].type = "ack"
                                       \/ outgoing[i].bn \in {0} \cup UNION Range(MoreBlocks)
          /\ \A i \in DOMAIN line : line[i].type \in Command
          /\ \A s \in DOMAIN blocks : blocks[s].comm \in Comms /\ blocks[s].needed \subseteq 0..7
          /\ session \in [Channel!Registration -> 0..Len(blocks)]
          /\ hung \in BOOLEAN

Open(s) == \E e \in listed : session[e] = s

\* A record is of the card that was put in, has all its blocks and none of another
\* card, although a request is answered from the card that is there when the station
\* sees it, and blocks come to the session that is open when they arrive.  Requests,
\* blocks and the announcement of a card may get lost; the removal of one may not.
RecordIsWhole ==
    \A i \in DOMAIN records :
        records[i].read = {[bn |-> n, card |-> records[i].owner] :
                              n \in {0} \cup MoreBlocks[records[i].owner]}
        \/ "removal" \in lost

Promise == INSTANCE Readout WITH
    Blocks <- [c \in Card |-> {0} \cup MoreBlocks[c]],
    owners <- [s \in DOMAIN blocks |-> blocks[s].owner],
    open <- {s \in DOMAIN blocks : Open(s)},
    records <- [i \in DOMAIN records |-> <<records[i].session, records[i].read>>],
    overlooked <- "removal" \in lost

\* The program keeps the promise of a readout: sessions one at a time, in the order of
\* the announcements, at most one record out of each, and no other way for one to end.
ReadsAsPromised == Promise!Spec

\* Every session comes to an end, with a record or without, whatever the station does,
\* as long as the io thread runs.
SessionEnds == \A s \in 1..MaxInsertions : Open(s) ~> (~Open(s) \/ hung)
=============================================================================
