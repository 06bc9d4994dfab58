------------------------------ MODULE Readout ------------------------------
(***************************************************************************)
(* What chip_readout promises to the owner of a card, whatever protocol,   *)
(* expectations and timers it is built from: a session for a card that is  *)
(* announced, one at a time, and out of it one record or none, of this     *)
(* card and whole.  The station may fail to say that a card has gone; then *)
(* sessions may overlap, and a record is only promised to have all blocks  *)
(* of the cards it is made of.                                             *)
(***************************************************************************)
EXTENDS Naturals, Sequences

CONSTANTS
    Card,
    Blocks        \* [Card -> the numbers of its blocks]

VARIABLES
    owners,       \* the card of each session
    open,         \* the sessions under way
    records,      \* what was handed to the callback: <<session, its blocks>>
    overlooked    \* a card has gone unheard

vars == <<owners, open, records, overlooked>>

Init == owners = <<>> /\ open = {} /\ records = <<>> /\ overlooked = FALSE

Overlook == overlooked' = TRUE /\ UNCHANGED <<owners, open, records>>

Announce(c) == /\ open = {} \/ overlooked
               /\ owners' = Append(owners, c)
               /\ open' = open \cup {Len(owners')}
               /\ UNCHANGED <<records, overlooked>>

\* Every block of the cards cs.
Parts(cs) == UNION {Blocks[c] : c \in cs}

\* These blocks, each one read from the card that from says.
Read(cs, from) == {[bn |-> n, card |-> from[n]] : n \in Parts(cs)}

Record(s) == /\ s \in open
             /\ open' = open \ {s}
             /\ \E cs \in SUBSET Card : \E from \in [Parts(cs) -> Card] :
                    /\ cs # {}
                    /\ overlooked \/ (cs = {owners[s]} /\ \A n \in Parts(cs) : from[n] = owners[s])
                    /\ records' = Append(records, <<s, Read(cs, from)>>)
             /\ UNCHANGED <<owners, overlooked>>

GiveUp(s) == /\ s \in open
             /\ open' = open \ {s}
             /\ UNCHANGED <<owners, records, overlooked>>

Next == \/ Overlook
        \/ \E c \in Card : Announce(c)
        \/ \E s \in open : Record(s) \/ GiveUp(s)

Spec == Init /\ [][Next]_vars

-----------------------------------------------------------------------------
\* No session hands out a second record, and none that has done so is under way.
OneRecord ==
    /\ \A i, j \in DOMAIN records : records[i][1] = records[j][1] => i = j
    /\ \A i \in DOMAIN records : records[i][1] \notin open

\* As long as no card goes unheard, only the latest session is under way and the records
\* come in the order of the announcements.
InTurn ==
    ~overlooked => /\ open \subseteq {Len(owners)}
                   /\ \A i, j \in DOMAIN records : i < j => records[i][1] < records[j][1]
=============================================================================
