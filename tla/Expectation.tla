----------------------------- MODULE Expectation -----------------------------
(***************************************************************************)
(* What channel_input_interface promises to the code that registers an     *)
(* expectation: a registration waits until it is resolved, and it is       *)
(* resolved once, by one callback.  How the channel finds the registration *)
(* a command is for, and how its timer races the command, is the business  *)
(* of ChannelInput, which implements this specification.                   *)
(***************************************************************************)
EXTENDS Naturals

CONSTANT Registration     \* the registrations made during a run

VARIABLES
    status,    \* [Registration -> Status]
    calls      \* [Registration -> 0..2] callbacks run to their end so far

vars == <<status, calls>>

Status == {"free", "waiting", "permanent", "answered", "expired", "withdrawn"}

Live == {"waiting", "permanent"}

\* Histories count callbacks up to two: "one" and "more than one" differ.
Bump(n) == IF n < 2 THEN n + 1 ELSE n

TypeOK == /\ status \in [Registration -> Status]
          /\ calls \in [Registration -> 0..2]

Init == /\ status = [e \in Registration |-> "free"]
        /\ calls = [e \in Registration |-> 0]

(***************************************************************************)
(* One call into the channel resolves at most one registration, done, and  *)
(* the callback it runs may make one more.                                 *)
(***************************************************************************)
Outcome(done, s, n) ==
    \E new \in SUBSET {e \in Registration : status[e] = "free"} :
        \E live \in Live :
            /\ \A d, e \in new : d = e
            /\ status' = [e \in Registration |->
                            IF e \in done THEN s ELSE IF e \in new THEN live ELSE status[e]]
            /\ calls' = [e \in Registration |->
                            IF e \in done /\ n = 1 THEN Bump(calls[e]) ELSE calls[e]]

Registering == Outcome({}, "waiting", 0)

Answered(e) == /\ status[e] = "waiting"
               /\ Outcome({e}, "answered", 1)

\* A permanent registration outlives its reactions.
AnsweredPermanent(e) == /\ status[e] = "permanent"
                        /\ Outcome({e}, "permanent", 1)

Expired(e) == /\ status[e] = "waiting"
              /\ Outcome({e}, "expired", 1)

Withdrawn(e) == /\ status[e] \in Live
                /\ Outcome({e}, "withdrawn", 0)

Next == \/ Registering
        \/ \E e \in Registration : \/ Answered(e) \/ AnsweredPermanent(e)
                                   \/ Expired(e) \/ Withdrawn(e)

Spec == Init /\ [][Next]_vars
=============================================================================
