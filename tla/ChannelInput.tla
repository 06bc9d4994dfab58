---------------------------- MODULE ChannelInput ----------------------------
(***************************************************************************)
(* channel_input.h: the expectations registered on a channel, their asio   *)
(* timers and the dispatch of the commands the protocol layer decodes.     *)
(*                                                                         *)
(* Every member function runs under the channel's recursive mutex, and the *)
(* callbacks it makes run nested inside it, so a call is one step, with    *)
(* the registration its callback makes.  Between two calls anything may    *)
(* happen: the clock, a handler of the io thread, a call of another thread.*)
(*                                                                         *)
(* A registration, a pair (response, timer) of the list                    *)
(* response_expectations, is the number of the call that made it: the list *)
(* is filled at its front, so its order is the decreasing order of numbers.*)
(***************************************************************************)
EXTENDS Naturals

CONSTANTS
    Response,            \* the response objects
    Permanent,           \* those with the policy response_live_control::permanent
    Command,             \* what the protocol layer can decode
    Accepts,             \* [Response -> SUBSET Command], by check_input_command
    MaxRegistrations     \* bound on the registrations of a run

ASSUME ResponseAssumption == Response # {} /\ Permanent \subseteq Response
ASSUME AcceptsAssumption == Accepts \in [Response -> SUBSET Command]
ASSUME BoundAssumption == MaxRegistrations \in Nat

VARIABLES
    next,         \* number of the next registration
    response,     \* [Registration -> Response]: .first of the pair
    timer,        \* [Registration -> TimerState]: .second of the pair
    listed,       \* the registrations in response_expectations
    life_bound,   \* life_bound holds shared_from_this()
    running,      \* no exception has left the io thread
    reactions,    \* history: reactions run to their end, per registration
    timeouts      \* history: timeout calls, per registration

vars == <<next, response, timer, listed, life_bound, running, reactions, timeouts>>

Registration == 1..MaxRegistrations

\* A timer's wait handler is pending ("armed"), then posted to the io service,
\* by the clock or by cancel ("queued"), then run ("done"): timeout_expired does
\* not look at the error code, so the two ways of being posted are the same.
TimerState == {"none", "armed", "queued", "done"}

Bump(n) == IF n < 2 THEN n + 1 ELSE n

Init == /\ next = 1
        /\ response = [e \in Registration |-> CHOOSE r \in Response : TRUE]
        /\ timer = [e \in Registration |-> "none"]
        /\ listed = {}
        /\ life_bound = FALSE
        /\ running = TRUE
        /\ reactions = [e \in Registration |-> 0]
        /\ timeouts = [e \in Registration |-> 0]

-----------------------------------------------------------------------------
\* Mutant: the wait on a new timer is not started.
PushUnarmed(kept, clocks, r) ==
    /\ next \in Registration
    /\ next' = next + 1
    /\ response' = [response EXCEPT ![next] = r]
    /\ timer' = [clocks EXCEPT ![next] = "none"]
    /\ listed' = kept \cup {next}
    /\ life_bound' = TRUE

(***************************************************************************)
(* register_response_expectation on a channel whose list is kept and whose *)
(* timers are clocks: the new pair goes to the front.  Every caller of the *)
(* program passes a timeout with a one_shot response and none with a       *)
(* permanent one.                                                          *)
(***************************************************************************)
Push(kept, clocks, r) ==
    /\ next \in Registration
    /\ next' = next + 1
    /\ response' = [response EXCEPT ![next] = r]
    /\ timer' = [clocks EXCEPT ![next] = IF r \in Permanent THEN "none" ELSE "armed"]
    /\ listed' = kept \cup {next}
    /\ life_bound' = TRUE

\* A reaction or a timeout call: it may register one more expectation.
Callback(kept, clocks) ==
    \/ /\ listed' = kept
       /\ timer' = clocks
       /\ UNCHANGED <<next, response, life_bound>>
    \/ \E r \in Response : Push(kept, clocks, r)

Register(r) ==
    /\ running
    /\ Push(listed, timer, r)
    /\ UNCHANGED <<running, reactions, timeouts>>

\* Mutant: the channel lets go of itself with every pair it erases.
UnregisterLetsGo(r) ==
    /\ running
    /\ LET found == {e \in listed : /\ response[e] = r
                                    /\ \A d \in listed : response[d] = r => d <= e}
       IN /\ listed' = listed \ found
          /\ life_bound' = (life_bound /\ found = {})
    /\ UNCHANGED <<next, response, timer, running, reactions, timeouts>>

\* Mutant: every pair of the response is erased.
UnregisterAll(r) ==
    /\ running
    /\ listed' = {e \in listed : response[e] # r}
    /\ life_bound' = (life_bound /\ listed' # {})
    /\ UNCHANGED <<next, response, timer, running, reactions, timeouts>>

\* The pair of the newest registration of the response is erased, its timer is
\* left to run; the channel lets go of itself once the list is empty.
Unregister(r) ==
    /\ running
    /\ LET found == {e \in listed : /\ response[e] = r
                                    /\ \A d \in listed : response[d] = r => d <= e}
       IN /\ listed' = listed \ found
          /\ life_bound' = (life_bound /\ listed' # {})
    /\ UNCHANGED <<next, response, timer, running, reactions, timeouts>>

-----------------------------------------------------------------------------
\* find_if with check_input_command as its predicate: the first pair, newest
\* first, whose response accepts the command; its reaction has then been run.
Taker(c, e) == /\ e \in listed
               /\ c \in Accepts[response[e]]
               /\ \A d \in listed : c \in Accepts[response[d]] => d <= e

\* Mutant: a pair without a timer is not told apart.
CancelledUnchecked(e) == [timer EXCEPT ![e] = IF @ = "none" THEN "dereferenced" ELSE "queued"]

Cancelled(e) == IF timer[e] = "armed" THEN [timer EXCEPT ![e] = "queued"] ELSE timer

\* Mutant: an answered one_shot pair stays in the list.
ProcessCommandInputKept(c) ==
    /\ running
    /\ \E e \in Registration :
         /\ Taker(c, e)
         /\ Callback(listed, Cancelled(e))
         /\ reactions' = [reactions EXCEPT ![e] = Bump(@)]
    /\ UNCHANGED <<running, timeouts>>

\* process_command_input when the reaction returns: cancel, then erase a one_shot.
\* Without a taker the function changes nothing.
ProcessCommandInput(c) ==
    /\ running
    /\ \E e \in Registration :
         /\ Taker(c, e)
         /\ Callback(IF response[e] \in Permanent THEN listed ELSE listed \ {e}, Cancelled(e))
         /\ reactions' = [reactions EXCEPT ![e] = Bump(@)]
    /\ UNCHANGED <<running, timeouts>>

\* ... and when the reaction throws: called() and cancel() are skipped and the
\* pair stays.  extract_command of the basic protocol swallows the exception;
\* any other one but invalid_argument leaves the io thread.
ReactionThrows(c) ==
    /\ running
    /\ \E e \in Registration :
         /\ Taker(c, e)
         /\ Callback(listed, timer)
    /\ running' \in BOOLEAN
    /\ UNCHANGED <<reactions, timeouts>>

-----------------------------------------------------------------------------
TimerExpires(e) ==
    /\ running
    /\ timer[e] = "armed"
    /\ timer' = [timer EXCEPT ![e] = "queued"]
    /\ UNCHANGED <<next, response, listed, life_bound, running, reactions, timeouts>>

\* Mutant: the timeout call is made and the pair stays.
TimeoutExpiredKept(e) ==
    /\ running
    /\ timer[e] = "queued"
    /\ e \in listed => Callback(listed, [timer EXCEPT ![e] = "done"])
    /\ e \notin listed => /\ timer' = [timer EXCEPT ![e] = "done"]
                          /\ UNCHANGED <<next, response, listed, life_bound>>
    /\ UNCHANGED <<running, reactions, timeouts>>

\* Mutant: the pair is looked for by its response object, not by its timer.
TimeoutExpiredByResponse(e) ==
    /\ running
    /\ timer[e] = "queued"
    /\ timer' = [timer EXCEPT ![e] = "done"]
    /\ listed' = {d \in listed : response[d] # response[e]}
    /\ UNCHANGED <<next, response, life_bound, running, reactions, timeouts>>

\* The io thread runs the wait handler of e: a pair that is gone is left alone.
\* An exception of the timeout call leaves the io thread.
TimeoutExpired(e) ==
    /\ running
    /\ timer[e] = "queued"
    /\ LET ran == [timer EXCEPT ![e] = "done"]
       IN \/ /\ e \notin listed
             /\ timer' = ran
             /\ UNCHANGED <<next, response, listed, life_bound, running, timeouts>>
          \/ /\ e \in listed
             /\ Callback(listed \ {e}, ran)
             /\ timeouts' = [timeouts EXCEPT ![e] = Bump(@)]
             /\ running' \in BOOLEAN
    /\ UNCHANGED reactions

Next == \/ \E r \in Response : Register(r) \/ Unregister(r)
        \/ \E c \in Command : ProcessCommandInput(c) \/ ReactionThrows(c)
        \/ \E e \in Registration : TimerExpires(e) \/ TimeoutExpired(e)

Spec == Init /\ [][Next]_vars

(***************************************************************************)
(* The clock runs, and the io thread runs what is posted to it.  Nothing   *)
(* is assumed of the device or of the callers.                             *)
(***************************************************************************)
Fairness == \A e \in Registration : WF_vars(TimerExpires(e)) /\ WF_vars(TimeoutExpired(e))

FairSpec == Spec /\ Fairness

-----------------------------------------------------------------------------
TypeOK == /\ next \in 1..(MaxRegistrations + 1)
          /\ response \in [Registration -> Response]
          /\ timer \in [Registration -> TimerState]
          /\ listed \subseteq Registration
          /\ life_bound \in BOOLEAN
          /\ running \in BOOLEAN
          /\ reactions \in [Registration -> 0..2]
          /\ timeouts \in [Registration -> 0..2]

OneShot(e) == response[e] \notin Permanent

\* A one_shot registration is resolved at most once: its timer may fire while
\* the answer is being processed, the answer may come while the fired timer's
\* handler is queued, a command may come twice, and its reaction may throw.
OneOutcome == \A e \in Registration : OneShot(e) => reactions[e] + timeouts[e] <= 1

\* An expectation that waits has a timer handler still to run: neither a cancel
\* nor a reaction that threw leaves it in the list with nothing to end it.
NoLostTimer == \A e \in listed : OneShot(e) => timer[e] \in {"armed", "queued"}

\* The channel refers to itself as long as somebody expects something of it,
\* whatever the order in which expectations are made, answered and withdrawn.
ListedKeepsAlive == listed # {} => life_bound

\* The handler of a timer resolves its own registration or nothing: a handler
\* left over from an answered or withdrawn one (they are not disarmed) does not
\* end a newer registration, not even one of the same response object.
StaleTimerHarmless ==
    [][\A e \in Registration :
          timer[e] = "queued" /\ timer'[e] = "done" => listed \ {e} \subseteq listed']_vars

\* Whoever registers with a timeout hears back, or the io thread has died.
Resolved == \A e \in Registration :
                (e \in listed /\ OneShot(e)) ~> (e \notin listed \/ ~running)

(***************************************************************************)
(* The refinement mapping to what a registration is promised.              *)
(***************************************************************************)
StatusOf(e) ==
    IF e >= next THEN "free"
    ELSE IF e \in listed THEN (IF OneShot(e) THEN "waiting" ELSE "permanent")
    ELSE IF timeouts[e] > 0 THEN "expired"
    ELSE IF OneShot(e) /\ reactions[e] > 0 THEN "answered"
    ELSE "withdrawn"

CallsOf(e) == IF reactions[e] + timeouts[e] > 2 THEN 2 ELSE reactions[e] + timeouts[e]

Promise == INSTANCE Expectation WITH
               status <- [e \in Registration |-> StatusOf(e)],
               calls  <- [e \in Registration |-> CallsOf(e)]

\* The channel keeps what it promises to each registration.
KeepsPromise == Promise!Spec
=============================================================================
