------------------------- MODULE ChannelInputProofs -------------------------
(***************************************************************************)
(* Proofs about ChannelInput for every number of registrations, every set  *)
(* of responses and every way they accept commands.                        *)
(***************************************************************************)
EXTENDS ChannelInput, TLAPS


\* The part of the invariant about the list and the timers ...
ListTypeOK == /\ next \in 1..(MaxRegistrations + 1)
              /\ response \in [Registration -> Response]
              /\ timer \in [Registration -> TimerState]
              /\ listed \subseteq Registration

\* A number that was not given out yet is not in the list and has no timer.
FreshUnlisted == \A e \in Registration : e >= next => e \notin listed /\ timer[e] = "none"

\* Only one_shot expectations are registered with a timeout.
PermanentUntimed == \A e \in Registration : ~OneShot(e) => timer[e] = "none"

ListInv == ListTypeOK /\ FreshUnlisted /\ PermanentUntimed /\ NoLostTimer

\* ... the reference of the channel to itself ...
LifeInv == life_bound \in BOOLEAN /\ ListedKeepsAlive

\* ... and the part about the histories.
HistoryTypeOK == /\ reactions \in [Registration -> 0..2]
                 /\ timeouts \in [Registration -> 0..2]

FreshUncalled == \A e \in Registration : e >= next => reactions[e] = 0 /\ timeouts[e] = 0

\* What is still in the list was resolved by nobody.
ListedUnresolved == \A e \in listed : (OneShot(e) => reactions[e] = 0) /\ timeouts[e] = 0

PermanentUnexpired == \A e \in Registration : ~OneShot(e) => timeouts[e] = 0

HistoryInv == /\ HistoryTypeOK
              /\ FreshUncalled
              /\ ListedUnresolved
              /\ PermanentUnexpired
              /\ OneOutcome

\* The inductive invariant.
IInv == ListInv /\ LifeInv /\ HistoryInv /\ running \in BOOLEAN

LEMMA BumpType == /\ \A n \in 0..2 : Bump(n) \in 0..2
                  /\ Bump(0) = 1
BY DEF Bump

LEMMA InitIInv == Init => IInv
<1> DEFINE some == CHOOSE r \in Response : TRUE
<1>1. some \in Response
  BY ResponseAssumption
<1> SUFFICES ASSUME Init PROVE IInv
  OBVIOUS
<1>2. /\ response = [e \in Registration |-> some]
      /\ next = 1 /\ listed = {} /\ timer = [e \in Registration |-> "none"]
  BY DEF Init
<1> HIDE DEF some
<1>3. ListInv
  <2>1. ListTypeOK
    BY <1>1, <1>2, BoundAssumption DEF ListTypeOK, Registration, TimerState
  <2>2. FreshUnlisted /\ NoLostTimer
    BY DEF Init, FreshUnlisted, NoLostTimer
  <2>3. PermanentUntimed
    BY DEF Init, PermanentUntimed
  <2>4. QED
    BY <2>1, <2>2, <2>3 DEF ListInv
<1>4. HistoryInv
  BY BoundAssumption
  DEF Init, HistoryInv, HistoryTypeOK, FreshUncalled, ListedUnresolved, PermanentUnexpired,
      OneOutcome
<1>5. LifeInv /\ running \in BOOLEAN
  BY DEF Init, LifeInv, ListedKeepsAlive
<1>6. QED
  BY <1>3, <1>4, <1>5 DEF IInv

(***************************************************************************)
(* Whatever a callback registers, the list and the timers it leaves behind *)
(* are sound, given that what the call itself kept is.                     *)
(***************************************************************************)
LEMMA CallbackSound ==
    ASSUME ListInv, NEW kept \in SUBSET listed, NEW clocks \in [Registration -> TimerState],
           \A e \in Registration : timer[e] = "none" => clocks[e] = "none",
           \A e \in kept : OneShot(e) => clocks[e] \in {"armed", "queued"},
           Callback(kept, clocks)
    PROVE  /\ ListInv'
           /\ next <= next'
           /\ listed' \ kept \subseteq {e \in Registration : e >= next}
           /\ \A e \in Registration : e < next => response'[e] = response[e]
<1>1. CASE /\ listed' = kept
           /\ timer' = clocks
           /\ UNCHANGED <<next, response, life_bound>>
  BY <1>1 DEF ListInv, ListTypeOK, FreshUnlisted, PermanentUntimed, NoLostTimer, OneShot,
              Registration
<1>2. ASSUME NEW r \in Response, Push(kept, clocks, r)
      PROVE  /\ ListInv'
             /\ next <= next'
             /\ listed' \ kept \subseteq {e \in Registration : e >= next}
             /\ \A e \in Registration : e < next => response'[e] = response[e]
  <2>1. ListTypeOK'
    BY <1>2, BoundAssumption DEF Push, ListInv, ListTypeOK, Registration, TimerState
  <2>2. FreshUnlisted'
    BY <1>2, BoundAssumption DEF Push, ListInv, ListTypeOK, FreshUnlisted, Registration
  <2>3. PermanentUntimed' /\ NoLostTimer'
    BY <1>2 DEF Push, ListInv, ListTypeOK, FreshUnlisted, PermanentUntimed, NoLostTimer, OneShot
  <2>4. QED
    BY <1>2, <2>1, <2>2, <2>3 DEF Push, ListInv, ListTypeOK, Registration
<1>3. QED
  BY <1>1, <1>2 DEF Callback

\* A callback that registers makes the channel refer to itself; one that does not
\* leaves the reference as it is, and the list no longer than it was.
LEMMA CallbackKeepsAlive ==
    ASSUME LifeInv, NEW kept \in SUBSET listed, NEW clocks, Callback(kept, clocks)
    PROVE  LifeInv'
BY DEF Callback, Push, LifeInv, ListedKeepsAlive

(***************************************************************************)
(* The histories stay sound through a call that resolves nobody, ...       *)
(***************************************************************************)
LEMMA NobodyResolved ==
    ASSUME ListInv, HistoryInv, ListInv', next <= next',
           listed' \ listed \subseteq {e \in Registration : e >= next},
           \A e \in Registration : e < next => response'[e] = response[e],
           UNCHANGED <<reactions, timeouts>>
    PROVE  HistoryInv'
BY DEF ListInv, ListTypeOK, HistoryInv, HistoryTypeOK, FreshUncalled, ListedUnresolved,
       PermanentUnexpired, OneOutcome, OneShot, Registration

(***************************************************************************)
(* ... through one that resolves a registration that waited and leaves the *)
(* list for it, ...                                                        *)
(***************************************************************************)
LEMMA OneResolved ==
    ASSUME ListInv, HistoryInv, ListInv', next <= next',
           NEW e \in listed, e \notin listed', OneShot(e),
           listed' \ listed \subseteq {d \in Registration : d >= next},
           \A d \in Registration : d < next => response'[d] = response[d],
           \/ reactions' = [reactions EXCEPT ![e] = Bump(@)] /\ UNCHANGED timeouts
           \/ timeouts' = [timeouts EXCEPT ![e] = Bump(@)] /\ UNCHANGED reactions
    PROVE  HistoryInv'
<1>1. e \in Registration /\ e < next
  BY DEF ListInv, ListTypeOK, FreshUnlisted, Registration
<1>2. reactions[e] = 0 /\ timeouts[e] = 0
  BY DEF HistoryInv, ListedUnresolved
<1>3. \/ reactions' = [reactions EXCEPT ![e] = 1] /\ UNCHANGED timeouts
      \/ timeouts' = [timeouts EXCEPT ![e] = 1] /\ UNCHANGED reactions
  BY <1>1, <1>2, BumpType DEF HistoryInv, HistoryTypeOK
<1>4. listed' \subseteq Registration /\ \A d \in listed' : d # e
  BY DEF ListInv, ListTypeOK
<1>5. HistoryTypeOK' /\ FreshUncalled'
  <2>1. HistoryTypeOK'
    BY <1>3 DEF HistoryInv, HistoryTypeOK
  <2>2. SUFFICES ASSUME NEW d \in Registration, d >= next'
                 PROVE  reactions'[d] = 0 /\ timeouts'[d] = 0
    BY <2>1 DEF FreshUncalled
  <2>3. d >= next /\ d # e
    BY <1>1, <2>2 DEF ListInv, ListTypeOK, Registration
  <2>4. QED
    BY <1>3, <2>3 DEF HistoryInv, HistoryTypeOK, FreshUncalled
<1>6. ListedUnresolved'
  <2>1. SUFFICES ASSUME NEW d \in listed'
                 PROVE  (OneShot(d)' => reactions'[d] = 0) /\ timeouts'[d] = 0
    BY DEF ListedUnresolved
  <2>2. reactions'[d] = reactions[d] /\ timeouts'[d] = timeouts[d]
    BY <1>3, <1>4 DEF HistoryInv, HistoryTypeOK
  <2>3. CASE d \in listed
    BY <1>4, <2>2, <2>3
    DEF ListInv, ListTypeOK, FreshUnlisted, HistoryInv, ListedUnresolved, OneShot, Registration
  <2>4. CASE d \notin listed
    BY <1>4, <2>2, <2>4 DEF HistoryInv, FreshUncalled
  <2>5. QED
    BY <2>3, <2>4
<1>7. PermanentUnexpired' /\ OneOutcome'
  <2>1. SUFFICES ASSUME NEW d \in Registration
                 PROVE  /\ ~OneShot(d)' => timeouts'[d] = 0
                        /\ OneShot(d)' => reactions'[d] + timeouts'[d] <= 1
    BY DEF PermanentUnexpired, OneOutcome
  <2>2. CASE d = e
    BY <1>1, <1>2, <1>3, <2>2 DEF HistoryInv, HistoryTypeOK, OneShot
  <2>3. CASE d # e
    <3>1. reactions'[d] = reactions[d] /\ timeouts'[d] = timeouts[d]
      BY <1>3, <2>3 DEF HistoryInv, HistoryTypeOK
    <3>2. CASE d < next
      BY <3>1, <3>2 DEF HistoryInv, PermanentUnexpired, OneOutcome, OneShot
    <3>3. CASE d >= next
      BY <3>1, <3>3 DEF HistoryInv, FreshUncalled
    <3>4. QED
      BY <3>2, <3>3 DEF ListInv, ListTypeOK, Registration
  <2>4. QED
    BY <2>2, <2>3
<1>8. QED
  BY <1>5, <1>6, <1>7 DEF HistoryInv

(***************************************************************************)
(* ... and through a reaction of a permanent one.                          *)
(***************************************************************************)
LEMMA PermanentReacted ==
    ASSUME ListInv, HistoryInv, ListInv', next <= next',
           NEW e \in listed, ~OneShot(e),
           listed' \ listed \subseteq {d \in Registration : d >= next},
           \A d \in Registration : d < next => response'[d] = response[d],
           reactions' = [reactions EXCEPT ![e] = Bump(@)], UNCHANGED timeouts
    PROVE  HistoryInv'
<1>1. e \in Registration /\ e < next
  BY DEF ListInv, ListTypeOK, FreshUnlisted, Registration
<1>2. Bump(reactions[e]) \in 0..2
  BY <1>1, BumpType DEF HistoryInv, HistoryTypeOK
<1>3. QED
  BY <1>1, <1>2
  DEF ListInv, ListTypeOK, HistoryInv, HistoryTypeOK, FreshUncalled, ListedUnresolved,
      PermanentUnexpired, OneOutcome, OneShot, Registration
-----------------------------------------------------------------------------
LEMMA RegisterIInv ==
    ASSUME IInv, NEW r \in Response, Register(r)
    PROVE  IInv'
<1>1. Callback(listed, timer) /\ UNCHANGED <<running, reactions, timeouts>>
  BY DEF Register, Callback
<1>2. /\ ListInv'
      /\ next <= next'
      /\ listed' \ listed \subseteq {e \in Registration : e >= next}
      /\ \A e \in Registration : e < next => response'[e] = response[e]
  BY <1>1, CallbackSound DEF IInv, ListInv, ListTypeOK, NoLostTimer
<1>3. HistoryInv'
  BY <1>1, <1>2, NobodyResolved DEF IInv
<1>4. LifeInv'
  BY <1>1, CallbackKeepsAlive DEF IInv
<1>5. QED
  BY <1>1, <1>2, <1>3, <1>4 DEF IInv

LEMMA UnregisterIInv ==
    ASSUME IInv, NEW r \in Response, Unregister(r)
    PROVE  IInv'
<1>1. /\ listed' \subseteq listed
      /\ life_bound' = (life_bound /\ listed' # {})
      /\ UNCHANGED <<next, response, timer, running, reactions, timeouts>>
  BY DEF Unregister
<1>2. ListInv'
  BY <1>1 DEF IInv, ListInv, ListTypeOK, FreshUnlisted, PermanentUntimed, NoLostTimer, OneShot
<1>3. HistoryInv'
  BY <1>1, <1>2, NobodyResolved DEF IInv, ListInv, ListTypeOK, Registration
<1>4. LifeInv'
  BY <1>1 DEF IInv, LifeInv, ListedKeepsAlive
<1>5. QED
  BY <1>1, <1>2, <1>3, <1>4 DEF IInv

LEMMA ProcessCommandInputIInv ==
    ASSUME IInv, NEW c \in Command, ProcessCommandInput(c)
    PROVE  IInv'
<1>1. PICK e \in Registration :
         /\ Taker(c, e)
         /\ Callback(IF response[e] \in Permanent THEN listed ELSE listed \ {e}, Cancelled(e))
         /\ reactions' = [reactions EXCEPT ![e] = Bump(@)]
  BY DEF ProcessCommandInput
<1> DEFINE kept == IF response[e] \in Permanent THEN listed ELSE listed \ {e}
<1>2. e \in listed /\ e < next /\ kept \in SUBSET listed /\ UNCHANGED <<running, timeouts>>
  BY <1>1 DEF Taker, ProcessCommandInput, IInv, ListInv, ListTypeOK, FreshUnlisted, Registration
<1>3. /\ Cancelled(e) \in [Registration -> TimerState]
      /\ \A d \in Registration : timer[d] = "none" => Cancelled(e)[d] = "none"
      /\ \A d \in kept : OneShot(d) => Cancelled(e)[d] \in {"armed", "queued"}
  BY <1>2 DEF Cancelled, IInv, ListInv, ListTypeOK, NoLostTimer, TimerState
<1> HIDE DEF kept
<1>4. /\ ListInv'
      /\ next <= next'
      /\ listed' \ kept \subseteq {d \in Registration : d >= next}
      /\ \A d \in Registration : d < next => response'[d] = response[d]
  BY <1>1, <1>2, <1>3, CallbackSound DEF IInv, kept
<1>5. HistoryInv'
  <2>1. CASE OneShot(e)
    <3>1. kept = listed \ {e}
      BY <2>1 DEF kept, OneShot
    <3>2. e \notin listed' /\ listed' \ listed \subseteq {d \in Registration : d >= next}
      BY <1>2, <1>4, <3>1 DEF IInv, ListInv, ListTypeOK, Registration
    <3>3. QED
      BY <1>1, <1>2, <1>4, <2>1, <3>2, OneResolved DEF IInv
  <2>2. CASE ~OneShot(e)
    <3>1. kept = listed
      BY <2>2 DEF kept, OneShot
    <3>2. QED
      BY <1>1, <1>2, <1>4, <2>2, <3>1, PermanentReacted DEF IInv
  <2>3. QED
    BY <2>1, <2>2
<1>6. LifeInv'
  BY <1>1, <1>2, CallbackKeepsAlive DEF IInv, kept
<1>7. QED
  BY <1>2, <1>4, <1>5, <1>6 DEF IInv

LEMMA ReactionThrowsIInv ==
    ASSUME IInv, NEW c \in Command, ReactionThrows(c)
    PROVE  IInv'
<1>1. /\ Callback(listed, timer)
      /\ running' \in BOOLEAN
      /\ UNCHANGED <<reactions, timeouts>>
  BY DEF ReactionThrows
<1>2. /\ ListInv'
      /\ next <= next'
      /\ listed' \ listed \subseteq {e \in Registration : e >= next}
      /\ \A e \in Registration : e < next => response'[e] = response[e]
  BY <1>1, CallbackSound DEF IInv, ListInv, ListTypeOK, NoLostTimer
<1>3. HistoryInv'
  BY <1>1, <1>2, NobodyResolved DEF IInv
<1>4. LifeInv'
  BY <1>1, CallbackKeepsAlive DEF IInv
<1>5. QED
  BY <1>1, <1>2, <1>3, <1>4 DEF IInv

LEMMA TimerExpiresIInv ==
    ASSUME IInv, NEW e \in Registration, TimerExpires(e)
    PROVE  IInv'
<1>1. /\ timer[e] = "armed"
      /\ timer' = [timer EXCEPT ![e] = "queued"]
      /\ UNCHANGED <<next, response, listed, life_bound, running, reactions, timeouts>>
  BY DEF TimerExpires
<1>2. ListInv'
  BY <1>1 DEF IInv, ListInv, ListTypeOK, FreshUnlisted, PermanentUntimed, NoLostTimer, OneShot,
              TimerState
<1>3. HistoryInv'
  BY <1>1, <1>2, NobodyResolved DEF IInv, ListInv, ListTypeOK, Registration
<1>4. LifeInv'
  BY <1>1 DEF IInv, LifeInv, ListedKeepsAlive
<1>5. QED
  BY <1>1, <1>2, <1>3, <1>4 DEF IInv

LEMMA TimeoutExpiredIInv ==
    ASSUME IInv, NEW e \in Registration, TimeoutExpired(e)
    PROVE  IInv'
<1> DEFINE ran == [timer EXCEPT ![e] = "done"]
<1>1. CASE e \notin listed
  <2>1. /\ timer[e] = "queued" /\ timer' = ran
        /\ UNCHANGED <<next, response, listed, life_bound, running, reactions, timeouts>>
    BY <1>1 DEF TimeoutExpired
  <2>2. ListInv'
    BY <1>1, <2>1 DEF IInv, ListInv, ListTypeOK, FreshUnlisted, PermanentUntimed, NoLostTimer,
                      OneShot, TimerState
  <2>3. HistoryInv'
    BY <2>1, <2>2, NobodyResolved DEF IInv, ListInv, ListTypeOK, Registration
  <2>4. LifeInv'
    BY <2>1 DEF IInv, LifeInv, ListedKeepsAlive
  <2>5. QED
    BY <2>1, <2>2, <2>3, <2>4 DEF IInv
<1>2. CASE e \in listed
  <2>1. /\ timer[e] = "queued"
        /\ Callback(listed \ {e}, ran)
        /\ timeouts' = [timeouts EXCEPT ![e] = Bump(@)]
        /\ running' \in BOOLEAN
        /\ UNCHANGED reactions
    BY <1>2 DEF TimeoutExpired
  <2>2. OneShot(e) /\ e < next
    BY <2>1 DEF IInv, ListInv, ListTypeOK, FreshUnlisted, PermanentUntimed, Registration
  <2>3. /\ ran \in [Registration -> TimerState]
        /\ \A d \in Registration : timer[d] = "none" => ran[d] = "none"
        /\ \A d \in listed \ {e} : OneShot(d) => ran[d] \in {"armed", "queued"}
    BY <2>1 DEF IInv, ListInv, ListTypeOK, NoLostTimer, TimerState
  <2>4. /\ ListInv'
        /\ next <= next'
        /\ listed' \ (listed \ {e}) \subseteq {d \in Registration : d >= next}
        /\ \A d \in Registration : d < next => response'[d] = response[d]
    <3> HIDE DEF ran
    <3>1. QED
      BY <2>1, <2>3, CallbackSound DEF IInv
  <2>5. e \notin listed' /\ listed' \ listed \subseteq {d \in Registration : d >= next}
    BY <2>2, <2>4 DEF IInv, ListInv, ListTypeOK, Registration
  <2>6. HistoryInv'
    BY <1>2, <2>1, <2>2, <2>4, <2>5, OneResolved DEF IInv
  <2>7. LifeInv'
    BY <2>1, CallbackKeepsAlive DEF IInv
  <2>8. QED
    BY <2>1, <2>4, <2>6, <2>7 DEF IInv
<1>3. QED
  BY <1>1, <1>2

LEMMA NextIInv == IInv /\ [Next]_vars => IInv'
<1> SUFFICES ASSUME IInv, [Next]_vars PROVE IInv'
  OBVIOUS
<1>1. ASSUME NEW r \in Response, Register(r) PROVE IInv'
  BY <1>1, RegisterIInv
<1>2. ASSUME NEW r \in Response, Unregister(r) PROVE IInv'
  BY <1>2, UnregisterIInv
<1>3. ASSUME NEW c \in Command, ProcessCommandInput(c) PROVE IInv'
  BY <1>3, ProcessCommandInputIInv
<1>4. ASSUME NEW c \in Command, ReactionThrows(c) PROVE IInv'
  BY <1>4, ReactionThrowsIInv
<1>5. ASSUME NEW e \in Registration, TimerExpires(e) PROVE IInv'
  BY <1>5, TimerExpiresIInv
<1>6. ASSUME NEW e \in Registration, TimeoutExpired(e) PROVE IInv'
  BY <1>6, TimeoutExpiredIInv
<1>7. CASE UNCHANGED vars
  BY <1>7 DEF vars, IInv, ListInv, ListTypeOK, FreshUnlisted, PermanentUntimed, NoLostTimer,
       LifeInv, ListedKeepsAlive, HistoryInv, HistoryTypeOK, FreshUncalled, ListedUnresolved,
       PermanentUnexpired, OneOutcome, OneShot
<1>8. QED
  BY <1>1, <1>2, <1>3, <1>4, <1>5, <1>6, <1>7 DEF Next

LEMMA IInvHolds == Spec => []IInv
BY InitIInv, NextIInv, PTL DEF Spec

-----------------------------------------------------------------------------
\* The variables keep their types.
THEOREM TypeCorrect == Spec => []TypeOK
<1>1. IInv => TypeOK
  BY DEF IInv, ListInv, ListTypeOK, LifeInv, HistoryInv, HistoryTypeOK, TypeOK
<1>2. QED
  BY <1>1, IInvHolds, PTL

\* No one_shot expectation is resolved twice, by process_command_input or by
\* timeout_expired, however the timers, the commands and the throws interleave.
THEOREM OneOutcomeHolds == Spec => []OneOutcome
<1>1. IInv => OneOutcome
  BY DEF IInv, HistoryInv
<1>2. QED
  BY <1>1, IInvHolds, PTL

\* No timed expectation waits with no timer handler left to run.
THEOREM NoLostTimerHolds == Spec => []NoLostTimer
<1>1. IInv => NoLostTimer
  BY DEF IInv, ListInv
<1>2. QED
  BY <1>1, IInvHolds, PTL

\* life_bound is set while response_expectations is not empty.
THEOREM ListedKeepsAliveHolds == Spec => []ListedKeepsAlive
<1>1. IInv => ListedKeepsAlive
  BY DEF IInv, LifeInv
<1>2. QED
  BY <1>1, IInvHolds, PTL

-----------------------------------------------------------------------------
\* A step that is not the timer handler of e leaves no "done" where "queued" was.
LEMMA OnlyItsHandlerEndsATimer ==
    ASSUME IInv, Next, NEW e \in Registration, timer[e] = "queued", timer'[e] = "done"
    PROVE  TimeoutExpired(e)
<1> USE DEF IInv, ListInv, ListTypeOK, TimerState
<1>1. ASSUME NEW kept, NEW clocks \in [Registration -> TimerState], Callback(kept, clocks)
      PROVE  clocks[e] = "done"
  BY <1>1 DEF Callback, Push
<1>2. ASSUME NEW r \in Response, Register(r) PROVE FALSE
  BY <1>1, <1>2 DEF Register, Callback
<1>3. ASSUME NEW r \in Response, Unregister(r) PROVE FALSE
  BY <1>3 DEF Unregister
<1>4. ASSUME NEW c \in Command, ProcessCommandInput(c) PROVE FALSE
  <2>1. PICK d \in Registration :
           Callback(IF response[d] \in Permanent THEN listed ELSE listed \ {d}, Cancelled(d))
    BY <1>4 DEF ProcessCommandInput
  <2>2. Cancelled(d) \in [Registration -> TimerState] /\ Cancelled(d)[e] # "done"
    BY DEF Cancelled
  <2>3. QED
    BY <1>1, <2>1, <2>2
<1>5. ASSUME NEW c \in Command, ReactionThrows(c) PROVE FALSE
  BY <1>1, <1>5 DEF ReactionThrows
<1>6. ASSUME NEW d \in Registration, TimerExpires(d) PROVE FALSE
  BY <1>6 DEF TimerExpires
<1>7. ASSUME NEW d \in Registration, TimeoutExpired(d) PROVE d = e
  <2> DEFINE ran == [timer EXCEPT ![d] = "done"]
  <2>1. ran \in [Registration -> TimerState] /\ (ran[e] = "done" => d = e)
    OBVIOUS
  <2>2. timer' = ran \/ Callback(listed \ {d}, ran)
    BY <1>7 DEF TimeoutExpired
  <2> HIDE DEF ran
  <2>3. QED
    BY <1>1, <2>1, <2>2
<1>8. QED
  BY <1>2, <1>3, <1>4, <1>5, <1>6, <1>7 DEF Next

\* timeout_expired erases the pair of its own timer or none.
THEOREM StaleTimerHarmlessHolds == Spec => StaleTimerHarmless
<1> DEFINE Harmless == \A e \in Registration :
              timer[e] = "queued" /\ timer'[e] = "done" => listed \ {e} \subseteq listed'
<1>1. IInv /\ [Next]_vars => [Harmless]_vars
  <2> SUFFICES ASSUME IInv, Next, NEW e \in Registration, timer[e] = "queued", timer'[e] = "done"
               PROVE  listed \ {e} \subseteq listed'
    OBVIOUS
  <2>1. TimeoutExpired(e)
    BY OnlyItsHandlerEndsATimer
  <2>2. QED
    BY <2>1 DEF TimeoutExpired, Callback, Push
<1>2. QED
  BY <1>1, IInvHolds, PTL DEF Spec, StaleTimerHarmless

-----------------------------------------------------------------------------
(***************************************************************************)
(* The channel implements Expectation.                                     *)
(***************************************************************************)
LEMMA CallbackOutcome ==
    ASSUME ListInv, NEW kept \in SUBSET listed, NEW clocks,
           UNCHANGED next \/ Callback(kept, clocks),
           NEW done \in SUBSET Registration, NEW s, NEW n,
           \A e \in done : e < next /\ StatusOf(e)' = s,
           \A e \in Registration : e < next /\ e \notin done => StatusOf(e)' = StatusOf(e),
           \A e \in Registration :
              CallsOf(e)' = IF e \in done /\ n = 1 THEN Bump(CallsOf(e)) ELSE CallsOf(e)
    PROVE  Promise!Outcome(done, s, n)
<1> DEFINE status == [e \in Registration |-> StatusOf(e)]
           calls  == [e \in Registration |-> CallsOf(e)]
           free   == {e \in Registration : status[e] = "free"}
<1>1. calls' = [e \in Registration |->
                  IF e \in done /\ n = 1 THEN Promise!Bump(calls[e]) ELSE calls[e]]
  BY DEF Bump, Promise!Bump
<1>2. SUFFICES \E new \in SUBSET free, live \in {"waiting", "permanent"} :
                  /\ \A d, e \in new : d = e
                  /\ status' = [e \in Registration |->
                                  IF e \in done THEN s ELSE IF e \in new THEN live ELSE status[e]]
  BY <1>1, Zenon DEF Promise!Outcome, Promise!Live
<1>3. \A e \in Registration : e >= next => StatusOf(e) = "free"
  BY DEF StatusOf
<1>4. CASE UNCHANGED next
  <2>1. \A e \in Registration : e >= next => StatusOf(e)' = "free"
    BY <1>4 DEF StatusOf
  <2>2. status' = [e \in Registration |->
                     IF e \in done THEN s ELSE IF e \in {} THEN "waiting" ELSE status[e]]
    BY <1>3, <2>1 DEF ListInv, ListTypeOK, Registration
  <2>3. {} \in SUBSET free /\ "waiting" \in {"waiting", "permanent"}
    OBVIOUS
  <2> HIDE DEF status, free
  <2>4. WITNESS {} \in SUBSET free, "waiting" \in {"waiting", "permanent"}
  <2>5. QED
    BY <2>2
<1>5. ASSUME NEW r \in Response, Push(kept, clocks, r)
      PROVE  \E new \in SUBSET free, live \in {"waiting", "permanent"} :
                  /\ \A d, e \in new : d = e
                  /\ status' = [e \in Registration |->
                                  IF e \in done THEN s ELSE IF e \in new THEN live ELSE status[e]]
  <2>1. next \in free /\ next' = next + 1 /\ next \in listed'
    BY <1>3, <1>5, BoundAssumption DEF Push, ListInv, ListTypeOK, Registration
  <2>2. PICK live \in {"waiting", "permanent"} :
           \A e \in Registration : e = next => StatusOf(e)' = live
    <3>1. \A e \in Registration : e = next => e < next' /\ e \in listed'
      BY <2>1 DEF Registration
    <3>2. \A e \in Registration : e = next =>
             StatusOf(e)' = (IF OneShot(e)' THEN "waiting" ELSE "permanent")
      BY <3>1, <2>1 DEF StatusOf, ListInv, ListTypeOK, Registration
    <3>3. QED
      BY <3>2, <2>1
  <2>3. \A e \in Registration : e > next => StatusOf(e)' = "free"
    BY <2>1 DEF StatusOf, ListInv, ListTypeOK, Registration
  <2>4. \A e \in Registration :
           StatusOf(e)' = IF e \in done THEN s ELSE IF e \in {next} THEN live ELSE StatusOf(e)
    <3> SUFFICES ASSUME NEW e \in Registration
                 PROVE  StatusOf(e)' = IF e \in done THEN s
                                       ELSE IF e \in {next} THEN live ELSE StatusOf(e)
      OBVIOUS
    <3>1. CASE e < next
      BY <3>1 DEF ListInv, ListTypeOK, Registration
    <3>2. CASE e = next
      BY <2>2, <3>2 DEF ListInv, ListTypeOK, Registration
    <3>3. CASE e > next
      BY <1>3, <2>3, <3>3 DEF ListInv, ListTypeOK, Registration
    <3>4. QED
      BY <3>1, <3>2, <3>3 DEF ListInv, ListTypeOK, Registration
  <2>5. status' = [e \in Registration |->
                     IF e \in done THEN s ELSE IF e \in {next} THEN live ELSE status[e]]
    BY <2>4
  <2>6. {next} \in SUBSET free
    BY <2>1
  <2> HIDE DEF status, free
  <2>7. WITNESS {next} \in SUBSET free, live \in {"waiting", "permanent"}
  <2>8. QED
    BY <2>5
<1>6. QED
  BY <1>4, <1>5 DEF Callback

\* The status of a registration that the call did not touch.
LEMMA SameStatus ==
    ASSUME ListInv, next <= next', NEW e \in Registration, e < next, next' \in Nat,
           response'[e] = response[e], e \in listed' <=> e \in listed,
           reactions'[e] = reactions[e], timeouts'[e] = timeouts[e]
    PROVE  StatusOf(e)' = StatusOf(e) /\ CallsOf(e)' = CallsOf(e)
<1>1. ~(e >= next) /\ ~(e >= next')
  BY DEF ListInv, ListTypeOK, Registration
<1>2. QED
  BY <1>1 DEF StatusOf, CallsOf, OneShot

\* A call that resolves nobody is at most a registration.
LEMMA NobodyResolvedMaps ==
    ASSUME IInv, Callback(listed, timer), UNCHANGED <<reactions, timeouts>>
    PROVE  Promise!Registering
<1>1. /\ ListInv'
      /\ next <= next'
      /\ listed' \ listed \subseteq {e \in Registration : e >= next}
      /\ \A e \in Registration : e < next => response'[e] = response[e]
  BY CallbackSound DEF IInv, ListInv, ListTypeOK, NoLostTimer
<1>2. \A e \in Registration : e < next => (e \in listed' <=> e \in listed)
  BY <1>1 DEF Callback, Push, IInv, ListInv, ListTypeOK, Registration
<1>3. \A e \in Registration : e < next => StatusOf(e)' = StatusOf(e)
  BY <1>1, <1>2, SameStatus DEF IInv, ListInv, ListTypeOK, Registration
<1>4. \A e \in Registration : CallsOf(e)' = CallsOf(e)
  BY DEF CallsOf
<1>5. QED
  BY <1>3, <1>4, CallbackOutcome DEF IInv, Promise!Registering

\* A call that runs one callback of e to its end, and leaves e with status s.
LEMMA OneCallMaps ==
    ASSUME IInv, IInv', NEW e \in listed, NEW kept \in SUBSET listed, listed \ {e} \subseteq kept,
           NEW clocks, Callback(kept, clocks), NEW s, StatusOf(e)' = s,
           \/ reactions' = [reactions EXCEPT ![e] = Bump(@)] /\ UNCHANGED timeouts
           \/ timeouts' = [timeouts EXCEPT ![e] = Bump(@)] /\ UNCHANGED reactions,
           next <= next',
           \A d \in Registration : d < next => response'[d] = response[d]
    PROVE  Promise!Outcome({e}, s, 1)
<1>1. e \in Registration /\ e < next
  BY DEF IInv, ListInv, ListTypeOK, FreshUnlisted, Registration
<1>2. \A d \in Registration : d < next /\ d # e => (d \in listed' <=> d \in listed)
  BY DEF Callback, Push, IInv, ListInv, ListTypeOK, Registration
<1>3. \A d \in Registration : d # e => reactions'[d] = reactions[d] /\ timeouts'[d] = timeouts[d]
  BY DEF IInv, HistoryInv, HistoryTypeOK
<1>4. \A d \in Registration : d < next /\ d # e => StatusOf(d)' = StatusOf(d)
  BY <1>2, <1>3, SameStatus DEF IInv, ListInv, ListTypeOK, Registration
<1>5. CallsOf(e)' = Bump(CallsOf(e))
  <2>1. reactions[e] \in 0..2 /\ timeouts[e] \in 0..2
    BY <1>1 DEF IInv, HistoryInv, HistoryTypeOK
  <2>2. \/ reactions'[e] = Bump(reactions[e]) /\ timeouts'[e] = timeouts[e]
        \/ timeouts'[e] = Bump(timeouts[e]) /\ reactions'[e] = reactions[e]
    BY <1>1 DEF IInv, HistoryInv, HistoryTypeOK
  <2>3. QED
    BY <2>1, <2>2 DEF CallsOf, Bump
<1>6. \A d \in Registration :
         CallsOf(d)' = IF d \in {e} /\ 1 = 1 THEN Bump(CallsOf(d)) ELSE CallsOf(d)
  BY <1>3, <1>5 DEF CallsOf
<1>7. QED
  BY <1>1, <1>4, <1>6, CallbackOutcome DEF IInv

LEMMA ProcessCommandInputMaps ==
    ASSUME IInv, IInv', NEW c \in Command, ProcessCommandInput(c)
    PROVE  \E e \in Registration : Promise!Answered(e) \/ Promise!AnsweredPermanent(e)
<1>1. PICK e \in Registration :
         /\ Taker(c, e)
         /\ Callback(IF response[e] \in Permanent THEN listed ELSE listed \ {e}, Cancelled(e))
         /\ reactions' = [reactions EXCEPT ![e] = Bump(@)]
  BY DEF ProcessCommandInput
<1> DEFINE kept == IF response[e] \in Permanent THEN listed ELSE listed \ {e}
<1>2. e \in listed /\ e < next /\ kept \in SUBSET listed /\ UNCHANGED timeouts
  BY <1>1 DEF Taker, ProcessCommandInput, IInv, ListInv, ListTypeOK, FreshUnlisted, Registration
<1>3. /\ Cancelled(e) \in [Registration -> TimerState]
      /\ \A d \in Registration : timer[d] = "none" => Cancelled(e)[d] = "none"
      /\ \A d \in kept : OneShot(d) => Cancelled(e)[d] \in {"armed", "queued"}
  BY <1>2 DEF Cancelled, IInv, ListInv, ListTypeOK, NoLostTimer, TimerState
<1> HIDE DEF kept
<1>4. /\ next <= next'
      /\ listed' \ kept \subseteq {d \in Registration : d >= next}
      /\ \A d \in Registration : d < next => response'[d] = response[d]
  BY <1>1, <1>2, <1>3, CallbackSound DEF IInv, kept
<1>5. listed \ {e} \subseteq kept
  BY DEF kept
<1>6. ~(e >= next) /\ ~(e >= next') /\ (OneShot(e)' <=> OneShot(e))
  BY <1>2, <1>4 DEF IInv, ListInv, ListTypeOK, Registration, OneShot
<1>7. CASE OneShot(e)
  <2>1. e \notin listed'
    BY <1>2, <1>4, <1>7 DEF kept, OneShot, IInv, ListInv, ListTypeOK, Registration
  <2>2. timeouts[e] = 0 /\ reactions[e] = 0
    BY <1>2, <1>7 DEF IInv, HistoryInv, ListedUnresolved
  <2>3. timeouts'[e] = 0 /\ reactions'[e] = 1
    BY <1>1, <1>2, <2>2, BumpType DEF IInv, HistoryInv, HistoryTypeOK
  <2>4. StatusOf(e)' = "answered"
    BY <1>6, <1>7, <2>1, <2>3 DEF StatusOf
  <2>5. StatusOf(e) = "waiting"
    BY <1>2, <1>6, <1>7 DEF StatusOf
  <2>6. Promise!Outcome({e}, "answered", 1)
    BY <1>1, <1>2, <1>4, <1>5, <2>4, OneCallMaps DEF kept
  <2>7. QED
    BY <2>5, <2>6 DEF Promise!Answered
<1>8. CASE ~OneShot(e)
  <2>1. e \in listed'
    BY <1>1, <1>2, <1>8 DEF Callback, Push, kept, OneShot
  <2>2. StatusOf(e)' = "permanent"
    BY <1>6, <1>8, <2>1 DEF StatusOf
  <2>3. StatusOf(e) = "permanent"
    BY <1>2, <1>6, <1>8 DEF StatusOf
  <2>4. Promise!Outcome({e}, "permanent", 1)
    BY <1>1, <1>2, <1>4, <1>5, <2>2, OneCallMaps DEF kept
  <2>5. QED
    BY <2>3, <2>4 DEF Promise!AnsweredPermanent
<1>9. QED
  BY <1>7, <1>8

LEMMA TimeoutExpiredMaps ==
    ASSUME IInv, IInv', NEW e \in Registration, TimeoutExpired(e), e \in listed
    PROVE  Promise!Expired(e)
<1> DEFINE ran == [timer EXCEPT ![e] = "done"]
<1>1. /\ timer[e] = "queued"
      /\ Callback(listed \ {e}, ran)
      /\ timeouts' = [timeouts EXCEPT ![e] = Bump(@)]
      /\ UNCHANGED reactions
  BY DEF TimeoutExpired
<1>2. OneShot(e) /\ e < next
  BY <1>1 DEF IInv, ListInv, ListTypeOK, FreshUnlisted, PermanentUntimed, Registration
<1>3. /\ ran \in [Registration -> TimerState]
      /\ \A d \in Registration : timer[d] = "none" => ran[d] = "none"
      /\ \A d \in listed \ {e} : OneShot(d) => ran[d] \in {"armed", "queued"}
  BY <1>1 DEF IInv, ListInv, ListTypeOK, NoLostTimer, TimerState
<1> HIDE DEF ran
<1>4. /\ next <= next'
      /\ listed' \ (listed \ {e}) \subseteq {d \in Registration : d >= next}
      /\ \A d \in Registration : d < next => response'[d] = response[d]
  BY <1>1, <1>3, CallbackSound DEF IInv
<1>5. ~(e >= next) /\ ~(e >= next') /\ e \notin listed'
  BY <1>2, <1>4 DEF IInv, ListInv, ListTypeOK, Registration
<1>6. timeouts[e] = 0
  BY DEF IInv, HistoryInv, ListedUnresolved
<1>7. timeouts'[e] = 1
  BY <1>1, <1>6, BumpType DEF IInv, HistoryInv, HistoryTypeOK
<1>8. StatusOf(e)' = "expired"
  BY <1>5, <1>7 DEF StatusOf
<1>9. StatusOf(e) = "waiting"
  BY <1>2, <1>5 DEF StatusOf
<1>10. Promise!Outcome({e}, "expired", 1)
  BY <1>1, <1>4, <1>8, OneCallMaps
<1>11. QED
  BY <1>9, <1>10 DEF Promise!Expired

LEMMA UnregisterMaps ==
    ASSUME IInv, IInv', NEW r \in Response, Unregister(r)
    PROVE  (\E e \in Registration : Promise!Withdrawn(e)) \/ UNCHANGED Promise!vars
<1> DEFINE found == {e \in listed : /\ response[e] = r
                                    /\ \A d \in listed : response[d] = r => d <= e}
<1>1. /\ listed' = listed \ found
      /\ UNCHANGED <<next, response, timer, reactions, timeouts>>
  BY DEF Unregister
<1>2. \A d, e \in found : d = e
  BY DEF IInv, ListInv, ListTypeOK, Registration
<1>3. CASE found = {}
  BY <1>1, <1>3 DEF Promise!vars, StatusOf, CallsOf, OneShot
<1>4. ASSUME NEW e \in found PROVE Promise!Withdrawn(e)
  <2>1. found = {e} /\ e \in listed /\ e \in Registration /\ e < next
    <3>1. e \in listed /\ e \in Registration
      BY <1>4 DEF IInv, ListInv, ListTypeOK
    <3>2. e < next
      BY <3>1 DEF IInv, ListInv, ListTypeOK, FreshUnlisted, Registration
    <3> HIDE DEF found
    <3>3. found = {e}
      BY <1>2, <1>4
    <3>4. QED
      BY <3>1, <3>2, <3>3
  <2> HIDE DEF found
  <2>2. ~(e >= next)
    BY <2>1 DEF IInv, ListInv, ListTypeOK, Registration
  <2>3. StatusOf(e) \in {"waiting", "permanent"}
    BY <2>1, <2>2 DEF StatusOf
  <2>4. timeouts[e] = 0 /\ (OneShot(e) => reactions[e] = 0)
    BY <2>1 DEF IInv, HistoryInv, ListedUnresolved
  <2>5. StatusOf(e)' = "withdrawn"
    BY <1>1, <2>1, <2>2, <2>4 DEF StatusOf, OneShot
  <2>6. \A d \in Registration : d < next /\ d # e => StatusOf(d)' = StatusOf(d)
    BY <1>1, <2>1 DEF StatusOf, OneShot
  <2>7. \A d \in Registration :
           CallsOf(d)' = IF d \in {e} /\ 0 = 1 THEN Bump(CallsOf(d)) ELSE CallsOf(d)
    BY <1>1 DEF CallsOf
  <2>8. Promise!Outcome({e}, "withdrawn", 0)
    BY <1>1, <2>1, <2>5, <2>6, <2>7, CallbackOutcome DEF IInv
  <2>9. QED
    BY <2>1, <2>3, <2>8 DEF Promise!Withdrawn, Promise!Live
<1>5. found \subseteq Registration
  BY DEF IInv, ListInv, ListTypeOK
<1>6. QED
  BY <1>3, <1>4, <1>5

LEMMA StepMaps == IInv /\ IInv' /\ [Next]_vars => [Promise!Next]_Promise!vars
<1> SUFFICES ASSUME IInv, IInv', [Next]_vars PROVE Promise!Next \/ UNCHANGED Promise!vars
  OBVIOUS
<1>1. ASSUME NEW r \in Response, Register(r) PROVE Promise!Next
  BY <1>1, NobodyResolvedMaps DEF Register, Callback, Promise!Next
<1>2. ASSUME NEW r \in Response, Unregister(r) PROVE Promise!Next \/ UNCHANGED Promise!vars
  BY <1>2, UnregisterMaps DEF Promise!Next
<1>3. ASSUME NEW c \in Command, ProcessCommandInput(c) PROVE Promise!Next
  BY <1>3, ProcessCommandInputMaps DEF Promise!Next
<1>4. ASSUME NEW c \in Command, ReactionThrows(c) PROVE Promise!Next
  BY <1>4, NobodyResolvedMaps DEF ReactionThrows, Promise!Next
<1>5. ASSUME NEW e \in Registration, TimerExpires(e) PROVE UNCHANGED Promise!vars
  BY <1>5 DEF TimerExpires, Promise!vars, StatusOf, CallsOf, OneShot
<1>6. ASSUME NEW e \in Registration, TimeoutExpired(e)
      PROVE  Promise!Next \/ UNCHANGED Promise!vars
  <2>1. CASE e \in listed
    BY <1>6, <2>1, TimeoutExpiredMaps DEF Promise!Next
  <2>2. CASE e \notin listed
    BY <1>6, <2>2 DEF TimeoutExpired, Promise!vars, StatusOf, CallsOf, OneShot
  <2>3. QED
    BY <2>1, <2>2
<1>7. CASE UNCHANGED vars
  BY <1>7 DEF vars, Promise!vars, StatusOf, CallsOf, OneShot
<1>8. QED
  BY <1>1, <1>2, <1>3, <1>4, <1>5, <1>6, <1>7 DEF Next

LEMMA InitMaps == Init => Promise!Init
<1> SUFFICES ASSUME Init PROVE Promise!Init
  OBVIOUS
<1>1. /\ next = 1
      /\ reactions = [e \in Registration |-> 0]
      /\ timeouts = [e \in Registration |-> 0]
  BY DEF Init
<1>2. \A e \in Registration : StatusOf(e) = "free" /\ CallsOf(e) = 0
  BY <1>1, BoundAssumption DEF StatusOf, CallsOf, Registration
<1>3. QED
  BY <1>2 DEF Promise!Init

\* Every registration made on the channel is resolved as Expectation says.
THEOREM ImplementsExpectation == Spec => KeepsPromise
<1>1. Promise!Init /\ [][Promise!Next]_Promise!vars => Promise!Spec
  BY DEF Promise!Spec
<1>2. QED
  BY InitMaps, IInvHolds, StepMaps, <1>1, PTL DEF Spec, KeepsPromise
=============================================================================
