--------------------------- MODULE StartupProofs ---------------------------
(***************************************************************************)
(* Proofs about StartupSequence for every bound on the registrations.      *)
(***************************************************************************)
EXTENDS StartupSequence, TLAPS

Registration == 1..MaxRegistrations

\* The channel as far as the sequence relies on it: its list and its timers.
ListTypeOK == /\ next \in 1..(MaxRegistrations + 1)
              /\ response \in [Registration -> Response]
              /\ timer \in [Registration -> {"none", "armed", "queued", "done"}]
              /\ listed \subseteq Registration

CallsTypeOK == /\ life_bound \in BOOLEAN /\ running \in BOOLEAN
               /\ reactions \in [Registration -> 0..2]
               /\ timeouts \in [Registration -> 0..2]

LineTypeOK == /\ outgoing \in Seq(Command) /\ answers \in Seq(Command) /\ received \in Seq(Command)
              /\ station \in [speed : Speeds, takes : SUBSET {"set_ms", "set_ms_basic"}]

SequenceTypeOK == /\ main \in {"opened", "configured", "registered", "returned", "threw"}
                  /\ baud \in Speeds
                  /\ protocol \in {"none", "extended", "basic"}
                  /\ succeeded \in Seq(Stage)
                  /\ failed \in Nat

\* Until start has registered, nothing is expected, sent or heard.
NothingYet == main \in {"opened", "configured"} =>
                  /\ listed = {} /\ succeeded = <<>>
                  /\ outgoing = <<>> /\ answers = <<>> /\ received = <<>>

\* The parser of start is in place when it registers.
ConfiguredExtended == main = "configured" => protocol = "extended" /\ baud = 38400

\* A stage that waits can end by its timer.
StageTimed == \A e \in listed : response[e] \in Stage => timer[e] \in {"armed", "queued"}

\* After a success only the readout is expected.
OnlyReadout == succeeded # <<>> => \A e \in listed : response[e] = "readout"

\* While the station is expected at the high speed, the port has it, and what has come
\* in has come at this speed.
HiSpeedWaits == \A e \in listed : response[e] \in {"hi", "hi_basic"} =>
                    /\ baud = 38400
                    /\ received # <<>> => station.speed = 38400

\* The inductive invariant.
SequenceInv == /\ NothingYet /\ ConfiguredExtended
               /\ OneExpectation /\ StageTimed
               /\ SucceedsOnce /\ OnlyReadout
               /\ HiSpeedWaits /\ HiSpeedIsShared
               /\ DecodesWhatItExpects
               /\ FailureIsFinal

IInv == ListTypeOK /\ CallsTypeOK /\ LineTypeOK /\ SequenceTypeOK /\ SequenceInv

LEMMA StageResponse == /\ Stage \subseteq Response
                       /\ "readout" \in Response /\ "readout" \notin Stage
                       /\ \A r \in Response : r # "readout" => r \in Stage
                       /\ \A r \in Response : r \in Permanent <=> r = "readout"
BY DEF Stage, Response, Permanent

(***************************************************************************)
(* What a callback does to the channel, when it registers r ...            *)
(***************************************************************************)
LEMMA CallbackRegisters ==
    ASSUME ListTypeOK, NEW r \in Response, NEW kept, NEW clocks,
           Channel!Callback(kept, clocks), Registers(r)
    PROVE  /\ next \in Registration /\ next' = next + 1
           /\ response' = [response EXCEPT ![next] = r]
           /\ listed' = kept \cup {next}
           /\ timer' = [clocks EXCEPT ![next] = IF r = "readout" THEN "none" ELSE "armed"]
           /\ life_bound' = TRUE
<1>1. next \in Nat
  BY RegistrationsAssumption DEF ListTypeOK
<1>2. next' # next
  BY <1>1 DEF Registers
<1>3. PICK s \in Response : Channel!Push(kept, clocks, s)
  BY <1>2 DEF Channel!Callback
<1>4. response'[next] = s
  BY <1>3 DEF Channel!Push, Channel!Registration, ListTypeOK, Registration
<1>5. s = r
  BY <1>4 DEF Registers
<1>6. QED
  BY <1>3, <1>5, StageResponse DEF Channel!Push, Channel!Registration, Registration, Registers

\* ... and when it registers nothing.
LEMMA CallbackRegistersNothing ==
    ASSUME ListTypeOK, NEW kept, NEW clocks,
           Channel!Callback(kept, clocks), RegistersNothing
    PROVE  listed' = kept /\ timer' = clocks /\ UNCHANGED <<next, response, life_bound>>
<1>1. next \in Nat
  BY RegistrationsAssumption DEF ListTypeOK
<1>2. QED
  BY <1>1 DEF Channel!Callback, Channel!Push, RegistersNothing

\* The channel after a step that leaves the registration of r as the only one.
Expects(r) == /\ ListTypeOK' /\ CallsTypeOK'
              /\ next \in Registration
              /\ listed' = {next}
              /\ response'[next] = r
              /\ r \in Stage => timer'[next] = "armed"

\* A command with a taker is taken by the one stage that waits, which excludes a success.
LEMMA OneWaits ==
    ASSUME IInv, NEW e \in listed, response[e] \in Stage
    PROVE  /\ e \in Registration /\ listed = {e}
           /\ timer[e] \in {"armed", "queued"}
           /\ succeeded = <<>>
           /\ main \notin {"opened", "configured"}
BY StageResponse DEF IInv, ListTypeOK, SequenceInv, NothingYet, OneExpectation, StageTimed, OnlyReadout

LEMMA AcceptsStage ==
    ASSUME NEW r \in Response, NEW c \in Accepts[r]
    PROVE  /\ r \in Stage
           /\ c \in Command
           /\ r \in {"hi", "lo"} => c \in {"set_ms", "nak"}
           /\ r \in {"hi_basic", "lo_basic"} => c \in {"set_ms_basic", "nak"}
BY DEF Accepts, Response, Stage, Command

LEMMA TakerWaits ==
    ASSUME IInv, NEW c, NEW e, Taken(c, e)
    PROVE  /\ e \in listed /\ listed = {e} /\ e \in Registration
           /\ response[e] \in Stage
           /\ timer[e] \in {"armed", "queued"}
           /\ succeeded = <<>>
           /\ main \notin {"opened", "configured"}
<1>1. e \in listed /\ c \in Accepts[response[e]] /\ response[e] \in Response
  BY DEF Taken, Channel!Taker, IInv, ListTypeOK
<1>2. response[e] \in Stage
  BY <1>1, AcceptsStage
<1>3. QED
  BY <1>1, <1>2, OneWaits

(***************************************************************************)
(* The calls of the channel, from the invariant.                           *)
(***************************************************************************)
LEMMA BumpType == \A n \in 0..2 : Channel!Bump(n) \in 0..2
BY DEF Channel!Bump

LEMMA RegisterExpects ==
    ASSUME IInv, NEW r \in Response, listed = {}, Channel!Register(r), Registers(r)
    PROVE  Expects(r)
<1>1. \E s \in Response : Channel!Push(listed, timer, s)
  BY DEF Channel!Register
<1>2. Channel!Callback(listed, timer)
  BY <1>1 DEF Channel!Callback
<1>3. /\ next \in Registration /\ next' = next + 1
      /\ response' = [response EXCEPT ![next] = r]
      /\ listed' = listed \cup {next}
      /\ timer' = [timer EXCEPT ![next] = IF r = "readout" THEN "none" ELSE "armed"]
      /\ life_bound' = TRUE
  BY <1>2, CallbackRegisters DEF IInv
<1>4. ListTypeOK'
  BY <1>3, RegistrationsAssumption DEF IInv, ListTypeOK, Registration
<1>5. CallsTypeOK'
  BY <1>3 DEF IInv, CallsTypeOK, Channel!Register
<1>6. QED
  BY <1>3, <1>4, <1>5, StageResponse DEF IInv, Expects, ListTypeOK

LEMMA CancelledType ==
    ASSUME ListTypeOK, NEW e \in Registration
    PROVE  Channel!Cancelled(e) \in [Registration -> {"none", "armed", "queued", "done"}]
BY DEF ListTypeOK, Channel!Cancelled

LEMMA AnsweredExpects ==
    ASSUME IInv, NEW c, NEW e, Taken(c, e), NEW r \in Response,
           Channel!ProcessCommandInput(c), Registers(r)
    PROVE  Expects(r) /\ running /\ running' = running
<1>1. listed = {e} /\ e \in Registration /\ response[e] \in Stage
  BY TakerWaits
<1>2. PICK d \in Channel!Registration :
          /\ Channel!Taker(c, d)
          /\ Channel!Callback(IF response[d] \in Permanent THEN listed ELSE listed \ {d},
                              Channel!Cancelled(d))
          /\ reactions' = [reactions EXCEPT ![d] = Channel!Bump(@)]
  BY DEF Channel!ProcessCommandInput
<1>3. d = e
  BY <1>1, <1>2 DEF Channel!Taker
<1>4. (IF response[e] \in Permanent THEN listed ELSE listed \ {e}) = {}
  BY <1>1, StageResponse
<1>5. Channel!Callback({}, Channel!Cancelled(e))
  BY <1>2, <1>3, <1>4
<1>6. /\ next \in Registration /\ next' = next + 1
      /\ response' = [response EXCEPT ![next] = r]
      /\ listed' = {} \cup {next}
      /\ timer' = [Channel!Cancelled(e) EXCEPT ![next] = IF r = "readout" THEN "none" ELSE "armed"]
      /\ life_bound' = TRUE
  BY <1>5, CallbackRegisters DEF IInv
<1>7. Channel!Cancelled(e) \in [Registration -> {"none", "armed", "queued", "done"}]
  BY <1>1, CancelledType DEF IInv
<1>8. ListTypeOK'
  BY <1>6, <1>7, RegistrationsAssumption DEF IInv, ListTypeOK, Registration
<1>9. CallsTypeOK'
  BY <1>1, <1>2, <1>3, <1>6, BumpType DEF IInv, CallsTypeOK, Channel!ProcessCommandInput
<1>10. QED
  BY <1>6, <1>7, <1>8, <1>9, StageResponse DEF IInv, ListTypeOK, Expects, Channel!ProcessCommandInput

LEMMA TimeoutExpects ==
    ASSUME IInv, NEW e \in listed, response[e] \in Stage, NEW r \in Response,
           Channel!TimeoutExpired(e), Registers(r)
    PROVE  Expects(r)
<1>1. listed = {e} /\ e \in Registration
  BY OneWaits
<1>2. /\ Channel!Callback(listed \ {e}, [timer EXCEPT ![e] = "done"])
      /\ timeouts' = [timeouts EXCEPT ![e] = Channel!Bump(@)]
      /\ running' \in BOOLEAN /\ UNCHANGED reactions
  BY DEF Channel!TimeoutExpired
<1>3. listed \ {e} = {}
  BY <1>1
<1>4. /\ next \in Registration /\ next' = next + 1
      /\ response' = [response EXCEPT ![next] = r]
      /\ listed' = {} \cup {next}
      /\ timer' = [[timer EXCEPT ![e] = "done"]
                       EXCEPT ![next] = IF r = "readout" THEN "none" ELSE "armed"]
      /\ life_bound' = TRUE
  BY <1>2, <1>3, CallbackRegisters DEF IInv
<1>5. ListTypeOK'
  BY <1>1, <1>4, RegistrationsAssumption DEF IInv, ListTypeOK, Registration
<1>6. CallsTypeOK'
  BY <1>1, <1>2, <1>4, BumpType DEF IInv, CallsTypeOK
<1>7. QED
  BY <1>1, <1>4, <1>5, <1>6, StageResponse DEF IInv, ListTypeOK, Expects

\* A reaction that throws without a registration leaves the list as it is.
LEMMA ThrowsKeeps ==
    ASSUME IInv, NEW c, Channel!ReactionThrows(c), RegistersNothing
    PROVE  /\ UNCHANGED <<next, response, timer, listed, reactions, timeouts, life_bound>>
           /\ running' \in BOOLEAN
BY CallbackRegistersNothing DEF IInv, Channel!ReactionThrows

-----------------------------------------------------------------------------
LEMMA CommandTypes == /\ {"set_ms", "set_ms_basic", "nak"} = Command
                      /\ {"hi", "lo", "hi_basic", "lo_basic"} = Stage
                      /\ {38400, 4800} = Speeds
BY DEF Command, Stage, Speeds

\* Nothing has succeeded, ...
LEMMA NoSuccess == ToSet(<<>>) = {} /\ Len(<<>>) = 0
BY DEF ToSet

\* ... or one stage has.
LEMMA OneSuccess ==
    ASSUME NEW r \in Stage
    PROVE  /\ Append(<<>>, r) = <<r>> /\ <<r>> \in Seq(Stage) /\ <<r>> # <<>>
           /\ ToSet(<<r>>) = {r} /\ Len(<<r>>) = 1
BY DEF ToSet

LEMMA InitIInv == Init => IInv
<1> SUFFICES ASSUME Init PROVE IInv
  OBVIOUS
<1> DEFINE some == CHOOSE r \in Response : TRUE
<1>1. some \in Response
  BY StageResponse
<1>2. /\ response = [e \in Registration |-> some]
      /\ next = 1 /\ listed = {} /\ timer = [e \in Registration |-> "none"]
      /\ reactions = [e \in Registration |-> 0] /\ timeouts = [e \in Registration |-> 0]
      /\ life_bound = FALSE /\ running = TRUE
  BY DEF Init, Channel!Init, Channel!Registration, Registration
<1> HIDE DEF some
<1>3. ListTypeOK /\ CallsTypeOK
  <2>1. ListTypeOK
    BY <1>1, <1>2, RegistrationsAssumption DEF ListTypeOK, Registration
  <2>2. reactions \in [Registration -> 0..2] /\ timeouts \in [Registration -> 0..2]
    BY <1>2
  <2>3. life_bound \in BOOLEAN /\ running \in BOOLEAN
    BY <1>2
  <2>4. QED
    BY <2>1, <2>2, <2>3 DEF CallsTypeOK
<1>4. LineTypeOK /\ SequenceTypeOK
  BY DEF Init, LineTypeOK, SequenceTypeOK
<1>5. SequenceInv
  BY <1>2, NoSuccess
  DEF Init, SequenceInv, NothingYet, ConfiguredExtended, OneExpectation, StageTimed, SucceedsOnce,
      OnlyReadout, HiSpeedWaits, HiSpeedIsShared, DecodesWhatItExpects, FailureIsFinal
<1>6. QED
  BY <1>3, <1>4, <1>5 DEF IInv

(***************************************************************************)
(* A step that leaves the expectations alone.                              *)
(***************************************************************************)
LEMMA SameExpectations ==
    ASSUME IInv, UNCHANGED <<next, response, listed, reactions, timeouts, life_bound>>,
           running' \in BOOLEAN,
           timer' \in [Registration -> {"none", "armed", "queued", "done"}],
           \A e \in listed : timer[e] \in {"armed", "queued"} => timer'[e] \in {"armed", "queued"}
    PROVE  ListTypeOK' /\ CallsTypeOK' /\ OneExpectation' /\ StageTimed'
BY DEF IInv, SequenceInv, ListTypeOK, CallsTypeOK, OneExpectation, StageTimed

LEMMA ConfigureKeeps == ASSUME IInv, Configure PROVE IInv'
<1>1. ListTypeOK' /\ CallsTypeOK' /\ OneExpectation' /\ StageTimed'
  <2>1. /\ UNCHANGED <<next, response, timer, listed, reactions, timeouts, life_bound, running>>
    BY DEF Configure, channel
  <2>2. QED
    BY <2>1, SameExpectations DEF IInv, ListTypeOK, CallsTypeOK
<1>2. LineTypeOK' /\ SequenceTypeOK'
  BY DEF Configure, IInv, LineTypeOK, SequenceTypeOK, Speeds, line
<1>3. listed' = {} /\ succeeded' = <<>> /\ listed = {} /\ succeeded = <<>>
  BY DEF Configure, channel, IInv, SequenceInv, NothingYet
<1>4. NothingYet' /\ ConfiguredExtended'
  BY <1>3 DEF Configure, IInv, SequenceInv, NothingYet, ConfiguredExtended, line
<1>5. SucceedsOnce' /\ OnlyReadout' /\ HiSpeedWaits' /\ HiSpeedIsShared' /\ DecodesWhatItExpects'
  BY <1>3, NoSuccess
  DEF SucceedsOnce, OnlyReadout, HiSpeedWaits, HiSpeedIsShared, DecodesWhatItExpects
<1>6. FailureIsFinal'
  BY <1>3 DEF Configure, channel, IInv, SequenceInv, FailureIsFinal
<1>7. QED
  BY <1>1, <1>2, <1>4, <1>5, <1>6 DEF IInv, SequenceInv

(***************************************************************************)
(* The main thread writes, the line moves, a command without a taker is    *)
(* dropped: only commands go from one place to the next.                   *)
(***************************************************************************)
LEMMA LineMoves ==
    ASSUME IInv, UNCHANGED <<channel, baud, protocol, succeeded, failed>>,
           SequenceTypeOK', LineTypeOK',
           main \in {"opened", "configured"} => UNCHANGED <<main, line>>,
           main' \in {"opened", "configured"} => main' = main,
           station' = station,
           received = <<>> /\ baud = 38400 /\ received' # <<>> => station.speed = 38400
    PROVE  IInv'
<1>1. UNCHANGED <<next, response, timer, listed, reactions, timeouts, life_bound, running>>
  BY DEF channel
<1>2. ListTypeOK' /\ CallsTypeOK' /\ OneExpectation' /\ StageTimed'
  BY <1>1, SameExpectations DEF IInv, ListTypeOK, CallsTypeOK
<1>3. NothingYet' /\ ConfiguredExtended'
  BY <1>1 DEF IInv, SequenceInv, NothingYet, ConfiguredExtended, line
<1>4. SucceedsOnce' /\ OnlyReadout' /\ HiSpeedIsShared' /\ DecodesWhatItExpects' /\ FailureIsFinal'
  BY <1>1 DEF IInv, SequenceInv, SucceedsOnce, OnlyReadout, HiSpeedIsShared, DecodesWhatItExpects,
              FailureIsFinal
<1>5. HiSpeedWaits'
  BY <1>1 DEF IInv, SequenceInv, HiSpeedWaits
<1>6. QED
  BY <1>2, <1>3, <1>4, <1>5 DEF IInv, SequenceInv

LEMMA WriteHiSpeedKeeps == ASSUME IInv, WriteHiSpeed PROVE IInv'
<1>1. main = "registered" /\ main' \in {"returned", "threw"}
  BY DEF WriteHiSpeed
<1>2. SequenceTypeOK'
  BY DEF WriteHiSpeed, IInv, SequenceTypeOK
<1>3. LineTypeOK'
  BY CommandTypes DEF WriteHiSpeed, IInv, LineTypeOK
<1>4. QED
  BY <1>1, <1>2, <1>3, LineMoves DEF WriteHiSpeed

LEMMA TransmitKeeps == ASSUME IInv, Transmit PROVE IInv'
<1>1. main \notin {"opened", "configured"}
  BY DEF Transmit, IInv, SequenceInv, NothingYet
<1>2. Head(outgoing) \in Command /\ Tail(outgoing) \in Seq(Command) /\ "nak" \in Command
  BY CommandTypes DEF Transmit, IInv, LineTypeOK
<1>3. answers' \in Seq(Command)
  <2>1. answers \in Seq(Command)
    BY DEF IInv, LineTypeOK
  <2>2. \A c \in Command : Append(answers, c) \in Seq(Command)
    BY <2>1
  <2>3. \/ answers' = answers
        \/ answers' = Append(answers, Head(outgoing))
        \/ answers' = Append(answers, "nak")
    BY DEF Transmit
  <2>4. QED
    BY <1>2, <2>1, <2>2, <2>3
<1>4. LineTypeOK'
  BY <1>2, <1>3 DEF Transmit, IInv, LineTypeOK
<1>5. SequenceTypeOK'
  BY DEF Transmit, IInv, SequenceTypeOK
<1>6. QED
  BY <1>1, <1>4, <1>5, LineMoves DEF Transmit

LEMMA ReceiveKeeps == ASSUME IInv, Receive PROVE IInv'
<1>1. main \notin {"opened", "configured"}
  BY DEF Receive, IInv, SequenceInv, NothingYet
<1>2. LineTypeOK'
  BY DEF Receive, IInv, LineTypeOK
<1>3. SequenceTypeOK'
  BY DEF Receive, IInv, SequenceTypeOK
<1>4. received = <<>> /\ baud = 38400 /\ received' # <<>> => station.speed = 38400
  BY DEF Receive
<1>5. QED
  BY <1>1, <1>2, <1>3, <1>4, LineMoves DEF Receive

LEMMA HandlesTypes ==
    ASSUME IInv, NEW c, Handles(c)
    PROVE  /\ running /\ received # <<>> /\ received' \in Seq(Command)
           /\ UNCHANGED <<main, baud, station, answers>>
           /\ main \notin {"opened", "configured"}
BY DEF Handles, IInv, LineTypeOK, SequenceInv, NothingYet

LEMMA IgnoreKeeps == ASSUME IInv, NEW c \in Command, Ignore(c) PROVE IInv'
<1>1. /\ received # <<>> /\ received' \in Seq(Command)
      /\ UNCHANGED <<main, baud, station, answers>>
      /\ main \notin {"opened", "configured"}
  BY HandlesTypes DEF Ignore
<1>2. SequenceTypeOK' /\ LineTypeOK'
  BY <1>1 DEF Ignore, IInv, SequenceTypeOK, LineTypeOK
<1>3. QED
  BY <1>1, <1>2, LineMoves DEF Ignore

(***************************************************************************)
(* A step after which the new registration is the only one.                *)
(***************************************************************************)
LEMMA ExpectsOne ==
    ASSUME NEW r \in Stage, Expects(r)
    PROVE  /\ ListTypeOK' /\ CallsTypeOK' /\ OneExpectation' /\ StageTimed'
           /\ \A e \in listed' : response'[e] = r
           /\ (r \in {"hi", "hi_basic"} => baud' = 38400 /\ (received' # <<>> => station'.speed = 38400))
                  => HiSpeedWaits'
           /\ (r \in {"hi", "lo"} => protocol' = "extended")
              /\ (r \in {"hi_basic", "lo_basic"} => protocol' = "basic") => DecodesWhatItExpects'
BY DEF Expects, OneExpectation, StageTimed, HiSpeedWaits, DecodesWhatItExpects

LEMMA RegisterHiSpeedKeeps == ASSUME IInv, RegisterHiSpeed PROVE IInv'
<1>1. /\ listed = {} /\ succeeded = <<>> /\ received = <<>>
      /\ protocol = "extended" /\ baud = 38400
  BY DEF RegisterHiSpeed, IInv, SequenceInv, NothingYet, ConfiguredExtended
<1>2. "hi" \in Stage /\ "hi" \in Response
  BY CommandTypes DEF Response
<1>3. Expects("hi")
  BY <1>1, <1>2, RegisterExpects DEF RegisterHiSpeed
<1>4. /\ main' = "registered" /\ running' = running /\ running
      /\ UNCHANGED <<baud, protocol, outgoing, answers, received, station, succeeded, failed>>
  BY DEF RegisterHiSpeed, Channel!Register, line
<1>5. LineTypeOK' /\ SequenceTypeOK'
  BY <1>4 DEF IInv, LineTypeOK, SequenceTypeOK
<1>6. ListTypeOK' /\ CallsTypeOK' /\ OneExpectation' /\ StageTimed' /\ HiSpeedWaits' /\ DecodesWhatItExpects'
  BY <1>1, <1>2, <1>3, <1>4, ExpectsOne
<1>7. NothingYet' /\ ConfiguredExtended' /\ SucceedsOnce' /\ OnlyReadout' /\ HiSpeedIsShared'
  BY <1>1, <1>4, NoSuccess
  DEF NothingYet, ConfiguredExtended, SucceedsOnce, OnlyReadout, HiSpeedIsShared
<1>8. FailureIsFinal'
  BY <1>1, <1>4 DEF IInv, SequenceInv, FailureIsFinal
<1>9. QED
  BY <1>5, <1>6, <1>7, <1>8 DEF IInv, SequenceInv

\* The first success: nothing but the readout is expected after it.
LEMMA SucceedKeeps == ASSUME IInv, NEW c \in Command, Succeed(c) PROVE IInv'
<1>1. PICK e \in Channel!Registration :
          c # "nak" /\ Taken(c, e) /\ succeeded' = Append(succeeded, response[e])
  BY DEF Succeed
<1>2. /\ e \in listed /\ listed = {e} /\ response[e] \in Stage
      /\ succeeded = <<>> /\ main \notin {"opened", "configured"}
  BY <1>1, TakerWaits
<1>3. /\ received # <<>> /\ received' \in Seq(Command)
      /\ UNCHANGED <<main, baud, station, answers>>
  BY HandlesTypes DEF Succeed
<1>4. succeeded' = <<response[e]>>
  BY <1>1, <1>2, OneSuccess
<1>5. Expects("readout")
  BY <1>1, StageResponse, AnsweredExpects DEF Succeed
<1>6. /\ ListTypeOK' /\ CallsTypeOK'
      /\ \A d \in listed' : response'[d] = "readout"
      /\ OneExpectation'
  BY <1>5 DEF Expects, OneExpectation
<1>7. StageTimed' /\ OnlyReadout' /\ HiSpeedWaits' /\ DecodesWhatItExpects'
  BY <1>6, StageResponse DEF StageTimed, OnlyReadout, HiSpeedWaits, DecodesWhatItExpects
<1>8. LineTypeOK'
  BY <1>3 DEF Succeed, IInv, LineTypeOK
<1>9. SequenceTypeOK' /\ SucceedsOnce'
  BY <1>2, <1>3, <1>4, OneSuccess DEF Succeed, IInv, SequenceTypeOK, SucceedsOnce
<1>10. NothingYet' /\ ConfiguredExtended'
  BY <1>2, <1>3 DEF NothingYet, ConfiguredExtended
<1>11. HiSpeedIsShared'
  <2>1. response[e] \in {"hi", "hi_basic"} => baud = 38400 /\ station.speed = 38400
    BY <1>2, <1>3 DEF IInv, SequenceInv, HiSpeedWaits
  <2>2. ToSet(succeeded') = {response[e]}
    BY <1>2, <1>4, OneSuccess
  <2>3. QED
    BY <1>3, <2>1, <2>2 DEF HiSpeedIsShared
<1>12. FailureIsFinal'
  BY <1>2, <1>4, OneSuccess DEF FailureIsFinal
<1>13. QED
  BY <1>6, <1>7, <1>8, <1>9, <1>10, <1>11, <1>12 DEF IInv, SequenceInv

\* A refusal in the extended protocol was met by one of the first two stages.
LEMMA TryBasicKeeps == ASSUME IInv, TryBasic PROVE IInv'
<1>1. PICK e \in Channel!Registration :
          /\ Taken("nak", e)
          /\ \/ response[e] = "hi" /\ Registers("hi_basic")
             \/ response[e] = "lo" /\ Registers("lo_basic")
  BY DEF TryBasic
<1>2. /\ e \in listed /\ listed = {e}
      /\ succeeded = <<>> /\ main \notin {"opened", "configured"}
  BY <1>1, TakerWaits
<1>3. /\ received # <<>> /\ received' \in Seq(Command)
      /\ UNCHANGED <<main, baud, station, answers>>
  BY HandlesTypes DEF TryBasic
<1>4. PICK r \in {"hi_basic", "lo_basic"} : Registers(r) /\ (r = "hi_basic" => response[e] = "hi")
  BY <1>1
<1>5. r \in Stage /\ r \in Response
  BY CommandTypes DEF Response
<1>6. Expects(r) /\ running /\ running' = running
  BY <1>1, <1>4, <1>5, AnsweredExpects DEF TryBasic
<1>7. r \in {"hi", "hi_basic"} => baud' = 38400 /\ (received' # <<>> => station'.speed = 38400)
  BY <1>2, <1>3, <1>4 DEF IInv, SequenceInv, HiSpeedWaits
<1>8. /\ ListTypeOK' /\ CallsTypeOK' /\ OneExpectation' /\ StageTimed'
      /\ HiSpeedWaits' /\ DecodesWhatItExpects'
  BY <1>4, <1>5, <1>6, <1>7, ExpectsOne DEF TryBasic
<1>9. outgoing' \in Seq(Command)
  BY CommandTypes DEF TryBasic, IInv, LineTypeOK
<1>10. LineTypeOK' /\ SequenceTypeOK'
  BY <1>3, <1>9 DEF TryBasic, IInv, LineTypeOK, SequenceTypeOK
<1>11. NothingYet' /\ ConfiguredExtended' /\ SucceedsOnce' /\ OnlyReadout' /\ HiSpeedIsShared'
  BY <1>2, <1>3, NoSuccess
  DEF TryBasic, NothingYet, ConfiguredExtended, SucceedsOnce, OnlyReadout, HiSpeedIsShared
<1>12. FailureIsFinal'
  <2>1. response[e] \notin {"hi_basic", "lo_basic"}
    BY <1>1
  <2>2. failed' = failed /\ succeeded' = succeeded
    BY DEF TryBasic
  <2>3. QED
    BY <1>2, <1>6, <2>1, <2>2 DEF IInv, SequenceInv, FailureIsFinal
<1>13. QED
  BY <1>8, <1>10, <1>11, <1>12 DEF IInv, SequenceInv

(***************************************************************************)
(* A reaction that throws leaves the refused expectation and its timer.    *)
(***************************************************************************)
LEMMA ThrowsKeepsRest ==
    ASSUME IInv, NEW c \in Command, NEW e, Taken(c, e), Handles(c),
           Channel!ReactionThrows(c), RegistersNothing,
           UNCHANGED <<protocol, outgoing, succeeded>>
    PROVE  /\ ListTypeOK' /\ CallsTypeOK' /\ OneExpectation' /\ StageTimed' /\ LineTypeOK'
           /\ NothingYet' /\ ConfiguredExtended' /\ SucceedsOnce' /\ OnlyReadout'
           /\ HiSpeedWaits' /\ HiSpeedIsShared' /\ DecodesWhatItExpects'
<1>1. /\ UNCHANGED <<next, response, timer, listed, reactions, timeouts, life_bound>>
      /\ running' \in BOOLEAN
  BY ThrowsKeeps
<1>2. main \notin {"opened", "configured"}
  BY TakerWaits
<1>3. /\ received # <<>> /\ received' \in Seq(Command)
      /\ UNCHANGED <<main, baud, station, answers>>
  BY HandlesTypes
<1>4. ListTypeOK' /\ CallsTypeOK' /\ OneExpectation' /\ StageTimed'
  BY <1>1, SameExpectations DEF IInv, ListTypeOK
<1>5. LineTypeOK'
  BY <1>3 DEF IInv, LineTypeOK
<1>6. NothingYet' /\ ConfiguredExtended'
  BY <1>2, <1>3 DEF NothingYet, ConfiguredExtended
<1>7. SucceedsOnce' /\ OnlyReadout' /\ HiSpeedIsShared' /\ DecodesWhatItExpects'
  BY <1>1, <1>3 DEF IInv, SequenceInv, SucceedsOnce, OnlyReadout, HiSpeedIsShared, DecodesWhatItExpects
<1>8. HiSpeedWaits'
  BY <1>1, <1>3 DEF IInv, SequenceInv, HiSpeedWaits
<1>9. QED
  BY <1>4, <1>5, <1>6, <1>7, <1>8

LEMMA RefusedInBasicKeeps == ASSUME IInv, RefusedInBasic PROVE IInv'
<1>1. PICK e \in Channel!Registration : Taken("nak", e) /\ response[e] \in {"hi_basic", "lo_basic"}
  BY DEF RefusedInBasic
<1>2. e \in listed /\ timer[e] \in {"armed", "queued"}
  BY <1>1, TakerWaits
<1>3. UNCHANGED <<response, timer, listed>>
  BY ThrowsKeeps DEF RefusedInBasic
<1>4. /\ ListTypeOK' /\ CallsTypeOK' /\ OneExpectation' /\ StageTimed' /\ LineTypeOK'
      /\ NothingYet' /\ ConfiguredExtended' /\ SucceedsOnce' /\ OnlyReadout'
      /\ HiSpeedWaits' /\ HiSpeedIsShared' /\ DecodesWhatItExpects'
  BY <1>1, ThrowsKeepsRest, CommandTypes DEF RefusedInBasic
<1>5. SequenceTypeOK'
  BY DEF RefusedInBasic, Handles, IInv, SequenceTypeOK
<1>6. FailureIsFinal'
  BY <1>1, <1>2, <1>3 DEF FailureIsFinal
<1>7. QED
  BY <1>4, <1>5, <1>6 DEF IInv, SequenceInv

LEMMA CrashOnAnswerKeeps == ASSUME IInv, NEW c \in Command, CrashOnAnswer(c) PROVE IInv'
<1>1. PICK e \in Channel!Registration : Taken(c, e)
  BY DEF CrashOnAnswer
<1>2. /\ ListTypeOK' /\ CallsTypeOK' /\ OneExpectation' /\ StageTimed' /\ LineTypeOK'
      /\ NothingYet' /\ ConfiguredExtended' /\ SucceedsOnce' /\ OnlyReadout'
      /\ HiSpeedWaits' /\ HiSpeedIsShared' /\ DecodesWhatItExpects'
  BY <1>1, ThrowsKeepsRest DEF CrashOnAnswer
<1>3. SequenceTypeOK'
  BY DEF CrashOnAnswer, Handles, IInv, SequenceTypeOK
<1>4. FailureIsFinal'
  BY DEF CrashOnAnswer, FailureIsFinal
<1>5. QED
  BY <1>2, <1>3, <1>4 DEF IInv, SequenceInv

(***************************************************************************)
(* A timer runs, or its handler finds the registration gone: the timers of *)
(* the expectations that wait stay pending.                                *)
(***************************************************************************)
LEMMA ClockKeeps ==
    ASSUME IInv,
           UNCHANGED <<next, response, listed, reactions, timeouts, life_bound, running>>,
           timer' \in [Registration -> {"none", "armed", "queued", "done"}],
           \A e \in listed : timer[e] \in {"armed", "queued"} => timer'[e] \in {"armed", "queued"},
           UNCHANGED <<main, baud, protocol, line, succeeded, failed>>
    PROVE  IInv'
<1>1. ListTypeOK' /\ CallsTypeOK' /\ OneExpectation' /\ StageTimed'
  BY SameExpectations DEF IInv, CallsTypeOK
<1>2. LineTypeOK' /\ SequenceTypeOK'
  BY DEF line, IInv, LineTypeOK, SequenceTypeOK
<1>3. /\ NothingYet' /\ ConfiguredExtended' /\ SucceedsOnce' /\ OnlyReadout'
      /\ HiSpeedWaits' /\ HiSpeedIsShared' /\ DecodesWhatItExpects'
  BY DEF line, IInv, SequenceInv, NothingYet, ConfiguredExtended, SucceedsOnce, OnlyReadout,
         HiSpeedWaits, HiSpeedIsShared, DecodesWhatItExpects
<1>4. FailureIsFinal'
  BY DEF IInv, SequenceInv, FailureIsFinal
<1>5. QED
  BY <1>1, <1>2, <1>3, <1>4 DEF IInv, SequenceInv

LEMMA TimerExpiresKeeps == ASSUME IInv, NEW e \in Channel!Registration, TimerExpires(e) PROVE IInv'
<1>1. timer[e] = "armed" /\ timer' = [timer EXCEPT ![e] = "queued"]
  BY DEF TimerExpires, Channel!TimerExpires
<1>2. timer' \in [Registration -> {"none", "armed", "queued", "done"}]
  BY <1>1 DEF IInv, ListTypeOK
<1>3. \A d \in listed : timer[d] \in {"armed", "queued"} => timer'[d] \in {"armed", "queued"}
  BY <1>1 DEF IInv, ListTypeOK
<1>4. QED
  BY <1>2, <1>3, ClockKeeps DEF TimerExpires, Channel!TimerExpires

LEMMA TimeoutOfGoneKeeps == ASSUME IInv, NEW e \in Channel!Registration, TimeoutOfGone(e) PROVE IInv'
<1>1. /\ e \notin listed /\ timer' = [timer EXCEPT ![e] = "done"]
      /\ UNCHANGED <<next, response, listed, life_bound, running, reactions, timeouts>>
  BY DEF TimeoutOfGone, Channel!TimeoutExpired
<1>2. timer' \in [Registration -> {"none", "armed", "queued", "done"}]
  BY <1>1 DEF IInv, ListTypeOK
<1>3. \A d \in listed : timer[d] \in {"armed", "queued"} => timer'[d] \in {"armed", "queued"}
  BY <1>1 DEF IInv, ListTypeOK
<1>4. QED
  BY <1>1, <1>2, <1>3, ClockKeeps DEF TimeoutOfGone

\* The speed changes while nothing has succeeded and nothing is expected at the high one.
LEMMA TryLoSpeedKeeps == ASSUME IInv, NEW e \in Channel!Registration, TryLoSpeed(e) PROVE IInv'
<1>1. e \in listed /\ response[e] = "hi" /\ response[e] \in Stage
  BY CommandTypes DEF TryLoSpeed
<1>2. listed = {e} /\ succeeded = <<>> /\ main \notin {"opened", "configured"} /\ protocol = "extended"
  BY <1>1, OneWaits DEF IInv, SequenceInv, DecodesWhatItExpects
<1>3. "lo" \in Stage /\ "lo" \in Response
  BY CommandTypes DEF Response
<1>4. Expects("lo")
  BY <1>1, <1>3, TimeoutExpects DEF TryLoSpeed
<1>5. /\ running' = running /\ baud' = 4800 /\ outgoing' = Append(outgoing, "set_ms")
      /\ UNCHANGED <<main, protocol, answers, received, station, succeeded, failed>>
  BY DEF TryLoSpeed
<1>6. /\ ListTypeOK' /\ CallsTypeOK' /\ OneExpectation' /\ StageTimed'
      /\ HiSpeedWaits' /\ DecodesWhatItExpects'
  BY <1>2, <1>3, <1>4, <1>5, ExpectsOne
<1>7. outgoing' \in Seq(Command)
  BY <1>5, CommandTypes DEF IInv, LineTypeOK
<1>8. LineTypeOK' /\ SequenceTypeOK'
  BY <1>5, <1>7, CommandTypes DEF IInv, LineTypeOK, SequenceTypeOK
<1>9. NothingYet' /\ ConfiguredExtended' /\ SucceedsOnce' /\ OnlyReadout' /\ HiSpeedIsShared'
  BY <1>2, <1>5, NoSuccess
  DEF NothingYet, ConfiguredExtended, SucceedsOnce, OnlyReadout, HiSpeedIsShared
<1>10. FailureIsFinal'
  BY <1>1, <1>2, <1>5 DEF IInv, SequenceInv, FailureIsFinal
<1>11. QED
  BY <1>6, <1>8, <1>9, <1>10 DEF IInv, SequenceInv

\* The exception ends the io thread; nothing is expected any more.
LEMMA TimeoutFailsKeeps == ASSUME IInv, NEW e \in Channel!Registration, TimeoutFails(e) PROVE IInv'
<1>1. e \in listed /\ response[e] \in Stage
  BY DEF TimeoutFails
<1>2. listed = {e} /\ e \in Registration /\ succeeded = <<>> /\ main \notin {"opened", "configured"}
  BY <1>1, OneWaits
<1>3. /\ Channel!Callback(listed \ {e}, [timer EXCEPT ![e] = "done"])
      /\ timeouts' = [timeouts EXCEPT ![e] = Channel!Bump(@)]
      /\ UNCHANGED reactions
  BY <1>1 DEF TimeoutFails, Channel!TimeoutExpired
<1>4. /\ listed' = listed \ {e} /\ timer' = [timer EXCEPT ![e] = "done"]
      /\ UNCHANGED <<next, response, life_bound>>
  BY <1>3, CallbackRegistersNothing DEF TimeoutFails, IInv
<1>5. listed' = {}
  BY <1>2, <1>4
<1>6. ~running' /\ running' = FALSE
  <2>1. running' \in BOOLEAN
    BY <1>1 DEF TimeoutFails, Channel!TimeoutExpired
  <2>2. QED
    BY <2>1 DEF TimeoutFails
<1>7. ListTypeOK'
  BY <1>4, <1>5 DEF IInv, ListTypeOK
<1>8. CallsTypeOK'
  <2>1. timeouts' \in [Registration -> 0..2] /\ reactions' \in [Registration -> 0..2]
    BY <1>2, <1>3, BumpType DEF IInv, CallsTypeOK
  <2>2. QED
    BY <1>4, <1>6, <2>1 DEF IInv, CallsTypeOK
<1>9. LineTypeOK' /\ SequenceTypeOK'
  BY DEF TimeoutFails, line, IInv, LineTypeOK, SequenceTypeOK
<1>10. OneExpectation' /\ StageTimed' /\ OnlyReadout' /\ HiSpeedWaits' /\ DecodesWhatItExpects'
  BY <1>5 DEF OneExpectation, StageTimed, OnlyReadout, HiSpeedWaits, DecodesWhatItExpects
<1>11. NothingYet' /\ ConfiguredExtended' /\ SucceedsOnce' /\ HiSpeedIsShared'
  BY <1>2, NoSuccess DEF TimeoutFails, NothingYet, ConfiguredExtended, SucceedsOnce, HiSpeedIsShared
<1>12. FailureIsFinal'
  BY <1>6 DEF FailureIsFinal
<1>13. QED
  BY <1>7, <1>8, <1>9, <1>10, <1>11, <1>12 DEF IInv, SequenceInv

-----------------------------------------------------------------------------
LEMMA StepKeeps == IInv /\ [Next]_vars => IInv'
<1> SUFFICES ASSUME IInv, [Next]_vars PROVE IInv'
  OBVIOUS
<1>1. CASE Configure
  BY <1>1, ConfigureKeeps
<1>2. CASE RegisterHiSpeed
  BY <1>2, RegisterHiSpeedKeeps
<1>3. CASE WriteHiSpeed
  BY <1>3, WriteHiSpeedKeeps
<1>4. CASE Transmit
  BY <1>4, TransmitKeeps
<1>5. CASE Receive
  BY <1>5, ReceiveKeeps
<1>6. ASSUME NEW c \in Command, Succeed(c) PROVE IInv'
  BY <1>6, SucceedKeeps
<1>7. ASSUME NEW c \in Command, CrashOnAnswer(c) PROVE IInv'
  BY <1>7, CrashOnAnswerKeeps
<1>8. ASSUME NEW c \in Command, Ignore(c) PROVE IInv'
  BY <1>8, IgnoreKeeps
<1>9. CASE TryBasic
  BY <1>9, TryBasicKeeps
<1>10. CASE RefusedInBasic
  BY <1>10, RefusedInBasicKeeps
<1>11. ASSUME NEW e \in Channel!Registration, TimerExpires(e) PROVE IInv'
  BY <1>11, TimerExpiresKeeps
<1>12. ASSUME NEW e \in Channel!Registration, TimeoutOfGone(e) PROVE IInv'
  BY <1>12, TimeoutOfGoneKeeps
<1>13. ASSUME NEW e \in Channel!Registration, TryLoSpeed(e) PROVE IInv'
  BY <1>13, TryLoSpeedKeeps
<1>14. ASSUME NEW e \in Channel!Registration, TimeoutFails(e) PROVE IInv'
  BY <1>14, TimeoutFailsKeeps
<1>15. CASE UNCHANGED vars
  <2>1. /\ UNCHANGED <<next, response, timer, listed, reactions, timeouts, life_bound, running>>
        /\ UNCHANGED <<main, baud, protocol, line, succeeded, failed>>
    BY <1>15 DEF vars, channel
  <2>2. QED
    BY <2>1, ClockKeeps DEF IInv, ListTypeOK
<1>16. QED
  BY <1>1, <1>2, <1>3, <1>4, <1>5, <1>6, <1>7, <1>8, <1>9, <1>10, <1>11, <1>12, <1>13, <1>14, <1>15
  DEF Next

\* The inductive invariant holds in every state of the startup.
LEMMA IInvHolds == Spec => []IInv
BY InitIInv, StepKeeps, PTL DEF Spec

LEMMA IInvTypes == IInv => TypeOK
<1> SUFFICES ASSUME IInv PROVE TypeOK
  OBVIOUS
<1>1. Channel!TypeOK
  <2>1. /\ next \in 1..(MaxRegistrations + 1)
        /\ response \in [Registration -> Response]
        /\ timer \in [Registration -> {"none", "armed", "queued", "done"}]
        /\ listed \subseteq Registration
    BY DEF IInv, ListTypeOK
  <2>2. /\ life_bound \in BOOLEAN /\ running \in BOOLEAN
        /\ reactions \in [Registration -> 0..2] /\ timeouts \in [Registration -> 0..2]
    BY DEF IInv, CallsTypeOK
  <2>3. Channel!Registration = Registration
        /\ Channel!TimerState = {"none", "armed", "queued", "done"}
    BY DEF Channel!Registration, Registration, Channel!TimerState
  <2>4. QED
    BY <2>1, <2>2, <2>3 DEF Channel!TypeOK
<1>2. QED
  BY <1>1 DEF IInv, LineTypeOK, SequenceTypeOK, TypeOK

\* The variables of the startup and of its channel keep their types.
THEOREM TypeCorrect == Spec => []TypeOK
BY IInvHolds, IInvTypes, PTL

\* The stages of start and the readout are expected one at a time: an answer, a
\* refusal and the successor of a timed-out stage never meet a second expectation.
THEOREM OneExpectationHolds == Spec => []OneExpectation
<1>1. IInv => OneExpectation
  BY DEF IInv, SequenceInv
<1>2. QED
  BY IInvHolds, <1>1, PTL

\* success is called at most once, whatever the station answers, refuses and repeats.
THEOREM SucceedsOnceHolds == Spec => []SucceedsOnce
<1>1. IInv => SucceedsOnce
  BY DEF IInv, SequenceInv
<1>2. QED
  BY IInvHolds, <1>1, PTL

\* A success of a stage at 38400 baud came from a station that talks at 38400 baud.
THEOREM HiSpeedIsSharedHolds == Spec => []HiSpeedIsShared
<1>1. IInv => HiSpeedIsShared
  BY DEF IInv, SequenceInv
<1>2. QED
  BY IInvHolds, <1>1, PTL

\* set_protocol and the expectations never disagree: the parser of the channel decodes
\* what the stage that waits is waiting for.
THEOREM DecodesWhatItExpectsHolds == Spec => []DecodesWhatItExpects
<1>1. IInv => DecodesWhatItExpects
  BY DEF IInv, SequenceInv
<1>2. QED
  BY IInvHolds, <1>1, PTL

\* A failure whose exception the basic parser swallows is met again by a timer.
THEOREM FailureIsFinalHolds == Spec => []FailureIsFinal
<1>1. IInv => FailureIsFinal
  BY DEF IInv, SequenceInv
<1>2. QED
  BY IInvHolds, <1>1, PTL

-----------------------------------------------------------------------------
(***************************************************************************)
(* Every step of the startup is a step of its channel, or none.            *)
(***************************************************************************)
LEMMA StepOfChannel == [Next]_vars => [Channel!Next]_(Channel!vars)
<1> SUFFICES ASSUME [Next]_vars PROVE Channel!Next \/ UNCHANGED Channel!vars
  OBVIOUS
<1>1. UNCHANGED channel => UNCHANGED Channel!vars
  BY DEF channel, Channel!vars
<1>2. CASE Configure \/ WriteHiSpeed \/ Transmit \/ Receive \/ \E c \in Command : Ignore(c)
  BY <1>1, <1>2 DEF Configure, WriteHiSpeed, Transmit, Receive, Ignore
<1>3. CASE RegisterHiSpeed
  BY <1>3, CommandTypes DEF RegisterHiSpeed, Channel!Next, Response
<1>4. CASE (\E c \in Command : Succeed(c)) \/ TryBasic
  BY <1>4, CommandTypes DEF Succeed, TryBasic, Channel!Next
<1>5. CASE (\E c \in Command : CrashOnAnswer(c)) \/ RefusedInBasic
  BY <1>5, CommandTypes DEF CrashOnAnswer, RefusedInBasic, Channel!Next
<1>6. CASE \E e \in Channel!Registration :
               TimerExpires(e) \/ TimeoutOfGone(e) \/ TryLoSpeed(e) \/ TimeoutFails(e)
  BY <1>6 DEF TimerExpires, TimeoutOfGone, TryLoSpeed, TimeoutFails, Channel!Next
<1>7. CASE UNCHANGED vars
  BY <1>1, <1>7 DEF vars
<1>8. QED
  BY <1>2, <1>3, <1>4, <1>5, <1>6, <1>7 DEF Next

\* The startup uses its channel as ChannelInput allows, so all that is proved of
\* ChannelInput holds of the channel of a startup.
THEOREM StartupUsesChannel == Spec => Channel!Spec
<1>1. Init => Channel!Init
  BY DEF Init
<1>2. QED
  BY <1>1, StepOfChannel, PTL DEF Spec, Channel!Spec

LEMMA StartupChannel == /\ Response # {} /\ Permanent \subseteq Response
                        /\ Accepts \in [Response -> SUBSET Command]
                        /\ MaxRegistrations \in Nat
BY RegistrationsAssumption, StageResponse DEF Accepts, Permanent

\* The theorems about ChannelInput, for this channel.
ChannelP == INSTANCE ChannelInputProofs

LEMMA SameChannel ==
    /\ Channel!Init => ChannelP!Init
    /\ [Channel!Next]_(Channel!vars) => [ChannelP!Next]_(ChannelP!vars)
    /\ ChannelP!OneOutcome => Channel!OneOutcome
<1>1. Channel!Init => ChannelP!Init
  BY DEF Channel!Init, ChannelP!Init, Channel!Registration, ChannelP!Registration
<1>2. \A c : Channel!Bump(c) = ChannelP!Bump(c)
  BY DEF Channel!Bump, ChannelP!Bump
<1>3. \A kept, clocks : Channel!Callback(kept, clocks) <=> ChannelP!Callback(kept, clocks)
  BY DEF Channel!Callback, ChannelP!Callback, Channel!Push, ChannelP!Push, Channel!Registration,
         ChannelP!Registration
<1>4. \A r : Channel!Register(r) <=> ChannelP!Register(r)
  BY DEF Channel!Register, ChannelP!Register, Channel!Push, ChannelP!Push, Channel!Registration,
         ChannelP!Registration
<1>5. \A r : Channel!Unregister(r) <=> ChannelP!Unregister(r)
  BY DEF Channel!Unregister, ChannelP!Unregister
<1>6. \A c : Channel!ProcessCommandInput(c) <=> ChannelP!ProcessCommandInput(c)
  BY <1>2, <1>3 DEF Channel!ProcessCommandInput, ChannelP!ProcessCommandInput, Channel!Taker,
         ChannelP!Taker, Channel!Cancelled, ChannelP!Cancelled, Channel!Registration,
         ChannelP!Registration
<1>7. \A c : Channel!ReactionThrows(c) <=> ChannelP!ReactionThrows(c)
  BY <1>3 DEF Channel!ReactionThrows, ChannelP!ReactionThrows, Channel!Taker, ChannelP!Taker,
         Channel!Registration, ChannelP!Registration
<1>8. \A e : /\ Channel!TimerExpires(e) <=> ChannelP!TimerExpires(e)
             /\ Channel!TimeoutExpired(e) <=> ChannelP!TimeoutExpired(e)
  BY <1>2, <1>3 DEF Channel!TimerExpires, ChannelP!TimerExpires, Channel!TimeoutExpired,
         ChannelP!TimeoutExpired
<1>9. Channel!Next => ChannelP!Next
  BY <1>4, <1>5, <1>6, <1>7, <1>8 DEF Channel!Next, ChannelP!Next, Channel!Registration,
         ChannelP!Registration
<1>10. ChannelP!OneOutcome => Channel!OneOutcome
  BY DEF Channel!OneOutcome, ChannelP!OneOutcome, Channel!OneShot, ChannelP!OneShot,
         Channel!Registration, ChannelP!Registration
<1>11. QED
  BY <1>1, <1>9, <1>10 DEF Channel!vars, ChannelP!vars

\* Each stage is answered or times out, never both.
THEOREM StageResolvedOnce == Spec => []Channel!OneOutcome
<1>1. ChannelP!Spec => []ChannelP!OneOutcome
  BY StartupChannel, ChannelP!OneOutcomeHolds
<1>2. Channel!Spec => ChannelP!Spec
  BY SameChannel, PTL DEF Channel!Spec, ChannelP!Spec
<1>3. QED
  BY <1>1, <1>2, SameChannel, StartupUsesChannel, PTL
=============================================================================
