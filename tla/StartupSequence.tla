-------------------------- MODULE StartupSequence --------------------------
(***************************************************************************)
(* startup_sequence.h on a channel: the station is asked for its master    *)
(* mode at 38400 baud, after 100 ms without an answer at 4800 baud, and a  *)
(* station that refuses the extended command is asked again in the basic   *)
(* protocol.  Success starts the card readout; failure is an exception.    *)
(*                                                                         *)
(* Every step that touches the expectations is a step of ChannelInput,     *)
(* whose callbacks are here the member functions of the sequence.  start   *)
(* runs on the main thread, against the handlers of the io thread.         *)
(***************************************************************************)
EXTENDS Naturals, Sequences, SequencesExt

CONSTANT MaxRegistrations

ASSUME RegistrationsAssumption == MaxRegistrations \in Nat

VARIABLES
    next, response, timer, listed, life_bound, running, reactions, timeouts,   \* the channel
    main,        \* how far the main thread is in start
    baud,        \* of the port
    protocol,    \* of the channel
    outgoing,    \* commands written to the port and not yet on the line
    answers,     \* answers of the station on the line
    received,    \* commands read by the driver and not yet handled
    station,     \* the station connected: its speed and the protocols it takes
    succeeded,   \* history: the stages whose reactions called success, in order
    failed       \* history: calls of failure

channel == <<next, response, timer, listed, life_bound, running, reactions, timeouts>>
line == <<outgoing, answers, received, station>>
vars == <<channel, main, baud, protocol, line, succeeded, failed>>

-----------------------------------------------------------------------------
\* The expectations of the sequence, by their reactions, and the one of the card
\* readout that success registers; what each of them takes.
Stage == {"hi", "lo", "hi_basic", "lo_basic"}
Response == Stage \cup {"readout"}
Permanent == {"readout"}

\* extended::set_ms_mode, basic::set_ms_mode and nak.
Command == {"set_ms", "set_ms_basic", "nak"}
Accepts == [r \in Response |->
                {c \in Command : \/ r \in {"hi", "lo"} /\ c \in {"set_ms", "nak"}
                                 \/ r \in {"hi_basic", "lo_basic"} /\ c \in {"set_ms_basic", "nak"}}]

Channel == INSTANCE ChannelInput

Registers(r) == next' = next + 1 /\ response'[next] = r
RegistersNothing == next' = next

Speeds == {38400, 4800}

Init == /\ Channel!Init
        /\ main = "opened"
        /\ baud \in Speeds      \* whatever the port was left at
        /\ protocol = "none"
        /\ outgoing = <<>> /\ answers = <<>> /\ received = <<>>
        /\ station \in [speed : Speeds, takes : SUBSET {"set_ms", "set_ms_basic"}]
        /\ succeeded = <<>> /\ failed = 0

-----------------------------------------------------------------------------
(***************************************************************************)
(* start, on the main thread: the registration and the write are two calls.*)
(***************************************************************************)
\* Mutant: the port keeps the speed it was left at.
ConfigureKeepsSpeed == /\ main = "opened"
                       /\ main' = "configured"
                       /\ baud' = baud
                       /\ protocol' = "extended"
                       /\ UNCHANGED <<channel, line, succeeded, failed>>

Configure == /\ main = "opened"
             /\ main' = "configured"
             /\ baud' = 38400
             /\ protocol' = "extended"
             /\ UNCHANGED <<channel, line, succeeded, failed>>

RegisterHiSpeed == /\ main = "configured"
                   /\ main' = "registered"
                   /\ Channel!Register("hi")
                   /\ Registers("hi")
                   /\ UNCHANGED <<baud, protocol, line, succeeded, failed>>

\* encode_command of the basic protocol throws on the extended command, which
\* ends the program with the return value 8.
WriteHiSpeed == /\ running
                /\ main = "registered"
                /\ \/ /\ protocol = "extended"
                      /\ outgoing' = Append(outgoing, "set_ms")
                      /\ main' = "returned"
                   \/ /\ protocol = "basic"
                      /\ outgoing' = outgoing
                      /\ main' = "threw"
                /\ UNCHANGED <<channel, baud, protocol, answers, received, station, succeeded, failed>>

-----------------------------------------------------------------------------
(***************************************************************************)
(* The line: both sides hear each other at the same speed only.  The       *)
(* station answers what it takes, refuses the rest, or says nothing.       *)
(***************************************************************************)
Transmit == /\ outgoing # <<>>
            /\ outgoing' = Tail(outgoing)
            /\ \/ answers' = answers
               \/ /\ baud = station.speed
                  /\ answers' = Append(answers, IF Head(outgoing) \in station.takes
                                                THEN Head(outgoing) ELSE "nak")
            /\ UNCHANGED <<channel, main, baud, protocol, received, station, succeeded, failed>>

Receive == /\ answers # <<>>
           /\ answers' = Tail(answers)
           /\ received' = IF baud = station.speed THEN Append(received, Head(answers)) ELSE received
           /\ UNCHANGED <<channel, main, baud, protocol, outgoing, station, succeeded, failed>>

-----------------------------------------------------------------------------
(***************************************************************************)
(* handle_read decodes the next command and dispatches it.                 *)
(***************************************************************************)
Handles(c) == /\ running
              /\ received # <<>> /\ Head(received) = c
              /\ received' = Tail(received)
              /\ UNCHANGED <<main, baud, station, answers>>

Taken(c, e) == Channel!Taker(c, e) /\ ~(protocol = "basic" /\ c = "set_ms")

\* The object of the sequence lives as long as a function bound to
\* shared_from_this(), in a pair of the list or in a wait handler, or the main
\* thread holds it.  The functions of "lo_basic" are bound to this.
Alive == \/ main \notin {"returned", "threw"}
         \/ \E e \in Channel!Registration : /\ response[e] \in {"hi", "lo", "hi_basic"}
                                            /\ e \in listed \/ timer[e] \in {"armed", "queued"}

\* Mutant: success ends in an exception, so the pair stays.
SucceedThrows(c) == /\ Handles(c)
                    /\ Channel!ReactionThrows(c)
                    /\ \E e \in Channel!Registration :
                         /\ c # "nak" /\ Taken(c, e)
                         /\ succeeded' = Append(succeeded, response[e])
                    /\ Registers("readout") /\ UNCHANGED running
                    /\ UNCHANGED <<protocol, outgoing, failed>>

\* response_set_ms_*: success starts the card readout.
Succeed(c) == /\ Handles(c)
              /\ \E e \in Channel!Registration :
                   /\ c # "nak" /\ Taken(c, e)
                   /\ succeeded' = Append(succeeded, response[e])
              /\ Channel!ProcessCommandInput(c)
              /\ Registers("readout")
              /\ UNCHANGED <<protocol, outgoing, failed>>

\* Mutant: the write of the basic command throws.
TryBasicThrows == /\ Handles("nak")
                  /\ Channel!ReactionThrows("nak")
                  /\ \E e \in Channel!Registration :
                       /\ Taken("nak", e)
                       /\ \/ response[e] = "hi" /\ Registers("hi_basic")
                          \/ response[e] = "lo" /\ Registers("lo_basic")
                  /\ UNCHANGED running
                  /\ protocol' = "basic"
                  /\ outgoing' = Append(outgoing, "set_ms_basic")
                  /\ UNCHANGED <<succeeded, failed>>

\* nck_set_ms_hi_speed and nck_set_ms_lo_speed.
TryBasic == /\ Handles("nak")
            /\ Channel!ProcessCommandInput("nak")
            /\ \E e \in Channel!Registration :
                 /\ Taken("nak", e)
                 /\ \/ response[e] = "hi" /\ Registers("hi_basic")
                    \/ response[e] = "lo" /\ Registers("lo_basic")
            /\ protocol' = "basic"
            /\ outgoing' = Append(outgoing, "set_ms_basic")
            /\ UNCHANGED <<succeeded, failed>>

\* nck_set_ms_*_basic: failure throws, and detect_command of the basic protocol
\* swallows the exception: the pair and its timer stay.
RefusedInBasic == /\ Handles("nak")
                  /\ \E e \in Channel!Registration :
                       /\ Taken("nak", e)
                       /\ response[e] \in {"hi_basic", "lo_basic"}
                  /\ Channel!ReactionThrows("nak")
                  /\ RegistersNothing /\ UNCHANGED running
                  /\ failed' = failed + 1
                  /\ UNCHANGED <<protocol, outgoing, succeeded>>

\* A call of a function bound to a sequence that is gone can end the program.
CrashOnAnswer(c) == /\ Handles(c)
                    /\ ~Alive
                    /\ Channel!ReactionThrows(c)
                    /\ \E e \in Channel!Registration : Taken(c, e)
                    /\ RegistersNothing /\ ~running'
                    /\ UNCHANGED <<protocol, outgoing, succeeded, failed>>

\* Nobody takes the command. (On a nak without a taker check_input would never
\* return under the basic protocol; during the startup there is always a taker.)
Ignore(c) == /\ Handles(c)
             /\ \A e \in Channel!Registration : ~Taken(c, e)
             /\ UNCHANGED <<channel, protocol, outgoing, succeeded, failed>>

-----------------------------------------------------------------------------
TimerExpires(e) == /\ Channel!TimerExpires(e)
                   /\ UNCHANGED <<main, baud, protocol, line, succeeded, failed>>

\* The wait handler of a registration that is gone.
TimeoutOfGone(e) == /\ e \notin listed
                    /\ Channel!TimeoutExpired(e)
                    /\ UNCHANGED <<main, baud, protocol, line, succeeded, failed>>

\* Mutant: the second stage falls back to the basic protocol as well.
TryLoSpeedBasic(e) == /\ e \in listed /\ response[e] = "hi"
                      /\ Channel!TimeoutExpired(e)
                      /\ Registers("lo") /\ UNCHANGED running
                      /\ baud' = 4800
                      /\ protocol' = "basic"
                      /\ outgoing' = Append(outgoing, "set_ms")
                      /\ UNCHANGED <<main, answers, received, station, succeeded, failed>>

\* Mutant: another speed than the low one of the stations.
TryLoSpeedWrong(e) == /\ e \in listed /\ response[e] = "hi"
                      /\ Channel!TimeoutExpired(e)
                      /\ Registers("lo") /\ UNCHANGED running
                      /\ baud' = 9600
                      /\ outgoing' = Append(outgoing, "set_ms")
                      /\ UNCHANGED <<main, protocol, answers, received, station, succeeded, failed>>

\* Mutant: the second stage is only written, not expected.
TryLoSpeedUnheard(e) == /\ e \in listed /\ response[e] = "hi"
                        /\ Channel!TimeoutExpired(e)
                        /\ RegistersNothing /\ UNCHANGED running
                        /\ baud' = 4800
                        /\ outgoing' = Append(outgoing, "set_ms")
                        /\ UNCHANGED <<main, protocol, answers, received, station, succeeded, failed>>

\* timeout_set_ms_hi_speed
TryLoSpeed(e) == /\ e \in listed /\ response[e] = "hi"
                 /\ Channel!TimeoutExpired(e)
                 /\ Registers("lo") /\ UNCHANGED running
                 /\ baud' = 4800
                 /\ outgoing' = Append(outgoing, "set_ms")
                 /\ UNCHANGED <<main, protocol, answers, received, station, succeeded, failed>>

\* Mutant: somebody catches what failure throws.
TimeoutFailsCaught(e) == /\ e \in listed /\ response[e] \in Stage \ {"hi"}
                         /\ Channel!TimeoutExpired(e)
                         /\ RegistersNothing /\ UNCHANGED running
                         /\ failed' = failed + 1
                         /\ UNCHANGED <<main, baud, protocol, line, succeeded>>

\* The other timeouts: failure throws out of the io thread.
TimeoutFails(e) == /\ e \in listed /\ response[e] \in Stage \ {"hi"}
                   /\ Channel!TimeoutExpired(e)
                   /\ RegistersNothing /\ ~running'
                   /\ failed' = failed + 1
                   /\ UNCHANGED <<main, baud, protocol, line, succeeded>>

Next == \/ Configure \/ RegisterHiSpeed \/ WriteHiSpeed
        \/ Transmit \/ Receive
        \/ \E c \in Command : Succeed(c) \/ CrashOnAnswer(c) \/ Ignore(c)
        \/ TryBasic \/ RefusedInBasic
        \/ \E e \in Channel!Registration :
               TimerExpires(e) \/ TimeoutOfGone(e) \/ TryLoSpeed(e) \/ TimeoutFails(e)

Spec == Init /\ [][Next]_vars

\* The main thread returns from start; the clock and the io thread run.
FairSpec ==
    /\ Spec
    /\ WF_vars(Configure \/ RegisterHiSpeed \/ WriteHiSpeed)
    /\ \A e \in Channel!Registration :
           /\ WF_vars(TimerExpires(e))
           /\ WF_vars(TimeoutOfGone(e) \/ TryLoSpeed(e) \/ TimeoutFails(e))

-----------------------------------------------------------------------------
TypeOK == /\ Channel!TypeOK
          /\ main \in {"opened", "configured", "registered", "returned", "threw"}
          /\ baud \in Speeds
          /\ protocol \in {"none", "extended", "basic"}
          /\ outgoing \in Seq(Command) /\ answers \in Seq(Command) /\ received \in Seq(Command)
          /\ succeeded \in Seq(Stage)
          /\ failed \in Nat

\* The sequence and the readout that follows it expect one thing at a time: the
\* answer to one stage cannot be taken by another, although all stages take nak,
\* and no stage outlives a success to fail later.
OneExpectation == \A d, e \in listed : d = e

\* At most one answer succeeds, so the card readout is started once: late, doubled
\* and refused answers do not start it again.
SucceedsOnce == Len(succeeded) <= 1

\* In the stages at 38400 baud success means that both sides talk at that speed.
HiSpeedIsShared == ToSet(succeeded) \cap {"hi", "hi_basic"} # {} =>
                       baud = 38400 /\ station.speed = 38400

\* The parser in place is one that decodes what is expected: the answer to an
\* extended command is never waited for in the basic protocol, which drops it, nor
\* the answer to a basic one before the parser has been changed.
DecodesWhatItExpects ==
    \A e \in listed : /\ response[e] \in {"hi", "lo"} => protocol = "extended"
                      /\ response[e] \in {"hi_basic", "lo_basic"} => protocol = "basic"

\* The startup ends: with a success, with the exception of a failure or with a
\* crash, whatever the station answers and loses.
Verdict == (main = "configured") ~> (succeeded # <<>> \/ ~running)

\* startup_sequence.h:66: "lo speed response", logged of every answer taken by the
\* second stage.
LoSpeedResponse == "lo" \in ToSet(succeeded) => station.speed = 4800

\* A failure is final (startup_sequence.h:112-117): its exception ends the io thread or,
\* where the basic parser swallows it, leaves the refused expectation with a timer that
\* fails again, unless an answer comes first.
FailureIsFinal ==
    failed > 0 /\ running /\ succeeded = <<>> =>
        \E e \in listed : response[e] \in {"hi_basic", "lo_basic"} /\ timer[e] \in {"armed", "queued"}
=============================================================================
