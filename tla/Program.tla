------------------------------ MODULE Program ------------------------------
(***************************************************************************)
(* SI.cpp and io_base.h: the program around its channels.  The main thread *)
(* checks the arguments, opens the devices, installs the handlers of       *)
(* signals and waits to be asked to exit; meanwhile the io thread of the   *)
(* service starts the readouts and writes what arrives to the output file. *)
(* A channel is here what main makes of it, a startup its verdict, and a   *)
(* record one number; StartupSequence and ChipReadout have the details.    *)
(***************************************************************************)
EXTENDS Naturals, Sequences, SequencesExt

CONSTANTS
    Devices,      \* the --device options, in their order
    MaxRecords    \* bound: records that arrive from one device

Device == ToSet(Devices)
ASSUME DevicesAssumption == Devices \in Seq(Device) /\ Devices # <<>> /\ IsInjective(Devices)
ASSUME MaxRecordsAssumption == MaxRecords \in Nat
ASSUME DeviceAssumption == Device \cap {"idle", "terminate", "aborted"} = {}

VARIABLES
    arguments,       \* which checks of the command line will hold, and the mode
    opens,           \* the devices that can be opened
    main,            \* how far the main thread is
    current,         \* the device of for_each, by its place
    port,            \* [Device -> how far its channel is]
    installed,       \* the signals with a handler, the ones before SIGABRT as one
    notifying,       \* the threads inside notify_exit_condition
    exit_predicate,
    exit_mtx,        \* held by the main thread, or free between two steps
    io,              \* [Service -> the run of its io thread]
    sent,            \* [Device -> records that have arrived]
    file,            \* the output file: where each line begins and ends
    asked,           \* history: a signal has come from outside
    exit             \* how the process ended

vars == <<arguments, opens, main, current, port, installed, notifying, exit_predicate,
          exit_mtx, io, sent, file, asked, exit>>

environment == <<arguments, opens>>
waiting == <<installed, notifying, exit_predicate, exit_mtx, asked>>
output == <<io, sent, file>>

\* Mutant: a channel makes an io_base of its own.
ServiceOfItsOwn(d) == <<d>>

\* main gives its io_base to every channel, which makes one only without it.
ServiceOf(d) == <<"main">>

Service == {ServiceOf(d) : d \in Device}
Thread == Service \cup {<<"main thread">>}
MainThread == <<"main thread">>

Checked == {"parsed", "no_help", "logfile", "device", "output", "output_opens"}
\* How the process ended: what main returned, or 128 and the number of the signal.
KilledBy == [SIGINT |-> 130, SIGABRT |-> 134, SIGSEGV |-> 139]
Running == 256
ExitStatus == 0..8 \cup {KilledBy.SIGINT, KilledBy.SIGABRT, KilledBy.SIGSEGV, Running}

Init == /\ arguments \in [holds : SUBSET Checked, mode : {"readout", "punch"}]
        /\ opens \in SUBSET Device
        /\ main = "arguments"
        /\ current = 1
        /\ port = [d \in Device |-> "closed"]
        /\ installed = {}
        /\ notifying = {}
        /\ exit_predicate = FALSE
        /\ exit_mtx = "free"
        /\ io = [s \in Service |-> "idle"]
        /\ sent = [d \in Device |-> 0]
        /\ file = <<>>
        /\ asked = FALSE
        /\ exit = Running

-----------------------------------------------------------------------------
(***************************************************************************)
(* The main thread.                                                        *)
(***************************************************************************)
Main == exit = Running /\ MainThread \notin notifying

\* What main looks at, in this order, and what it returns when it does not
\* hold; options that cannot be parsed throw where nothing catches.
ChecksInOrder ==
    << <<"parsed", KilledBy.SIGABRT>>, <<"no_help", 1>>, <<"logfile", 8>>, <<"device", 2>>,
       <<"output", 3>>, <<"output_opens", 4>> >>

Holds(i) == ChecksInOrder[i][1] \in arguments.holds

CheckArguments ==
    /\ Main /\ main = "arguments"
    /\ \/ /\ \A i \in 1..Len(ChecksInOrder) : Holds(i)
          /\ main' = "opening"
          /\ UNCHANGED exit
       \/ \E i \in 1..Len(ChecksInOrder) :
             /\ ~Holds(i) /\ \A j \in 1..i - 1 : Holds(j)
             /\ exit' = ChecksInOrder[i][2]
             /\ UNCHANGED main
    /\ UNCHANGED <<environment, current, port, waiting, output>>

Opening == Main /\ main = "opening" /\ current <= Len(Devices)
Here == Devices[current]

\* open_device and, with a channel, its first read; without one the device is passed over.
OpenDevice ==
    /\ Opening /\ port[Here] = "closed"
    /\ IF Here \in opens
         THEN port' = [port EXCEPT ![Here] = "reading"] /\ UNCHANGED current
         ELSE current' = current + 1 /\ UNCHANGED port
    /\ UNCHANGED <<environment, main, waiting, output, exit>>

\* startup_sequence::start or start_punch_wait: the protocol is set while the port is read.
SetProtocol ==
    /\ Opening /\ port[Here] = "reading"
    /\ port' = [port EXCEPT ![Here] = "protocol"]
    /\ UNCHANGED <<environment, main, current, waiting, output, exit>>

\* startup_sequence::start configures the port first, which can throw.
SetOptionThrows ==
    /\ Opening /\ port[Here] = "reading" /\ arguments.mode = "readout"
    /\ exit' = 5
    /\ UNCHANGED <<environment, main, current, port, waiting, output>>

Listen ==
    /\ Opening /\ port[Here] = "protocol"
    /\ port' = [port EXCEPT ![Here] = IF arguments.mode = "punch" THEN "listening"
                                                                  ELSE "startup"]
    /\ current' = current + 1
    /\ UNCHANGED <<environment, main, waiting, output, exit>>

\* Mutant: the handler of SIGABRT is installed first.
InstallAbortFirst ==
    /\ Main /\ main = "opening" /\ current > Len(Devices) /\ installed # {"SIGINT", "SIGABRT"}
    /\ installed' = IF installed = {} THEN {"SIGABRT"} ELSE {"SIGINT", "SIGABRT"}
    /\ UNCHANGED <<environment, main, current, port, notifying, exit_predicate, exit_mtx, asked,
                   output, exit>>

\* SIGINT stands for the signals that have their handler set before SIGABRT.
InstallHandlers ==
    /\ Main /\ main = "opening" /\ current > Len(Devices) /\ installed # {"SIGINT", "SIGABRT"}
    /\ installed' = IF installed = {} THEN {"SIGINT"} ELSE {"SIGINT", "SIGABRT"}
    /\ UNCHANGED <<environment, main, current, port, notifying, exit_predicate, exit_mtx, asked,
                   output, exit>>

LockExit ==
    /\ Main /\ main = "opening" /\ installed = {"SIGINT", "SIGABRT"}
    /\ exit_mtx = "free"
    /\ exit_mtx' = "main"
    /\ main' = "testing"
    /\ UNCHANGED <<environment, current, port, installed, notifying, exit_predicate, asked,
                   output, exit>>

\* Mutant: the wait is left without looking at the predicate again.
TestOnce == /\ Main /\ main = "testing"
            /\ main' = "exitting" /\ exit_mtx' = "free"
            /\ UNCHANGED <<environment, current, port, installed, notifying, exit_predicate,
                           asked, output, exit>>

\* exit_cond.wait looks at the predicate, and a handler may run before it sleeps.
TestPredicate ==
    /\ Main /\ main = "testing"
    /\ IF exit_predicate THEN main' = "exitting" /\ exit_mtx' = "free"
                         ELSE main' = "about to sleep" /\ UNCHANGED exit_mtx
    /\ UNCHANGED <<environment, current, port, installed, notifying, exit_predicate, asked,
                   output, exit>>

\* Mutant: the mutex stays locked while main sleeps.
SleepLocked ==
    /\ Main /\ main = "about to sleep"
    /\ main' = "asleep"
    /\ UNCHANGED <<environment, current, port, waiting, output, exit>>

Sleep ==
    /\ Main /\ main = "about to sleep"
    /\ main' = "asleep"
    /\ exit_mtx' = "free"
    /\ UNCHANGED <<environment, current, port, installed, notifying, exit_predicate, asked,
                   output, exit>>

\* Condition variables also wake up without being notified.
WakeUp ==
    /\ Main /\ main = "asleep"
    /\ main' = "awake"
    /\ UNCHANGED <<environment, current, port, waiting, output, exit>>

Relock ==
    /\ Main /\ main = "awake" /\ exit_mtx = "free"
    /\ main' = "testing"
    /\ exit_mtx' = "main"
    /\ UNCHANGED <<environment, current, port, installed, notifying, exit_predicate, asked,
                   output, exit>>

\* The channels main drops live on, for somebody still expects input from them:
\* the io thread works until the process is gone.
Return ==
    /\ Main /\ main = "exitting"
    /\ exit' = 0
    /\ UNCHANGED <<environment, main, current, port, waiting, output>>

-----------------------------------------------------------------------------
(***************************************************************************)
(* Signals.  The system picks the thread; a handler suspends its thread.   *)
(***************************************************************************)
Signal(t) ==
    /\ exit = Running /\ t \notin notifying
    /\ asked' = TRUE
    /\ IF "SIGINT" \in installed THEN notifying' = notifying \cup {t} /\ UNCHANGED exit
                                 ELSE exit' = KilledBy.SIGINT /\ UNCHANGED notifying
    /\ UNCHANGED <<environment, main, current, port, installed, exit_predicate, exit_mtx, output>>

\* Mutant: the condition is notified, the predicate is not set.
NotifyWithoutPredicate(t) ==
    /\ exit = Running /\ t \in notifying
    /\ exit_mtx = "free" \/ t = MainThread
    /\ notifying' = notifying \ {t}
    /\ main' = IF main = "asleep" THEN "awake" ELSE main
    /\ UNCHANGED <<environment, current, port, installed, exit_predicate, exit_mtx, asked,
                   output, exit>>

\* The mutex is recursive: it stops a handler on the io thread while the main
\* thread holds it, and never one on the main thread itself.
NotifyExitCondition(t) ==
    /\ exit = Running /\ t \in notifying
    /\ exit_mtx = "free" \/ t = MainThread
    /\ exit_predicate' = TRUE
    /\ main' = IF main = "asleep" THEN "awake" ELSE main
    /\ notifying' = notifying \ {t}
    /\ UNCHANGED <<environment, current, port, installed, exit_mtx, asked, output, exit>>

-----------------------------------------------------------------------------
(***************************************************************************)
(* The io threads.                                                         *)
(***************************************************************************)
Runs(s) == exit = Running /\ s \notin notifying

StartupSucceeds(d) ==
    /\ Runs(ServiceOf(d)) /\ io[ServiceOf(d)] = "idle"
    /\ port[d] = "startup"
    /\ port' = [port EXCEPT ![d] = "listening"]
    /\ UNCHANGED <<environment, main, current, waiting, output, exit>>

\* startup_sequence_failed throws, run is left and the thread calls terminate.
StartupFails(d) ==
    /\ Runs(ServiceOf(d)) /\ io[ServiceOf(d)] = "idle"
    /\ port[d] = "startup"
    /\ io' = [io EXCEPT ![ServiceOf(d)] = "terminate"]
    /\ UNCHANGED <<environment, main, current, port, waiting, sent, file, exit>>

\* abort raises SIGABRT on this thread, and ends the process when its handler is back.
Abort(s) ==
    /\ Runs(s) /\ io[s] = "terminate"
    /\ IF "SIGABRT" \in installed
         THEN /\ io' = [io EXCEPT ![s] = "aborted"]
              /\ notifying' = notifying \cup {s}
              /\ UNCHANGED exit
         ELSE exit' = KilledBy.SIGABRT /\ UNCHANGED <<io, notifying>>
    /\ UNCHANGED <<environment, main, current, port, installed, exit_predicate, exit_mtx, asked,
                   sent, file>>

EndAborted(s) ==
    /\ Runs(s) /\ io[s] = "aborted"
    /\ exit' = KilledBy.SIGABRT
    /\ UNCHANGED <<environment, main, current, port, waiting, output>>

\* A record arrives.  Without a protocol the input is given to a null pointer;
\* without an expectation it is dropped; otherwise its line is begun.
RecordArrives(d) ==
    /\ Runs(ServiceOf(d)) /\ io[ServiceOf(d)] = "idle"
    /\ sent[d] < MaxRecords
    /\ sent' = [sent EXCEPT ![d] = @ + 1]
    /\ \/ port[d] = "reading" /\ exit' = KilledBy.SIGSEGV /\ UNCHANGED <<io, file>>
       \/ port[d] \in {"protocol", "startup"} /\ UNCHANGED <<io, file, exit>>
       \/ /\ port[d] = "listening"
          /\ io' = [io EXCEPT ![ServiceOf(d)] = d]
          /\ file' = Append(file, <<"begin", d, sent'[d]>>)
          /\ UNCHANGED exit
    /\ UNCHANGED <<environment, main, current, port, waiting>>

\* chip_read and punch_read write the fields, end the line and flush.
WriteRecord(d) ==
    /\ Runs(ServiceOf(d)) /\ io[ServiceOf(d)] = d
    /\ io' = [io EXCEPT ![ServiceOf(d)] = "idle"]
    /\ file' = Append(file, <<"end", d, sent[d]>>)
    /\ UNCHANGED <<environment, main, current, port, waiting, sent, exit>>

-----------------------------------------------------------------------------
OpenDevices == OpenDevice \/ SetProtocol \/ SetOptionThrows \/ Listen
MainStep == \/ CheckArguments \/ OpenDevices \/ InstallHandlers \/ LockExit
            \/ TestPredicate \/ Sleep \/ Relock \/ Return
IoStep(s) == \/ Abort(s) \/ EndAborted(s)
             \/ \E d \in Device : s = ServiceOf(d) /\ WriteRecord(d)

Next == \/ MainStep \/ WakeUp
        \/ \E t \in Thread : Signal(t) \/ NotifyExitCondition(t)
        \/ \E s \in Service : IoStep(s)
        \/ \E d \in Device : StartupSucceeds(d) \/ StartupFails(d) \/ RecordArrives(d)

Spec == Init /\ [][Next]_vars

\* Threads run: the main thread gets on although signals keep interrupting it, a
\* handler whose mutex is free returns, and the io thread ends what it has begun.
FairSpec == /\ Spec
            /\ SF_vars(MainStep)
            /\ \A t \in Thread : SF_vars(NotifyExitCondition(t))
            /\ \A s \in Service : SF_vars(IoStep(s))

-----------------------------------------------------------------------------
Line == {"begin", "end"} \X Device \X (1..MaxRecords)

TypeOK ==
    /\ arguments \in [holds : SUBSET Checked, mode : {"readout", "punch"}]
    /\ opens \subseteq Device
    /\ main \in {"arguments", "opening", "testing", "about to sleep", "asleep", "awake",
                 "exitting"}
    /\ current \in 1..Len(Devices) + 1
    /\ port \in [Device -> {"closed", "reading", "protocol", "startup", "listening"}]
    /\ installed \in {{}, {"SIGINT"}, {"SIGINT", "SIGABRT"}}
    /\ notifying \subseteq Thread
    /\ exit_predicate \in BOOLEAN
    /\ exit_mtx \in {"free", "main"}
    /\ io \in [Service -> Device \cup {"idle", "terminate", "aborted"}]
    /\ sent \in [Device -> 0..MaxRecords]
    /\ file \in Seq(Line)
    /\ asked \in BOOLEAN
    /\ exit \in ExitStatus

\* A line of the output file is the work of one record: lines of two devices are
\* never woven into each other, each record has one line, and only the last line
\* can be without its end (SI.cpp:104-162).
Record(line) == <<line[2], line[3]>>
LinesWhole ==
    \A i \in 1..Len(file) :
        /\ file[i][1] = IF i % 2 = 1 THEN "begin" ELSE "end"
        /\ i % 2 = 0 => Record(file[i]) = Record(file[i - 1])
        /\ i % 2 = 1 => \A j \in 1..i - 1 : Record(file[j]) # Record(file[i])

\* The program returns 0, a normal end, only when a signal asked it to or the io
\* thread is aborting, however often the wait wakes up (SI.cpp:419-443).
ExitsOnlyWhenAsked ==
    exit = 0 => asked \/ \E s \in Service : io[s] = "aborted"

\* Who keeps sending the signal ends the program.  One signal may not be enough: a
\* handler that runs on the main thread between its look at the predicate and its
\* sleep notifies nobody (SI.cpp:171-176, 419-422).
ExitsWhenAsked ==
    []<><<\E t \in Thread : Signal(t)>>_vars => <>(exit # Running)

\* A failed startup ends the process, although the handler of SIGABRT needs the
\* mutex that the main thread holds at times (SI.cpp:177-180).
FailureEnds ==
    \A s \in Service : io[s] = "terminate" ~> exit # Running
=============================================================================
