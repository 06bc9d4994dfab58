--------------------------- MODULE ProgramProofs ---------------------------
(***************************************************************************)
(* Proofs about Program for every list of devices and any number of        *)
(* records.                                                                *)
(***************************************************************************)
EXTENDS Program, TLAPS

IoThread == <<"main">>

\* One service and so one io thread, whatever the devices are.
LEMMA OneService == Service = {IoThread} /\ \A d \in Device : ServiceOf(d) = IoThread
<1>1. PICK d : d \in Device
  BY DevicesAssumption DEF Device, ToSet
<1> QED
  BY <1>1 DEF Service, ServiceOf, IoThread

LEMMA Statuses == /\ {0, 5, Running} \subseteq ExitStatus
                  /\ KilledBy.SIGINT \in ExitStatus
                  /\ KilledBy.SIGABRT \in ExitStatus
                  /\ KilledBy.SIGSEGV \in ExitStatus
                  /\ 0 \notin {KilledBy.SIGINT, KilledBy.SIGABRT, KilledBy.SIGSEGV, Running}
BY DEF ExitStatus, KilledBy, Running

LEMMA CheckedStatus ==
    \A i \in 1..Len(ChecksInOrder) : ChecksInOrder[i][2] \in ExitStatus \ {0}
BY DEF ChecksInOrder, ExitStatus, KilledBy

-----------------------------------------------------------------------------
Aborted == \E s \in Service : io[s] = "aborted"

\* Whoever can make main leave its wait has a reason.
AskedInv == /\ exit_predicate => asked \/ Aborted
            /\ notifying # {} => asked \/ Aborted
            /\ main = "exitting" => exit_predicate
            /\ exit = 0 => exit_predicate

\* The io thread is inside a line exactly when the last one has no end.
FileInv == /\ \A i \in 1..Len(file) : file[i][3] <= sent[file[i][2]]
           /\ io[IoThread] \in Device =>
                /\ Len(file) > 0 /\ Len(file) % 2 = 1
                /\ file[Len(file)] = <<"begin", io[IoThread], sent[io[IoThread]]>>
           /\ io[IoThread] \notin Device => Len(file) % 2 = 0
           /\ LinesWhole

IInv == TypeOK /\ AskedInv /\ FileInv

LEMMA InitIInv == Init => IInv
<1> SUFFICES ASSUME Init PROVE IInv
  OBVIOUS
<1>1. TypeOK
  <2>1. 1 \in 1..Len(Devices) + 1
    BY DevicesAssumption
  <2>2. exit \in ExitStatus
    BY Statuses DEF Init
  <2>3. sent \in [Device -> 0..MaxRecords] /\ file \in Seq(Line)
    BY MaxRecordsAssumption DEF Init
  <2> QED
    BY <2>1, <2>2, <2>3 DEF Init, TypeOK
<1>2. AskedInv
  BY DEF Init, AskedInv, Running
<1>3. FileInv
  BY OneService, DeviceAssumption DEF Init, FileInv, LinesWhole
<1> QED
  BY <1>1, <1>2, <1>3 DEF IInv

-----------------------------------------------------------------------------
(***************************************************************************)
(* Types.                                                                  *)
(***************************************************************************)
LEMMA TypeStep == ASSUME IInv, [Next]_vars PROVE TypeOK'
<1> USE DEF IInv, environment, waiting, output
<1>1. CASE CheckArguments
  <2>1. main' \in {main, "opening"} /\ exit' \in ExitStatus
    BY <1>1, CheckedStatus DEF TypeOK, CheckArguments
  <2> QED
    BY <1>1, <2>1 DEF TypeOK, CheckArguments
<1>2. CASE OpenDevice
  <2>1. current' \in 1..Len(Devices) + 1
    BY <1>2, DevicesAssumption DEF TypeOK, OpenDevice, Opening
  <2>2. port' \in [Device -> {"closed", "reading", "protocol", "startup", "listening"}]
    <3>1. port' = [port EXCEPT ![Here] = "reading"] \/ port' = port
      BY <1>2 DEF OpenDevice
    <3>2. port \in [Device -> {"closed", "reading", "protocol", "startup", "listening"}]
      BY DEF TypeOK
    <3> QED
      BY <3>1, <3>2
  <2> QED
    BY <1>2, <2>1, <2>2 DEF TypeOK, OpenDevice
<1>3. CASE SetProtocol
  BY <1>3 DEF TypeOK, SetProtocol
<1>4. CASE SetOptionThrows
  BY <1>4, Statuses DEF TypeOK, SetOptionThrows
<1>5. CASE Listen
  <2>1. current' \in 1..Len(Devices) + 1
    BY <1>5, DevicesAssumption DEF TypeOK, Listen, Opening
  <2>2. port' \in [Device -> {"closed", "reading", "protocol", "startup", "listening"}]
    BY <1>5 DEF TypeOK, Listen
  <2> QED
    BY <1>5, <2>1, <2>2 DEF TypeOK, Listen
<1>6. CASE InstallHandlers
  BY <1>6 DEF TypeOK, InstallHandlers
<1>7. CASE LockExit
  BY <1>7 DEF TypeOK, LockExit
<1>8. CASE TestPredicate
  BY <1>8 DEF TypeOK, TestPredicate
<1>9. CASE Sleep
  BY <1>9 DEF TypeOK, Sleep
<1>10. CASE WakeUp
  BY <1>10 DEF TypeOK, WakeUp
<1>11. CASE Relock
  BY <1>11 DEF TypeOK, Relock
<1>12. CASE Return
  BY <1>12, Statuses DEF TypeOK, Return
<1>13. CASE \E t \in Thread : Signal(t)
  <2>1. PICK t \in Thread : Signal(t)
    BY <1>13
  <2>2. exit' \in ExitStatus
    BY <2>1, Statuses DEF TypeOK, Signal
  <2>3. notifying' \subseteq Thread
    <3>1. notifying' = notifying \/ notifying' = notifying \cup {t}
      BY <2>1 DEF Signal
    <3>2. notifying \subseteq Thread
      BY DEF TypeOK
    <3> QED
      BY <3>1, <3>2
  <2>4. asked' \in BOOLEAN
    BY <2>1 DEF Signal
  <2>5. UNCHANGED <<environment, main, current, port, installed, exit_predicate, exit_mtx, output>>
    BY <2>1 DEF Signal
  <2> QED
    BY <2>2, <2>3, <2>4, <2>5 DEF TypeOK
<1>14. CASE \E t \in Thread : NotifyExitCondition(t)
  BY <1>14 DEF TypeOK, NotifyExitCondition
<1>15. CASE \E s \in Service : Abort(s)
  <2>1. exit' \in ExitStatus
    BY <1>15, Statuses DEF TypeOK, Abort
  <2>3. notifying' \subseteq Thread
    <3>1. \E s \in Thread : notifying' = notifying \/ notifying' = notifying \cup {s}
      BY <1>15 DEF Abort, Thread
    <3>2. notifying \subseteq Thread
      BY DEF TypeOK
    <3> QED
      BY <3>1, <3>2
  <2>2. io' \in [Service -> Device \cup {"idle", "terminate", "aborted"}]
    BY <1>15 DEF TypeOK, Abort
  <2> QED
    BY <1>15, <2>1, <2>2, <2>3 DEF TypeOK, Abort
<1>16. CASE \E s \in Service : EndAborted(s)
  <2>1. exit' \in ExitStatus
    BY <1>16, Statuses DEF EndAborted
  <2> QED
    BY <1>16, <2>1 DEF TypeOK, EndAborted
<1>17. CASE \E d \in Device : StartupSucceeds(d)
  BY <1>17 DEF TypeOK, StartupSucceeds
<1>18. CASE \E d \in Device : StartupFails(d)
  BY <1>18 DEF TypeOK, StartupFails
<1>19. ASSUME NEW d \in Device, RecordArrives(d) PROVE TypeOK'
  <2>1. sent'[d] \in 1..MaxRecords /\ sent' \in [Device -> 0..MaxRecords]
    <3>1. sent[d] \in 0..MaxRecords /\ sent[d] < MaxRecords /\ sent' = [sent EXCEPT ![d] = @ + 1]
      BY <1>19 DEF TypeOK, RecordArrives
    <3>2. sent \in [Device -> 0..MaxRecords]
      BY DEF TypeOK
    <3> QED
      BY <3>1, <3>2, MaxRecordsAssumption
  <2>2. <<"begin", d, sent'[d]>> \in Line
    BY <2>1 DEF Line
  <2>3. file' \in Seq(Line) /\ io' \in [Service -> Device \cup {"idle", "terminate", "aborted"}]
    <3>1. file \in Seq(Line) /\ io \in [Service -> Device \cup {"idle", "terminate", "aborted"}]
      BY DEF TypeOK
    <3>2. \/ UNCHANGED <<io, file>>
          \/ /\ io' = [io EXCEPT ![ServiceOf(d)] = d]
             /\ file' = Append(file, <<"begin", d, sent'[d]>>)
      BY <1>19 DEF RecordArrives
    <3>3. file' \in Seq(Line)
      BY <3>1, <3>2, <2>2
    <3>4. io' \in [Service -> Device \cup {"idle", "terminate", "aborted"}]
      BY <3>1, <3>2
    <3> QED
      BY <3>3, <3>4
  <2> QED
    BY <1>19, <2>1, <2>3, Statuses DEF TypeOK, RecordArrives
<1>20. ASSUME NEW d \in Device, WriteRecord(d) PROVE TypeOK'
  <2>1. <<"end", d, sent[d]>> \in Line
    <3>1. <<"begin", d, sent[d]>> \in Line
      <4>1. io[IoThread] = d
        BY <1>20, OneService DEF WriteRecord
      <4>2. file \in Seq(Line) /\ Len(file) > 0 /\ file[Len(file)] = <<"begin", d, sent[d]>>
        BY <4>1 DEF TypeOK, FileInv
      <4> QED
        BY <4>2
    <3> QED
      BY <3>1 DEF Line
  <2>2. file' \in Seq(Line) /\ io' \in [Service -> Device \cup {"idle", "terminate", "aborted"}]
    <3>1. file \in Seq(Line) /\ io \in [Service -> Device \cup {"idle", "terminate", "aborted"}]
      BY DEF TypeOK
    <3>2. /\ io' = [io EXCEPT ![ServiceOf(d)] = "idle"]
          /\ file' = Append(file, <<"end", d, sent[d]>>)
      BY <1>20 DEF WriteRecord
    <3>3. file' \in Seq(Line)
      BY <3>1, <3>2, <2>1
    <3>4. io' \in [Service -> Device \cup {"idle", "terminate", "aborted"}]
      BY <3>1, <3>2
    <3> QED
      BY <3>3, <3>4
  <2> QED
    BY <1>20, <2>2 DEF TypeOK, WriteRecord
<1>21. CASE UNCHANGED vars
  BY <1>21 DEF TypeOK, vars
<1> QED
  BY <1>1, <1>2, <1>3, <1>4, <1>5, <1>6, <1>7, <1>8, <1>9, <1>10, <1>11, <1>12, <1>13, <1>14,
     <1>15, <1>16, <1>17, <1>18, <1>19, <1>20, <1>21
  DEF Next, MainStep, OpenDevices, IoStep

-----------------------------------------------------------------------------
(***************************************************************************)
(* The reasons to exit.                                                    *)
(***************************************************************************)
LEMMA AbortedThread == Aborted <=> io[IoThread] = "aborted"
BY OneService DEF Aborted

LEMMA AbortedStays == ASSUME IInv, [Next]_vars, Aborted PROVE Aborted'
<1>1. io[IoThread] = "aborted"
  BY AbortedThread
<1>2. io[IoThread] \notin Device
  BY <1>1, DeviceAssumption
<1>3. io' = io
  BY <1>1, <1>2, OneService
  DEF Next, MainStep, OpenDevices, IoStep, CheckArguments, OpenDevice, SetProtocol,
      SetOptionThrows, Listen, InstallHandlers, LockExit, TestPredicate, Sleep, WakeUp, Relock,
      Return, Signal, NotifyExitCondition, Abort, EndAborted, StartupSucceeds, StartupFails,
      RecordArrives, WriteRecord, output, vars
<1> QED
  BY <1>3 DEF Aborted

LEMMA AskedStep == ASSUME IInv, [Next]_vars PROVE AskedInv'
<1> USE AbortedStays DEF IInv, AskedInv, environment, waiting, output
<1>1. CASE CheckArguments
  <2>1. main' \in {main, "opening"} /\ (exit' = exit \/ exit' # 0)
    BY <1>1, CheckedStatus DEF CheckArguments
  <2> QED
    BY <1>1, <2>1 DEF CheckArguments
<1>2. CASE OpenDevice
  BY <1>2 DEF OpenDevice
<1>3. CASE SetProtocol
  BY <1>3 DEF SetProtocol
<1>4. CASE SetOptionThrows
  BY <1>4 DEF SetOptionThrows
<1>5. CASE Listen
  BY <1>5 DEF Listen
<1>6. CASE InstallHandlers
  BY <1>6 DEF InstallHandlers
<1>7. CASE LockExit
  BY <1>7 DEF LockExit
<1>8. CASE TestPredicate
  BY <1>8 DEF TestPredicate
<1>9. CASE Sleep
  BY <1>9 DEF Sleep
<1>10. CASE WakeUp
  BY <1>10 DEF WakeUp
<1>11. CASE Relock
  BY <1>11 DEF Relock
<1>12. CASE Return
  BY <1>12 DEF Return
<1>13. ASSUME NEW t \in Thread, Signal(t) PROVE AskedInv'
  <2>1. asked' /\ UNCHANGED <<main, exit_predicate>>
    BY <1>13 DEF Signal
  <2>2. exit' # 0
    BY <1>13, Statuses DEF Signal
  <2> QED
    BY <2>1, <2>2
<1>14. ASSUME NEW t \in Thread, NotifyExitCondition(t) PROVE AskedInv'
  <2>1. asked \/ Aborted
    BY <1>14 DEF NotifyExitCondition
  <2>2. asked' = asked /\ (main' = "exitting" => main = "exitting") /\ exit' = exit /\ exit_predicate'
    BY <1>14 DEF NotifyExitCondition
  <2> QED
    BY <2>1, <2>2
<1>15. ASSUME NEW s \in Service, Abort(s) PROVE AskedInv'
  <2>1. UNCHANGED <<main, exit_predicate, asked>>
    BY <1>15 DEF Abort
  <2>2. exit' # 0
    BY <1>15, Statuses DEF Abort, Runs, Running
  <2>3. notifying' = notifying \/ Aborted'
    BY <1>15 DEF Abort, Aborted, TypeOK
  <2> QED
    BY <2>1, <2>2, <2>3
<1>16. ASSUME NEW s \in Service, EndAborted(s) PROVE AskedInv'
  BY <1>16, Statuses DEF EndAborted
<1>17. ASSUME NEW d \in Device, StartupSucceeds(d) \/ StartupFails(d) \/ WriteRecord(d)
       PROVE AskedInv'
  BY <1>17 DEF StartupSucceeds, StartupFails, WriteRecord
<1>18. ASSUME NEW d \in Device, RecordArrives(d) PROVE AskedInv'
  <2>1. UNCHANGED <<main, exit_predicate, asked, notifying>>
    BY <1>18 DEF RecordArrives
  <2>2. exit' # 0
    BY <1>18, Statuses DEF RecordArrives, Runs, Running
  <2> QED
    BY <2>1, <2>2
<1>19. CASE UNCHANGED vars
  BY <1>19 DEF vars
<1> QED
  BY <1>1, <1>2, <1>3, <1>4, <1>5, <1>6, <1>7, <1>8, <1>9, <1>10, <1>11, <1>12, <1>13, <1>14,
     <1>15, <1>16, <1>17, <1>18, <1>19
  DEF Next, MainStep, OpenDevices, IoStep

-----------------------------------------------------------------------------
(***************************************************************************)
(* The lines of the file.                                                  *)
(***************************************************************************)
LEMMA Parity == ASSUME NEW n \in Nat
                PROVE  /\ n % 2 = 0 => (n + 1) % 2 = 1
                       /\ n % 2 = 1 => (n + 1) % 2 = 0
                       /\ n % 2 \in {0, 1}
OBVIOUS

\* Where neither the file nor what the io thread writes changes, nothing is to show.
LEMMA FileKept == ASSUME FileInv, sent' = sent, file' = file,
                         \/ io'[IoThread] = io[IoThread]
                         \/ io[IoThread] \notin Device /\ io'[IoThread] \notin Device
                  PROVE  FileInv'
BY DEF FileInv, LinesWhole, Record

LEMMA FileLength == ASSUME TypeOK PROVE file \in Seq(Line) /\ Len(file) \in Nat
<1>1. file \in Seq(Line)
  BY DEF TypeOK
<1> QED
  BY <1>1

LEMMA FileStep == ASSUME IInv, [Next]_vars PROVE FileInv'
<1> USE DEF IInv, output
<1>1. CASE MainStep \/ WakeUp \/ UNCHANGED vars
  <2>1. UNCHANGED output
    BY <1>1 DEF MainStep, OpenDevices, CheckArguments, OpenDevice, SetProtocol, SetOptionThrows,
                Listen, InstallHandlers, LockExit, TestPredicate, Sleep, WakeUp, Relock, Return,
                vars
  <2> QED
    BY <2>1, FileKept
<1>2. CASE \E t \in Thread : Signal(t) \/ NotifyExitCondition(t)
  BY <1>2, FileKept DEF Signal, NotifyExitCondition
<1>3. ASSUME NEW s \in Service, Abort(s) \/ EndAborted(s) PROVE FileInv'
  <2>1. io[IoThread] \in {"terminate", "aborted"} /\ io'[IoThread] \in {"terminate", "aborted"}
    BY <1>3, OneService DEF Abort, EndAborted, TypeOK
  <2>2. UNCHANGED <<sent, file>>
    BY <1>3 DEF Abort, EndAborted
  <2> QED
    BY <2>1, <2>2, DeviceAssumption, FileKept
<1>4. ASSUME NEW d \in Device, StartupSucceeds(d) \/ StartupFails(d) PROVE FileInv'
  <2>1. io[IoThread] = "idle" /\ io'[IoThread] \in {"idle", "terminate"}
    BY <1>4, OneService DEF StartupSucceeds, StartupFails, TypeOK
  <2>2. UNCHANGED <<sent, file>>
    BY <1>4 DEF StartupSucceeds, StartupFails
  <2> QED
    BY <2>1, <2>2, DeviceAssumption, FileKept
<1>5. ASSUME NEW d \in Device, RecordArrives(d) PROVE FileInv'
  <2>1. io[IoThread] = "idle" /\ io[IoThread] \notin Device
    BY <1>5, OneService, DeviceAssumption DEF RecordArrives
  <2>2. Len(file) \in Nat /\ Len(file) % 2 = 0
    BY <2>1, FileLength DEF FileInv
  <2>3. /\ sent \in [Device -> 0..MaxRecords] /\ sent' = [sent EXCEPT ![d] = @ + 1]
        /\ sent'[d] = sent[d] + 1 /\ sent[d] \in Nat
    <3>1. sent \in [Device -> 0..MaxRecords] /\ sent' = [sent EXCEPT ![d] = @ + 1]
      BY <1>5 DEF RecordArrives, TypeOK
    <3> QED
      BY <3>1, MaxRecordsAssumption
  <2>4. \A i \in 1..Len(file) : /\ file[i] \in Line /\ file[i][2] \in Device /\ file[i][3] \in Nat
                                /\ file[i][3] <= sent[file[i][2]]
    <3>1. \A i \in 1..Len(file) : file[i] \in Line
      BY FileLength
    <3>2. \A line \in Line : line[2] \in Device /\ line[3] \in Nat
      BY MaxRecordsAssumption DEF Line
    <3> QED
      BY <3>1, <3>2 DEF FileInv
  <2>5. \A i \in 1..Len(file) : file[i][3] <= sent'[file[i][2]]
    BY <2>3, <2>4
  <2>6. CASE UNCHANGED <<io, file>>
    BY <2>1, <2>5, <2>6 DEF FileInv, LinesWhole, Record
  <2>7. CASE io' = [io EXCEPT ![IoThread] = d] /\ file' = Append(file, <<"begin", d, sent'[d]>>)
    <3>1. file \in Seq(Line)
      BY DEF TypeOK
    <3>2. /\ Len(file') = Len(file) + 1
          /\ file'[Len(file) + 1] = <<"begin", d, sent'[d]>>
          /\ \A i \in 1..Len(file) : file'[i] = file[i]
      BY <2>7, <3>1
    <3>3. io'[IoThread] = d
      BY <2>7, OneService DEF TypeOK
    <3>4. (Len(file) + 1) % 2 = 1
      BY <2>2, Parity
    <3>5. \A j \in 1..Len(file) : Record(file'[j]) # Record(file'[Len(file) + 1])
      BY <2>3, <2>4, <3>2 DEF Record
    <3>6. LinesWhole'
      <4> DEFINE Whole(i) ==
            /\ file'[i][1] = IF i % 2 = 1 THEN "begin" ELSE "end"
            /\ i % 2 = 0 => Record(file'[i]) = Record(file'[i - 1])
            /\ i % 2 = 1 => \A j \in 1..i - 1 : Record(file'[j]) # Record(file'[i])
      <4>1. ASSUME NEW i \in 1..Len(file) PROVE Whole(i)
        BY <2>2, <3>2, <4>1 DEF FileInv, LinesWhole
      <4>2. Whole(Len(file) + 1)
        BY <2>2, <3>2, <3>4, <3>5
      <4>3. ASSUME NEW i \in 1..Len(file') PROVE Whole(i)
        <5>1. i \in 1..Len(file) \/ i = Len(file) + 1
          BY <2>2, <3>2
        <5> HIDE DEF Whole
        <5> QED
          BY <5>1, <4>1, <4>2
      <4> QED
        BY <4>3 DEF LinesWhole, Record
    <3>7. \A i \in 1..Len(file') : file'[i][3] <= sent'[file'[i][2]]
      <4>1. \A i \in 1..Len(file') : i \in 1..Len(file) \/ i = Len(file) + 1
        BY <2>2, <3>2
      <4>2. file'[Len(file) + 1][3] <= sent'[file'[Len(file) + 1][2]]
        BY <2>3, <3>2
      <4> QED
        BY <2>5, <3>2, <4>1, <4>2
    <3> QED
      BY <2>2, <3>2, <3>3, <3>4, <3>6, <3>7 DEF FileInv
  <2> QED
    BY <1>5, <2>6, <2>7, OneService DEF RecordArrives
<1>6. ASSUME NEW d \in Device, WriteRecord(d) PROVE FileInv'
  <2>1. /\ io[IoThread] = d /\ io' = [io EXCEPT ![IoThread] = "idle"]
        /\ file' = Append(file, <<"end", d, sent[d]>>) /\ sent' = sent
    BY <1>6, OneService DEF WriteRecord
  <2>2. /\ Len(file) \in Nat /\ Len(file) > 0 /\ Len(file) % 2 = 1
        /\ file[Len(file)] = <<"begin", d, sent[d]>>
    BY <2>1, FileLength DEF FileInv
  <2>3. file \in Seq(Line) /\ io'[IoThread] = "idle" /\ io'[IoThread] \notin Device
    BY <2>1, OneService, DeviceAssumption DEF TypeOK
  <2>4. /\ Len(file') = Len(file) + 1
        /\ file'[Len(file) + 1] = <<"end", d, sent[d]>>
        /\ \A i \in 1..Len(file) : file'[i] = file[i]
    BY <2>1, <2>3
  <2>5. (Len(file) + 1) % 2 = 0
    BY <2>2, Parity
  <2>6. LinesWhole'
    <3> DEFINE Whole(i) ==
          /\ file'[i][1] = IF i % 2 = 1 THEN "begin" ELSE "end"
          /\ i % 2 = 0 => Record(file'[i]) = Record(file'[i - 1])
          /\ i % 2 = 1 => \A j \in 1..i - 1 : Record(file'[j]) # Record(file'[i])
    <3>1. ASSUME NEW i \in 1..Len(file) PROVE Whole(i)
      BY <2>2, <2>4, <3>1 DEF FileInv, LinesWhole
    <3>2. Whole(Len(file) + 1)
      BY <2>2, <2>4, <2>5 DEF Record
    <3>3. ASSUME NEW i \in 1..Len(file') PROVE Whole(i)
      <4>1. i \in 1..Len(file) \/ i = Len(file) + 1
        BY <2>2, <2>4
      <4> HIDE DEF Whole
      <4> QED
        BY <4>1, <3>1, <3>2
    <3> QED
      BY <3>3 DEF LinesWhole, Record
  <2>7. \A i \in 1..Len(file') : file'[i][3] <= sent'[file'[i][2]]
    <3>1. \A i \in 1..Len(file') : i \in 1..Len(file) \/ i = Len(file) + 1
      BY <2>2, <2>4
    <3>2. file'[Len(file) + 1][3] <= sent'[file'[Len(file) + 1][2]]
      <4>1. sent[d] \in 0..MaxRecords
        BY DEF TypeOK
      <4> QED
        BY <2>1, <2>4, <4>1, MaxRecordsAssumption
    <3>3. \A i \in 1..Len(file) : file[i][3] <= sent[file[i][2]]
      BY DEF FileInv
    <3> QED
      BY <2>1, <2>4, <3>1, <3>2, <3>3
  <2> QED
    BY <2>2, <2>3, <2>4, <2>5, <2>6, <2>7 DEF FileInv
<1> QED
  BY <1>1, <1>2, <1>3, <1>4, <1>5, <1>6 DEF Next, IoStep

-----------------------------------------------------------------------------
\* The inductive invariant holds of every behaviour of main and its io thread.
THEOREM Inductive == Spec => []IInv
<1>1. Init => IInv
  BY InitIInv
<1>2. IInv /\ [Next]_vars => IInv'
  BY TypeStep, AskedStep, FileStep DEF IInv
<1> QED
  BY <1>1, <1>2, PTL DEF Spec

\* Every variable of the program keeps its type; main returns only documented values
\* (SI.cpp:290-444).
THEOREM TypeCorrect == Spec => []TypeOK
BY Inductive, PTL DEF IInv

\* Whatever the number of devices and of records, the lines of the output file are
\* never woven into each other (SI.cpp:104-162).
THEOREM LinesAreWhole == Spec => []LinesWhole
BY Inductive, PTL DEF IInv, FileInv

\* main returns 0 only when a signal or the abort of the io thread has asked it to
\* (SI.cpp:419-443).
THEOREM ExitIsAsked == Spec => []ExitsOnlyWhenAsked
<1>1. IInv => ExitsOnlyWhenAsked
  BY DEF IInv, AskedInv, ExitsOnlyWhenAsked, Aborted
<1> QED
  BY <1>1, Inductive, PTL
=============================================================================
