----------------------------- MODULE SerialPort -----------------------------
(***************************************************************************)
(* channel_io_serial_port.h: the ports of a channel, its chain of reads    *)
(* and its queue of frames to write.  write_raw_data is called by any      *)
(* thread and handle_write by the io thread; both hold the channel's       *)
(* mutex, so each is one step, and the driver writes between them.         *)
(***************************************************************************)
EXTENDS Naturals, Sequences, SequencesExt

CONSTANTS
    Frame,        \* the encoded commands of a run, each written once
    Size,         \* [Frame -> Nat \ {0}] their lengths in bytes
    Device,       \* serial devices
    Names,        \* device_name split at DELIMITER: one device or two
    MaxShort      \* bound: buffers of which the driver takes only a part

ASSUME SizeAssumption == Size \in [Frame -> Nat \ {0}]
ASSUME ShortAssumption == MaxShort \in Nat
ASSUME NamesAssumption == Names \in Seq(Device) /\ Len(Names) \in 1..2

None == "none"
ASSUME NoneAssumption == None \notin Device

VARIABLES
    in_port, out_port,      \* the open devices
    read,                   \* the outstanding async_read_some
    output_storage,         \* the queue of frames
    outbytes_transfered,
    write,                  \* the outstanding async_write_some
    bytes_transfered,       \* what the driver took of it (handle_write is queued)
    wire,                   \* [Device -> sequence of <<frame, position>>]
    pushed,                 \* history: the frames given to write_raw_data, in order
    shortened               \* history: how often the driver took a part of a buffer

vars == <<in_port, out_port, read, output_storage, outbytes_transfered, write,
          bytes_transfered, wire, pushed, shortened>>

ports == <<in_port, out_port>>
output == <<output_storage, outbytes_transfered, write, bytes_transfered, pushed>>

Init == /\ in_port = None /\ out_port = None
        /\ read = "idle"
        /\ output_storage = <<>>
        /\ outbytes_transfered = 0
        /\ write = "idle" /\ bytes_transfered = 0
        /\ wire = [d \in Device |-> <<>>]
        /\ pushed = <<>>
        /\ shortened = 0

\* The length of the first n frames.
Bytes(frames, n) ==
    LET upto[k \in 0..Len(frames)] == IF k = 0 THEN 0 ELSE upto[k - 1] + Size[frames[k]]
    IN upto[n]

Buffer(f) == [i \in 1..Size[f] |-> <<f, i>>]

-----------------------------------------------------------------------------
\* open_ports, then the first read; a device that cannot be opened throws, and
\* open_device drops the channel.
Open == /\ in_port = None
        /\ in_port' = Names[1]
        /\ out_port' = Names[Len(Names)]
        /\ read' = "pending"
        /\ UNCHANGED <<output, wire, shortened>>

\* Mutant: the length of the queue is looked at before the push.
PushUnstarted(f) == /\ f \notin ToSet(pushed)
                    /\ pushed' = Append(pushed, f)
                    /\ output_storage' = Append(output_storage, f)
                    /\ write' = IF Len(output_storage) = 1 THEN "pending" ELSE write
                    /\ UNCHANGED <<outbytes_transfered, bytes_transfered>>

\* write_raw_data: only the frame that finds the queue empty starts a write, on in_port.
Push(f) == /\ f \notin ToSet(pushed)
           /\ pushed' = Append(pushed, f)
           /\ output_storage' = Append(output_storage, f)
           /\ write' = IF output_storage = <<>> THEN "pending" ELSE write
           /\ UNCHANGED <<outbytes_transfered, bytes_transfered>>

WriteRawData(f) == /\ in_port # None
                   /\ Push(f)
                   /\ UNCHANGED <<ports, read, wire, shortened>>

\* The driver takes n bytes of the buffer at the front, from its first byte.
DriverWrites ==
    /\ write = "pending"
    /\ LET f == Head(output_storage)
       IN \E n \in 1..Size[f] :
              /\ wire' = [wire EXCEPT ![in_port] = @ \o SubSeq(Buffer(f), 1, n)]
              /\ n = Size[f] \/ shortened < MaxShort
              /\ shortened' = shortened + (IF n < Size[f] THEN 1 ELSE 0)
              /\ bytes_transfered' = n
    /\ write' = "taken"
    /\ UNCHANGED <<ports, read, output_storage, outbytes_transfered, pushed>>

DriverFails == /\ write = "pending"
               /\ write' = "failed"
               /\ UNCHANGED <<ports, read, output_storage, outbytes_transfered, bytes_transfered,
                              wire, pushed, shortened>>

\* Mutant: > instead of >=.
PoppedLate(total) ==
    CHOOSE k \in 0..Len(output_storage) :
        /\ Bytes(output_storage, k) < total
        /\ k < Len(output_storage) => Bytes(output_storage, k + 1) >= total

\* The for loop of handle_write pops this many frames.
Popped(total) ==
    CHOOSE k \in 0..Len(output_storage) :
        /\ Bytes(output_storage, k) <= total
        /\ k < Len(output_storage) => Bytes(output_storage, k + 1) > total

\* Mutant: what the driver took beyond the popped frames is forgotten.
HandleWriteForgets ==
    /\ write = "taken"
    /\ LET total == outbytes_transfered + bytes_transfered
           k == Popped(total)
       IN /\ outbytes_transfered' = IF k > 0 THEN 0 ELSE total
          /\ output_storage' = SubSeq(output_storage, k + 1, Len(output_storage))
    /\ write' = IF output_storage' = <<>> THEN "idle" ELSE "pending"
    /\ bytes_transfered' = 0
    /\ UNCHANGED <<ports, read, wire, pushed, shortened>>

\* Mutant: the frame is popped before its length is subtracted.
HandleWriteSwapped ==
    /\ write = "taken"
    /\ LET total == outbytes_transfered + bytes_transfered
           k == Popped(total)
           after == Append(output_storage, output_storage[1])
       IN /\ outbytes_transfered' = total - Bytes(Tail(after), k)
          /\ output_storage' = SubSeq(output_storage, k + 1, Len(output_storage))
    /\ write' = IF output_storage' = <<>> THEN "idle" ELSE "pending"
    /\ bytes_transfered' = 0
    /\ UNCHANGED <<ports, read, wire, pushed, shortened>>

\* Mutant: the write of what is left is not started.
HandleWriteStops ==
    /\ write = "taken"
    /\ LET total == outbytes_transfered + bytes_transfered
           k == Popped(total)
       IN /\ outbytes_transfered' = total - Bytes(output_storage, k)
          /\ output_storage' = SubSeq(output_storage, k + 1, Len(output_storage))
    /\ write' = "idle"
    /\ bytes_transfered' = 0
    /\ UNCHANGED <<ports, read, wire, pushed, shortened>>

\* handle_write without an error; with one it logs and returns, which leaves
\* write = "failed" and the queue as it is.
HandleWrite ==
    /\ write = "taken"
    /\ LET total == outbytes_transfered + bytes_transfered
           k == Popped(total)
       IN /\ outbytes_transfered' = total - Bytes(output_storage, k)
          /\ output_storage' = SubSeq(output_storage, k + 1, Len(output_storage))
    /\ write' = IF output_storage' = <<>> THEN "idle" ELSE "pending"
    /\ bytes_transfered' = 0
    /\ UNCHANGED <<ports, read, wire, pushed, shortened>>

-----------------------------------------------------------------------------
\* Bytes arrive, or the read ends with an error (with or without bytes).
DeviceSends(ec) == /\ read = "pending"
                   /\ read' = ec
                   /\ UNCHANGED <<ports, output, wire, shortened>>

\* handle_read: process_input may write one command; an error ends the chain.
\* (An exception other than invalid_argument ends the io thread instead.)
ReadIsHandled == /\ read \in {"data", "error"}
                 /\ read' = IF read = "data" THEN "pending" ELSE "stopped"
                 /\ UNCHANGED <<ports, wire, shortened>>

HandleRead == ReadIsHandled /\ UNCHANGED output
HandleReadAndAnswer(f) == ReadIsHandled /\ Push(f)

Next == \/ Open
        \/ \E f \in Frame : WriteRawData(f)
        \/ DriverWrites \/ DriverFails
        \/ HandleWrite
        \/ \E ec \in {"data", "error"} : DeviceSends(ec)
        \/ HandleRead
        \/ \E f \in Frame : HandleReadAndAnswer(f)

Spec == Init /\ [][Next]_vars

\* The driver ends what it was asked to write, and the io thread runs handlers.
FairSpec == /\ Spec
            /\ WF_vars(DriverWrites \/ DriverFails)
            /\ WF_vars(HandleWrite)

-----------------------------------------------------------------------------
TypeOK == /\ in_port \in Device \cup {None} /\ out_port \in Device \cup {None}
          /\ read \in {"idle", "pending", "data", "error", "stopped"}
          /\ output_storage \in Seq(Frame) /\ pushed \in Seq(Frame)
          /\ outbytes_transfered \in Nat
          /\ write \in {"idle", "pending", "taken", "failed"} /\ bytes_transfered \in Nat
          /\ wire \in [Device -> Seq(Frame \X (Nat \ {0}))]
          /\ shortened \in 0..MaxShort

\* A write is outstanding exactly while there is something to write, whichever
\* thread pushed it and however the push raced the handler that empties the
\* queue; an error is the only thing that leaves frames with nobody to write them.
OneWrite == (write = "idle") <=> (output_storage = <<>>)

InBytes == IF in_port = None THEN <<>> ELSE wire[in_port]

\* The byte at this place of the line is the one of pushed[k] that is there when all
\* frames follow each other.
InPlace(place, k) ==
    LET at == place - Bytes(pushed, k - 1)
    IN at \in 1..Size[pushed[k]] /\ InBytes[place] = <<pushed[k], at>>

\* As long as the driver takes whole buffers, the line carries the frames in the
\* order write_raw_data got them: nothing lost, repeated or mixed, also across
\* an error.  After a partial write handle_write sends the buffer again from its
\* first byte, so no more is promised.
StreamUnlessShort ==
    shortened = 0 => \A place \in DOMAIN InBytes : \E k \in DOMAIN pushed : InPlace(place, k)

\* The places of the line where the last byte of a frame is.
Ends == {place \in DOMAIN InBytes : InBytes[place][2] = Size[InBytes[place][1]]}

\* After a partial write a frame is sent again from its first byte, and what was taken
\* of it is counted twice, so that a later frame may never be sent.  Still no frame is
\* on the line as a whole more than once, and none before one pushed earlier.
WholeOnceInOrder ==
    \A i, j \in Ends : i < j =>
        \E k, l \in DOMAIN pushed :
            k < l /\ pushed[k] = InBytes[i][1] /\ pushed[l] = InBytes[j][1]

\* What handle_write has counted is what the driver took, partial writes included:
\* the frames dropped from the queue are paid for, in bytes, by those on the line.
Accounting ==
    Bytes(pushed, Len(pushed) - Len(output_storage)) + outbytes_transfered + bytes_transfered
        = Len(InBytes)

\* The queue is emptied again unless a write fails: handle_write always restarts
\* what is left, and each write brings the front nearer to its pop.
QueueDrains == (output_storage # <<>>) ~> (output_storage = <<>> \/ write = "failed")
=============================================================================
