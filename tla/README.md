# Verification of the SPORTident reader program

TLA+ models of `si_communication`, the program that reads SPORTident cards and
stations over a serial port, with the configurations that check them in TLC
and proofs that TLAPS checks.

## The system

One io thread (`io_base.h`) runs all handlers of asio. The main thread (`SI.cpp`)
opens the ports, starts a sequence on each and waits for a signal.

| Part | State | Operations | Correct when |
|---|---|---|---|
| Channel input (`channel_input.h`, `response.h`) | list of pairs (response, timer), reference to itself, input buffer | register, unregister, process_command_input, timeout_expired, process_input | an expectation ends once, by answer or by timeout, and no race of the two or leftover timer changes that |
| Serial port channel (`channel_io_serial_port.h`, `channel_output.h`) | ports, queue of frames, count of bytes written, protocol in place | open, set_protocol, write_command, write_raw_data, handle_write, handle_read | one write at a time, whole frames in order, the queue drains |
| Frame encoders and parsers (`protocol_encoders.h`, `channel_protocol_implementations.h`) | none of their own; the parsers consume the input buffer | encode, detect_command, extract_command of two protocols | a frame fits the memory announced for it; every frame is delivered once however reads cut the stream, errors are survived |
| Checksum (`crc529.h`) | none | crc | it is the remainder by the polynomial |
| Startup (`startup_sequence.h`, `control_sequence_base.h`) | speed of the port, parser of the channel, its expectation | start, two answers, two refusals, four timeouts | ends, starts the readout once, at the speed of the station |
| Card readout (`chip_readout.h`, `blocks_read.h`) | blocks still needed and blocks read, per session | inserted, read, removed, nak, timeout | one record per card, of that card's blocks |
| Card layouts (`card_readouts.h`, `commands_definitions.h`) | none | get_card_id, get_card_serie, get_blocks_needed, read | every punch comes from its place in a block that was asked for; the record says what is on the card |
| Command parameters (`command_parameter.h`, `fixed_command.h`) | none | sizes and values of integers, bit fields, arrays and byte arrays | every field is read from its own bytes and bits |
| Program (`SI.cpp`) | ports, exit condition | main, callbacks | a punch is written once; the documented return values |

How they interact. `handle_read` gives the bytes of a read to `process_input`,
which has the parser in place decode them and calls `process_command_input` for
each command. This runs the reaction of the first expectation, newest first,
that takes the command. The reaction, a member function of a sequence, registers
the next expectation and writes the next command, all under the channel's
recursive mutex. A timer's handler takes the same mutex and calls the sequence's
timeout function. `start` of a sequence is called on the main thread, the one
place where a registration and a write come from outside the io thread.

What is hard here: a posted timer handler cannot be taken back; reactions run
inside the predicate of a search and may throw; the parser is replaced while a
frame is decoded; an answer may come after the time it was waited for; the
driver may write a part of a buffer; the blocks a card needs are computed in one
function and used in another. `PROJECT.json` lists each at its line.

## Modules

| Module | What it models |
|---|---|
| `Expectation` | what a registration is promised: it waits, and it is answered, expired or withdrawn, with one callback |
| `ChannelInput` | the expectations of a channel, one action per member function |
| `ChannelInputProofs` | theorems about `ChannelInput` |
| `SerialPort` | the ports, the chain of reads and the queue of writes |
| `Frames` | the bytes of a frame of either protocol, as the encoders write them |
| `CommandOutput` | `SerialPort` with the encoders, the protocol in place and a station that hears the bytes |
| `CommandOutputProofs` | theorems about `SerialPort` and `CommandOutput`, and the lemmas on numbers and byte counts they rest on |
| `StartupSequence` | the startup on a channel: each action that touches expectations is an action of `ChannelInput` (by `INSTANCE`) with the callback made concrete |
| `StartupProofs` | theorems about `StartupSequence` |
| `Readout` | what a readout promises: sessions one at a time, each with one record of its card or none |
| `ReadoutProofs` | theorems about `Readout` |
| `ChipReadout` | the readout of cards on a channel, also by the actions of `ChannelInput`; it implements `Readout` |
| `ChipReadoutProofs` | theorems about `ChipReadout`, the refinement among them |
| `CommandParameter` | integers, bit fields and arrays of them, taken from bytes |
| `CardFormats` | the definitions of the headers and punches of all cards, and of a transmitted punch |
| `CardImage` | the cards: what is on them and the bytes it makes (not code of the repository) |
| `CardLayout` | which blocks a card needs, where its punches are, which reader it gets |
| `CardReadout` | a card from its insertion to the line written for it |
| `CardReadoutProofs` | theorems about `CardReadout`, and about the reading of bit fields and arrays |
| `Crc529` | the checksum |
| `ExtendedProtocol` | `detect_command` of both protocols |
| `InputBuffer` | the input buffer: reads, the loop of `check_input`, what reaches `process_command_input` |
| `InputBufferProofs` | theorems about `InputBuffer`, the parsers and the checksum |
| `Program` | the program: arguments, devices, signals, the wait, the io thread, the output file |
| `ProgramProofs` | theorems about `Program` |
| `MC*` | constants for TLC, and one `.cfg` per run |

**ChannelInput.** A pair of the list `response_expectations` is the number of
the registration that made it. The list is filled at its front, so its order is
the decreasing order of the numbers in `listed`. `timer` is the life of the
pair's `deadline_timer`: *armed*, *queued* (its handler is posted, by the clock
or by `cancel`: `timeout_expired` ignores the error code), *done*. A member
function holds the mutex for its whole length, callback included, hence one
action each; what a callback may do to the channel is register one more
expectation (`Callback`), as all callbacks of the program do. The callbacks
that throw are actions or disjuncts of their own. `running` turns false when an
exception leaves the io thread. Permanent expectations are registered without a
timeout, as both callers do (`SI.cpp:273`, `chip_readout.h:334`); `unregister`
is called by nobody but the readout's destructor, and is modelled for any
response. `life_bound` is not reset when the last expectation is answered or
expires, only by `unregister`, so such a channel is never released; the model has
this as it is.

**SerialPort.** `write` follows the outstanding `async_write_some`; between its
start and `handle_write` the driver takes any number of bytes from 1 on, or
fails. `wire` is what it took. After a partial write the code starts again at
the first byte of the frame and counts the first part twice, and so does the
model: with a partial write the stream is only promised to hold no frame twice as a
whole and none before one pushed earlier (`WholeOnceInOrder`), and the counts to agree
in bytes (`Accounting`). `handle_read` may write one command (a reaction) or none.

**CommandOutput.** A frame is a command and the protocol that encodes it. `Size` is
what the encoder announces, `WriteData` what it writes; they are different functions in
the code, three times over. The basic encoder announces more than it writes, for it
counts every data byte twice, and the rest of `new uint8_t[size]` goes on the line
with whatever it holds: `filler`. The station at the other end is a byte automaton
(`Takes`, one operator per place in a frame): it passes over what is no frame, and
checks the checksum of an extended one. `Heard` is what it has made of the line so far.
The commands are given: bytes for their id and data, of at most 255, an id other than
STX, one below 128 (or 196) in the basic protocol, and a control sequence is a bare ACK
or NAK; all commands of `commands_definitions.h` are such. If the filler looks like ACK or NAK it hears
a control that nobody sent, so `StationUnderstands` leaves these values out.

**StartupSequence.** `main` is where the main thread is in `start`. Commands
pass `outgoing` (the queue of the port), the station, `answers` (the line) and
`received` (read by the driver, not handled). Both ends hear each other only at
the same speed, which for the outgoing direction is the speed at the time the
bytes leave. The station takes any subset of the two commands at either speed,
refuses the others, or stays silent. A refusal after success is not met by
anyone. The functions bound to `this` in `nck_set_ms_lo_speed` can be called on
a destroyed object; the model lets such a call end the program or work.

**ChipReadout.** `session` says to which `blocks_read` object the reactions of a
registration are bound. The station announces a card, answers a request from the
card that is in it when it sees the request, refuses with `nak`, or says nothing;
its answers are handled in order, at any later time. An announcement may get lost
(`lost` is the set of kinds that have been), as a damaged frame would be. What block 0
asks for is a constant, given by `CardLayout`. `hung` is the endless
loop of `check_input` on a `nak` under the basic protocol, which its parser does not
consume. `nak_retry` decrements a count of 1 before it tests it, so a `nak` ends a
session. `Readout` is what all this amounts to for the owner of a card. As long as no
removal has been lost, a record is of the card announced and whole. When one has been,
the session of the old card stays open up to its timer and may complete itself with a
block of the next card; under the basic protocol it also takes the announcement of a
next card_5 as a removal, and this card is not read. `Readout` allows for this by
`overlooked`; it still promises one record per session at most, complete.

**CardLayout, CardReadout.** A run reads one card. `CardImage` makes the bytes of a
card from its numbers, times and punches by the addresses of the card's memory;
the program's side is translated from the definitions (`CardFormats`), from
`get_blocks_needed` and from `read`, which do not share code with each other either.
A block that was not read is made of zeros, as `operator[]` of `blocks_read` has it.
`latest` is the newest punch of the record, `punches` the places taken so far,
`line` what `chip_read` writes. Times are ms with the integer division of the code;
a 256th of a second is kept or lost field by field. `card_5` has no times from the
31st punch on. The functions of `SI.cpp` that write a transmitted punch
(`PunchLine`) are compared with the same punch read out.

**ExtendedProtocol, InputBuffer.** Here bytes are kept as bytes, for the question
is what the parser makes of every cut of a stream; commands are short, and their
data holds the values of STX, ETX, ACK and NAK. The iterator and the remaining
size of the parser move together, so the model keeps the place and the end of the
input. A call of the parser returns, throws, or *reads behind*: after an STX that
is the last byte of the buffer the size wraps around, and the parser goes on in
foreign memory until something there looks like a frame with a bad checksum, which
throws, or the program ends. That it meets a frame with a good checksum there is
left out. `handle_read` catches the throw and reads on, and the buffer stays as it
was. `process_input` receives `raw_input` by reference and moves it; `check_input`
moves it once more, so `AfterCall` goes on at another place than the one
where the parser stopped. Each loop of the code is a step on the loop's state and a
recursive function over the rounds, so that it can be proved about. The variable `beyond`
is what the memory behind the buffer holds, one value for all its bytes and another for every
read, from the set `Beyond`: the array of `process_input` ends with the input, and the
heap behind it has the remains of earlier frames, marks among them. Which reads reach it: the basic
parser moves its iterator and not its size over a byte in front of an STX, so the end of the
input moves with it, and a second round of `check_input` starts too far on.
The basic parser reports ACK and NAK without consuming them, after which
`check_input` never returns (*loops*); the run sends none under that protocol. The
line may change one byte, of size, data or checksum of an extended frame; frames of
the basic protocol carry no checksum, and a changed command id that turns a frame
into one of them is left out.

**Program.** `main` is the place of the main thread and `port` how far its call for
a device has come: from `reading` on the io thread reads it, and a record that comes
before the protocol is set is given to a null pointer (`exit = 139`); a record that
comes before somebody listens is dropped. In the readout mode `startup` ends with
the readout listening or with the exception of `startup_sequence_failed`; its detail
is in `StartupSequence`. `exit` is the status of the process: what `main` returns, or
128 and the number of the signal. `notifying` are the threads inside the handler: a
signal suspends the thread it comes to, the main thread or the io thread, and the
recursive mutex stops the handler only on the other thread. `boost::condition` is
modelled by its contract, sleep and unlock in one step, with wake-ups without a
reason; `abort` by the one of the C library: the handler of SIGABRT on its own
thread, then the end. So a failed startup ends with 134, or with 0 when the main thread
is faster. The help text (`SI.cpp:315-324`) documents 7 for a device that cannot be
opened and 8 for exceptions; the program passes over such a device, and the
exception is thrown where nobody catches it. A line of the file is its beginning and
its end. `main` may return while the io thread is inside a line, for nobody joins the
thread: the last line then has no end, which no text of the repository rules out and
`LinesWhole` allows.

## Runs

| Run | Question |
|---|---|
| `channel_input` | one outcome per registration, no expectation without a timer, the channel alive while one waits, stale timers harmless, `Expectation` implemented; every expectation with a timeout is resolved |
| `serial_port` | commands of both protocols from two threads: one write at a time, exact count of bytes, frames whole and in order, no byte written behind a frame's memory, the station hears what was written; the queue drains unless a write fails |
| `card_layout` | all cards but `card_t`, every count up to capacity, and kinds of times and numbers: punches come from blocks that were read, no block is idle (but block 1 of card_8 and card_p, which is always asked for), the record and the line say what the card does, its number is one, transmitted punches agree |
| `card_layout_t` | *violated:* block 1 of a `card_t` is not asked for |
| `startup` | one stage at a time, success once, parser and expectation agree; the startup ends, a swallowed failure is met again |
| `chip_readout` | with announcements, requests and blocks that get lost: `Readout` is implemented, records are whole and of one card unless a removal was lost; every session ends |
| `startup_late_answer` | *violated:* a late answer at 38400 baud counts as success at 4800 |
| `program` | lines of two devices stay whole; 0 is returned only when asked; repeated signals end the program, and so does a failed startup |
| `input_buffer` | items of a station that waits for each to be read, one of them damaged, under the extended protocol with a stray byte in front of any: once, in order, complete, nothing invented, whatever is behind the buffer |
| `input_buffer_recovery` | *violated:* a frame that was not changed is delivered once, whatever happens to its neighbours |
| `input_buffer_pipelined` | *violated:* a data byte of a frame is delivered as `nak` |
| `input_buffer_stray` | *violated:* under the basic protocol a stray byte and the beginning of a frame are delivered as a command nobody sent, when an ETX is behind the buffer |

Bounds. `MaxRegistrations = 3` in `MCChannelInput`: a race needs an old
registration, its successor made by the callback, and one made meanwhile by
another caller; two one_shot responses share `nak` and one shares a command
with the permanent response. In `MCStartupSequence` it is 4, the length of the
longest chain (hi, lo, lo_basic, readout), so nothing is cut off.
`MCProgram` has two devices, one of which can be writing when the other's record
comes, and two records of each. `MCChipReadout` has two insertions, so that a session
meets what the one before has left, of two cards with two blocks and one with one, and
6 registrations: one for `start`, two for each session and one for a block that is asked
for again. No behaviour takes more than 9, and with 9, where nothing is cut off (489,658
states), all four properties hold as well; the run has 6 to stay short. `MCCommandOutput`
has four frames, of 1, 3, 6 and 9 bytes, one of them with a byte nobody writes, and two
partial writes: the second meets a count that the first has left. The filler is a value
that looks like a control and one that does not. `MCCardReadout` takes every card but
`card_t` with every number of punches it holds, and each type with 0 and 2 punches and
all combinations of the smallest and largest numbers, of times at both ends of the day
and its halves, with and without a 256th of a second, and of no time; `card_t` has up to
the 9 punches of its first block. Counters beyond the capacity of the card are left out.
`MCInputBuffer` sends up
to three items, changes one byte of one of them, and takes every cut into
reads: the second item meets what the first left in the buffer, and a third one
what remains of both; reads are up to 14 bytes, longer than any frame of the
run, where the program reads up to 256. Behind the buffer is an STX, an ETX, an ACK or no
mark. Under the basic protocol the run has no stray byte: with one, the invariants are false
(finding 5). `input_buffer_stray` has an ETX there, the last byte of every frame and so of
what an earlier buffer has left. Only in `input_buffer_pipelined` may an
item follow one that has not been read, so that two are in the buffer. The histories `reactions` and
`timeouts` stop at 2. Deadlock is not checked: each of these systems comes to
rest (all registrations used, all frames written, the card read, the startup
over, all items sent and read).

Fairness. `ChannelInput`, `StartupSequence` and `ChipReadout`: timers expire and the io thread
runs posted handlers, for asio runs what is posted as long as no exception leaves
`run`; the main thread returns from `start`. `SerialPort`, `CommandOutput`: the driver ends a
write it was given, with some bytes or an error, and `handle_write` runs. Nothing
is assumed of stations and of callers. `Program`: the main thread gets on although
signals keep interrupting it (strong fairness, for a handler suspends it again and
again), a handler whose mutex is free returns, the io thread ends the line or the
abort it has begun.

## Findings

1. The tenth and later punches of a `card_t` are read from a block that is never
   requested.
2. A late answer of the first startup stage is success of the second.
3. A frame with a bad checksum stays in the buffer: the input never recovers. With
   `Pipelined` the model also has a frame in front of it delivered again with each read,
   and once more when the parser throws at a buffer that ends with an STX; no run checks that.
4. A second round of `check_input` starts at a wrong place: a data byte counts as
   `nak`.
5. Under the basic protocol a byte in front of an STX makes the parser read one byte
   behind the buffer. If an ETX is there, a frame cut behind its command id is delivered as a
   command without data, and its rest is lost.

Seen while modelling and checked by no run: with two devices the output is written on the
first, where the help text says the second (`channel_io_serial_port.h:112`, `SI.cpp:301`).

## Proofs

`ChannelInputProofs` proves, for all sets of responses and commands and every
number of registrations: `TypeOK`, `OneOutcome`, `NoLostTimer`,
`ListedKeepsAlive`, `StaleTimerHarmless`, and that `ChannelInput` implements
`Expectation`. The assumptions are those of `ChannelInput`: there is a response,
the permanent ones are among them, `Accepts` is a function to sets of commands,
the bound is a natural number.

None of the invariants but the type is inductive. `OneOutcome` counts callbacks
and needs to know that a listed one_shot registration has had none; that in turn
needs that numbers not yet used have no history and are not listed; and
`NoLostTimer` needs that only used numbers have timers. The inductive invariant
`IInv` is the conjunction of `ListInv` (the list against the numbers used and the
timers), `LifeInv` (`life_bound`) and `HistoryInv` (the counts against the list).
There is one lemma per action. The action property and the step of the refinement
follow from `IInv` and `TypeOK` action by action: each action maps to the step of
`Expectation` that resolves its registration and makes at most one new one, or to
a stutter.

`ProgramProofs` proves `TypeOK`, `LinesWhole` and `ExitsOnlyWhenAsked` of `Program` for
every non-empty list of different devices and any number of records. The first two
are not inductive on their own. That a line is ended by the record that began it
needs that the io thread is inside a line exactly when the file has an odd length,
and that the last entry is its own; that no record has two lines needs that no number
in the file is above the count of its device (`FileInv`). It rests on `OneService`: all
devices have the one service of `main`. `AskedInv` says that a thread in the handler, a
true predicate and a main thread past its wait each have a reason.

`StartupProofs` proves of `StartupSequence`, for every bound on the registrations: all
six invariants of its run, that each of its steps is a step of `ChannelInput` on its
channel, and so that `OneOutcome` holds of it. The assumptions of `ChannelInput` are
shown to hold of the responses and commands of a startup. The invariants rest on each
other. `SucceedsOnce` needs that after a success only the readout is expected
(`OnlyReadout`), which needs `OneExpectation`: the reaction that succeeds is of the only
stage there is. `OneExpectation` needs that nothing is listed, sent or heard before
`start` has registered (`NothingYet`). `HiSpeedIsShared` needs `HiSpeedWaits`: while a
stage at the high speed waits, the port has this speed and what has come in has come at it,
which holds because only the first stage's timer changes the speed, and this takes
the stage away. `FailureIsFinal` needs `StageTimed`: a listed stage has its timer
pending. First come lemmas on what a callback does to the channel when it registers one
expectation or none, then one lemma per action.

`ReadoutProofs` proves that a session of `Readout` has one record at most, none that has
had one is under way, and records come in the order of the announcements.
`ChipReadoutProofs` proves `TypeOK` and `RecordIsWhole`, that the readout is a behaviour
of `ChannelInput`, and that it implements `Readout`; by the last two, `OneOutcome`,
`NoLostTimer` and the theorems of `Readout` hold of it. They hold for all cards, sets of
blocks and bounds. The assumptions are those of `ChipReadout`: a card is of one of the
three families, its further blocks are among 1 to 7 and a card_5 has none, the bounds are
natural numbers. `RecordIsWhole` is about a block, a request and an announcement that
are on their way at the same time, and so is its invariant `IInv`: a session has read and
still needs together just the blocks of its card (`SessionsOK`); a listed registration is
the one of `start` or that of one session, which has no other (`ListOK`); as long as no
removal is lost there is one session at a time (`OneSession`), and while it may be open
what comes next on the line is a block of its card or the removal (`InOrder`). The step of
the refinement goes action by action: a reaction that ends a session is `Record` or
`GiveUp`, an announcement that is heard is `Announce`, a lost removal `Overlook`, and all
else a stutter.

The first part of `CommandOutputProofs` proves all five invariants of the port, for every set of frames and
sizes, every number of partial writes and every order of pushes and handlers. None of
them is inductive. The queue has to be the end of what was pushed (`QueueOK`), no frame is
pushed twice (`Once`), nothing is written before the ports are open (`Closed`), and what
was taken is of the frame at the front (`TakenOK`). `StreamUnlessShort` needs that
nothing is carried over from one write to the next as long as none was partial
(`NothingOver`). `WholeOnceInOrder` needs `EndsGone`: a frame whose last byte is on the
line has been dropped, or the handler that is queued drops it. That it does is where
`Popped`, the loop of `handle_write`, matters, and that the loop stops is an
induction over the queue.

The second part proves that `CommandOutput` implements `SerialPort`, whose invariants
it so has, and `SizeHoldsFrame` and `StationUnderstands`. Assumed is of a command that its
id is not the byte of STX, is one of the basic protocol if the command is, that its data is at
most 255 bytes and that a control has none (`EncodedAssumption`), and that `Size` is what
the encoder announces. `SizeHoldsFrame` needs that a piece of at most two bytes for each
byte of the data makes at most twice the data.
`StationUnderstands` is what all parts of the output are for, and is proved in three steps.
A frame of any kind that begins when the station is silent leaves it silent, having heard
its command (`HearsControl`, `HearsExtended`, `HearsBasic`, by induction over the data):
so no byte of the data, the size or the checksum is taken for a mark, and the bytes
nobody wrote are passed over. With whole writes the line is whole frames (`WholeFrames`,
`PlaceOf`, from the invariants of the port). An induction over the frames joins the two.

`InputBufferProofs` is about the other end of the line. `ChangedByteNoticed`: two
sequences of at least two bytes that differ in one byte have different checksums,
whatever their length. The bytes go through the register; a shift takes registers that
differ to registers that differ, since the polynomial has bit 0 set (`ShiftDiffers`), and a
byte that differs changes the register (`ShiftInByteDiffers`). `TypeCorrect` holds for both
protocols and all bytes whatever: every loop of the parsers and of `check_input` stays
among its states (`DetectIs` and the like), and these say that no iterator goes back.
`DeliveredHolds` and `OnceInOrderHolds` state `DeliveredWhenRead` and `OnceInOrder` for any
number of items with any data, every value of a stray byte that is no STX, ACK or NAK,
whatever is behind the buffer at each read, and every cut into reads, under these conditions:

- `Orderly`: stations wait for each other, as in the run; without it the second is
  false (finding 4).
- `ExtendedOnly`: the extended protocol, with controls and no frames of the basic
  protocol among its frames. Those go through two parsers with DLE in front of data
  bytes, and stay with the run.
- `SizeSpared` (of `OnceInOrder` only): the changed byte is one of data or checksum.
  When the size byte changes, the checksum is taken of another number of bytes, and
  nothing says that no two frames exist for which it fits. The run changes sizes too.

Two invariants are needed on top of the type. `ArrivalInv`: as long as nothing was changed,
the buffer and the line hold nothing or exactly the bytes of the last item, all others
having been delivered. A read that leaves some of them on the line finds the beginning of
a frame and takes nothing (`DetectIncomplete`); the read of the last byte finds a frame
whose guards hold and takes all (`WholeIsSound`, `DetectWhole`), after which `check_input`
stops (`CheckInputOnce`). `DamageInv`: once an item has been changed, the buffer begins with it
for good, since the parser throws at it and has taken nothing by then (`DetectDamaged`,
from `ChangedByteNoticed`); so all that was delivered is what was sent before it.

`CardReadoutProofs` proves all six invariants of `CardReadout`, for every set of cards, of
every type, with any number of punches up to the capacity, any times and any numbers.
Assumed is of a card (`CardsAssumption`) that it has no more punches than its memory has
places, a number of two bytes (card_5) or three, and a start number of two bytes: what does
not fit the memory cannot be on a card. Three of the six, `PunchFromReadBlock`,
`RecordAsWritten` and `ModesAgree`, hold of a card_t only while it has 9 punches or fewer
(`NoneLost`); beyond that they are false (finding 1, run `card_layout_t`), and the invariant
says what is in the record then: a punch of zeros (`LostPunch`).

None of the six is inductive: they look at the newest punch only, or at the end of the
readout. The inductive invariant `IInv` says that what the program has is a function of
the card and of how far it is read: number, serie and blocks of the session (`BlocksKnown`),
the header (`HeaderKnown`), the place of every punch taken so far and the newest of them
(`PunchesKnown`), and the line (`LineKnown`). The loop needs the place of the punch
before, since `NextPlace` is a step and not a formula; `PlaceOf` is the formula, and
`NextPlaceIs` shows that the steps follow it through the rows of five of a card_5, the
sectors of card_6 and card_15 and the single jump of card_9.

Below this are the operators. `BitsAre` says where in a bit array each part stands;
`ByteTaken` and `ByteSkipped` that the sum of `ReadBits` grows by a whole byte, or not at
all, over the bits of one byte; from them come the values of every field of every punch
and of `card_id_serie`. `SizesRun` and `TakenSlice` do the same for arrays of bytes, so
that each header field is the slice of block 0 at a known address (`Card5Def` and the
like), and `Card5Holds`, `Card6Holds`, `Card8Holds` say that the image has this field there
and no punch over it. `PunchByte` says that the bytes at `PlaceOf` are those of that punch,
by the addresses of the memory. `StampOf` and `ShortStampOf` take the times through the
integer division by 256 and by 1000. `ExtendedBytes` and `BasicBytes` do for a
transmitted punch what these do for the card.

Induction. The library's theorems on induction take an operator, which the prover cannot
give them, but a set of numbers that is closed under successors can be shown to have no
smallest gap: `FromZero` in `CommandOutputProofs`, `InputBufferProofs` and
`CardReadoutProofs`, from the well-foundedness of `<`. What the proofs say of `Bytes`,
`FlattenSeq`, `Heard`, `Crc`, `Number`, `Ends`, `Bits`, `ReadBits` and the loops of the
parsers, which are recursive functions, rests on it.

Only model-checked. The liveness properties (`QueueDrains`, `SessionEnds` and those of the
channel, the startup and the program), for fairness is out of the prover's reach. Of
`InputBuffer`, frames of the basic protocol and a changed size byte.

## Not modelled

- `cancel` and `get_protocol` of the port and `stop` of the readout, which have no caller;
  destructors, which run at process exit.
- Of the command parameters: the acceptance of a command by its size (commands are told
  apart by their id here), and byte arrays of unknown size, which only the answer with
  a configuration value has, and nobody asks for it.
- A card_5 with a record counter of 0: `read` subtracts one and asks for the largest
  size there is; nothing in the repository says what should happen.
- The descriptions and log of a record, the log in general, the wording of options and
  help: pure output.
- The headers no translation unit reaches (`input_channel.h`, `response_dynamic.h`,
  `command_parameter2.h` and the others listed in `PROJECT.json`), build files.

## Plan

1. `InputBuffer`: the order of what is delivered for frames of the basic protocol, which
   a station in the extended protocol may send too.
2. The checksum against polynomial division.
3. The acceptance of a command by its size, and what an answer of another size does to
   the expectations.
