# Macchina-J2534 in TLA+

TLA+ models, TLC runs and TLAPS proofs for the J2534 driver (`src/driver`, Rust) and
the firmware (`src/firmware`, C++) of Macchina-J2534. Paths below are relative to `src/`.

## 1. The system

A diagnostic application loads the driver as a library and calls its `PassThru*`
functions, from any of its threads. The driver talks over a serial port to the
firmware of an M2 or an A0, which drives a CAN controller and a K-line.

    application threads
        |  PassThruOpen, Connect, StartMsgFilter, WriteMsgs, Ioctl, ...   lib.rs
        v
    passthru_drv.rs, ioctl.rs        what a call does
    channels.rs                      one table entry and one RwLock per channel
        |  run_on_m2: RwLock of M2
        v
    comm.rs    get_id, tx queue -> writer thread -> |        |
               receivers 1..99  <- reader thread <- | serial |   hello / goodbye
               channel queues <- sender thread <-   |  port  |
                                                    v        |
    firmware.ino  loop(): read_message, handler, channel_loop
    comm_m2.cpp, comm_a0.cpp   last_id, respond_ok, respond_err, send_rx_data
    channel.cpp   one CAN channel, one K-line channel
    comm_channel_can / _iso15765 / _iso9141.cpp, custom_can.cpp

| component | state | operations | hard part | what makes it correct |
|---|---|---|---|---|
| serial link, driver side (`comm.rs`) | `M2`, `MSG_ID`, `is_running`, send queue, one receiver per id | `open_connection`, `get_id`, `write_and_read`, `write_comm_struct`, three threads | late answers, ids that wrap, leftovers of a session, hello ordered by a sleep | an answer goes to the call it was made for; nothing crosses sessions; calls and threads end |
| message loop (`firmware.ino`, `comm_m2/a0.cpp`) | `last_id`, partly read message | `loop`, `read_message`, `respond_*`, `reset` | restarts, answers without text on the A0, status messages in between | every command that has an id is answered, once, with its id |
| channel table (`channels.rs`, `passthru_drv.rs`, `ioctl.rs`) | `CAN_CHANNEL`, `KLINE_CHANNEL`, .., `filters`, `rx_data` | connect, disconnect, filters, write, read, ioctl, open, close | timeouts that leave the device ahead, two threads on one channel | the table and the device agree |
| locks (same files) | RwLock of `M2` and of each channel | every exported call | lock order, check-then-act, poisoning | no panic, no deadlock, no channel of another session |
| dispatcher (`channel.cpp`) | `canChannel`, `klineChannel` | one handler per message type | a second answer, silent paths, wrong status | idle after goodbye; table agrees with the driver |
| CAN, ISO 15765, ISO 9141 channels | `used_mailboxes`, `isSending`, `isReceiving`, payloads | `setup`, `addFilter`, `sendMsg`, `update`, `wakeup`, .. | long messages begun in one turn and ended in another | messages arrive whole, confirmed once |
| CAN controller and wrapper (`custom_can.cpp`, what it calls of `due_can.cpp`) | one receive ring per mailbox, a send ring, the mailboxes' filters and callbacks | interrupt pushes and sends, loop pops, filters allocate and delete, `sendFrame`, `init`, `disable` | interrupts between two steps; frames left over from the channel before | no frame reordered, lost in the send ring, or seen by another filter |
| received data in the driver | `rx_data`, channel sender thread | push, read, clear | the thread outlives its session; a connect holds the lock it waits for | nothing is lost or reordered; what is left of an earlier channel is bounded |
| framing (`comm.rs`, `comm_m2.cpp`, `comm_a0.cpp`) | `isReadingMsg`, `read_target`, read buffers | pieces of messages | a session that ends in the middle of one | both sides agree where a message begins |

`lib.rs` converts pointers, `logger.rs` writes a file, `pt_device*`, `comm_channels.cpp`
do I/O of pins or print frames, the rest is build configuration: no module for these.
`due_can.*` and `can_common.*` are vendored; `RxRing` and `CanBus` have what
`custom_can.cpp` calls of them. `PROJECT.json` lists them all, and under "hazards" what
in this code is hard to test, each at its line.

## 2. Modules

- `CommLink`: the serial link, both ends. The handlers of the firmware are abstract:
  they may send anything up to `MaxReplies` messages. It is the abstract specification
  of what the layers above build on.
- `PassThruStack` (extends `CommLink`): the driver's channel table and the firmware's
  handlers. Every action is an action of `CommLink` conjoined with what happens to a
  table in the same step; `LinkSpec` is a property of it, so that it implements the link.
- `ApiLocks`: the locks. An exchange with the device is one step here, the link's
  timing is `CommLink`'s business; in turn `PassThruStack` lets an operation hold its
  channel's lock from its first step to its last, which is what the code does.
- `RxRing`: one CAN mailbox, its receive ring and the channel that uses it, with the
  interrupt between any two writes of the loop. `FilterQueue` is what the channel may
  rely on, a bounded queue per filter; `RxRing` implements it.
- `CanBus`: all mailboxes of the M2's controller under a CAN channel: one that sends,
  through a ring that the interrupt moves on, and those that receive, each with filter,
  callback and ring. A call of the loop is one step here; that its writes may be taken
  for one step is what `RxRing` shows.
- `IsoTp`: an ISO 15765 channel and the ECUs it talks to, frame by frame. What it needs of
  the mailboxes is a queue per filter, which is `RxRing`'s promise.
- `SerialFraming`: the bytes of messages on the serial line. `CommLink` moves whole
  messages; this is when it may.
- `RxPath` (extends `CommLink`): received data from the device to the reads of the
  application, for one channel that is connected and disconnected over several sessions.
- `MCCommLink`, `MCPassThruStack`, `MCApiLocks`, `MCRxPath`: definitions for TLC's
  instances.
- `CommLinkProofs`, `PassThruStackProofs`, `ApiLocksProofs`, `RxRingProofs`,
  `CanBusProofs`, `IsoTpProofs`, `SerialFramingProofs`, `RxPathProofs`: theorems.

### How CommLink corresponds to the code

`session`, `running`, `reader`, `writer` are `M2`, `is_running` and the two threads of
`open_conn`; `txQueue` is `tx_send_queue`, `inbox[i]` the receiver of id i, `down` and
`up` are the bytes on the wire, in whole messages, with the operating system's buffers
and the device's. `call[t]` is where thread t is inside `write_and_read`. `serial` and
`epoch` are history variables: which `get_id` call, which session. A command without an
id (0) is `write_comm_struct`'s; the firmware then keeps the old `last_id` (`IdAfter`).
Ids run over `1 .. IdLimit - 1`: the code has `IdLimit = 100`, the runs 3 to 9.

`OpenStart` clears the port: any beginning of `down` may already be with the device, any
end of `up` may still be on the wire. `Restart` loses any beginning of what was sent.
Two environment facts are assumed: a port that a thread still holds cannot be opened
(both platforms open it exclusively), and the 50 ms sleep of `open_conn` is enough for
the first write (`HelloInTime`); `HelloFirst` fails without the second (its mutant).

### How PassThruStack corresponds to the code

`chan`, `filt` are the driver's tables, `dev[c]` the firmware's channel with its
protocol, used mailboxes and `isSending`, `op[t]` the operation thread t is inside.
`Handle` gives, for a command, every outcome of its handler: what becomes of the channel
and what is sent, in order. This includes what a reader may not expect: a close is
answered twice, a long ISO 15765 message never, `wakeup` of the K-line once or twice,
`sendMsg` of the K-line asked or not, `init_lin_channel` goes on after its error.
An answer without text (`respond_err(.., nullptr)`) is `strlen(nullptr)`: undefined; the
models let the M2 send an empty text and the A0 restart (`NullTextRestarts`).
"j1850" also stands for SCI: the driver opens both, the firmware knows neither.
What a call checks before it touches either table (its arguments, the protocol of a
message) leaves no trace and is left out, as are the loops of `write_msgs` and `read_msgs`:
sequences of the operations here and in `RxPath`.

### How ApiLocks corresponds to the code

`m2` and `lk[c]` are RwLocks with their readers, writer and poison flag; `pc[t]` names
the call a thread is in and the step it is about to take. `chan[c]` holds the session a
channel was opened in, 0 if there is none. `Exchange` ends in "ok", or in "leave" (an
error or a timeout), or goes on to the next filter. A thread that panicked is gone;
the lock it held to write is poisoned, and calls that unwrap it panic in turn.
`app` is the set of calls the application makes at all, fixed at the beginning to one of
`Apps`: what the code promises depends on it. An application that disconnects may make
another thread panic, in `read_channel_data`, which looks for the channel under one lock
and unwraps it under another (`channels.rs:237`); one that closes may wait for ever.

### How RxRing corresponds to the code

`head`, `tail`, `buf` are an `rxQueue`, `hook` the callback in `cbCANFrame`, `accept` the
filter the mailbox is programmed for, `chan` and `used` the channel and its
`used_mailboxes[i]`. A call of the loop is the sequence of the writes it makes, `todo`;
the operators `EnableCanFilter`, `DeleteRing`, .. are these sequences, named as the
functions, and `Interrupt` may come between any two writes. It pushes in one step: on
the M2 the interrupt runs to its end before the loop goes on. The library of the A0 is
not in the repository; the code says its callbacks are called in an interrupt, and the
model takes it at its word. `board` is the M2, the A0, or a mailbox of the A0 past the
seventh, which `disableCanBus` forgets (`custom_can.cpp:82`): its callback outlives the
channel and fills a ring that nobody reads, until the next channel resets it. A frame is
its number and the filter it was accepted for (0 while the mailbox lets everything
through, which is also what "block all traffic" does, `custom_can.cpp:71`).
The abstraction: a filter is set (`Filtered`) from its callback on until the loop begins
to take it away, and its queue is `Contents`, the ring from tail to head.

### How CanBus corresponds to the code

`mask`, `id`, `full`, `sending`, `imr`, `enabled` are the controller's registers,
`txRing` the send ring, `hook` the callbacks of `cbCANFrame`, `rxRing` the rings of
`custom_can.cpp`, `filter` the channel's arrays. The interrupt handler looks at every
mailbox that is ready, in one step, and is taken before the next call of the loop
(`Loop`): only inside `sendFrame`, under `irqLock`, may it be pending, and `SendFrame`
may happen either way. What the controller does by itself (a frame goes to the first free
mailbox that accepts it; a mailbox that sends becomes ready again) is from its data
sheet. Ids have two bits, so that a mask can say all, half or nothing. `OpenTimesOut`
and `OpenFails` are the two ways `init` fails. `kept` is a history variable: the controller
was started while frames were left in the send ring, which `init` does not empty
(`due_can.cpp:224`); no interrupt is enabled for them, so they go out only after the next
frame that is sent through a ready mailbox, which they prevent (`due_can.cpp:899`).

### How IsoTp corresponds to the code

`rx`, `tx`, `isReceiving`, `isSending`, `clear`, `due`, `rxCount`, `sn`, `txBlock`,
`txFrames` are the members of `ISO15765Channel`; there is one of each, whichever ECU the
frames are of. A turn of the loop takes one frame of every mailbox in order (`at`, `Past`)
and then sends one of its own. A frame is its type, its message, what it says (`n`: a
length or a block size) and its number; its data is itself, so that a payload is the
sequence of frames it was copied from (`parts`). Sizes and positions count the four bytes
of the id, as the code does. ECUs are not in the repository: `ecu[i]` is one that keeps to
ISO 15765-2 in both directions, and may give up waiting once the device had time to answer
(`Settled`). `received` is what ECUs have put together, `accepted` and `confirmed` what
the driver was told.

The code relies on more than ECUs that keep to the protocol, and `faults` says on what: it
collects what has happened that a property has to exclude, each at the step where it does.
"carry": a first frame whose length is computed too small, where a carry is lost in `|`
(`comm_channel_iso15765.cpp:254`). "lost": data or flow control found its ring full, or
no filter. "removed": a filter was removed in the middle of a message. "block": flow
control announced a block that is no multiple of the eight frames after which the device
sends the next (222). "astray": flow control went to an ECU that waits to begin its next
message, not to go on with this one (229). "flooded": an ECU got more frames than it
asked for. "stray": flow control came that nobody waits for.

### How SerialFraming corresponds to the code

A byte is `[msg, k, of]`: the k-th of the bytes of its message, its length included.
`rOut` and `wOut` are what the reader and the writer thread still have to write of a
message, on two clones of one port with no lock between them; `down` and `up` are what is
written and not read. `dev` and `host` are `isReadingMsg`, `read_target` and what was
read, on the M2's driver a buffer of fixed-size records. A read takes all that is there, up
to what it asks for; how much is there is the writer's step. `cutDown`, `cutUp` say that
a message was given up half-way, cleared half-way by the next session, or mixed with the
other thread's: the goodbye is written by the reader thread (`comm.rs:298`) while the
writer thread may be in the middle of a message. After that neither end finds the
beginning of a message again, and the model stops there (`Followed`, a bound by name):
nothing could be claimed of it.

### How RxPath corresponds to the code

`queue[e]` is the channel from the reader thread of session e to the thread that pushes,
`push[e]` where that thread is: about to ask `is_running`, about to `try_recv`, or with a
message in `receive_channel_data`. There is one per session because nothing waits for the
old one to end: its message may come into a channel of the next session. `op[t]` is the
connect or disconnect of thread t, `reading` the readers between the look and the pop. A
connect or disconnect holds the channel's lock for its whole round trip, so that the
thread that pushes waits (`LockFree`), which is why nothing is lost that arrives before the driver has its answer, and why what is
left of the connection before gets into the new channel, with the new channel's protocol
(`channels.rs:450`). `conn`, `n`, `cur`, `late`, `got`, `shed`, `before` are history
variables. The run keeps ids from wrapping and the theorems say what needs it: with a
wrapped id a connect may take an earlier close's second answer for its own, and the driver
has a channel that the device has not. After a panic under the lock (`panicked`) nothing happens
to the queue any more; what happens to the callers is `ApiLocks`'.

## 3. Runs

| run | question | bounds |
|---|---|---|
| `CommLinkSafe` | do ids stay with their calls whatever handlers do | 2 callers, ids 1 and 2, 4 calls, 2 messages per handler, 1 timeout, 1 restart, 2 sessions, failing writes |
| `CommLinkLive` | do disciplined handlers give every call its answer, and does the port become free | 1 caller, 6 calls over ids 1 and 2, 2 sessions |
| `StackTables` | do the tables agree, is a closed device idle; may the driver believe in a channel the device lost | 2 callers, CAN, 5 calls, 2 timeouts, 3 slots, 2 mailboxes, 2 sessions, no ioctls, inits and queries |
| `StackLink` | does the stack implement the link | A0: 3 calls, 1 slot, long and flagged messages, crash and restart, 1 timeout |
| `StackEnd` | does every operation end | CAN and K-line, 5 calls, 2 slots |
| `LocksSafe` | are sessions and the device protected by the order of the locks; which applications never meet a panic, whose calls end | 2 threads, 2 channels, 6 calls, 2 sessions; an application that makes every call, one that never closes, one that also never disconnects nor names a filter out of range |
| `RxRing` | is a ring with its interrupt a queue, is it read | ring of 4, 5 frames, 2 channels and 2 filters, every kind of mailbox |
| `CanBus` | do frames go out in order and in the end; is what is delivered what the filter says | 2 mailboxes that receive, 1 that sends, rings of 1, 3 frames out, 2 in, 2 opens, 2 filters set, masks of all bits, one and none |
| `IsoTp` | is a message delivered whole, confirmed when it has arrived; does neither direction hang | 2 ECUs, 2 conversations of either direction, rings of 2, blocks of 2 where the code has 8, `Radix` 16 (256), `SnMod` 3 (16), lengths of 1, 3 and 4 consecutive frames, the last with a carry |
| `SerialFraming` | do both ends agree where a message begins, and come to the end of it | both boards, messages of 2 and 4 bytes, records of 3, two of them buffered, 5 bytes on the line, 1 message down, 2 up, 2 sessions with hello and goodbye |
| `RxPath` | is received data lost, reordered, read twice; what of an earlier connection or session gets into a channel | 1 thread that connects, 1 that reads, 3 calls on 4 ids, queue of 2, 2 sessions, 3 messages, or 2 and a timeout or restart, or 1 and both |
| `LocksClose` | violated: `CloseEnds` | 2 threads, 1 channel |

All runs have `CHECK_DEADLOCK FALSE`: an application may stop calling, and the bounds
end every behaviour.

Why the bounds are enough. Ids: with two ids and four calls the counter wraps twice, so
an answer meets the next holder of its id; nothing depends on how many ids there are
(the proofs are for every `IdLimit`). Two callers: every race in the link and the locks
is between two threads and the device. Two sessions: leftovers can only be of an earlier
one. Five calls in the stack: connect, set three filters (the third finds no mailbox) or
set, remove, disconnect and connect again. `TablesAgree` and `IdleAfterGoodbye` are
about behaviours without a timeout so far, `DriverOpenIsDeviceOpen` about all.
`MaxUp` bounds the bytes on the way to the host, which is what `send_message` waiting for
room does; `DataUnderWay` keeps `channel_loop` from filling it. In `LocksSafe` `MaxQueue` is
1: a message pushed, one dropped, one taken by another thread. `MaxFilters` bounds slots;
`Mailboxes` is smaller in `StackTables`, as on the M2. A ring of four fills with three
frames, and five frames take it round. In `CanBus` three frames are one in the mailbox,
one in the ring and one that finds it full; two mailboxes are the one above and the one
below; two openings are a channel and what it leaves to the next. In `IsoTp` a message of
three frames is longer than a block and wraps the sequence number; two conversations are
everything two messages can do to each other through the one buffer, in either direction
and of either ECU. Three messages are needed for an ECU that takes flow control meant for
its last message as that for its next, so "astray" is not reached by the run; instances
with three messages were searched besides it, and `IsoDeliveredWhole` is proved for any
number. In `SerialFraming` a message is longer than a read, a record is neither a divisor
nor a multiple of what fits on the line, and the second session begins over what is left
of the first.

In `RxPath` the queue has two places: one message of a session that is over fits, and so
would a second, which `OneStray` rules out; two messages of one session have an order in it;
and a third finds it full. Two messages are also one held by the thread of the earlier
session and one pushed by that of the next, in either order; one thread connects while the
other is between the look and the pop. `MaxEvents` bounds messages, timeouts and restarts
together.

What the violation run shows. `passthru_close` locks `M2` and then the channels,
everybody else the other way round.

More differences are modelled without a run of their own, and stand in the properties as
what they exclude:

- a close is answered twice (`firmware/channel.cpp:98` after 115): the second answer waits
  99 calls and is then taken for another command's, every command after it being one
  answer behind (`ReplyIsOwn` is about disciplined handlers, `ForeignReplyFar` about all);
- a long ISO 15765 message is never answered, so a write with a timeout times out
  (`comm_channel_iso15765.cpp:313`; `OperationsEnd` leaves long messages out);
- `read_channel_data` looks under one lock and unwraps under another (`channels.rs:237`;
  `NoPanic` leaves applications that disconnect out);
- frames left in the send ring when a channel is closed block the next channel's
  (`due_can.cpp:224`, 899; `kept`);
- the masks of block filters are an array of `bool`, and are compared before they are
  applied (`comm_channel_can.cpp:79`; `ToldPasses` has masks of all bits and of none);
- "block all traffic" is a mask of zero, which accepts everything (`custom_can.cpp:71`): a
  mailbox without a filter takes frames from the filters above it;
- `|` where a carry may occur, the filter removed half-way, the flow control every eighth
  frame with the other direction's block size (`comm_channel_iso15765.cpp:254`, 71, 229;
  "carry", "removed", "block", "astray");
- data of an earlier connection or session in a new channel, one message of a session that
  is over possibly behind newer ones (`comm.rs:182`; `late`, `via`);
- `read_msgs` asked for zero messages never meets its limit (`passthru_drv.rs:433`);
- the goodbye mixes with a message that is being written (`comm.rs:298`; `cutDown`);
- the K-line's `sendMsg` answers asked or not (`comm_channel_iso9141.cpp:87`);
- after a connect that timed out, the device answers the next one ERR_CHANNEL_IN_USE
  although the driver has no channel (`channel.cpp:30`), and the driver's ten filters
  (`channels.rs:18`) meet seven mailboxes on the M2 (`comm_channel_can.cpp:37`).

### Fairness

The reader, the writer and the end of `open_conn` run on their own: weak fairness. A
caller that has its id goes on to send and takes an answer that is there: weak fairness,
it is straight-line code. Nothing makes an application call, close or wait less: no
fairness for those, nor for timeouts and restarts. The firmware's `loop` reads at most
one message per turn before `channel_loop` may send; a command in the buffer is
disabled in the model only while `up` is full, which the reader empties, and data the
device sends could fill again: strong fairness for `FwCommand` and `DevCommand`, since
every turn of the loop tries the command first. In `ApiLocks` each thread inside a call
is weakly fair and an exchange ends with its timeout; calls are bounded, so that no
lock has to be fair: a thread waits for finitely many holders. In `RxRing` the loop goes
on (`Write`) and polls every mailbox in use once a turn (`Poll`); frames need not come. In
`CanBus` a pending interrupt comes (`Interrupt`) and somebody on the bus takes the frame
that is offered (`Sent`); the application need not call again. In `IsoTp` the loop goes on
(`Turn`), the clock too (`Tick`), and ECUs send what they may send (`EcuSends`): it is
the protocol's business that they do; without it a message in the middle just stays
there. In `SerialFraming` both threads of the driver and the device loop, and a
write goes on while there is room or gives up: weak fairness, since what a step waits for
(bytes to read, room to write, the device's own message being out) stays until it is taken.

## 4. Proofs

`CommLinkProofs`, for any set of threads, any `IdLimit` of at least 2 and any bounds
(`LinkAssumption`). The inductive invariant `IInv` says of every place a message may be
(the send queue, the wire, `last_id`, the receivers, the calls) that its id is
`IdOf(serial)`, with the counter at `IdOf(calls)`. `LinkTypeOK` and `LinkIdsCarried`
follow; `LinkForeignReplyFar` follows from it by arithmetic: equal ids of different
serials are at least `IdLimit - 1` apart. `ForeignReplyFar` is not inductive by itself,
it says nothing of the messages under way. Not used: `HelloInTime`, a bound, or
anything about the handlers. `LinkHelloFirst` assumes `HelloInTime` and needs what keeps
sessions apart: no call is under way while a session begins, nothing on the wire is of a
later session, and while the hello is still to be written no command of its session is
(`InSession`); the send queue holds commands of the last session only (`QueueIsOfSession`,
a lemma: the queue is made with its session).

`LinkFirstRound` is what holds of `ReplyIsOwn` for the code's own handlers: until
the ids wrap, whatever the handlers send and however calls time out (no message is of a
call later than `calls`, `Numbered`, and `LinkForeignReplyFar` does the rest). After that
it is false, since a close is answered twice. The rest of the module is about
the order of what is under way, for the stack: commands are handled in the order they
are sent, the wire and the send queue being one `Path` that a step only thins out or
appends to (`PathStep`), and the first answer with an id stays the first (`FirstStep`)
until its caller takes it.

`PassThruStackProofs`: `StackImplementsLink` maps the initial state and every step to one
of the link. Needed for it is `OpInv` (what a thread waits for is what it sent), and that
every handler's messages are among those the link allows (`Brief`). `ForeignReplyFar`
carries over. `StackTypes` adds the tables' own typing, which needs that the driver
never names a slot out of range.
`StackDriverOpen` is about two tables at the two ends of that path. Under its channel's
lock a thread is alone with the channel (`Locked`); a close is only sent once the driver
has given its channel up (`GivenUp`), so that what is left of a close, of a hello or of a
goodbye is, in the path, before the open whose answer gives the driver the channel
(`OpenAsked`), and nothing of the kind is behind it while the driver has it (`OpenKept`).
It says for how long: `calls < IdLimit - 1`, since the second answer to a close is taken
for the answer to an open one round of ids later, and `restarts = 0`, since the driver is
not told of a restart. It needs `HelloInTime`: a hello behind an open closes the channel.
Timeouts, lost writes and any number of sessions are allowed.

`StackTablesAgree` and `StackIdleAfterGoodbye` are about the converse too, so they need
more: no timeout, no lost write (`Steady`, `~WritesMayFail`). Then the threads of a
session run as long as it does (`Alive`), and a message that carries an id belongs to a
thread that waits for it, with no hello or goodbye before it (`PathOwned`). "The device's
table" is not the one it has now but the one it will have once the status messages on the
wire are handled (`Later`): after a hello or goodbye is written it is off (`Ended`), so a
session begins with both tables empty. From then on (`Tables`) they agree while no thread
changes the channel, and while one does, up to the moment the device handles its command;
then the first answer with the id says how they differ (`Settles`), and the thread that
takes it makes them agree (`TakenAgree`). `HandleSettles` shows that of every handler:
the status it answers first is what it did. A step is then one of three: the device
handles the command of the thread inside the lock (`Handled`), a thread takes its answer,
or neither table moves (`UpMoves`, `TableMoves`). CLEAR_MSG_FILTERS holds the lock through
a chain of answers, and the tables agree between two of them as well.

`ApiLocksProofs`, for any set of applications `Apps`; `ChannelOfSession` needs the two locks
together, since a channel is stored after `M2` is released: while a thread is closing, a
connect that the device accepted holds the lock of a channel that the closing thread has
still to come to (`Connected`), and everything it has passed is empty (`Closing`).
`LocksNoPanic` is about applications that close nothing, disconnect nothing and name their
filters right (`Tame`): then no lock is poisoned and what a thread has looked at is still
there when it comes back (`Safely`), which needs that a device that is open has a session
number, so that a channel that is stored is never the empty one.

`RxRingProofs`, for every ring of at least two places and every bound: `RingTypes`,
`RingHooked` and `RingImplementsQueue`. The invariant `RInv` says that `todo` is one of
the 29 sequences that a call can leave to do, and reads off where in the call the
loop is (`Kind`): a callback that is being replaced is off while head and tail are reset
(`Emptied`), the mailbox has its filter from the first reset on (`Programmed`), and a
callback is set only under a filter or where a call is about to take it away
(`Hooked`). The types are inductive by themselves, the other two properties are not: the frames in the
ring are of the filter that is set only because the ring was emptied, with no interrupt
that could push, after the mailbox was programmed. The other half is arithmetic: `Pushing`
and `Popping` show that a write of the head is an `Append`, and one of the tail a `Tail`,
of the frames from tail to head.

`CanBusProofs`, for any number of mailboxes, any rings and any bounds: `CanSendOrder`
says what is out, in the mailbox and in the ring one by one (`Ordered`), since order of
the whole is not inductive when a frame moves. `CanFiledByFilter` and `CanToldPasses` need
`Served`: while a channel is open an interrupt is pending as soon as a mailbox holds a
frame, so that no call of the loop, in particular none that sets a filter, finds a frame
that came for an earlier one. `CanTypes` bounds the rings.

`IsoTpProofs`, for every length a first frame can announce: `IsoNoOverrun`. `FirstFits` is
arithmetic: also where the carry is lost the size reserved is more than the ten bytes that
the first frame brings. `IsoTypes` needs besides that `rxCount` is below its block
whenever a message is being received.

The same module: `IsoDeliveredWhole`, for any number of ECUs, messages, filters and
settings. The channel looks neither at who sent a consecutive frame nor at its number, so
`DeliveredWhole` is far from inductive. The invariant is about every ring (`BoxOK`): only
that of the ECU whose message is being received has consecutive frames, and they are those
which that message still lacks, in order, without gaps (`InOrder`), up to the one the
ECU sends next; an ECU has credit only for the message that is received (`Grant`); at most
one first frame waits, of the message its ECU is sending. That holds while no flow control
goes to an ECU that waits for something else, which is why "astray" is excluded.

And for both directions. `IsoBlockAnswered`: the device never tells the ECU
what it counts to. The invariant `Granted` is arithmetic: the count so far and the frames
that the ECU may still send, or that wait, add up to a multiple of the device's block, or
the message ends before (`BlockLeft`); so the ECU never runs out before the count is full.
`IsoConfirmedOnce` and `IsoBlockHonoured`: the device believes every flow control, also when
it waits for none. The invariant `Sending` is about the ECU's half of the conversation: only the ECU
the message goes to waits for anything, for as many bytes as the device has left, under
the same number; flow control is owed, under way (`OneFlow`) or used up, one at a time;
and what the device may send before the next is what the ECU is ready for, or all that is
left (`Ready`).

`SerialFramingProofs`, for messages, records and reads of any size, either board:
`FramingTypes` and `FramingTakenWhole`. Neither end looks for the beginning of a message, so
the invariant is one stream in each direction (`Stream`): what the reader has read so far, what is
on the line, and what is still to be written. In it a message that has a byte has all that follow
(`Closed`), and the reader stands at the byte that its own state says (`InStep`).

`RxPathProofs`, for any number of threads, sessions and messages and any size of the queue.
`RxImplementsLink` makes what is proved of the link available: sessions, ids that are their
calls' own, the path down. The invariant `RxInv` has three parts, by what they need:

- `RxFree` holds for ever, whatever the ids do and whenever the hello comes. `RxOneStray` and
  `RxInOrder` need no more.
- `RxTimely` needs `HelloInTime`, since a hello behind an open takes the connection away.
- `RxRound` lasts until an id comes round (`calls < IdLimit - 1`, 98 calls of `get_id`
  in the code): from then on a receiver may hold an answer to an earlier call with the same
  id (`IdsApart` ends). `RxOnlyLeftovers` and `RxStreamKept` need it, and say so.

Who holds the channel's lock is `OneInside`: at most one thread is in
a round trip, and while it is the driver has no channel. From there the invariant follows
the data:

- `Ordered`: the device's numbers only grow from the reads over the queue, the thread that
  pushes and its queue to the wire, for each session. `InOrder` alone is not inductive.
- `Stray`: as long as the thread of a session that is over can still push, nothing of its
  session is in the channel's queue; afterwards one message at most.
- `Latest(c, i)` and `Kept(c, i, R)`: connection c is the last that the device opened,
  nothing is on its way that could open another, and from place i on the wire there is only
  data of c, all of it but what is in R. A step of anybody but the reader thread keeps
  both (`LatestStep`), the reader thread's moves the place up by one (`LatestRead`).
- `OpenSeen`: they hold from the answer on while the answer to an open is on its way, since
  the device opens for a command behind which there is no other (`Sole`): the driver's lock
  is held for the round trip, and a call that gave up left its command in front.
- `ChanKept`: they hold of the channel the driver has, with R what the driver's threads and
  the application have, and whatever else is to be pushed was so when it was stored.

Only model-checked: everything about liveness (`PortFreed`, `Answered`, `OperationsEnd`,
`FrameRead`, `EveryCallEnds`, `WaitingSent`, `BothEnd`, `AllRead`; the
prover has no rule for fairness and ENABLED).

## 5. Not modelled

- A filter that times out in the driver and is set in the device (`channels.rs:340`): the
  tables are claimed to agree only until the first timeout.
- On the A0: filters seven to nine, for which the CAN channel's arrays have no entry
  (`comm_channels.h:103`: what is written past them is undefined), and its CAN library,
  which is not in the repository.
- Extended addressing and separation times of ISO 15765 (`due` is one tick, whatever the
  time); `delete[]` of what was not allocated (`comm_channel_iso15765.cpp:77`), which the
  models take for nothing.
- What a device that restarts, or the A0's UART when it overruns, makes of bytes.
- The K-line's bit timing, its UART and its timing parameters: `setup` assigns the defaults
  to locals that shadow the members (`comm_channel_iso9141.cpp:42`), which keep the zeros of
  `comm_channels.h:55` until the application sets them.
- `lib.rs`'s conversions, `logger.rs`, pins and LEDs, frame printing, the registry entry
  and build files: pure I/O or configuration.

## 6. Plan

Done: `CommLink`, `PassThruStack`, `ApiLocks`, `RxRing`, `CanBus`, `IsoTp`, `SerialFraming`,
`RxPath` and the proofs named above. Left:

1. The K-line: timing parameters and the wake-up.
