------------------------------ MODULE CommLink ------------------------------
(***************************************************************************)
(* The serial link between the J2534 driver (driver/src/comm.rs) and the   *)
(* firmware (firmware/comm_m2.cpp, comm_a0.cpp, firmware.ino).             *)
(*                                                                         *)
(* Driver side: every API thread that talks to the device takes a message  *)
(* id from a counter that wraps (get_id), puts its message on one channel  *)
(* read by the writer thread, and waits on the receiver of its id          *)
(* (write_and_read).  The reader thread says hello, hands every message    *)
(* that comes up to the receiver of its id, and says goodbye when the      *)
(* session is closed.  Device side: one loop that reads a message,         *)
(* remembers its id in last_id and runs a handler that answers with it.    *)
(*                                                                         *)
(* The handlers are abstract here: any number of answers up to MaxReplies. *)
(* PassThruStack gives them their code.  "serial" and "epoch" are history: *)
(* the number of the get_id call and of the session a message comes from.  *)
(***************************************************************************)
EXTENDS Integers, Sequences

CONSTANTS
  Callers,        \* the application's threads
  Bodies,         \* what a command may carry
  UpBodies,       \* what an answer or received data may carry
  NoBody,         \* what hello and goodbye carry
  IdLimit,        \* ids are 1 .. IdLimit - 1; 100 in the code
  ResetClearsId,  \* PCCOMM::reset: TRUE on the M2, FALSE on the A0
  HelloInTime,    \* the 50 ms open_conn sleeps are enough to write hello
  WritesMayFail,  \* a write to the serial port may fail
  Disciplined,    \* handlers answer each command that has an id once, and no other
  MaxReplies,     \* bound: messages one handler sends, if not disciplined
  MaxCalls,       \* bound: calls of get_id
  MaxPosts,       \* bound: fire-and-forget messages
  MaxTimeouts,    \* bound: calls that give up
  MaxRestarts,    \* bound: restarts of the device
  MaxSessions,    \* bound: sessions
  MaxUp           \* bound: messages on their way to the host

ASSUME LinkAssumption ==
  /\ IdLimit \in Nat /\ IdLimit >= 2
  /\ ResetClearsId \in BOOLEAN /\ HelloInTime \in BOOLEAN /\ WritesMayFail \in BOOLEAN
  /\ Disciplined \in BOOLEAN
  /\ MaxReplies \in Nat /\ MaxCalls \in Nat /\ MaxPosts \in Nat /\ MaxTimeouts \in Nat
  /\ MaxRestarts \in Nat /\ MaxSessions \in Nat /\ MaxUp \in Nat

VARIABLES
  session,   \* M2: "none", "opening" (inside open_conn), "up"
  epoch,     \* history: number of sessions so far
  running,   \* is_running
  reader,    \* the reader thread: "off", "hello" (about to write it), "loop"
  writer,    \* the writer thread: "off", "check" (loop condition), "recv"
  msgId,     \* MSG_ID
  calls,     \* history: number of get_id calls
  posts, timeouts, restarts,   \* how many of each have happened
  txQueue,   \* tx_send_queue
  inbox,     \* rx_recv_queue, by id
  down, up,  \* bytes on their way to the device, to the host, in whole messages
  lastId, lastSerial,   \* last_id of the firmware; history: the serial that set it
  call       \* per thread: inside write_and_read or not

hostVars == <<session, epoch, running, reader, writer, msgId, calls, posts, timeouts, txQueue, inbox, call>>
devVars  == <<restarts, lastId, lastSerial>>
linkVars == <<hostVars, down, up, devVars>>
-----------------------------------------------------------------------------
Ids  == 1 .. IdLimit - 1
Id0s == 0 .. IdLimit - 1

DownMsg == [kind : {"cmd"}, id : Id0s, serial : Nat, epoch : Nat, body : Bodies]
           \cup [kind : {"hello", "goodbye"}, id : {0}, serial : {0}, epoch : Nat, body : {NoBody}]
UpMsg   == [kind : {"reply", "async"}, id : Id0s, serial : Nat, body : UpBodies]
Call    == [st : {"idle", "ready", "waiting"}, id : Id0s, serial : Nat]

Idle == [st |-> "idle", id |-> 0, serial |-> 0]

\* Mutants: the counter wraps one late, one early.
NextIdLate(i)  == IF i + 1 > IdLimit THEN 1 ELSE i + 1
NextIdEarly(i) == IF i + 1 >= IdLimit - 1 THEN 1 ELSE i + 1

\* The next value of MSG_ID.
NextId(i) == IF i + 1 >= IdLimit THEN 1 ELSE i + 1

\* The id the n-th call of get_id returns.
IdOf(n) == (n % (IdLimit - 1)) + 1

StatusMsg(kind) == [kind |-> kind, id |-> 0, serial |-> 0, epoch |-> epoch, body |-> NoBody]
Cmd(id, serial, body) ==
  [kind |-> "cmd", id |-> id, serial |-> serial, epoch |-> epoch, body |-> body]

\* What a write of m to the port does to the bytes on their way down.
Written(m) == {Append(down, m)} \cup (IF WritesMayFail THEN {down} ELSE {})

LinkInit ==
  /\ session = "none" /\ epoch = 0 /\ running = FALSE
  /\ reader = "off" /\ writer = "off"
  /\ msgId = 1 /\ calls = 0 /\ posts = 0 /\ timeouts = 0 /\ restarts = 0
  /\ txQueue = <<>> /\ inbox = [i \in Ids |-> <<>>]
  /\ down = <<>> /\ up = <<>>
  /\ lastId = 0 /\ lastSerial = 0
  /\ call = [t \in Callers |-> Idle]
-----------------------------------------------------------------------------
(* Opening and closing a session *)

\* open_conn up to its sleep.  The port is opened exclusively, so it must have
\* no handle left; clearing it drops what the host has not yet sent (the end of
\* "down") and what it has not yet read (the beginning of "up").
OpenStart ==
  /\ session = "none" /\ reader = "off" /\ writer = "off"
  /\ epoch < MaxSessions
  /\ session' = "opening" /\ epoch' = epoch + 1 /\ running' = TRUE
  /\ reader' = "hello" /\ writer' = "check"
  /\ txQueue' = <<>> /\ inbox' = [i \in Ids |-> <<>>]
  /\ \E n \in 0 .. Len(down) : down' = SubSeq(down, 1, n)
  /\ \E n \in 1 .. Len(up) + 1 : up' = SubSeq(up, n, Len(up))
  /\ UNCHANGED <<msgId, calls, posts, timeouts, call, devVars>>

\* The reader thread's first write; if it fails the thread ends.
ReaderHello ==
  /\ reader = "hello"
  /\ \/ /\ down' = Append(down, StatusMsg("hello"))
        /\ reader' = "loop" /\ UNCHANGED running
     \/ /\ WritesMayFail
        /\ running' = FALSE /\ reader' = "off" /\ UNCHANGED down
  /\ UNCHANGED <<session, epoch, writer, msgId, calls, posts, timeouts, txQueue, inbox, call, up, devVars>>

\* Mutant: open_conn does not give the reader time to write hello.
OpenDoneAtOnce ==
  /\ session = "opening"
  /\ session' = IF running THEN "up" ELSE "none"
  /\ UNCHANGED <<epoch, running, reader, writer, msgId, calls, posts, timeouts, txQueue, inbox, call,
                 down, up, devVars>>

\* The end of open_conn, and passthru_open storing the device.
OpenDone ==
  /\ session = "opening"
  /\ HelloInTime => reader # "hello"
  /\ session' = IF running THEN "up" ELSE "none"
  /\ UNCHANGED <<epoch, running, reader, writer, msgId, calls, posts, timeouts, txQueue, inbox, call,
                 down, up, devVars>>

\* passthru_close: it holds M2's write lock, so no call is inside run_on_m2.
\* Dropping the device drops the sender of txQueue and the receivers.
Close ==
  /\ session = "up" /\ \A t \in Callers : call[t].st = "idle"
  /\ running' = FALSE /\ session' = "none"
  /\ inbox' = [i \in Ids |-> <<>>]
  /\ UNCHANGED <<epoch, reader, writer, msgId, calls, posts, timeouts, txQueue, call, down, up, devVars>>

\* The reader thread leaves its loop and writes the goodbye message.
ReaderExit ==
  /\ reader = "loop" /\ ~running
  /\ reader' = "off" /\ down' \in Written(StatusMsg("goodbye"))
  /\ UNCHANGED <<session, epoch, running, writer, msgId, calls, posts, timeouts, txQueue, inbox, call,
                 up, devVars>>

(* The writer thread *)

WriterCheck ==
  /\ writer = "check"
  /\ writer' = IF running THEN "recv" ELSE "off"
  /\ UNCHANGED <<session, epoch, running, reader, msgId, calls, posts, timeouts, txQueue, inbox, call,
                 down, up, devVars>>

WriterSend ==
  /\ writer = "recv" /\ txQueue # <<>>
  /\ down' \in Written(Head(txQueue))
  /\ txQueue' = Tail(txQueue) /\ writer' = "check"
  /\ UNCHANGED <<session, epoch, running, reader, msgId, calls, posts, timeouts, inbox, call, up, devVars>>

\* Mutant: somebody keeps a sender, so that recv never fails after a close.
WriterNeverDrained ==
  /\ writer = "recv" /\ txQueue = <<>> /\ session = "none" /\ running
  /\ writer' = "check"
  /\ UNCHANGED <<session, epoch, running, reader, msgId, calls, posts, timeouts, txQueue, inbox, call,
                 down, up, devVars>>

\* recv fails: nothing queued and the sender is gone.
WriterDrained ==
  /\ writer = "recv" /\ txQueue = <<>> /\ session = "none"
  /\ writer' = "check"
  /\ UNCHANGED <<session, epoch, running, reader, msgId, calls, posts, timeouts, txQueue, inbox, call,
                 down, up, devVars>>
-----------------------------------------------------------------------------
(* Calls of the API threads *)

\* get_id, inside run_on_m2.
GetId(t) ==
  /\ session = "up" /\ call[t].st = "idle" /\ calls < MaxCalls
  /\ msgId' = NextId(msgId) /\ calls' = calls + 1
  /\ call' = [call EXCEPT ![t] = [st |-> "ready", id |-> NextId(msgId), serial |-> calls + 1]]
  /\ UNCHANGED <<session, epoch, running, reader, writer, posts, timeouts, txQueue, inbox,
                 down, up, devVars>>

\* write_and_read puts its message on the queue; with the writer gone the call fails.
Send(t, body) ==
  /\ call[t].st = "ready"
  /\ IF writer = "off"
       THEN call' = [call EXCEPT ![t] = Idle] /\ UNCHANGED txQueue
       ELSE /\ call' = [call EXCEPT ![t].st = "waiting"]
            /\ txQueue' = Append(txQueue, Cmd(call[t].id, call[t].serial, body))
  /\ UNCHANGED <<session, epoch, running, reader, writer, msgId, calls, posts, timeouts, inbox,
                 down, up, devVars>>

\* write_comm_struct: id 0, no answer expected.
Post(t, body) ==
  /\ session = "up" /\ call[t].st = "idle" /\ posts < MaxPosts /\ posts' = posts + 1
  /\ txQueue' = IF writer = "off" THEN txQueue ELSE Append(txQueue, Cmd(0, 0, body))
  /\ UNCHANGED <<session, epoch, running, reader, writer, msgId, calls, timeouts, inbox, call,
                 down, up, devVars>>

\* recv_timeout finds a message: the first in the receiver of the call's id.
Receive(t) ==
  /\ call[t].st = "waiting" /\ inbox[call[t].id] # <<>>
  /\ inbox' = [inbox EXCEPT ![call[t].id] = Tail(@)]
  /\ call' = [call EXCEPT ![t] = Idle]
  /\ UNCHANGED <<session, epoch, running, reader, writer, msgId, calls, posts, timeouts, txQueue,
                 down, up, devVars>>

Timeout(t) ==
  /\ call[t].st = "waiting" /\ inbox[call[t].id] = <<>>
  /\ timeouts < MaxTimeouts /\ timeouts' = timeouts + 1
  /\ call' = [call EXCEPT ![t] = Idle]
  /\ UNCHANGED <<session, epoch, running, reader, writer, msgId, calls, posts, txQueue, inbox,
                 down, up, devVars>>

\* The reader thread hands a message on.  Received data and logs go elsewhere;
\* a receiver that is gone, or id 0, is only logged.
ReaderTake ==
  /\ reader = "loop" /\ up # <<>>
  /\ up' = Tail(up)
  /\ LET m == Head(up) IN
       inbox' = IF m.kind = "reply" /\ m.id \in Ids /\ session # "none"
                  THEN [inbox EXCEPT ![m.id] = Append(@, m)]
                  ELSE inbox
  /\ UNCHANGED <<session, epoch, running, reader, writer, msgId, calls, posts, timeouts, txQueue, call,
                 down, devVars>>
-----------------------------------------------------------------------------
(* The firmware *)

\* What a handler sends: an answer (respond_ok, respond_err) or, unasked, received
\* data (send_rx_data).
Outs == [kind : {"reply", "async"}, body : UpBodies]

\* Answers carry last_id, the rest carries id 0.
Sent(id, serial, outs) ==
  [i \in 1 .. Len(outs) |->
    IF outs[i].kind = "reply"
      THEN [kind |-> "reply", id |-> id, serial |-> serial, body |-> outs[i].body]
      ELSE [kind |-> "async", id |-> 0, serial |-> 0, body |-> outs[i].body]]

\* Mutant: read_message keeps the id it has.
IdAfterFirst(m) == IF lastId # 0 THEN lastId ELSE m.id

\* read_message remembers the id of a command that has one.
IdAfter(m)     == IF m.id # 0 THEN m.id ELSE lastId
SerialAfter(m) == IF m.id # 0 THEN m.serial ELSE lastSerial

\* One turn of loop() with a command: read_message, then the handler, which sends
\* outs (send_message waits until there is room).
FwHandle(outs) ==
  /\ down # <<>> /\ Head(down).kind = "cmd"
  /\ Len(up) + Len(outs) <= MaxUp
  /\ down' = Tail(down)
  /\ lastId' = IdAfter(Head(down)) /\ lastSerial' = SerialAfter(Head(down))
  /\ up' = up \o Sent(IdAfter(Head(down)), SerialAfter(Head(down)), outs)
  /\ UNCHANGED <<hostVars, restarts>>

\* One turn of loop() with a status message: set_status_led and PCCOMM::reset.
FwStatus ==
  /\ down # <<>> /\ Head(down).kind # "cmd"
  /\ down' = Tail(down)
  /\ lastId' = IF ResetClearsId THEN 0 ELSE lastId
  /\ UNCHANGED <<hostVars, up, restarts, lastSerial>>

\* channel_loop sends received data, or the firmware logs something.
FwEmit(body) ==
  /\ Len(up) < MaxUp
  /\ up' = Append(up, [kind |-> "async", id |-> 0, serial |-> 0, body |-> body])
  /\ UNCHANGED <<hostVars, down, devVars>>

\* The device restarts: it forgets last_id and loses some of "received", the bytes
\* that were sent to it.
Restart(received) ==
  /\ restarts < MaxRestarts /\ restarts' = restarts + 1
  /\ lastId' = 0 /\ lastSerial' = 0
  /\ \E n \in 1 .. Len(received) + 1 : down' = SubSeq(received, n, Len(received))
  /\ UNCHANGED hostVars

FwRestart == Restart(down) /\ UNCHANGED up

\* A handler sends outs, then brings the device down.
FwCrash(outs) ==
  /\ down # <<>> /\ Head(down).kind = "cmd"
  /\ Len(up) + Len(outs) <= MaxUp
  /\ up' = up \o Sent(IdAfter(Head(down)), SerialAfter(Head(down)), outs)
  /\ Restart(Tail(down))

\* Mutant: a handler answers whether it was asked to or not.
HandlerOutsAlways(m) == [1 .. 1 -> [kind : {"reply"}, body : UpBodies]]

\* What the handler of command m may send.
HandlerOuts(m) ==
  IF ~Disciplined THEN UNION {[1 .. n -> Outs] : n \in 0 .. MaxReplies}
  ELSE IF m.id = 0 THEN {<<>>}
  ELSE [1 .. 1 -> [kind : {"reply"}, body : UpBodies]]

FwCommand == down # <<>> /\ \E outs \in HandlerOuts(Head(down)) : FwHandle(outs) \/ FwCrash(outs)
-----------------------------------------------------------------------------
HostSession == OpenStart \/ OpenDone \/ Close
HostThreads == ReaderHello \/ ReaderTake \/ ReaderExit \/ WriterCheck \/ WriterSend \/ WriterDrained
HostCall(t) == GetId(t) \/ Receive(t) \/ Timeout(t) \/ \E b \in Bodies : Send(t, b) \/ Post(t, b)
Firmware    == FwStatus \/ FwRestart \/ FwCommand \/ \E b \in UpBodies : FwEmit(b)

LinkNext == HostSession \/ HostThreads \/ (\E t \in Callers : HostCall(t)) \/ Firmware

LinkSpec == LinkInit /\ [][LinkNext]_linkVars

\* The reader, the writer and the firmware's loop are threads that run on their
\* own; a caller that has its id sends, and takes a message that is there.
\* loop() reads a command on every turn before channel_loop runs, and a handler's
\* write waits for room, so what the device emits cannot starve a command (SF).
LinkFairness ==
  /\ WF_linkVars(ReaderHello) /\ WF_linkVars(ReaderTake) /\ WF_linkVars(ReaderExit)
  /\ WF_linkVars(WriterCheck) /\ WF_linkVars(WriterSend) /\ WF_linkVars(WriterDrained)
  /\ WF_linkVars(OpenDone) /\ WF_linkVars(FwStatus)
  /\ SF_linkVars(FwCommand)
  /\ \A t \in Callers : WF_linkVars(\E b \in Bodies : Send(t, b)) /\ WF_linkVars(Receive(t))

FairLinkSpec == LinkSpec /\ LinkFairness
-----------------------------------------------------------------------------
TypeOK ==
  /\ session \in {"none", "opening", "up"} /\ epoch \in Nat /\ running \in BOOLEAN
  /\ reader \in {"off", "hello", "loop"} /\ writer \in {"off", "check", "recv"}
  /\ msgId \in Ids /\ calls \in Nat /\ posts \in Nat /\ timeouts \in Nat /\ restarts \in Nat
  /\ txQueue \in Seq(DownMsg) /\ inbox \in [Ids -> Seq(UpMsg)]
  /\ down \in Seq(DownMsg) /\ up \in Seq(UpMsg)
  /\ lastId \in Id0s /\ lastSerial \in Nat
  /\ call \in [Callers -> Call]

\* The id on a message is the id of the get_id call whose number it carries.
Tagged(m) == m.id # 0 => m.id = IdOf(m.serial)
TaggedDown == {m \in DownMsg : Tagged(m)}
TaggedUp   == {m \in UpMsg : Tagged(m)}

\* Every id under way is the id of the call it was drawn for: the counter, both
\* queues, both directions of the wire, last_id and the receivers agree, across
\* ids that wrap, sessions that overlap on the wire and restarts of the device.
IdsCarried ==
  /\ msgId = IdOf(calls)
  /\ txQueue \in Seq(TaggedDown) /\ down \in Seq(TaggedDown) /\ up \in Seq(TaggedUp)
  /\ \A i \in Ids : inbox[i] \in Seq({m \in TaggedUp : m.id = i})
  /\ Tagged([id |-> lastId, serial |-> lastSerial])
  /\ \A t \in Callers : Tagged(call[t]) /\ (call[t].st # "idle" => call[t].id # 0)

\* write_and_read never checks what it receives: only the id stands between a
\* caller and another call's answer.  Whatever the handlers answer, and however
\* often calls time out, an answer a caller can take that is not its own belongs
\* to a call at least IdLimit - 1 calls of get_id away from its own.
ForeignReplyFar ==
  \A t \in Callers : call[t].st = "waiting" =>
    \A i \in 1 .. Len(inbox[call[t].id]) :
      LET s == inbox[call[t].id][i].serial IN
        \/ s = call[t].serial
        \/ s - call[t].serial >= IdLimit - 1
        \/ call[t].serial - s >= IdLimit - 1

\* A caller takes the answer to its own call (comm.rs: "expects a designated
\* response back").  Holds when handlers are disciplined, a single thread uses
\* the library, and no call ever times out.
ReplyIsOwn ==
  \A t \in Callers : call[t].st = "waiting" /\ inbox[call[t].id] # <<>> =>
    Head(inbox[call[t].id]).serial = call[t].serial

\* The hello of a session, which resets the device, is never behind one of its
\* commands.  The reader and the writer thread write the same port without a
\* lock; only the sleep in open_conn orders them.
HelloFirst ==
  \A i, j \in 1 .. Len(down) :
    down[i].kind = "cmd" /\ down[j].kind = "hello" /\ down[i].epoch = down[j].epoch => j < i

\* After a close the reader and the writer thread end, so that the port, which is
\* opened exclusively, can be opened again.
PortFreed == session = "none" ~> reader = "off" /\ writer = "off"

\* A call comes to its end without its timeout: queue, writer, device loop,
\* reader and receiver all move.
Answered == \A t \in Callers : call[t].st = "waiting" ~> call[t].st = "idle"
=============================================================================
