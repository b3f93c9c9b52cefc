------------------------------- MODULE RxPath -------------------------------
(***************************************************************************)
(* Received data on its way from the device to the application: the wire,  *)
(* the reader thread, the thread that pushes data into the channel's queue *)
(* (driver/src/comm.rs), the queue itself (channels.rs) and the reads that *)
(* empty it (passthru_drv.rs), while the channel is disconnected and       *)
(* connected again and sessions end and begin.                             *)
(*                                                                         *)
(* One channel; every step on the link is an action of CommLink.  The      *)
(* thread that pushes keeps going for a while after its session, so that   *)
(* there is one for every session.  Answers and data carry, as history,    *)
(* the number of the connection the device made them in, data also its     *)
(* own number.                                                             *)
(***************************************************************************)
EXTENDS CommLink, FiniteSets

CONSTANTS
  Readers,    \* the application's threads that read and clear; Callers connect
  MaxQueue,   \* MAX_QUEUE_MSGS, 500
  MaxSent,    \* bound: messages the device receives
  MaxEvents   \* bound: messages, timeouts and restarts together

Sessions == 1 .. MaxSessions
Data     == [status : {"data"}, conn : 1 .. MaxCalls, n : 1 .. MaxSent]
Answers  == [status : {"ok", "err"}, conn : 0 .. MaxCalls, n : {0}]

ASSUME RxAssumption ==
  /\ MaxQueue \in Nat /\ MaxSent \in Nat /\ MaxEvents \in Nat
  /\ Bodies = {"open", "close"} /\ UpBodies = Data \cup Answers
  /\ ~Disciplined /\ MaxReplies >= 2

VARIABLES
  chan,     \* driver: CAN_CHANNEL is Some
  rxData,   \* driver: rx_data of the channel
  op,       \* driver: what each caller is inside
  reading,  \* driver: the readers that have seen data and go to take it
  queue,    \* per session: chan_tx to chan_rx
  push,     \* per session: the thread that pushes, with the message it holds
  panicked, \* a thread panicked under the channel's lock
  dev,      \* device: the connection it has, 0 for none
  conns, sent,   \* history: how many connections, messages so far
  before,   \* history: messages before the present connection
  cur,      \* history: the connection the driver's channel was stored for
  late,     \* history: what was still to be pushed when it was
  got,      \* history: what has been read
  shed      \* history: what was dropped with the queue full, or cleared

drvVars == <<chan, rxData, op, reading, panicked, cur, late, got, shed>>
pushVars == <<queue, push>>
boxVars == <<dev, conns, sent, before>>
rxVars  == <<linkVars, drvVars, pushVars, boxVars>>

More == sent + timeouts + restarts < MaxEvents

NoMsg == [status |-> "none", conn |-> 0, n |-> 0]
Pusher(st) == [st |-> st, msg |-> NoMsg]

RxInit ==
  /\ LinkInit
  /\ chan = FALSE /\ rxData = <<>> /\ op = [t \in Callers |-> "none"]
  /\ reading = {} /\ panicked = FALSE
  /\ queue = [e \in Sessions |-> <<>>] /\ push = [e \in Sessions |-> Pusher("off")]
  /\ dev = 0 /\ conns = 0 /\ sent = 0 /\ before = 0
  /\ cur = 0 /\ late = {} /\ got = <<>> /\ shed = {}
-----------------------------------------------------------------------------
(* The threads of a session *)

\* The session whose thread this is goes on (is_running is one per session).
Goes(e) == e = epoch /\ running

\* open_conn starts a thread that pushes, with a queue of its own.
OpenSession ==
  /\ OpenStart
  /\ push' = [push EXCEPT ![epoch + 1] = Pusher("check")]
  /\ UNCHANGED <<drvVars, queue, boxVars>>

\* The reader thread gives received data to the thread of its session, an answer
\* to the call that waits for it.
Read ==
  /\ ReaderTake
  /\ queue' = IF Head(up).kind = "async" /\ push[epoch].st # "off"
                THEN [queue EXCEPT ![epoch] = Append(@, Head(up).body)] ELSE queue
  /\ UNCHANGED <<drvVars, push, boxVars>>

\* Mutant: it is not asked.
PushCheckNot(e) ==
  /\ push[e].st = "check"
  /\ push' = [push EXCEPT ![e] = Pusher("take")]
  /\ UNCHANGED <<linkVars, drvVars, queue, boxVars>>

\* is_running is asked once per message; with the thread its queue is gone.
PushCheck(e) ==
  /\ push[e].st = "check"
  /\ push' = [push EXCEPT ![e] = Pusher(IF Goes(e) THEN "take" ELSE "off")]
  /\ queue' = IF Goes(e) THEN queue ELSE [queue EXCEPT ![e] = <<>>]
  /\ UNCHANGED <<linkVars, drvVars, boxVars>>

\* try_recv.
PushTake(e) ==
  /\ push[e].st = "take"
  /\ IF queue[e] = <<>> THEN push' = [push EXCEPT ![e] = Pusher("check")] /\ UNCHANGED queue
     ELSE /\ push' = [push EXCEPT ![e] = [st |-> "push", msg |-> Head(queue[e])]]
          /\ queue' = [queue EXCEPT ![e] = Tail(@)]
  /\ UNCHANGED <<linkVars, drvVars, boxVars>>

\* The lock of the channel: a connect or disconnect holds it during its round trip.
LockFree == ~panicked /\ \A t \in Callers : op[t] = "none"

Pushed(e) == [msg |-> push[e].msg, via |-> e]

\* Mutant: it does not wait for the lock.
PushDataTries(e) ==
  /\ push[e].st = "push" /\ ~panicked
  /\ rxData' = IF LockFree /\ chan /\ Len(rxData) < MaxQueue THEN Append(rxData, Pushed(e)) ELSE rxData
  /\ shed' = IF LockFree /\ chan /\ Len(rxData) >= MaxQueue THEN shed \cup {push[e].msg} ELSE shed
  /\ push' = [push EXCEPT ![e] = Pusher("check")]
  /\ UNCHANGED <<linkVars, chan, op, reading, panicked, cur, late, got, queue, boxVars>>

\* receive_channel_data and on_receive_data: data is dropped without a channel, and
\* when its queue is full.
PushData(e) ==
  /\ push[e].st = "push" /\ LockFree
  /\ rxData' = IF chan /\ Len(rxData) < MaxQueue THEN Append(rxData, Pushed(e)) ELSE rxData
  /\ shed' = IF chan /\ Len(rxData) >= MaxQueue THEN shed \cup {push[e].msg} ELSE shed
  /\ push' = [push EXCEPT ![e] = Pusher("check")]
  /\ UNCHANGED <<linkVars, chan, op, reading, panicked, cur, late, got, queue, boxVars>>
-----------------------------------------------------------------------------
(* Connecting and disconnecting *)

Enters(t, cmd) == op' = [op EXCEPT ![t] = cmd]
Leaves(t) == op' = [op EXCEPT ![t] = "none"]

\* create_channel, which holds the channel's lock from here to Finish.
Connect(t) ==
  /\ LockFree /\ ~chan /\ GetId(t) /\ Enters(t, "open")
  /\ UNCHANGED <<chan, rxData, reading, panicked, cur, late, got, shed, pushVars, boxVars>>

\* destroy_channel; the queue goes with the channel.
Disconnect(t) ==
  /\ LockFree /\ chan /\ GetId(t) /\ Enters(t, "close")
  /\ chan' = FALSE /\ rxData' = <<>>
  /\ UNCHANGED <<reading, panicked, cur, late, got, shed, pushVars, boxVars>>

\* What is still to be pushed.
ToPush == {push[e].msg : e \in {x \in Sessions : push[x].st = "push"}}
          \cup UNION {{queue[e][i] : i \in 1 .. Len(queue[e])} : e \in Sessions}

\* The channel of connection k is stored, with an empty queue.
Stored(k) == chan' = TRUE /\ cur' = k /\ late' = ToPush

\* Mutant: an error is taken for "open already".
FinishAssumes(t, m) ==
  /\ IF op[t] = "open" /\ m # NoMsg THEN Stored(m.conn) ELSE UNCHANGED <<chan, cur, late>>
  /\ Leaves(t) /\ UNCHANGED <<rxData, reading, panicked, got, shed, pushVars, boxVars>>

\* The end of the round trip of t, with answer m, or none.
Finish(t, m) ==
  /\ IF op[t] = "open" /\ m.status = "ok" THEN Stored(m.conn) ELSE UNCHANGED <<chan, cur, late>>
  /\ Leaves(t) /\ UNCHANGED <<rxData, reading, panicked, got, shed, pushVars, boxVars>>

SendOp(t) ==
  /\ op[t] # "none" /\ Send(t, op[t])
  /\ IF writer = "off" THEN Leaves(t) ELSE UNCHANGED op
  /\ UNCHANGED <<chan, rxData, reading, panicked, cur, late, got, shed, pushVars, boxVars>>

Complete(t) == Receive(t) /\ Finish(t, Head(inbox[call[t].id]).body)
GiveUp(t)   == More /\ Timeout(t) /\ Finish(t, NoMsg)

\* passthru_close; reads take no lock of the device.
CloseDevice ==
  /\ LockFree /\ Close
  /\ chan' = FALSE /\ rxData' = <<>>
  /\ UNCHANGED <<op, reading, panicked, cur, late, got, shed, pushVars, boxVars>>
-----------------------------------------------------------------------------
(* Reading *)

\* read_channel_data looks under one lock ..
ReadCheck(t) ==
  /\ t \notin reading /\ LockFree /\ rxData # <<>>
  /\ reading' = reading \cup {t}
  /\ UNCHANGED <<linkVars, chan, rxData, op, panicked, cur, late, got, shed, pushVars, boxVars>>

\* .. and takes a message under another, if there is still one; without a channel the
\* unwrap panics.
ReadPop(t) ==
  /\ t \in reading /\ LockFree
  /\ reading' = reading \ {t}
  /\ panicked' = ~chan
  /\ IF rxData = <<>> THEN UNCHANGED <<rxData, got>>
     ELSE rxData' = Tail(rxData) /\ got' = Append(got, Head(rxData))
  /\ UNCHANGED <<linkVars, chan, op, cur, late, shed, pushVars, boxVars>>

\* CLEAR_RX_BUFFER.
ClearRx(t) ==
  /\ t \notin reading /\ LockFree /\ rxData # <<>>
  /\ shed' = shed \cup {rxData[i].msg : i \in 1 .. Len(rxData)} /\ rxData' = <<>>
  /\ UNCHANGED <<linkVars, chan, op, reading, panicked, cur, late, got, pushVars, boxVars>>
-----------------------------------------------------------------------------
(* The device *)

Answer(status, k) == [kind |-> "reply", body |-> [status |-> status, conn |-> k, n |-> 0]]

\* setup_channel: the controller may refuse, and a channel may be there already.  The
\* bound never binds, there is no connection without a call.
DevOpen ==
  \/ /\ dev = 0 /\ conns < MaxCalls /\ dev' = conns + 1 /\ conns' = conns + 1 /\ before' = sent
     /\ FwHandle(<<Answer("ok", conns + 1)>>)
  \/ FwHandle(<<Answer("err", 0)>>) /\ UNCHANGED <<dev, conns, before>>

\* remove_channel, which answers twice.
DevClose ==
  /\ FwHandle(<<Answer(IF dev # 0 THEN "ok" ELSE "err", 0), Answer("ok", 0)>>)
  /\ dev' = 0 /\ UNCHANGED <<conns, before>>

DevCommand ==
  /\ down # <<>> /\ \/ Head(down).body = "open" /\ DevOpen
                    \/ Head(down).body = "close" /\ DevClose
  /\ UNCHANGED <<sent, drvVars, pushVars>>

\* set_status_led: reset_all_channels.
DevStatus == FwStatus /\ dev' = 0 /\ UNCHANGED <<conns, sent, before, drvVars, pushVars>>

DevRestart ==
  /\ More /\ FwRestart /\ dev' = 0
  /\ UNCHANGED <<conns, sent, before, drvVars, pushVars>>

\* The channel receives a message: send_rx_data.
DevReceives ==
  /\ dev # 0 /\ sent < MaxSent /\ More /\ sent' = sent + 1
  /\ FwEmit([status |-> "data", conn |-> dev, n |-> sent + 1])
  /\ UNCHANGED <<dev, conns, before, drvVars, pushVars>>
-----------------------------------------------------------------------------
\* Steps of the link that are nobody else's.
Alone == (ReaderHello \/ OpenDone \/ ReaderExit \/ WriterCheck \/ WriterSend \/ WriterDrained)
         /\ UNCHANGED <<drvVars, pushVars, boxVars>>

RxNext ==
  \/ OpenSession \/ CloseDevice \/ Read \/ Alone
  \/ \E e \in Sessions : PushCheck(e) \/ PushTake(e) \/ PushData(e)
  \/ \E t \in Callers : Connect(t) \/ Disconnect(t) \/ SendOp(t) \/ Complete(t) \/ GiveUp(t)
  \/ \E t \in Readers : ReadCheck(t) \/ ReadPop(t) \/ ClearRx(t)
  \/ DevCommand \/ DevStatus \/ DevRestart \/ DevReceives

RxSpec == RxInit /\ [][RxNext]_rxVars
-----------------------------------------------------------------------------
\* receive_channel_data asks nobody whose data it is.  Data of an earlier connection
\* or session is in a channel only if the driver's threads had it before the channel
\* was stored: what was still on the wire, in the device or in a closed port never
\* gets in, however often calls time out, the device restarts or sessions follow
\* each other, as long as no id has come round.
OnlyLeftovers ==
  \A i \in 1 .. Len(rxData) : rxData[i].msg.conn = cur \/ rxData[i].msg \in late

\* The thread that pushes asks before every message whether its session goes on
\* (comm.rs:182), and a connect empties no queue but the channel's own.  So of all that
\* a session that is over has queued, one message at most gets into a channel that
\* is connected now, the one the thread held.
OneStray ==
  \A e \in Sessions : e < epoch => Cardinality({i \in 1 .. Len(rxData) : rxData[i].via = e}) <= 1

\* What came through one session is read in the order the device received it, each
\* message once.
InOrder ==
  LET all == got \o rxData IN
    \A i, j \in 1 .. Len(all) :
      i < j /\ all[i].via = all[j].via => all[i].msg.n < all[j].msg.n

\* Every message of the connection is read, to be read, on its way, or the application
\* cleared it, or let the queue fill up.
NothingLost ==
  chan /\ dev = cur =>
    \A n \in before + 1 .. sent :
      \/ \E i \in 1 .. Len(up) : up[i].body.n = n
      \/ \E m \in ToPush \cup shed : m.n = n
      \/ \E i \in 1 .. Len(rxData) : rxData[i].msg.n = n
      \/ \E i \in 1 .. Len(got) : got[i].msg.n = n

\* From the moment the device has opened the connection, also before the driver has
\* its answer, nothing of it is lost, reordered or read twice, although three
\* threads hand it on, the queue's lock is held for whole round trips and others
\* read between a look and a take (comm.rs:177: "prevents the serial reader thread
\* from being blocked, which could result in data being lost!").
StreamKept == InOrder /\ NothingLost
=============================================================================
