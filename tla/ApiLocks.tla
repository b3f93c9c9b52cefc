------------------------------ MODULE ApiLocks ------------------------------
(***************************************************************************)
(* The locks of the J2534 driver: the RwLock around the device (M2 in      *)
(* driver/src/comm.rs) and the RwLock around each channel                  *)
(* (driver/src/channels.rs), taken by the application's threads in         *)
(* passthru_drv.rs and ioctl.rs, and by the thread that stores received    *)
(* data.  A lock is poisoned by a panic of its writer.                     *)
(*                                                                         *)
(* An exchange with the device is one step that ends (CommLink has its     *)
(* own).  Channels are numbered as ChannelID numbers them.  A channel is   *)
(* written as the session it was opened in, 0 if None; the number of the   *)
(* session is history.                                                     *)
(***************************************************************************)
EXTENDS Integers

CONSTANTS
  Callers,      \* the application's threads
  NumChans,     \* number of channels, 4 in the code
  Apps,         \* applications, each the set of calls it makes
  MaxQueue,     \* MAX_QUEUE_MSGS, 500
  MaxFilters,   \* MAX_FILTERS_PER_CHANNEL: at most so many exchanges clear a channel
  MaxCalls,     \* bound: calls
  MaxSessions   \* bound: sessions

DeviceOps == {"connect", "disconnect", "filter", "clear", "write"}
AllOps    == DeviceOps \cup {"open", "close", "query", "read", "clearRx", "badId"}

ASSUME LocksAssumption ==
  /\ NumChans \in Nat /\ Apps \subseteq SUBSET AllOps /\ MaxQueue \in Nat /\ MaxFilters \in Nat
  /\ MaxCalls \in Nat /\ MaxSessions \in Nat

VARIABLES
  device,  \* M2: is it Some
  epoch,   \* history: sessions so far
  port,    \* the serial port: "free", "open", "closing" (its threads still run)
  chan,    \* CAN_CHANNEL, ..: 0 if None, or the session it was opened in
  rx,      \* rx_data of the channel: how many messages
  m2,      \* the lock of M2
  lk,      \* the locks of the channels
  pc,      \* what each thread is doing
  calls,   \* how many calls were made
  app      \* the application

tables == <<device, epoch, port, chan, rx>>
lvars  == <<tables, m2, lk, pc, calls, app>>
-----------------------------------------------------------------------------
Chans  == 0 .. NumChans - 1
Lock   == [r : SUBSET Callers, w : SUBSET Callers, bad : BOOLEAN]
Unlocked == [r |-> {}, w |-> {}, bad |-> FALSE]

\* "at" is the step the thread is about to take; "n" counts, or is a session.
Places == {"begin", "port", "store", "kill", "m2", "io", "ok", "leave", "pop"}
Idle   == [op |-> "none", ch |-> 0, at |-> "begin", n |-> 0]
Dead   == [op |-> "panicked", ch |-> 0, at |-> "begin", n |-> 0]

LocksInit ==
  /\ device = FALSE /\ epoch = 0 /\ port = "free"
  /\ chan = [c \in Chans |-> 0] /\ rx = [c \in Chans |-> 0]
  /\ m2 = Unlocked /\ lk = [c \in Chans |-> Unlocked]
  /\ pc = [t \in Callers |-> Idle] /\ calls = 0 /\ app \in Apps

CanRead(l)  == l.w = {}
CanWrite(l) == l.w = {} /\ l.r = {}
Readers(l, R) == [l EXCEPT !.r = R]
Writers(l, W) == [l EXCEPT !.w = W]
Released(l, t) == [l EXCEPT !.r = @ \ {t}, !.w = @ \ {t}]
Poisoned(l)   == [r |-> {}, w |-> {}, bad |-> TRUE]

At(t, op, at) == pc[t].op = op /\ pc[t].at = at
Goto(t, at)   == pc' = [pc EXCEPT ![t].at = at]
Return(t)     == pc' = [pc EXCEPT ![t] = Idle]
Panic(t)      == pc' = [pc EXCEPT ![t] = Dead]

Start(t) ==
  /\ pc[t].op = "none" /\ calls < MaxCalls /\ calls' = calls + 1
  /\ \E op \in app, c \in Chans :
       pc' = [pc EXCEPT ![t] = [op |-> op, ch |-> c, at |-> "begin", n |-> 0]]
  /\ UNCHANGED <<tables, m2, lk>>
-----------------------------------------------------------------------------
(* passthru_open and passthru_close *)

OpenCheck(t) ==
  /\ At(t, "open", "begin") /\ CanRead(m2)
  /\ IF m2.bad THEN Panic(t) ELSE IF device THEN Return(t) ELSE Goto(t, "port")
  /\ UNCHANGED <<tables, m2, lk, calls>>

\* Mutant: the port is opened though it is in use.
OpenPortShared(t) ==
  /\ At(t, "open", "port") /\ epoch < MaxSessions
  /\ port' = "open" /\ Goto(t, "store")
  /\ UNCHANGED <<device, epoch, chan, rx, m2, lk, calls>>

\* open_connection: the port is opened exclusively, and may not be there.
OpenPort(t) ==
  /\ At(t, "open", "port")
  /\ \/ Return(t) /\ UNCHANGED port
     \/ port = "free" /\ epoch < MaxSessions /\ port' = "open" /\ Goto(t, "store")
  /\ UNCHANGED <<device, epoch, chan, rx, m2, lk, calls>>

\* With M2 poisoned the device is dropped, and its threads go on.
OpenStore(t) ==
  /\ At(t, "open", "store") /\ CanWrite(m2)
  /\ IF m2.bad THEN UNCHANGED <<device, epoch>> ELSE device' = TRUE /\ epoch' = epoch + 1
  /\ Return(t)
  /\ UNCHANGED <<port, chan, rx, m2, lk, calls>>

CloseBegin(t) ==
  /\ At(t, "close", "begin") /\ CanWrite(m2)
  /\ IF m2.bad \/ ~device
       THEN Return(t) /\ UNCHANGED m2
       ELSE m2' = Writers(m2, {t}) /\ pc' = [pc EXCEPT ![t] = [@ EXCEPT !.at = "kill", !.n = 0]]
  /\ UNCHANGED <<tables, lk, calls>>

\* Mutant: the last channel is forgotten.
CloseKillButLast(t) ==
  /\ At(t, "close", "kill") /\ pc[t].n < NumChans
  /\ LET c == pc[t].n IN
       /\ CanWrite(lk[c])
       /\ chan' = IF c = NumChans - 1 THEN chan ELSE [chan EXCEPT ![c] = 0]
       /\ pc' = [pc EXCEPT ![t].n = c + 1]
       /\ UNCHANGED <<device, epoch, port, rx, m2, lk, calls>>

\* force_destroy_all_channels: one channel after the other, with M2 locked.
CloseKill(t) ==
  /\ At(t, "close", "kill") /\ pc[t].n < NumChans
  /\ LET c == pc[t].n IN
       /\ CanWrite(lk[c])
       /\ IF lk[c].bad
            THEN Panic(t) /\ m2' = Poisoned(m2) /\ UNCHANGED <<chan, rx>>
            ELSE /\ chan' = [chan EXCEPT ![c] = 0] /\ rx' = [rx EXCEPT ![c] = 0]
                 /\ pc' = [pc EXCEPT ![t].n = c + 1] /\ UNCHANGED m2
  /\ UNCHANGED <<device, epoch, port, lk, calls>>

CloseEnd(t) ==
  /\ At(t, "close", "kill") /\ pc[t].n = NumChans
  /\ device' = FALSE /\ port' = "closing" /\ m2' = Writers(m2, {}) /\ Return(t)
  /\ UNCHANGED <<epoch, chan, rx, lk, calls>>

\* The reader and the writer thread have ended and dropped the port.
PortFreed ==
  /\ port = "closing" /\ port' = "free"
  /\ UNCHANGED <<device, epoch, chan, rx, m2, lk, pc, calls>>
-----------------------------------------------------------------------------
(* Channel operations that talk to the device: the channel's lock, then M2's. *)

\* create_channel, destroy_channel, ioctl_*, .. up to run_on_m2.
\* write_channel_data only reads the channel.
LockChannel(t) ==
  /\ pc[t].op \in DeviceOps /\ pc[t].at = "begin"
  /\ LET c == pc[t].ch
         op == pc[t].op
     IN /\ IF op = "write" THEN CanRead(lk[c]) ELSE CanWrite(lk[c])
        /\ IF lk[c].bad
             THEN (IF op = "clear" THEN Panic(t) ELSE Return(t)) /\ UNCHANGED <<chan, rx, lk>>
             ELSE IF (chan[c] = 0) # (op = "connect") THEN Return(t) /\ UNCHANGED <<chan, rx, lk>>
             ELSE /\ lk' = [lk EXCEPT ![c] = IF op = "write" THEN Readers(@, @.r \cup {t})
                                                             ELSE Writers(@, {t})]
                  /\ chan' = IF op = "disconnect" THEN [chan EXCEPT ![c] = 0] ELSE chan
                  /\ rx' = IF op = "disconnect" THEN [rx EXCEPT ![c] = 0] ELSE rx
                  /\ Goto(t, "m2")
  /\ UNCHANGED <<device, epoch, port, m2, calls>>

\* run_on_m2.
EnterM2(t) ==
  /\ pc[t].at = "m2" \/ At(t, "query", "begin")
  /\ CanRead(m2)
  /\ IF m2.bad \/ ~device
       THEN Goto(t, "leave") /\ UNCHANGED m2
       ELSE m2' = Readers(m2, m2.r \cup {t}) /\ Goto(t, "io")
  /\ UNCHANGED <<tables, lk, calls>>

\* A new channel is one of the session that is open.
Result(t) == IF pc[t].op = "connect" THEN epoch ELSE pc[t].n

\* Mutant: the next filter is removed by a call that takes the channel's lock again.
ExchangeRelock(t) ==
  /\ pc[t].at = "io"
  /\ m2' = Readers(m2, m2.r \ {t})
  /\ \/ pc' = [pc EXCEPT ![t] = [@ EXCEPT !.at = "ok", !.n = Result(t)]]
     \/ Goto(t, "leave")
     \/ pc[t].op = "clear" /\ Goto(t, "begin")
  /\ UNCHANGED <<tables, lk, calls>>

\* The exchange ends, with an answer or a timeout.  remove_all_filters goes on to
\* the next filter.
Exchange(t) ==
  /\ pc[t].at = "io"
  /\ m2' = Readers(m2, m2.r \ {t})
  /\ \/ pc' = [pc EXCEPT ![t] = [@ EXCEPT !.at = "ok", !.n = Result(t)]]
     \/ Goto(t, "leave")
     \/ pc[t].op = "clear" /\ pc[t].n + 1 < MaxFilters
        /\ pc' = [pc EXCEPT ![t] = [@ EXCEPT !.at = "m2", !.n = pc[t].n + 1]]
  /\ UNCHANGED <<tables, lk, calls>>

\* The rest of the call, with M2 released and the channel still locked.
Leave(t) ==
  /\ pc[t].at \in {"ok", "leave"}
  /\ LET c == pc[t].ch
         stored == pc[t].op = "connect" /\ pc[t].at = "ok"
     IN /\ chan' = IF stored THEN [chan EXCEPT ![c] = pc[t].n] ELSE chan
        /\ rx' = IF stored THEN [rx EXCEPT ![c] = 0] ELSE rx
        /\ lk' = IF pc[t].op = "query" THEN lk
                 ELSE [lk EXCEPT ![c] = Released(@, t)]
  /\ Return(t)
  /\ UNCHANGED <<device, epoch, port, m2, calls>>
-----------------------------------------------------------------------------
(* Channel operations that do not talk to the device *)

\* Mutant: it does not look whether the channel is there.
ReadCheckLess(t) ==
  /\ At(t, "read", "begin") /\ CanRead(lk[pc[t].ch]) /\ Goto(t, "pop")
  /\ UNCHANGED <<tables, m2, lk, calls>>

\* read_channel_data: first it looks, with the lock to read.
ReadCheck(t) ==
  /\ At(t, "read", "begin")
  /\ LET c == pc[t].ch IN
       /\ CanRead(lk[c])
       /\ IF lk[c].bad THEN Panic(t)
          ELSE IF chan[c] = 0 \/ rx[c] = 0 THEN Return(t) ELSE Goto(t, "pop")
  /\ UNCHANGED <<tables, m2, lk, calls>>

\* Mutant: it takes a message that another thread may have taken.
ReadPopUnchecked(t) ==
  /\ At(t, "read", "pop") /\ CanWrite(lk[pc[t].ch])
  /\ rx' = [rx EXCEPT ![pc[t].ch] = @ - 1] /\ Return(t)
  /\ UNCHANGED <<device, epoch, port, chan, m2, lk, calls>>

\* Then it takes, with the lock to write, and unwraps the channel.
ReadPop(t) ==
  /\ At(t, "read", "pop")
  /\ LET c == pc[t].ch IN
       /\ CanWrite(lk[c])
       /\ IF ~lk[c].bad /\ chan[c] = 0
            THEN Panic(t) /\ lk' = [lk EXCEPT ![c] = Poisoned(@)]
            ELSE Return(t) /\ UNCHANGED lk
       /\ rx' = IF lk[c].bad \/ rx[c] = 0 THEN rx ELSE [rx EXCEPT ![c] = @ - 1]
  /\ UNCHANGED <<device, epoch, port, chan, m2, calls>>

\* clear_rx_buffer, and clear_tx_buffer, which has nothing to clear.
ClearRx(t) ==
  /\ At(t, "clearRx", "begin")
  /\ LET c == pc[t].ch IN
       /\ CanWrite(lk[c])
       /\ IF lk[c].bad THEN Panic(t) /\ UNCHANGED rx
          ELSE Return(t) /\ (rx' = [rx EXCEPT ![c] = 0] \/ UNCHANGED rx)
  /\ UNCHANGED <<device, epoch, port, chan, m2, lk, calls>>

\* remove_filter with an id of ten or more: filters[id].
BadFilterId(t) ==
  /\ At(t, "badId", "begin")
  /\ LET c == pc[t].ch IN
       /\ CanWrite(lk[c])
       /\ IF lk[c].bad \/ chan[c] = 0 THEN Return(t) /\ UNCHANGED lk
          ELSE Panic(t) /\ lk' = [lk EXCEPT ![c] = Poisoned(@)]
  /\ UNCHANGED <<tables, m2, calls>>

\* receive_channel_data, on the thread that pushes data to the channels and may
\* outlive its session; a message for a channel that is not there is dropped.
Push(c) ==
  /\ CanWrite(lk[c]) /\ ~lk[c].bad /\ chan[c] # 0
  /\ rx[c] < MaxQueue /\ rx' = [rx EXCEPT ![c] = @ + 1]
  /\ UNCHANGED <<device, epoch, port, chan, m2, lk, pc, calls>>
-----------------------------------------------------------------------------
Step(t) ==
  \/ OpenCheck(t) \/ OpenPort(t) \/ OpenStore(t) \/ CloseBegin(t) \/ CloseKill(t) \/ CloseEnd(t)
  \/ LockChannel(t) \/ EnterM2(t) \/ Exchange(t) \/ Leave(t)
  \/ ReadCheck(t) \/ ReadPop(t) \/ ClearRx(t) \/ BadFilterId(t)

Keeps(A) == A /\ UNCHANGED app

LocksNext ==
  \/ \E t \in Callers : Keeps(Start(t)) \/ Keeps(Step(t))
  \/ Keeps(PortFreed) \/ \E c \in Chans : Keeps(Push(c))

LocksSpec == LocksInit /\ [][LocksNext]_lvars

\* A thread inside a call runs on; an exchange ends with its timeout.  The calls
\* are bounded, so no lock needs to be fair.
FairLocksSpec == LocksSpec /\ WF_lvars(Keeps(PortFreed)) /\ \A t \in Callers : WF_lvars(Keeps(Step(t)))
-----------------------------------------------------------------------------
LocksTypeOK ==
  /\ device \in BOOLEAN /\ epoch \in Nat /\ port \in {"free", "open", "closing"}
  /\ chan \in [Chans -> Nat] /\ rx \in [Chans -> 0 .. MaxQueue]
  /\ m2 \in Lock /\ lk \in [Chans -> Lock]
  /\ pc \in [Callers -> [op : AllOps \cup {"none", "panicked"}, ch : Nat, at : Places, n : Nat]]
  /\ calls \in Nat /\ app \in Apps

\* A channel in the table was opened in the session that is open: neither a
\* connect under way while the device is closed, nor one in the middle of
\* passthru_close, leaves a channel behind for the next session.  The channel is
\* stored after M2 is released; only the order of the locks protects it.
ChannelOfSession == \A c \in Chans : chan[c] # 0 => device /\ chan[c] = epoch

\* Two calls may race to open the device; at most one holds the port, and the
\* device is never replaced under the calls of the first.
OneDevice ==
  \A t \in Callers : At(t, "open", "store") => ~device /\ port = "open"

\* Calls of an application that does not close the device end, whatever the
\* others do, panics that poison locks among it.
EveryCallEnds ==
  \A t \in Callers : pc[t].op # "none" ~> pc[t].op \in {"none", "panicked"} \/ "close" \in app

\* No call panics, as long as the application names its filters right and takes
\* no channel away from a thread that reads it: the unwraps of locks, and of the
\* channel that read_channel_data looked at before (channels.rs:237), hold.
NoPanic ==
  app \cap {"close", "disconnect", "badId"} = {} => \A t \in Callers : pc[t].op # "panicked"

\* passthru_close kills the open channels and comes back (passthru_drv.rs:138
\* "Kill all open channels if any exist").
CloseEnds == \A t \in Callers : pc[t].op = "close" ~> pc[t].op = "none"
=============================================================================
