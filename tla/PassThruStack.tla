--------------------------- MODULE PassThruStack ---------------------------
(***************************************************************************)
(* The J2534 API on top of the serial link: the driver's channel table     *)
(* (driver/src/channels.rs, passthru_drv.rs, ioctl.rs) and the firmware's  *)
(* message handlers (firmware/channel.cpp and the three channel classes),  *)
(* which keep a table each and must agree through CommLink.                *)
(*                                                                         *)
(* Every action is an action of CommLink together with what the driver or  *)
(* the firmware does to its table in the same step.  A channel operation   *)
(* holds the lock of its channel from its first step to its last, as the   *)
(* code does; ApiLocks looks at the locks themselves.  Log messages and    *)
(* the content of data are left out.                                       *)
(***************************************************************************)
EXTENDS CommLink, FiniteSets

CONSTANTS
  Chans,             \* channels the application uses, of "can", "kline", "j1850"
  Forms,             \* of "short", "long", "flagged" (bit 0 of tx_flags set): what it sends
  Others,            \* of "ioctl", "init", "query": the calls it makes that leave the tables alone
  MaxFilters,        \* MAX_FILTERS_PER_CHANNEL, 10
  Mailboxes,         \* MAILBOX_COUNT: 7 on the M2, 10 on the A0
  HasKline,          \* CFG_MACCHINA_M2
  NullTextRestarts,  \* respond_err without text: faults on the A0, empty on the M2
  SetupMayFail,      \* the CAN controller may refuse a baud rate
  FrameMayFail       \* CustomCan::sendFrame may report failure

ASSUME StackAssumption ==
  /\ Chans \subseteq {"can", "kline", "j1850"} /\ Forms \subseteq {"short", "long", "flagged"}
  /\ Others \subseteq {"ioctl", "init", "query"}
  /\ MaxFilters \in Nat /\ Mailboxes \in Nat
  /\ HasKline \in BOOLEAN /\ NullTextRestarts \in BOOLEAN
  /\ SetupMayFail \in BOOLEAN /\ FrameMayFail \in BOOLEAN
  /\ ~Disciplined /\ MaxReplies >= 3   \* what the handlers below need

VARIABLES
  chan,   \* driver: CAN_CHANNEL, KLINE_CHANNEL, ..: is it Some
  filt,   \* driver: the filters marked used, per channel
  op,     \* driver: what each thread is inside
  dev     \* firmware: canChannel, klineChannel

stackVars == <<linkVars, chan, filt, op, dev>>
drvVars   == <<chan, filt, op>>
-----------------------------------------------------------------------------
Slots == 0 .. MaxFilters - 1

\* Protocols the driver maps to a channel (ChannelID::from_protocol).
Protocols(c) == CASE c = "can"   -> {"CAN", "ISO15765"}
                  [] c = "kline" -> {"ISO9141", "ISO14230"}
                  [] c = "j1850" -> {"J1850"}

NoCmd == [op |-> "none", ch |-> "none", proto |-> "none", slot |-> 0, form |-> "none"]
OpenCmd(c, p)         == [NoCmd EXCEPT !.op = "open", !.ch = c, !.proto = p]
CloseCmd(c)           == [NoCmd EXCEPT !.op = "close", !.ch = c]
SetFilterCmd(c, s, v) == [NoCmd EXCEPT !.op = "setFilter", !.ch = c, !.slot = s, !.form = v]
RemFilterCmd(c, s)    == [NoCmd EXCEPT !.op = "remFilter", !.ch = c, !.slot = s]
TxCmd(c, f)           == [NoCmd EXCEPT !.op = "tx", !.ch = c, !.form = f]
IoctlCmd(c)           == [NoCmd EXCEPT !.op = "ioctl", !.ch = c]
InitCmd(c)            == [NoCmd EXCEPT !.op = "init", !.ch = c]
QueryCmd              == [NoCmd EXCEPT !.op = "query"]

Commands ==
  (UNION {{OpenCmd(c, p) : p \in Protocols(c)} : c \in Chans})
  \cup {CloseCmd(c) : c \in Chans} \cup {IoctlCmd(c) : c \in Chans} \cup {InitCmd(c) : c \in Chans}
  \cup {SetFilterCmd(c, s, v) : c \in Chans, s \in Slots, v \in {"valid", "invalid"}}
  \cup {RemFilterCmd(c, s) : c \in Chans, s \in Slots}
  \cup {TxCmd(c, f) : c \in Chans, f \in Forms} \cup {QueryCmd}

\* Statuses of answers: STATUS_NOERROR, an error, an error sent without a text.
Answers == [status : {"ok", "err", "errNoText"}]
Data    == [status |-> "data"]

StackUpBodies == Answers \cup {Data}

ASSUME BodiesAssumption == Bodies = Commands /\ UpBodies = StackUpBodies

NoOp == [cmd |-> NoCmd, todo |-> {}]
Off  == [proto |-> "none", used |-> {}, sending |-> FALSE]

StackInit ==
  /\ LinkInit
  /\ chan = [c \in Chans |-> FALSE] /\ filt = [c \in Chans |-> {}]
  /\ op = [t \in Callers |-> NoOp]
  /\ dev = [c \in Chans |-> Off]
-----------------------------------------------------------------------------
(* The driver *)

\* Threads inside the lock of channel c.  Queries and inits take no channel lock.
Inside(c) == {t \in Callers : op[t].cmd.ch = c /\ op[t].cmd.op # "init"}
WriteFree(c) == Inside(c) = {}
ReadFree(c)  == \A t \in Inside(c) : op[t].cmd.op = "tx"

\* A thread enters run_on_m2 with a command and takes an id for it.
Begin(t, cmd, todo) ==
  /\ op[t] = NoOp
  /\ GetId(t)
  /\ op' = [op EXCEPT ![t] = [cmd |-> cmd, todo |-> todo]]
  /\ UNCHANGED dev

\* ChannelComm::create_channel and Channel::new.
Connect(t, c) ==
  /\ WriteFree(c) /\ ~chan[c]
  /\ \E p \in Protocols(c) : Begin(t, OpenCmd(c, p), {})
  /\ UNCHANGED <<chan, filt>>

\* Mutant: the channel leaves the table only when the device has answered.
DisconnectLate(t, c) ==
  /\ WriteFree(c) /\ chan[c]
  /\ Begin(t, CloseCmd(c), {}) /\ UNCHANGED <<chan, filt>>

\* destroy_channel takes the channel out of the table before it asks the device.
Disconnect(t, c) ==
  /\ WriteFree(c) /\ chan[c]
  /\ Begin(t, CloseCmd(c), {})
  /\ chan' = [chan EXCEPT ![c] = FALSE] /\ filt' = [filt EXCEPT ![c] = {}]

IsLowest(s, S) == s \in S /\ \A r \in S : s <= r

\* Mutant: slots are taken from the end, one too far.
SetFilterPast(t, c) ==
  /\ WriteFree(c) /\ chan[c]
  /\ Begin(t, SetFilterCmd(c, MaxFilters - Cardinality(filt[c]), "valid"), {})
  /\ UNCHANGED <<chan, filt>>

\* add_filter: the first free slot.
SetFilter(t, c) ==
  /\ WriteFree(c) /\ chan[c]
  /\ \E s \in Slots, v \in {"valid", "invalid"} :
       IsLowest(s, Slots \ filt[c]) /\ Begin(t, SetFilterCmd(c, s, v), {})
  /\ UNCHANGED <<chan, filt>>

RemFilter(t, c) ==
  /\ WriteFree(c) /\ chan[c]
  /\ \E s \in filt[c] : Begin(t, RemFilterCmd(c, s), {})
  /\ UNCHANGED <<chan, filt>>

\* remove_all_filters: one round trip per slot, in order, under one lock.  The
\* bound on calls leaves room for all of them.
ClearFilters(t, c) ==
  /\ WriteFree(c) /\ chan[c] /\ calls + Cardinality(filt[c]) <= MaxCalls
  /\ \E s \in Slots : IsLowest(s, filt[c]) /\ Begin(t, RemFilterCmd(c, s), filt[c] \ {s})
  /\ UNCHANGED <<chan, filt>>

ClearNext(t) ==
  /\ op[t] # NoOp /\ call[t].st = "idle"
  /\ GetId(t)
  /\ \E s \in Slots :
       /\ IsLowest(s, op[t].todo)
       /\ op' = [op EXCEPT ![t] = [cmd |-> RemFilterCmd(op[t].cmd.ch, s), todo |-> @.todo \ {s}]]
  /\ UNCHANGED <<chan, filt, dev>>

\* transmit_data that waits for its answer, and that does not.
Write(t, c) ==
  /\ ReadFree(c) /\ chan[c]
  /\ \E f \in Forms : Begin(t, TxCmd(c, f), {})
  /\ UNCHANGED <<chan, filt>>

WriteNoWait(t, c) ==
  /\ ReadFree(c) /\ chan[c] /\ op[t] = NoOp
  /\ \E f \in Forms : Post(t, TxCmd(c, f))
  /\ UNCHANGED <<drvVars, dev>>

\* ioctl_get_config, ioctl_set_config.
Ioctl(t, c) ==
  /\ "ioctl" \in Others /\ WriteFree(c) /\ chan[c]
  /\ Begin(t, IoctlCmd(c), {}) /\ UNCHANGED <<chan, filt>>

\* fast_init and five_baud_init look at no channel of the driver.
InitBus(t, c) == "init" \in Others /\ Begin(t, InitCmd(c), {}) /\ UNCHANGED <<chan, filt>>

\* read_vbatt and the firmware version.
Query(t) == "query" \in Others /\ Begin(t, QueryCmd, {}) /\ UNCHANGED <<chan, filt>>

SendOp(t) ==
  /\ op[t] # NoOp /\ Send(t, op[t].cmd)
  /\ op' = IF writer = "off" THEN [op EXCEPT ![t] = NoOp] ELSE op
  /\ UNCHANGED <<chan, filt, dev>>

\* Mutant: the slot is marked used before the device has agreed.
FinishMarks(t, ok) ==
  LET cmd == op[t].cmd IN
    /\ chan' = IF ok /\ cmd.op = "open" THEN [chan EXCEPT ![cmd.ch] = TRUE] ELSE chan
    /\ filt' = IF cmd.op = "setFilter" THEN [filt EXCEPT ![cmd.ch] = @ \cup {cmd.slot}] ELSE filt
    /\ op' = [op EXCEPT ![t] = NoOp]
    /\ UNCHANGED dev

\* What the driver does with the status of its command, whatever command the
\* answer was for; "destroy" ignores it.
Finish(t, ok) ==
  LET cmd == op[t].cmd IN
    /\ chan' = IF ok /\ cmd.op = "open" THEN [chan EXCEPT ![cmd.ch] = TRUE] ELSE chan
    /\ filt' = CASE ok /\ cmd.op = "setFilter" -> [filt EXCEPT ![cmd.ch] = @ \cup {cmd.slot}]
                 [] ok /\ cmd.op = "remFilter" -> [filt EXCEPT ![cmd.ch] = @ \ {cmd.slot}]
                 [] OTHER -> filt
    /\ op' = IF ok /\ op[t].todo # {} THEN op ELSE [op EXCEPT ![t] = NoOp]
    /\ UNCHANGED dev

Complete(t) == Receive(t) /\ Finish(t, Head(inbox[call[t].id]).body.status = "ok")
GiveUp(t)   == Timeout(t) /\ Finish(t, FALSE)

\* Mutant: the device is dropped while a call is inside run_on_m2.
CloseDeviceAtOnce ==
  /\ session = "up" /\ running' = FALSE /\ session' = "none"
  /\ inbox' = [i \in Ids |-> <<>>]
  /\ chan' = [c \in Chans |-> FALSE] /\ filt' = [c \in Chans |-> {}]
  /\ UNCHANGED <<epoch, reader, writer, msgId, calls, posts, timeouts, txQueue, call, down, up, devVars,
                 op, dev>>

\* passthru_close and force_destroy_all_channels, which take every lock.
CloseDevice ==
  /\ Close /\ \A c \in Chans : WriteFree(c)
  /\ chan' = [c \in Chans |-> FALSE] /\ filt' = [c \in Chans |-> {}]
  /\ UNCHANGED <<op, dev>>

\* The link's own steps, which touch neither table.
Alone(A) == A /\ UNCHANGED <<drvVars, dev>>
DriverThreads == Alone(OpenStart \/ OpenDone \/ HostThreads)
-----------------------------------------------------------------------------
(* The firmware.  A handler's outcome: what becomes of the channel of the    *)
(* command, and what the handler sends, in order.                            *)

Outcome(d, outs) == [chan |-> d, outs |-> outs]
Reply(a)  == [kind |-> "reply", body |-> [status |-> a]]
Confirm   == [kind |-> "async", body |-> Data]   \* TX_MSG_TYPE, sent as received data
On(d)     == d.proto # "none"
ReplyIf(asked, a) == IF asked THEN <<Reply(a)>> ELSE <<>>

\* setup_channel, create_can_channel, create_lin_channel and the setup methods.
HandleOpen(m, d) ==
  CASE m.body.ch = "can" /\ ~On(d) ->
         {Outcome([Off EXCEPT !.proto = m.body.proto], <<Reply("ok")>>)}
         \cup IF SetupMayFail THEN {Outcome(d, <<Reply("err")>>)} ELSE {}
    [] m.body.ch = "kline" /\ HasKline /\ ~On(d) /\ m.body.proto = "ISO9141" ->
         {Outcome([Off EXCEPT !.proto = "ISO9141"], <<Reply("ok")>>)}
    [] m.body.ch = "can" /\ On(d) -> {Outcome(d, <<Reply("errNoText")>>)}
    [] m.body.ch = "kline" /\ HasKline /\ (On(d) \/ m.body.proto # "ISO9141") ->
         {Outcome(d, <<Reply("errNoText")>>)}
    [] OTHER -> {Outcome(d, <<Reply("err")>>)}

\* remove_channel answers after delete_channel has answered already.
HandleClose(m, d) ==
  IF m.body.ch \notin {"can", "kline"} THEN {Outcome(d, <<Reply("err")>>)}
  ELSE IF On(d) THEN {Outcome(Off, <<Reply("ok"), Reply("ok")>>)}
  ELSE {Outcome(d, <<Reply("errNoText"), Reply("ok")>>)}

\* CanChannel::addFilter; the one of ISO15765Channel answers alike.
CanAddFilter(m, d) ==
  IF m.body.form = "invalid" THEN {Outcome(d, <<Reply("err")>>)}
  ELSE IF m.body.slot >= Mailboxes THEN {Outcome(d, <<Reply("errNoText")>>)}
  ELSE IF m.body.slot \in d.used THEN {Outcome(d, <<Reply("err")>>)}
  ELSE {Outcome([d EXCEPT !.used = @ \cup {m.body.slot}], <<Reply("ok")>>)}

\* add_channel_filter refuses a flow control filter without its third message
\* before it looks at the channel; the K-line takes every filter.
HandleSetFilter(m, d) ==
  CASE m.body.ch \notin {"can", "kline"} -> {Outcome(d, <<Reply("err")>>)}
    [] m.body.ch = "can" /\ On(d) -> CanAddFilter(m, d)
    [] OTHER ->
         {Outcome(d, <<Reply(a)>>) : a \in {IF On(d) THEN "ok" ELSE "errNoText"}
                                           \cup IF m.body.form = "invalid" THEN {"err"} ELSE {}}

\* CanChannel::removeFilter; the one of ISO15765Channel has a text for its error.
CanRemoveFilter(m, d) ==
  IF m.body.slot \in d.used
    THEN {Outcome([d EXCEPT !.used = @ \ {m.body.slot}], <<Reply("ok")>>)}
    ELSE {Outcome(d, <<Reply(IF d.proto = "CAN" THEN "errNoText" ELSE "err")>>)}

\* del_channel_filter, silent for an unknown channel.
HandleRemFilter(m, d) ==
  CASE m.body.ch \notin {"can", "kline"} -> {Outcome(d, <<>>)}
    [] m.body.ch \in {"can", "kline"} /\ ~On(d) -> {Outcome(d, <<Reply("err")>>)}
    [] m.body.ch = "kline" /\ On(d) -> {Outcome(d, <<Reply("ok")>>)}
    [] OTHER -> CanRemoveFilter(m, d)

\* CanChannel::sendMsg: with loopback on, the message comes back.
CanSendMsg(d, asked) ==
  {Outcome(d, ReplyIf(asked, "ok")), Outcome(d, Append(ReplyIf(asked, "ok"), Confirm))}

\* Mutant: a frame that could not be sent is not answered.
IsoSendMsgQuiet(m, d, asked) ==
  {Outcome(d, IF sent THEN Append(ReplyIf(asked, "ok"), Confirm) ELSE <<>>) :
     sent \in {TRUE} \cup IF FrameMayFail THEN {FALSE} ELSE {}}

\* ISO15765Channel::sendMsg.  (tx_flags & ISO15765_ADDR_TYPE > 0) tests bit 0, and
\* its error is sent asked or not.  A long message is only begun: it is answered
\* neither now nor when it is done.
IsoSendMsg(m, d, asked) ==
  CASE m.body.form = "flagged" -> {Outcome(d, <<Reply("err")>>)}
    [] m.body.form = "short" ->
         {Outcome(d, Append(ReplyIf(asked, a), Confirm)) :
            a \in {"ok"} \cup IF FrameMayFail THEN {"err"} ELSE {}}
    [] OTHER ->
         IF d.sending THEN {Outcome(d, ReplyIf(asked, "errNoText"))}
         ELSE {Outcome([d EXCEPT !.sending = TRUE], <<>>)}

\* send_data, and Iso9141Channel::sendMsg, which sends nothing.
HandleTx(m, d) ==
  LET asked == m.id # 0 IN
    CASE m.body.ch \notin {"can", "kline"} -> {Outcome(d, ReplyIf(asked, "err"))}
      [] m.body.ch \in {"can", "kline"} /\ ~On(d) -> {Outcome(d, ReplyIf(asked, "errNoText"))}
      [] d.proto = "CAN" -> CanSendMsg(d, asked)
      [] d.proto = "ISO9141" -> {Outcome(d, <<Reply("ok")>>)}
      [] OTHER -> IsoSendMsg(m, d, asked)

\* Iso9141Channel::wakeup, after what was sent "first": a first read that times out
\* answers before the second read answers again.
Wakeup(d, first) ==
  {Outcome(d, Append(first, Reply(a))) : a \in {"ok", "err"}}
  \cup {Outcome(d, first \o <<Reply("err"), Reply(a)>>) : a \in {"ok", "err"}}

\* init_lin_channel, whose check of the channel id does not return.
HandleInit(m, d) ==
  LET first == IF m.body.ch = "kline" THEN <<>> ELSE <<Reply("errNoText")>>
      kline == IF "kline" \in Chans THEN dev["kline"] ELSE Off
  IN IF On(kline) THEN Wakeup(d, first) ELSE {Outcome(d, Append(first, Reply("errNoText")))}

\* ioctl_get, ioctl_set: the parameter may be known or not.
HandleIoctl(m, d) ==
  IF m.body.ch \notin {"can", "kline"} THEN {Outcome(d, <<Reply("errNoText")>>)}
  ELSE {Outcome(d, <<Reply(a)>>) : a \in IF On(d) THEN {"ok", "err"} ELSE {"err"}}

Handle(m, d) ==
  CASE m.body.op = "open"      -> HandleOpen(m, d)
    [] m.body.op = "close"     -> HandleClose(m, d)
    [] m.body.op = "setFilter" -> HandleSetFilter(m, d)
    [] m.body.op = "remFilter" -> HandleRemFilter(m, d)
    [] m.body.op = "tx"        -> HandleTx(m, d)
    [] m.body.op = "init"      -> HandleInit(m, d)
    [] m.body.op = "ioctl"     -> HandleIoctl(m, d)
    [] m.body.op = "query"     -> {Outcome(d, <<Reply("ok")>>)}
    [] OTHER                   -> {Outcome(d, <<>>)}

\* Where a handler dies on the A0: at its first answer without a text.
Deaths(outs) ==
  IF NullTextRestarts THEN {i \in 1 .. Len(outs) : outs[i] = Reply("errNoText")} ELSE {}

AllOff == [c \in Chans |-> Off]

\* loop() with a command.
DevCommand ==
  /\ down # <<>> /\ Head(down).kind = "cmd"
  /\ LET m == Head(down)
         c == m.body.ch
     IN \E o \in Handle(m, IF c \in Chans THEN dev[c] ELSE Off) :
          \/ /\ Deaths(o.outs) = {} /\ FwHandle(o.outs)
             /\ dev' = IF c \in Chans THEN [dev EXCEPT ![c] = o.chan] ELSE dev
          \/ \E i \in 1 .. Len(o.outs) :
               IsLowest(i, Deaths(o.outs)) /\ FwCrash(SubSeq(o.outs, 1, i - 1)) /\ dev' = AllOff
  /\ UNCHANGED drvVars

\* Mutant: goodbye leaves the channels open.
DevStatusHello ==
  FwStatus /\ dev' = (IF Head(down).kind = "hello" THEN AllOff ELSE dev) /\ UNCHANGED drvVars

\* loop() with a status message, hello or goodbye: set_status_led.
DevStatus == FwStatus /\ dev' = AllOff /\ UNCHANGED drvVars

\* Bound: channel_loop has at most one message on its way to the host.
DataUnderWay == \E i \in 1 .. Len(up) : up[i].kind = "async"

\* channel_loop: the channel hands received data up; the K-line never does.
DevReceived(c) ==
  /\ c = "can" /\ dev[c].used # {} /\ ~DataUnderWay /\ FwEmit(Data)
  /\ UNCHANGED <<drvVars, dev>>

\* handle_fc: a flow control frame makes the channel send, even if it has nothing
\* to send.
DevFlowControl(c) ==
  /\ dev[c].proto = "ISO15765" /\ dev[c].used # {} /\ ~dev[c].sending
  /\ dev' = [dev EXCEPT ![c].sending = TRUE]
  /\ UNCHANGED <<linkVars, drvVars>>

\* tx_multi_frame sends the last frame of a long message.
DevSent(c) ==
  /\ dev[c].sending /\ ~DataUnderWay /\ FwEmit(Data)
  /\ dev' = [dev EXCEPT ![c].sending = FALSE]
  /\ UNCHANGED drvVars

ChannelLoop == \E c \in Chans : DevReceived(c) \/ DevFlowControl(c) \/ DevSent(c)

DevRestart == FwRestart /\ dev' = AllOff /\ UNCHANGED drvVars
-----------------------------------------------------------------------------
Api(t) ==
  \/ \E c \in Chans : Connect(t, c) \/ Disconnect(t, c) \/ SetFilter(t, c) \/ RemFilter(t, c)
                      \/ ClearFilters(t, c) \/ Write(t, c) \/ WriteNoWait(t, c) \/ Ioctl(t, c)
                      \/ InitBus(t, c)
  \/ Query(t) \/ ClearNext(t) \/ SendOp(t) \/ Complete(t) \/ GiveUp(t)

StackNext ==
  \/ \E t \in Callers : Api(t)
  \/ CloseDevice \/ DriverThreads
  \/ DevCommand \/ DevStatus \/ DevRestart \/ ChannelLoop

StackSpec == StackInit /\ [][StackNext]_stackVars

\* As in CommLink.
FairStackSpec ==
  /\ StackSpec
  /\ WF_stackVars(Alone(ReaderHello)) /\ WF_stackVars(Alone(ReaderTake))
  /\ WF_stackVars(Alone(WriterCheck)) /\ WF_stackVars(Alone(WriterSend))
  /\ WF_stackVars(Alone(OpenDone)) /\ WF_stackVars(DevStatus) /\ SF_stackVars(DevCommand)
  /\ \A t \in Callers :
       WF_stackVars(SendOp(t)) /\ WF_stackVars(Complete(t)) /\ WF_stackVars(ClearNext(t))
-----------------------------------------------------------------------------
StackTypeOK ==
  /\ TypeOK
  /\ chan \in [Chans -> BOOLEAN] /\ filt \in [Chans -> SUBSET Slots]
  /\ op \in [Callers -> [cmd : Commands \cup {NoCmd}, todo : SUBSET Slots]]
  /\ dev \in [Chans -> [proto : {"none", "CAN", "ISO15765", "ISO9141"}, used : SUBSET Slots,
                        sending : BOOLEAN]]

\* No session is being opened or closed on the wire.
NoStatusUnderWay == \A i \in 1 .. Len(down) : down[i].kind = "cmd"

\* Until a call times out, and without lost writes and ids that wrap, the two tables
\* agree whenever no operation is inside the channel's lock: a channel is open in the driver iff
\* the device has it, with the same filters (channels.rs Channel.filters against
\* used_mailboxes).
TablesAgree ==
  timeouts = 0 /\ session = "up" /\ NoStatusUnderWay /\ reader = "loop" =>
    \A c \in Chans : Inside(c) = {} =>
      /\ chan[c] = On(dev[c])
      /\ c = "can" => filt[c] = dev[c].used

\* Timeouts may leave the device with a channel the driver does not have, never
\* the driver with one the device lost: the driver gives a channel up before it
\* asks for it to be closed, and requests are handled in the order they are sent.
DriverOpenIsDeviceOpen == \A c \in Chans : chan[c] => On(dev[c])

\* After a session is closed and its last message is handled the device is idle,
\* however the application left its channels (channel.h:33 "removes all channels,
\* returning the M2 back to its idle state").  A request that timed out in the
\* writer's queue could be written behind the goodbye, so this holds until a call
\* times out.
IdleAfterGoodbye ==
  timeouts = 0 /\ session = "none" /\ reader = "off" /\ writer = "off" /\ down = <<>> =>
    \A c \in Chans : ~On(dev[c])

\* Every operation ends without a timeout, CLEAR_MSG_FILTERS with its chain of
\* round trips too, as long as no long ISO-TP message is written.
OperationsEnd == \A t \in Callers : op[t] # NoOp ~> op[t] = NoOp
=============================================================================
