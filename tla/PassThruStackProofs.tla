------------------------ MODULE PassThruStackProofs ------------------------
(***************************************************************************)
(* PassThruStack implements CommLink, for every set of channels, number of *)
(* threads, filters and mailboxes and on both devices: every step of the   *)
(* API and of the firmware's handlers is a step of the link.  What is      *)
(* proved of the link then holds of the stack.                             *)
(*                                                                         *)
(* Only two kinds of step need more than their definition: a thread sends  *)
(* what it stored in op several steps before, which OpInv types, and a     *)
(* handler's messages must be among HandlerOuts, which HandleOuts shows.   *)
(*                                                                         *)
(* Then the two tables: a channel the driver has is one the device has     *)
(* (StackDriverOpen), from the order in which commands and answers travel; *)
(* and until a call times out the two tables agree whenever no operation   *)
(* is inside a channel's lock (StackTablesAgree) and every channel is off  *)
(* after a session (StackIdleAfterGoodbye), from what the answer under way *)
(* still says of them.                                                     *)
(***************************************************************************)
EXTENDS PassThruStack, CommLinkProofs

\* A thread inside an operation holds a command, and what is left of a chain of
\* filters belongs to a channel.
OpInv ==
  /\ filt \in [Chans -> SUBSET Slots]
  /\ op \in [Callers -> [cmd : Commands \cup {NoCmd}, todo : SUBSET Slots]]
  /\ \A t \in Callers :
       op[t] # NoOp => op[t].cmd \in Commands /\ (op[t].todo # {} => op[t].cmd.ch \in Chans)

\* Being inside nothing has the type of being inside something.
LEMMA NoOpTyped == NoOp \in [cmd : Commands \cup {NoCmd}, todo : SUBSET Slots]
BY DEF NoOp

\* The commands the driver builds are commands.
LEMMA CommandsOf ==
  /\ \A c \in Chans : \A p \in Protocols(c) : OpenCmd(c, p) \in Commands
  /\ \A c \in Chans : CloseCmd(c) \in Commands /\ IoctlCmd(c) \in Commands /\ InitCmd(c) \in Commands
  /\ \A c \in Chans, s \in Slots, v \in {"valid", "invalid"} : SetFilterCmd(c, s, v) \in Commands
  /\ \A c \in Chans, s \in Slots : RemFilterCmd(c, s) \in Commands
  /\ \A c \in Chans, f \in Forms : TxCmd(c, f) \in Commands
  /\ QueryCmd \in Commands
BY DEF Commands

\* A command that sets a filter names a slot.
LEMMA SlotOf ==
  ASSUME NEW m \in Commands, m.op = "setFilter"
  PROVE  m.slot \in Slots
<1>1. \A c, p : OpenCmd(c, p).op = "open" /\ CloseCmd(c).op = "close" /\ IoctlCmd(c).op = "ioctl"
              /\ InitCmd(c).op = "init" /\ RemFilterCmd(c, p).op = "remFilter"
              /\ TxCmd(c, p).op = "tx" /\ QueryCmd.op = "query"
  BY DEF OpenCmd, CloseCmd, IoctlCmd, InitCmd, RemFilterCmd, TxCmd, QueryCmd, NoCmd
<1>2. PICK c \in Chans, s \in Slots, v \in {"valid", "invalid"} : m = SetFilterCmd(c, s, v)
  <2> HIDE DEF Slots
  <2>1. m \in {SetFilterCmd(c, s, v) : c \in Chans, s \in Slots, v \in {"valid", "invalid"}}
    BY <1>1 DEF Commands
  <2> QED BY <2>1
<1>3. SetFilterCmd(c, s, v).slot = s BY DEF SetFilterCmd, NoCmd
<1> QED BY <1>2, <1>3
-----------------------------------------------------------------------------
(* The driver's steps *)

\* Entering an operation is get_id.
LEMMA BeginStep ==
  ASSUME OpInv, NEW t \in Callers, NEW cmd \in Commands, NEW todo \in SUBSET Slots,
         todo # {} => cmd.ch \in Chans, Begin(t, cmd, todo), filt' \in [Chans -> SUBSET Slots]
  PROVE  HostCall(t) /\ OpInv'
<1>1. HostCall(t) BY DEF Begin, HostCall
<1>2. op' = [op EXCEPT ![t] = [cmd |-> cmd, todo |-> todo]] BY DEF Begin
<1>3. OpInv' BY <1>2 DEF OpInv
<1> QED BY <1>1, <1>3

\* What Finish leaves.
LEMMA FinishInv ==
  ASSUME OpInv, NEW t \in Callers, NEW ok \in BOOLEAN, Finish(t, ok)
  PROVE  OpInv'
<1> DEFINE cmd == op[t].cmd
<1>1. filt' \in [Chans -> SUBSET Slots]
  <2>0. filt \in [Chans -> SUBSET Slots] BY DEF OpInv
  <2>1. cmd.op = "setFilter" => cmd.slot \in Slots
    <3>1. cmd \in Commands \/ cmd = NoCmd BY DEF OpInv, NoOp
    <3>2. NoCmd.op # "setFilter" BY DEF NoCmd
    <3> QED BY <3>1, <3>2, SlotOf
  <2>2. \/ filt' = filt
        \/ cmd.op = "setFilter" /\ filt' = [filt EXCEPT ![cmd.ch] = @ \cup {cmd.slot}]
        \/ filt' = [filt EXCEPT ![cmd.ch] = @ \ {cmd.slot}]
    BY DEF Finish
  <2> HIDE DEF cmd, Slots
  <2>3. CASE cmd.op = "setFilter" /\ filt' = [filt EXCEPT ![cmd.ch] = @ \cup {cmd.slot}]
    BY <2>0, <2>1, <2>3
  <2>4. CASE filt' = [filt EXCEPT ![cmd.ch] = @ \ {cmd.slot}] BY <2>0, <2>4
  <2> QED BY <2>0, <2>2, <2>3, <2>4
<1>2. op' = op \/ op' = [op EXCEPT ![t] = NoOp] BY DEF Finish
<1> QED BY <1>1, <1>2, NoOpTyped DEF OpInv

\* Every call of the API is a step of the link's callers.
LEMMA ApiStep ==
  ASSUME OpInv, NEW t \in Callers, Api(t)
  PROVE  HostCall(t) /\ OpInv'
<1> USE DEF drvVars
<1>f. filt \in [Chans -> SUBSET Slots] BY DEF OpInv
<1>e. {} \in SUBSET Slots OBVIOUS
<1>1. ASSUME NEW c \in Chans, Connect(t, c) PROVE HostCall(t) /\ OpInv'
  BY <1>1, <1>f, <1>e, CommandsOf, BeginStep DEF Connect
<1>2. ASSUME NEW c \in Chans, Disconnect(t, c) PROVE HostCall(t) /\ OpInv'
  <2>1. filt' \in [Chans -> SUBSET Slots]
    <3>1. filt' = [filt EXCEPT ![c] = {}] BY <1>2 DEF Disconnect
    <3> HIDE DEF Slots
    <3> QED BY <3>1, <1>f
  <2> QED BY <1>2, <1>e, <2>1, CommandsOf, BeginStep DEF Disconnect
<1>3. ASSUME NEW c \in Chans, SetFilter(t, c) PROVE HostCall(t) /\ OpInv'
  BY <1>3, <1>f, <1>e, CommandsOf, BeginStep DEF SetFilter
<1>4. ASSUME NEW c \in Chans, RemFilter(t, c) PROVE HostCall(t) /\ OpInv'
  BY <1>4, <1>f, <1>e, CommandsOf, BeginStep DEF RemFilter
<1>5. ASSUME NEW c \in Chans, ClearFilters(t, c) PROVE HostCall(t) /\ OpInv'
  <2>1. PICK s \in Slots : Begin(t, RemFilterCmd(c, s), filt[c] \ {s}) BY <1>5 DEF ClearFilters
  <2>2. RemFilterCmd(c, s).ch = c BY DEF RemFilterCmd, NoCmd
  <2>3. filt' \in [Chans -> SUBSET Slots] BY <1>5, <1>f DEF ClearFilters
  <2>4. filt[c] \ {s} \in SUBSET Slots BY <1>f
  <2> QED BY <2>1, <2>2, <2>3, <2>4, CommandsOf, BeginStep
<1>6. ASSUME NEW c \in Chans, Write(t, c) PROVE HostCall(t) /\ OpInv'
  BY <1>6, <1>f, <1>e, CommandsOf, BeginStep DEF Write
<1>7. ASSUME NEW c \in Chans, WriteNoWait(t, c) PROVE HostCall(t) /\ OpInv'
  <2>1. HostCall(t) BY <1>7, CommandsOf, BodiesAssumption DEF WriteNoWait, HostCall
  <2>2. OpInv' BY <1>7 DEF WriteNoWait, OpInv
  <2> QED BY <2>1, <2>2
<1>8. ASSUME NEW c \in Chans, Ioctl(t, c) \/ InitBus(t, c) PROVE HostCall(t) /\ OpInv'
  BY <1>8, <1>f, <1>e, CommandsOf, BeginStep DEF Ioctl, InitBus
<1>9. CASE Query(t) BY <1>9, <1>f, <1>e, CommandsOf, BeginStep DEF Query
<1>10. CASE ClearNext(t)
  <2>1. HostCall(t) BY <1>10 DEF ClearNext, HostCall
  <2>2. PICK s \in Slots :
          /\ s \in op[t].todo
          /\ op' = [op EXCEPT ![t] = [cmd |-> RemFilterCmd(op[t].cmd.ch, s), todo |-> op[t].todo \ {s}]]
    BY <1>10 DEF ClearNext, IsLowest, OpInv
  <2>3. op[t].cmd.ch \in Chans /\ op[t].todo \subseteq Slots BY <2>2, <1>10 DEF OpInv, ClearNext
  <2>4. RemFilterCmd(op[t].cmd.ch, s) \in Commands BY <2>3, CommandsOf
  <2>5. RemFilterCmd(op[t].cmd.ch, s).ch = op[t].cmd.ch BY DEF RemFilterCmd, NoCmd
  <2>6. OpInv' BY <1>10, <2>2, <2>3, <2>4, <2>5 DEF ClearNext, OpInv
  <2> QED BY <2>1, <2>6
<1>11. CASE SendOp(t)
  <2>1. op[t].cmd \in Bodies BY <1>11, BodiesAssumption DEF SendOp, OpInv
  <2>2. HostCall(t) BY <1>11, <2>1 DEF SendOp, HostCall
  <2>3. op' = op \/ op' = [op EXCEPT ![t] = NoOp] BY <1>11 DEF SendOp
  <2>4. filt' = filt BY <1>11 DEF SendOp
  <2> QED BY <2>2, <2>3, <2>4, NoOpTyped DEF OpInv
<1>12. CASE Complete(t)
  <2>1. OpInv' BY <1>12, FinishInv DEF Complete
  <2> QED BY <1>12, <2>1 DEF Complete, HostCall
<1>13. CASE GiveUp(t)
  <2>1. OpInv' BY <1>13, FinishInv DEF GiveUp
  <2> QED BY <1>13, <2>1 DEF GiveUp, HostCall
<1> QED BY <1>1, <1>2, <1>3, <1>4, <1>5, <1>6, <1>7, <1>8, <1>9, <1>10, <1>11, <1>12, <1>13 DEF Api
-----------------------------------------------------------------------------
(* The firmware's steps *)

\* What handlers answer with is what CommLink lets handlers send.
LEMMA OutsOf ==
  /\ \A a \in {"ok", "err", "errNoText"} : Reply(a) \in Outs
  /\ Confirm \in Outs /\ Data \in UpBodies
BY BodiesAssumption DEF Reply, Confirm, Data, Outs, StackUpBodies, Answers

Brief == {s \in Seq(Outs) : Len(s) <= 3}

\* Up to three messages, in any order.
LEMMA BriefOf ==
  /\ <<>> \in Brief
  /\ \A a \in Outs : <<a>> \in Brief
  /\ \A a, b \in Outs : <<a, b>> \in Brief
  /\ \A a, b, c \in Outs : <<a, b, c>> \in Brief
BY DEF Brief

\* None or one message.
Few == {<<>>} \cup {<<a>> : a \in Outs}

\* None or one message, then one or two: few.
LEMMA FewAnd ==
  ASSUME NEW s \in Few, NEW a \in Outs, NEW b \in Outs
  PROVE  Append(s, a) \in Brief /\ s \o <<a, b>> \in Brief
<1>1. CASE s = <<>> BY <1>1 DEF Brief
<1>2. ASSUME NEW c \in Outs, s = <<c>> PROVE Append(s, a) \in Brief /\ s \o <<a, b>> \in Brief
  BY <1>2 DEF Brief
<1> QED BY <1>1, <1>2 DEF Few

\* No handler sends more than three messages, whatever it is asked.
LEMMA HandleOuts ==
  ASSUME NEW m, NEW d, NEW o \in Handle(m, d)
  PROVE  o.outs \in Brief
<1> USE DEF Outcome, ReplyIf
<1> DEFINE S == {"ok", "err", "errNoText"}
<1>r. \A a \in S : Reply(a) \in Outs BY OutsOf
<1>1. ASSUME o \in HandleOpen(m, d) PROVE o.outs \in Brief
  BY <1>1, <1>r, BriefOf DEF HandleOpen
<1>2. ASSUME o \in HandleClose(m, d) PROVE o.outs \in Brief
  BY <1>2, <1>r, BriefOf DEF HandleClose
<1>3. ASSUME o \in HandleSetFilter(m, d) PROVE o.outs \in Brief
  BY <1>3, <1>r, BriefOf DEF HandleSetFilter, CanAddFilter
<1>4. ASSUME o \in HandleRemFilter(m, d) PROVE o.outs \in Brief
  BY <1>4, <1>r, BriefOf DEF HandleRemFilter, CanRemoveFilter
<1>5. ASSUME o \in HandleTx(m, d) PROVE o.outs \in Brief
  <2> DEFINE asked == m.id # 0
  <2>1. \A a \in S : ReplyIf(asked, a) \in Few /\ ReplyIf(asked, a) \in Brief
    BY <1>r, BriefOf DEF Few
  <2>2. \A a \in S : Append(ReplyIf(asked, a), Confirm) \in Brief BY <2>1, OutsOf, FewAnd
  <2>3. <<>> \in Brief /\ \A a \in S : <<Reply(a)>> \in Brief BY <1>r, BriefOf
  <2> HIDE DEF ReplyIf, asked
  <2>4. ASSUME NEW e, NEW a \in S, o = Outcome(e, ReplyIf(asked, a)) PROVE o.outs \in Brief
    BY <2>1, <2>4
  <2>5. ASSUME NEW e, NEW a \in S, o = Outcome(e, <<Reply(a)>>) PROVE o.outs \in Brief
    BY <2>3, <2>5
  <2>6. ASSUME NEW a \in S, o = Outcome(d, Append(ReplyIf(asked, a), Confirm)) PROVE o.outs \in Brief
    BY <2>2, <2>6
  <2>7. ASSUME NEW e, o = Outcome(e, <<>>) PROVE o.outs \in Brief BY <2>3, <2>7
  <2> HIDE DEF Outcome
  <2> QED BY <1>5, <2>4, <2>5, <2>6, <2>7 DEF HandleTx, CanSendMsg, IsoSendMsg, asked
<1>6. ASSUME o \in HandleInit(m, d) PROVE o.outs \in Brief
  <2> DEFINE first == IF m.body.ch = "kline" THEN <<>> ELSE <<Reply("errNoText")>>
  <2>1. first \in Few BY <1>r DEF Few
  <2> HIDE DEF first
  <2>2. \A a \in S : Append(first, Reply(a)) \in Brief BY <2>1, <1>r, FewAnd
  <2>3. \A a \in S : first \o <<Reply("err"), Reply(a)>> \in Brief BY <2>1, <1>r, FewAnd
  <2>4. \/ \E a \in S : o = Outcome(d, Append(first, Reply(a)))
        \/ \E a \in S : o = Outcome(d, first \o <<Reply("err"), Reply(a)>>)
    BY <1>6 DEF HandleInit, Wakeup, first
  <2>5. \A q : Outcome(d, q).outs = q OBVIOUS
  <2> HIDE DEF Outcome
  <2>6. ASSUME NEW a \in S, o = Outcome(d, Append(first, Reply(a))) PROVE o.outs \in Brief
    BY <2>2, <2>5, <2>6
  <2>7. ASSUME NEW a \in S, o = Outcome(d, first \o <<Reply("err"), Reply(a)>>) PROVE o.outs \in Brief
    BY <2>3, <2>5, <2>7
  <2> HIDE DEF S
  <2> QED BY <2>4, <2>6, <2>7
<1>7. ASSUME o \in HandleIoctl(m, d) PROVE o.outs \in Brief
  BY <1>7, <1>r, BriefOf DEF HandleIoctl
<1>8. ASSUME o \in {Outcome(d, <<Reply("ok")>>), Outcome(d, <<>>)} PROVE o.outs \in Brief
  BY <1>8, <1>r, BriefOf
<1> QED BY <1>1, <1>2, <1>3, <1>4, <1>5, <1>6, <1>7, <1>8 DEF Handle

\* Handlers that are not disciplined may send any few messages.
LEMMA BriefAllowed == ASSUME NEW m PROVE Brief \subseteq HandlerOuts(m)
<1> SUFFICES ASSUME NEW s \in Seq(Outs), Len(s) <= 3 PROVE s \in HandlerOuts(m) BY DEF Brief
<1>1. Len(s) \in 0 .. MaxReplies BY StackAssumption, LinkAssumption
<1>2. s \in [1 .. Len(s) -> Outs] OBVIOUS
<1> QED BY <1>1, <1>2, StackAssumption DEF HandlerOuts

\* A command the firmware handles is a command of the link.
LEMMA DevCommandStep == ASSUME DevCommand PROVE FwCommand
<1> DEFINE m == Head(down)
           d == IF m.body.ch \in Chans THEN dev[m.body.ch] ELSE Off
<1>1. PICK o \in Handle(m, d) :
        \/ FwHandle(o.outs)
        \/ \E i \in 1 .. Len(o.outs) : FwCrash(SubSeq(o.outs, 1, i - 1))
  BY DEF DevCommand
<1>2. o.outs \in Brief BY HandleOuts
<1>3. \A i \in 1 .. Len(o.outs) : SubSeq(o.outs, 1, i - 1) \in Brief
  <2> TAKE i \in 1 .. Len(o.outs)
  <2>1. o.outs \in Seq(Outs) /\ Len(o.outs) <= 3 BY <1>2 DEF Brief
  <2>2. i - 1 \in 0 .. Len(o.outs) BY <2>1
  <2>3. SubSeq(o.outs, 1, i - 1) \in Seq(Outs) BY <2>1, <2>2, SeqFacts
  <2>4. Len(SubSeq(o.outs, 1, i - 1)) = i - 1 BY <2>1, <2>2
  <2> QED BY <2>1, <2>2, <2>3, <2>4 DEF Brief
<1>4. \E outs \in HandlerOuts(m) : FwHandle(outs) \/ FwCrash(outs)
  BY <1>1, <1>2, <1>3, BriefAllowed
<1> QED BY <1>4 DEF FwCommand, DevCommand

\* Every turn of the firmware's loop is a step of the link's firmware.
LEMMA DevStep ==
  ASSUME DevCommand \/ DevStatus \/ DevRestart \/ ChannelLoop
  PROVE  (Firmware \/ UNCHANGED linkVars) /\ UNCHANGED drvVars
<1>1. CASE DevCommand  BY <1>1, DevCommandStep DEF Firmware, DevCommand
<1>2. CASE DevStatus BY <1>2 DEF DevStatus, Firmware
<1>3. CASE DevRestart BY <1>3 DEF DevRestart, Firmware
<1>4. ASSUME NEW c \in Chans, DevSent(c) \/ DevReceived(c) \/ DevFlowControl(c)
      PROVE  (Firmware \/ UNCHANGED linkVars) /\ UNCHANGED drvVars
  BY <1>4, OutsOf DEF DevSent, DevReceived, DevFlowControl, Firmware
<1> QED BY <1>1, <1>2, <1>3, <1>4 DEF ChannelLoop
-----------------------------------------------------------------------------
\* The application has opened nothing and is inside nothing.
LEMMA StackInitInv == StackInit => LinkInit /\ OpInv
BY NoOpTyped DEF StackInit, OpInv

\* Every step of the stack is a step of the link.
LEMMA StackStep == OpInv /\ [StackNext]_stackVars => [LinkNext]_linkVars /\ OpInv'
<1> SUFFICES ASSUME OpInv, [StackNext]_stackVars PROVE [LinkNext]_linkVars /\ OpInv' OBVIOUS
<1> USE DEF drvVars
<1>1. ASSUME NEW t \in Callers, Api(t) PROVE LinkNext /\ OpInv' BY <1>1, ApiStep DEF LinkNext
<1>2. CASE CloseDevice BY <1>2 DEF CloseDevice, LinkNext, HostSession, OpInv
<1>3. CASE DriverThreads
  BY <1>3 DEF DriverThreads, Alone, LinkNext, HostSession, OpInv
<1>4. CASE DevCommand \/ DevStatus \/ DevRestart \/ ChannelLoop
  BY <1>4, DevStep DEF LinkNext, OpInv, linkVars, hostVars, devVars
<1>5. CASE UNCHANGED stackVars BY <1>5 DEF stackVars, OpInv
<1> QED BY <1>1, <1>2, <1>3, <1>4, <1>5 DEF StackNext

\* The driver's channel table and the firmware's handlers use the link as it may
\* be used: PassThruStack implements CommLink.
THEOREM StackImplementsLink == StackSpec => LinkSpec
BY StackInitInv, StackStep, PTL DEF StackSpec, LinkSpec

\* Hence with the firmware's real handlers, which answer twice, not at all or
\* unasked, an answer a caller can take and that is not its own is at least
\* IdLimit - 1 calls of get_id away.
THEOREM StackForeignReplyFar == StackSpec => []ForeignReplyFar
BY StackImplementsLink, LinkForeignReplyFar
-----------------------------------------------------------------------------
(* Types of the two tables *)

DevChan == [proto : {"none", "CAN", "ISO15765", "ISO9141"}, used : SUBSET Slots, sending : BOOLEAN]

TablesTyped == chan \in [Chans -> BOOLEAN] /\ dev \in [Chans -> DevChan]

\* A command that opens CAN names a protocol of CAN.
LEMMA ProtoOf ==
  ASSUME NEW m \in Commands, m.op = "open", m.ch = "can"
  PROVE  m.proto \in {"CAN", "ISO15765"}
<1>1. \A c, p, f : /\ CloseCmd(c).op = "close" /\ IoctlCmd(c).op = "ioctl" /\ InitCmd(c).op = "init"
                   /\ SetFilterCmd(c, p, f).op = "setFilter" /\ RemFilterCmd(c, p).op = "remFilter"
                   /\ TxCmd(c, p).op = "tx" /\ QueryCmd.op = "query"
  BY DEF CloseCmd, IoctlCmd, InitCmd, SetFilterCmd, RemFilterCmd, TxCmd, QueryCmd, NoCmd
<1>2. PICK c \in Chans : \E p \in Protocols(c) : m = OpenCmd(c, p)
  <2> HIDE DEF Slots, Protocols
  <2>1. m \in UNION {{OpenCmd(c, p) : p \in Protocols(c)} : c \in Chans} BY <1>1 DEF Commands
  <2> QED BY <2>1
<1>3. \A p : OpenCmd(c, p).ch = c /\ OpenCmd(c, p).proto = p BY DEF OpenCmd, NoCmd
<1> QED BY <1>2, <1>3 DEF Protocols

\* A handler leaves its channel well typed.
LEMMA HandleType ==
  ASSUME NEW m, m.body \in Commands, NEW d \in DevChan, NEW o \in Handle(m, d)
  PROVE  o.chan \in DevChan
<1> USE DEF Outcome
<1>0. Off \in DevChan BY DEF Off, DevChan
<1>1. ASSUME m.body.op = "open", o \in HandleOpen(m, d) PROVE o.chan \in DevChan
  <2>1. m.body.ch = "can" => [Off EXCEPT !.proto = m.body.proto] \in DevChan
    BY <1>0, <1>1, ProtoOf DEF DevChan, Off
  <2>2. [Off EXCEPT !.proto = "ISO9141"] \in DevChan BY <1>0 DEF DevChan, Off
  <2> QED BY <1>1, <2>1, <2>2 DEF HandleOpen
<1>2. ASSUME o \in HandleClose(m, d) PROVE o.chan \in DevChan BY <1>2, <1>0 DEF HandleClose
<1>3. ASSUME m.body.op = "setFilter", o \in HandleSetFilter(m, d) PROVE o.chan \in DevChan
  <2>1. m.body.slot \in Slots BY <1>3, SlotOf
  <2>2. [d EXCEPT !.used = @ \cup {m.body.slot}] \in DevChan
    <3> HIDE DEF Slots
    <3> QED BY <2>1 DEF DevChan
  <2> QED BY <1>3, <2>2 DEF HandleSetFilter, CanAddFilter
<1>4. ASSUME o \in HandleRemFilter(m, d) PROVE o.chan \in DevChan
  <2>1. [d EXCEPT !.used = @ \ {m.body.slot}] \in DevChan
    <3> HIDE DEF Slots
    <3> QED BY DEF DevChan
  <2>2. o.chan \in {d, [d EXCEPT !.used = @ \ {m.body.slot}]} BY <1>4 DEF HandleRemFilter, CanRemoveFilter
  <2> QED BY <2>1, <2>2
<1>5. ASSUME o \in HandleTx(m, d) PROVE o.chan \in DevChan
  <2>1. [d EXCEPT !.sending = TRUE] \in DevChan BY DEF DevChan
  <2>2. o.chan \in {d, [d EXCEPT !.sending = TRUE]} BY <1>5 DEF HandleTx, CanSendMsg, IsoSendMsg
  <2> QED BY <2>1, <2>2
<1>6. ASSUME o \in HandleInit(m, d) PROVE o.chan \in DevChan BY <1>6 DEF HandleInit, Wakeup
<1>7. ASSUME o \in HandleIoctl(m, d) PROVE o.chan \in DevChan BY <1>7 DEF HandleIoctl
<1>8. ASSUME o \in {Outcome(d, <<Reply("ok")>>), Outcome(d, <<>>)} PROVE o.chan \in DevChan BY <1>8
<1> QED BY <1>1, <1>2, <1>3, <1>4, <1>5, <1>6, <1>7, <1>8 DEF Handle

\* Both tables keep their types.
LEMMA TablesStep == TypeOK /\ OpInv /\ TablesTyped /\ [StackNext]_stackVars => TablesTyped'
<1> SUFFICES ASSUME TypeOK, OpInv, TablesTyped, [StackNext]_stackVars PROVE TablesTyped' OBVIOUS
<1> USE DEF drvVars
<1>0. AllOff \in [Chans -> DevChan] BY DEF AllOff, Off, DevChan
<1>1. ASSUME NEW t \in Callers, Api(t) PROVE TablesTyped'
  <2>1. dev' = dev
    BY <1>1 DEF Api, Begin, Connect, Disconnect, SetFilter, RemFilter, ClearFilters, Write,
                WriteNoWait, Ioctl, InitBus, Query, ClearNext, SendOp, Complete, GiveUp, Finish
  <2>2. \/ chan' = chan
        \/ \E c \in Chans : chan' = [chan EXCEPT ![c] = FALSE]
        \/ \E c : chan' = [chan EXCEPT ![c] = TRUE]
    BY <1>1 DEF Api, Connect, Disconnect, SetFilter, RemFilter, ClearFilters, Write,
                WriteNoWait, Ioctl, InitBus, Query, ClearNext, SendOp, Complete, GiveUp, Finish
  <2> QED BY <2>1, <2>2 DEF TablesTyped
<1>2. CASE CloseDevice BY <1>2 DEF CloseDevice, TablesTyped
<1>3. CASE DriverThreads BY <1>3 DEF DriverThreads, Alone, TablesTyped
<1>4. CASE DevCommand
  <2> DEFINE m == Head(down)
             c == m.body.ch
             d == IF c \in Chans THEN dev[c] ELSE Off
  <2>1. m.body \in Commands
    BY <1>4, BodiesAssumption, HeadTailProperties, SMTT(30) DEF DevCommand, TypeOK, DownMsg
  <2>2. d \in DevChan BY DEF TablesTyped, Off, DevChan
  <2>3. PICK o \in Handle(m, d) :
          dev' = AllOff \/ dev' = IF c \in Chans THEN [dev EXCEPT ![c] = o.chan] ELSE dev
    BY <1>4 DEF DevCommand
  <2>4. o.chan \in DevChan BY <2>1, <2>2, HandleType
  <2>5. dev' \in [Chans -> DevChan]
    <3> HIDE DEF c
    <3> QED BY <2>3, <2>4, <1>0 DEF TablesTyped
  <2> QED BY <1>4, <2>5 DEF DevCommand, TablesTyped
<1>5. CASE DevStatus \/ DevRestart BY <1>5, <1>0 DEF DevStatus, DevRestart, TablesTyped
<1>6. ASSUME NEW c \in Chans, DevReceived(c) \/ DevFlowControl(c) \/ DevSent(c) PROVE TablesTyped'
  <2>1. PICK b \in BOOLEAN : dev' = dev \/ dev' = [dev EXCEPT ![c].sending = b]
    BY <1>6 DEF DevReceived, DevFlowControl, DevSent
  <2>2. dev[c] \in DevChan BY DEF TablesTyped
  <2>3. [dev[c] EXCEPT !.sending = b] \in DevChan BY <2>2 DEF DevChan
  <2>4. dev' = dev \/ dev' = [dev EXCEPT ![c] = [dev[c] EXCEPT !.sending = b]] BY <2>1 DEF TablesTyped
  <2> HIDE DEF DevChan
  <2>5. dev' \in [Chans -> DevChan] BY <2>3, <2>4 DEF TablesTyped
  <2>6. chan' = chan BY <1>6 DEF DevReceived, DevFlowControl, DevSent
  <2> QED BY <2>5, <2>6 DEF TablesTyped
<1>7. CASE UNCHANGED stackVars BY <1>7 DEF stackVars, TablesTyped
<1> QED BY <1>1, <1>2, <1>3, <1>4, <1>5, <1>6, <1>7 DEF StackNext, ChannelLoop

\* In every reachable state both tables, the operations under way and the link have
\* their types: no handler stores a protocol or a filter slot that does not exist.
THEOREM StackTypes == StackSpec => []StackTypeOK
<1>1. StackInit => TablesTyped BY DEF StackInit, TablesTyped, Off, DevChan
<1>2. TypeOK /\ OpInv /\ TablesTyped => StackTypeOK BY DEF StackTypeOK, OpInv, TablesTyped, DevChan
<1>3. StackSpec => []TypeOK BY StackImplementsLink, LinkTypeOK
<1> QED BY <1>1, <1>2, <1>3, StackInitInv, StackStep, TablesStep, PTL DEF StackSpec
-----------------------------------------------------------------------------
(* Who is inside a channel *)

\* What the commands the driver builds say.
LEMMA CmdFields ==
  /\ \A c, p : OpenCmd(c, p).op = "open" /\ OpenCmd(c, p).ch = c
  /\ \A c : /\ CloseCmd(c).op = "close" /\ CloseCmd(c).ch = c
            /\ IoctlCmd(c).op = "ioctl" /\ IoctlCmd(c).ch = c
            /\ InitCmd(c).op = "init" /\ InitCmd(c).ch = c
  /\ \A c, s, v : SetFilterCmd(c, s, v).op = "setFilter" /\ SetFilterCmd(c, s, v).ch = c
                  /\ SetFilterCmd(c, s, v).slot = s
  /\ \A c, s : RemFilterCmd(c, s).op = "remFilter" /\ RemFilterCmd(c, s).ch = c
               /\ RemFilterCmd(c, s).slot = s
  /\ \A c, f : TxCmd(c, f).op = "tx" /\ TxCmd(c, f).ch = c
  /\ QueryCmd.op = "query" /\ NoCmd.op = "none" /\ NoCmd.ch = "none"
BY DEF OpenCmd, CloseCmd, IoctlCmd, InitCmd, SetFilterCmd, RemFilterCmd, TxCmd, QueryCmd, NoCmd

\* A command is one of those.
LEMMA CmdKinds ==
  ASSUME NEW m \in Commands
  PROVE  /\ m.op \in {"open", "close", "setFilter", "remFilter", "tx", "ioctl", "init", "query"}
         /\ IF m.op = "query" THEN m.ch = "none" ELSE m.ch \in Chans
         /\ m.op \in {"setFilter", "remFilter"} => m.slot \in Slots
<1>1. ASSUME NEW c \in Chans, NEW p \in Protocols(c), m = OpenCmd(c, p)
      PROVE  m.op = "open" /\ m.ch \in Chans
  BY <1>1, CmdFields
<1>2. ASSUME NEW c \in Chans, m = CloseCmd(c) \/ m = IoctlCmd(c) \/ m = InitCmd(c)
      PROVE  m.op \in {"close", "ioctl", "init"} /\ m.ch \in Chans
  BY <1>2, CmdFields
<1>3. ASSUME NEW c \in Chans, NEW s \in Slots, NEW v, m = SetFilterCmd(c, s, v) \/ m = RemFilterCmd(c, s)
      PROVE  m.op \in {"setFilter", "remFilter"} /\ m.ch \in Chans /\ m.slot \in Slots
  <2> HIDE DEF Slots
  <2> QED BY <1>3, CmdFields
<1>4. ASSUME NEW c \in Chans, NEW f \in Forms, m = TxCmd(c, f)
      PROVE  m.op = "tx" /\ m.ch \in Chans
  BY <1>4, CmdFields
<1>5. \/ \E c \in Chans : \E p \in Protocols(c) : m = OpenCmd(c, p)
      \/ \E c \in Chans : m = CloseCmd(c) \/ m = IoctlCmd(c) \/ m = InitCmd(c)
      \/ \E c \in Chans, s \in Slots, v \in {"valid", "invalid"} : m = SetFilterCmd(c, s, v) \/ m = RemFilterCmd(c, s)
      \/ \E c \in Chans, f \in Forms : m = TxCmd(c, f)
      \/ m = QueryCmd
  <2> HIDE DEF Slots, Protocols, OpenCmd, CloseCmd, IoctlCmd, InitCmd, SetFilterCmd, RemFilterCmd, TxCmd, QueryCmd
  <2> QED BY DEF Commands
<1>6. m = QueryCmd => m.op = "query" /\ m.ch = "none"
  <2>1. QueryCmd.ch = "none"  BY DEF QueryCmd, NoCmd
  <2> QED BY <2>1, CmdFields
<1> DEFINE Goal == /\ m.op \in {"open", "close", "setFilter", "remFilter", "tx", "ioctl", "init", "query"}
                   /\ IF m.op = "query" THEN m.ch = "none" ELSE m.ch \in Chans
                   /\ m.op \in {"setFilter", "remFilter"} => m.slot \in Slots
<1>7. ASSUME NEW c \in Chans, NEW p \in Protocols(c), m = OpenCmd(c, p) PROVE Goal  BY <1>1, <1>7
<1>8. ASSUME NEW c \in Chans, m = CloseCmd(c) \/ m = IoctlCmd(c) \/ m = InitCmd(c) PROVE Goal
  BY <1>2, <1>8
<1>9. ASSUME NEW c \in Chans, NEW s \in Slots, NEW v \in {"valid", "invalid"},
             m = SetFilterCmd(c, s, v) \/ m = RemFilterCmd(c, s)
      PROVE  Goal
  BY <1>3, <1>9
<1>10. ASSUME NEW c \in Chans, NEW f \in Forms, m = TxCmd(c, f) PROVE Goal  BY <1>4, <1>10
<1>11. m = QueryCmd => Goal  BY <1>6
<1> HIDE DEF Goal
<1>12. Goal  BY <1>5, <1>7, <1>8, <1>9, <1>10, <1>11
<1> QED BY <1>12 DEF Goal

\* No thread inside an operation is unknown to the table, a chain of round trips
\* removes filters, and only writers share a channel.
Locked ==
  /\ \A t \in Callers : call[t].st # "idle" => op[t] # NoOp
  /\ \A t \in Callers : op[t].todo # {} => op[t].cmd.op = "remFilter"
  /\ \A c \in Chans : \A t, u \in Inside(c) :
       t # u => op[t].cmd.op = "tx" /\ op[u].cmd.op = "tx"

\* A thread enters an operation.
Enters(t, cmd, todo) ==
  /\ op[t] = NoOp /\ GetId(t) /\ dev' = dev
  /\ op' = [op EXCEPT ![t] = [cmd |-> cmd, todo |-> todo]]
  /\ todo # {} => cmd.op = "remFilter"
  /\ \/ cmd.op \in {"init", "query"}
     \/ /\ cmd.ch \in Chans
        /\ WriteFree(cmd.ch) \/ (cmd.op = "tx" /\ ReadFree(cmd.ch))
        /\ (cmd.op = "open") = ~chan[cmd.ch]
        /\ cmd.op = "remFilter" => cmd.slot \in filt[cmd.ch] /\ todo \subseteq filt[cmd.ch] \ {cmd.slot}
  /\ IF cmd.op = "close"
       THEN chan' = [chan EXCEPT ![cmd.ch] = FALSE] /\ filt' = [filt EXCEPT ![cmd.ch] = {}]
       ELSE UNCHANGED <<chan, filt>>

\* The calls of the API, by what they do to the threads.
LEMMA ApiKinds ==
  ASSUME OpInv, TablesTyped, NEW t \in Callers, Api(t)
  PROVE  \/ \E cmd \in Commands : \E todo \in SUBSET Slots : Enters(t, cmd, todo)
         \/ \E c \in Chans : WriteNoWait(t, c)
         \/ ClearNext(t) \/ SendOp(t) \/ Complete(t) \/ GiveUp(t)
<1> DEFINE Goal == \E cmd \in Commands : \E todo \in SUBSET Slots : Enters(t, cmd, todo)
<1>0. {} \in SUBSET Slots /\ chan \in [Chans -> BOOLEAN] /\ filt \in [Chans -> SUBSET Slots]
  BY DEF TablesTyped, OpInv
<1>b. ASSUME NEW cmd \in Commands, NEW todo \in SUBSET Slots, Begin(t, cmd, todo),
             todo # {} => cmd.op = "remFilter",
             \/ cmd.op \in {"init", "query"}
             \/ /\ cmd.ch \in Chans
                /\ WriteFree(cmd.ch) \/ (cmd.op = "tx" /\ ReadFree(cmd.ch))
                /\ (cmd.op = "open") = ~chan[cmd.ch]
                /\ cmd.op = "remFilter" =>
                     cmd.slot \in filt[cmd.ch] /\ todo \subseteq filt[cmd.ch] \ {cmd.slot},
             IF cmd.op = "close"
               THEN chan' = [chan EXCEPT ![cmd.ch] = FALSE] /\ filt' = [filt EXCEPT ![cmd.ch] = {}]
               ELSE UNCHANGED <<chan, filt>>
      PROVE  Goal
  <2>1. Enters(t, cmd, todo)  BY <1>b DEF Enters, Begin
  <2> QED BY <2>1
<1>1. ASSUME NEW c \in Chans, Connect(t, c) PROVE Goal
  <2>1. PICK p \in Protocols(c) : Begin(t, OpenCmd(c, p), {})  BY <1>1 DEF Connect
  <2>2. PICK cmd \in Commands : cmd = OpenCmd(c, p)  BY CommandsOf
  <2>3. cmd.op = "open" /\ cmd.ch = c  BY <2>2, CmdFields
  <2> HIDE DEF Goal
  <2> QED BY <1>0, <1>1, <1>b, <2>1, <2>2, <2>3 DEF Connect
<1>2. ASSUME NEW c \in Chans, Disconnect(t, c) PROVE Goal
  <2>1. PICK cmd \in Commands : cmd = CloseCmd(c)  BY CommandsOf
  <2>2. cmd.op = "close" /\ cmd.ch = c  BY <2>1, CmdFields
  <2> HIDE DEF Goal
  <2> QED BY <1>0, <1>2, <1>b, <2>1, <2>2 DEF Disconnect
<1>3. ASSUME NEW c \in Chans, SetFilter(t, c) PROVE Goal
  <2>1. PICK s \in Slots, v \in {"valid", "invalid"} : Begin(t, SetFilterCmd(c, s, v), {})
    BY <1>3 DEF SetFilter
  <2>2. PICK cmd \in Commands : cmd = SetFilterCmd(c, s, v)  BY CommandsOf
  <2>3. cmd.op = "setFilter" /\ cmd.ch = c  BY <2>2, CmdFields
  <2> HIDE DEF Goal
  <2> QED BY <1>0, <1>3, <1>b, <2>1, <2>2, <2>3 DEF SetFilter
<1>4. ASSUME NEW c \in Chans, RemFilter(t, c) PROVE Goal
  <2>1. PICK s \in filt[c] : Begin(t, RemFilterCmd(c, s), {})  BY <1>4 DEF RemFilter
  <2>2. s \in Slots  BY <1>0
  <2>3. PICK cmd \in Commands : cmd = RemFilterCmd(c, s)  BY <2>2, CommandsOf
  <2>4. cmd.op = "remFilter" /\ cmd.ch = c /\ cmd.slot = s  BY <2>3, CmdFields
  <2> HIDE DEF Goal
  <2> QED BY <1>0, <1>4, <1>b, <2>1, <2>3, <2>4 DEF RemFilter
<1>5. ASSUME NEW c \in Chans, ClearFilters(t, c) PROVE Goal
  <2>1. PICK s \in Slots : IsLowest(s, filt[c]) /\ Begin(t, RemFilterCmd(c, s), filt[c] \ {s})
    BY <1>5 DEF ClearFilters
  <2>2. PICK cmd \in Commands : cmd = RemFilterCmd(c, s)  BY CommandsOf
  <2>3. cmd.op = "remFilter" /\ cmd.ch = c /\ cmd.slot = s  BY <2>2, CmdFields
  <2>4. filt[c] \ {s} \in SUBSET Slots /\ s \in filt[c]  BY <1>0, <2>1 DEF IsLowest
  <2> HIDE DEF Goal
  <2> QED BY <1>0, <1>5, <1>b, <2>1, <2>2, <2>3, <2>4 DEF ClearFilters
<1>6. ASSUME NEW c \in Chans, Write(t, c) PROVE Goal
  <2>1. PICK f \in Forms : Begin(t, TxCmd(c, f), {})  BY <1>6 DEF Write
  <2>2. PICK cmd \in Commands : cmd = TxCmd(c, f)  BY CommandsOf
  <2>3. cmd.op = "tx" /\ cmd.ch = c  BY <2>2, CmdFields
  <2> HIDE DEF Goal
  <2> QED BY <1>0, <1>6, <1>b, <2>1, <2>2, <2>3 DEF Write
<1>7. ASSUME NEW c \in Chans, Ioctl(t, c) PROVE Goal
  <2>1. PICK cmd \in Commands : cmd = IoctlCmd(c)  BY CommandsOf
  <2>2. cmd.op = "ioctl" /\ cmd.ch = c  BY <2>1, CmdFields
  <2> HIDE DEF Goal
  <2> QED BY <1>0, <1>7, <1>b, <2>1, <2>2 DEF Ioctl
<1>8. ASSUME NEW c \in Chans, InitBus(t, c) PROVE Goal
  <2>1. PICK cmd \in Commands : cmd = InitCmd(c)  BY CommandsOf
  <2>2. cmd.op = "init"  BY <2>1, CmdFields
  <2> HIDE DEF Goal
  <2> QED BY <1>0, <1>8, <1>b, <2>1, <2>2 DEF InitBus
<1>9. ASSUME Query(t) PROVE Goal
  <2>1. PICK cmd \in Commands : cmd = QueryCmd  BY CommandsOf
  <2>2. cmd.op = "query"  BY <2>1, CmdFields
  <2> HIDE DEF Goal
  <2> QED BY <1>0, <1>9, <1>b, <2>1, <2>2 DEF Query
<1> HIDE DEF Goal
<1>10. \/ Goal \/ (\E c \in Chans : WriteNoWait(t, c))
       \/ ClearNext(t) \/ SendOp(t) \/ Complete(t) \/ GiveUp(t)
  BY <1>1, <1>2, <1>3, <1>4, <1>5, <1>6, <1>7, <1>8, <1>9 DEF Api
<1> QED BY <1>10 DEF Goal

\* What a call of the API does to its own thread; it leaves the other threads and
\* the device alone.
LEMMA ThreadMoves ==
  ASSUME IInv, OpInv, TablesTyped, NEW t \in Callers, Api(t)
  PROVE  /\ dev' = dev
         /\ \A u \in Callers : u # t => call'[u] = call[u] /\ op'[u] = op[u]
         /\ \/ \E cmd \in Commands : \E todo \in SUBSET Slots :
                 /\ Enters(t, cmd, todo) /\ op'[t] = [cmd |-> cmd, todo |-> todo]
                 /\ call[t].st = "idle" /\ call'[t].st = "ready"
            \/ (\E c \in Chans : WriteNoWait(t, c)) /\ call'[t] = call[t] /\ op'[t] = op[t]
            \/ /\ ClearNext(t) /\ call[t].st = "idle" /\ call'[t].st = "ready"
               /\ \E s \in op[t].todo :
                    op'[t] = [cmd |-> RemFilterCmd(op[t].cmd.ch, s), todo |-> op[t].todo \ {s}]
            \/ /\ SendOp(t) /\ writer # "off" /\ op'[t] = op[t]
               /\ call[t].st = "ready" /\ call'[t].st = "waiting" /\ call'[t].id = call[t].id
            \/ SendOp(t) /\ writer = "off" /\ call'[t] = Idle /\ op'[t] = NoOp
            \/ /\ Complete(t) \/ GiveUp(t)
               /\ call[t].st = "waiting" /\ call'[t] = Idle
               /\ op'[t] = NoOp \/ (op'[t] = op[t] /\ op[t].todo # {})
<1>0. call \in [Callers -> Call] /\ op \in [Callers -> [cmd : Commands \cup {NoCmd}, todo : SUBSET Slots]]
  BY DEF IInv, Scalars, OpInv
<1>1. ASSUME NEW cmd \in Commands, NEW todo \in SUBSET Slots, Enters(t, cmd, todo)
      PROVE  /\ dev' = dev /\ \A u \in Callers : u # t => call'[u] = call[u] /\ op'[u] = op[u]
             /\ op'[t] = [cmd |-> cmd, todo |-> todo] /\ call[t].st = "idle" /\ call'[t].st = "ready"
  BY <1>0, <1>1 DEF Enters, GetId
<1>2. ASSUME NEW c \in Chans, WriteNoWait(t, c) PROVE dev' = dev /\ call' = call /\ op' = op
  BY <1>2 DEF WriteNoWait, Post, drvVars
<1>3. CASE ClearNext(t)
  <2>1. dev' = dev /\ \A u \in Callers : u # t => call'[u] = call[u] /\ op'[u] = op[u]
    BY <1>0, <1>3 DEF ClearNext, GetId
  <2>2. call[t].st = "idle" /\ call'[t].st = "ready"  BY <1>0, <1>3 DEF ClearNext, GetId
  <2>3. PICK s \in Slots : IsLowest(s, op[t].todo)
          /\ op' = [op EXCEPT ![t] = [cmd |-> RemFilterCmd(op[t].cmd.ch, s), todo |-> @.todo \ {s}]]
    BY <1>3 DEF ClearNext
  <2>4. s \in op[t].todo
        /\ op'[t] = [cmd |-> RemFilterCmd(op[t].cmd.ch, s), todo |-> op[t].todo \ {s}]
    BY <1>0, <2>3 DEF IsLowest
  <2> QED BY <1>3, <2>1, <2>2, <2>4
<1>4. CASE SendOp(t)
  <2>1. dev' = dev /\ \A u \in Callers : u # t => call'[u] = call[u] /\ op'[u] = op[u]
    BY <1>0, <1>4 DEF SendOp, Send
  <2>2. writer = "off" => call'[t] = Idle /\ op'[t] = NoOp  BY <1>0, <1>4 DEF SendOp, Send
  <2>3. writer # "off" => /\ op'[t] = op[t] /\ call[t].st = "ready"
                          /\ call'[t].st = "waiting" /\ call'[t].id = call[t].id
    BY <1>0, <1>4 DEF SendOp, Send, Call
  <2> QED BY <1>4, <2>1, <2>2, <2>3
<1>5. CASE Complete(t) \/ GiveUp(t)
  <2>1. call[t].st = "waiting" /\ call' = [call EXCEPT ![t] = Idle]
    BY <1>5 DEF Complete, GiveUp, Receive, Timeout
  <2>2. dev' = dev /\ (op' = [op EXCEPT ![t] = NoOp] \/ (op' = op /\ op[t].todo # {}))
    BY <1>5 DEF Complete, GiveUp, Finish
  <2> QED BY <1>0, <1>5, <2>1, <2>2
<1> QED
  <2>1. \/ \E cmd \in Commands : \E todo \in SUBSET Slots : Enters(t, cmd, todo)
        \/ \E c \in Chans : WriteNoWait(t, c)
        \/ ClearNext(t) \/ SendOp(t) \/ Complete(t) \/ GiveUp(t)
    BY ApiKinds
  <2>2. ASSUME NEW cmd \in Commands, NEW todo \in SUBSET Slots, Enters(t, cmd, todo)
        PROVE  /\ dev' = dev /\ \A u \in Callers : u # t => call'[u] = call[u] /\ op'[u] = op[u]
               /\ Enters(t, cmd, todo) /\ op'[t] = [cmd |-> cmd, todo |-> todo]
               /\ call[t].st = "idle" /\ call'[t].st = "ready"
    BY <1>1, <2>2
  <2> HIDE DEF Enters, ClearNext, SendOp, Complete, GiveUp, WriteNoWait
  <2> QED BY <1>2, <1>3, <1>4, <1>5, <2>1, <2>2

\* The other steps leave the threads alone.
LEMMA OthersMove ==
  ASSUME CloseDevice \/ DriverThreads \/ DevCommand \/ DevStatus \/ DevRestart \/ ChannelLoop
  PROVE  /\ call' = call /\ op' = op
         /\ ~CloseDevice => chan' = chan /\ filt' = filt
<1> USE DEF drvVars
<1>1. CASE CloseDevice  BY <1>1 DEF CloseDevice, Close
<1>2. CASE DriverThreads
  BY <1>2 DEF DriverThreads, Alone, OpenStart, OpenDone, HostThreads, ReaderHello, ReaderTake,
              ReaderExit, WriterCheck, WriterSend, WriterDrained
<1>3. CASE DevCommand \/ DevStatus \/ DevRestart \/ ChannelLoop
  <2>1. call' = call
    BY <1>3 DEF DevCommand, DevStatus, DevRestart, ChannelLoop, DevReceived, DevFlowControl, DevSent,
                FwHandle, FwCrash, FwStatus, FwRestart, FwEmit, Restart, hostVars, linkVars
  <2>2. UNCHANGED drvVars  BY <1>3, DevStep
  <2> QED BY <2>1, <2>2
<1> QED BY <1>1, <1>2, <1>3

LEMMA LockedStep ==
  ASSUME IInv, OpInv, TablesTyped, Locked, [StackNext]_stackVars PROVE Locked'
<1>0. /\ Idle.st = "idle" /\ NoOp.todo = {} /\ NoOp.cmd.op = "none"
      /\ NoOp.cmd.ch = "none" /\ "none" \notin Chans
  BY StackAssumption DEF Idle, NoOp, NoCmd
<1>1. CASE call' = call /\ op' = op  BY <1>1 DEF Locked, Inside
<1>2. ASSUME NEW t \in Callers, Api(t) PROVE Locked'
  <2>1. \A u \in Callers : u # t => call'[u] = call[u] /\ op'[u] = op[u]  BY <1>2, ThreadMoves
  \* What is asked of the thread that moves.
  <2>2. ASSUME call'[t].st # "idle" => op'[t] # NoOp,
               op'[t].todo # {} => op'[t].cmd.op = "remFilter",
               \A c \in Chans : op'[t].cmd.ch = c /\ op'[t].cmd.op # "init" =>
                 \A u \in Inside(c) : u # t => op'[t].cmd.op = "tx" /\ op[u].cmd.op = "tx"
        PROVE  Locked'
    <3>1. \A u \in Callers : call'[u].st # "idle" => op'[u] # NoOp  BY <2>1, <2>2 DEF Locked
    <3>2. \A u \in Callers : op'[u].todo # {} => op'[u].cmd.op = "remFilter"  BY <2>1, <2>2 DEF Locked
    <3>3. ASSUME NEW c \in Chans, NEW u \in Callers, NEW v \in Callers, u # v,
                 op'[u].cmd.ch = c, op'[u].cmd.op # "init", op'[v].cmd.ch = c, op'[v].cmd.op # "init"
          PROVE  op'[u].cmd.op = "tx" /\ op'[v].cmd.op = "tx"
      <4>1. CASE u = t
        <5>1. v \in Inside(c) /\ op'[v] = op[v]  BY <2>1, <3>3, <4>1 DEF Inside
        <5> QED BY <2>2, <3>3, <4>1, <5>1
      <4>2. CASE v = t
        <5>1. u \in Inside(c) /\ op'[u] = op[u]  BY <2>1, <3>3, <4>2 DEF Inside
        <5> QED BY <2>2, <3>3, <4>2, <5>1
      <4>3. CASE u # t /\ v # t
        <5>1. u \in Inside(c) /\ v \in Inside(c) /\ op'[u] = op[u] /\ op'[v] = op[v]
          BY <2>1, <3>3, <4>3 DEF Inside
        <5> QED BY <3>3, <5>1 DEF Locked
      <4> QED BY <4>1, <4>2, <4>3
    <3> QED BY <3>1, <3>2, <3>3 DEF Locked, Inside
  <2>3. ASSUME op'[t] = op[t], call[t].st # "idle" \/ call'[t].st = "idle" PROVE Locked'
    <3>1. \A c \in Chans : op'[t].cmd.ch = c /\ op'[t].cmd.op # "init" =>
            \A u \in Inside(c) : u # t => op'[t].cmd.op = "tx" /\ op[u].cmd.op = "tx"
      BY <2>3 DEF Locked, Inside
    <3> QED BY <2>2, <2>3, <3>1 DEF Locked
  <2>4. ASSUME op'[t] = NoOp, call'[t] = Idle PROVE Locked'  BY <1>0, <2>2, <2>4
  <2>5. ASSUME NEW cmd \in Commands, NEW todo \in SUBSET Slots, Enters(t, cmd, todo),
               op'[t] = [cmd |-> cmd, todo |-> todo]
        PROVE  Locked'
    <3>1. op'[t].cmd = cmd /\ op'[t].todo = todo  BY <2>5
    <3>2. cmd.op # "none"  BY CmdKinds
    <3>3. op'[t] # NoOp  BY <1>0, <3>1, <3>2
    <3>4. \A c \in Chans : cmd.ch = c /\ cmd.op # "init" =>
            \A u \in Inside(c) : u # t => cmd.op = "tx" /\ op[u].cmd.op = "tx"
      <4>1. cmd.op = "query" => cmd.ch = "none"  BY CmdKinds
      <4> QED BY <1>0, <2>5, <4>1 DEF Enters, WriteFree, ReadFree
    <3> QED BY <2>2, <2>5, <3>1, <3>3, <3>4 DEF Enters
  <2>6. ASSUME NEW s \in op[t].todo,
               op'[t] = [cmd |-> RemFilterCmd(op[t].cmd.ch, s), todo |-> op[t].todo \ {s}]
        PROVE  Locked'
    <3>1. /\ op'[t].cmd.op = "remFilter" /\ op'[t].cmd.ch = op[t].cmd.ch
          /\ op[t].cmd.op = "remFilter"
      BY <2>6, CmdFields DEF Locked
    <3>2. op'[t] # NoOp  BY <1>0, <3>1
    <3>3. \A c \in Chans : op[t].cmd.ch = c => \A u \in Inside(c) : u = t
      BY <3>1 DEF Locked, Inside
    <3> QED BY <2>2, <3>1, <3>2, <3>3
  <2> QED BY <1>0, <1>2, <2>3, <2>4, <2>5, <2>6, ThreadMoves
<1>3. CASE UNCHANGED stackVars  BY <1>1, <1>3 DEF stackVars, linkVars, hostVars
<1> QED BY <1>1, <1>2, <1>3, OthersMove DEF StackNext
-----------------------------------------------------------------------------
(* The requests under way *)

\* What the stack does to what is on the way down.
LEMMA StackPath ==
  ASSUME OInv, UpRunning, OpInv, TablesTyped, StackNext, session = "up", session' = "up"
  PROVE  \/ /\ Thinned(Path', Path)
            /\ DevStatus \/ DevCommand => Path # <<>> /\ Thinned(Path', Tail(Path))
         \/ /\ ~(DevStatus \/ DevCommand)
            /\ \E m \in DownMsg :
                 /\ Added(m)
                 /\ \/ \E t \in Callers : /\ SendOp(t) /\ writer # "off" /\ call[t].st = "ready"
                                          /\ m = Cmd(call[t].id, call[t].serial, op[t].cmd)
                    \/ \E c \in Chans, f \in Forms : m = Cmd(0, 0, TxCmd(c, f))
<1>1. IInv /\ Path \in Seq(DownMsg) /\ txQueue \in Seq(DownMsg)
  <2>1. IInv  BY DEF OInv
  <2> QED BY <2>1, PathTyped, DownFacts
<1>2. (DevStatus => FwStatus) /\ (DevCommand => FwCommand) /\ (FwStatus \/ FwCommand => LinkNext)
  BY DevCommandStep DEF DevStatus, LinkNext, Firmware
<1>3. LinkNext \/ (~LinkNext /\ UNCHANGED linkVars)  BY StackStep
<1>4. CASE ~LinkNext /\ UNCHANGED linkVars
  <2>1. Path' = Path  BY <1>4 DEF linkVars, hostVars, Path
  <2>2. Thinned(Path', Path)  BY <1>1, <2>1, ThinSame
  <2> QED BY <1>2, <1>4, <2>2
<1>5. CASE LinkNext
  <2>1. \/ /\ Thinned(Path', Path)
           /\ FwStatus \/ FwCommand => Path # <<>> /\ Thinned(Path', Tail(Path))
        \/ ~(FwStatus \/ FwCommand) /\ \E m \in DownMsg : Added(m)
    BY <1>5, PathStep
  <2>2. ASSUME NEW m \in DownMsg, Added(m)
        PROVE  \/ \E t \in Callers : /\ SendOp(t) /\ writer # "off" /\ call[t].st = "ready"
                                     /\ m = Cmd(call[t].id, call[t].serial, op[t].cmd)
               \/ \E c \in Chans, f \in Forms : m = Cmd(0, 0, TxCmd(c, f))
    <3>0. txQueue' = Append(txQueue, m)  BY <2>2 DEF Added
    <3>1. /\ Len(txQueue) \in Nat /\ Len(txQueue') = Len(txQueue) + 1
          /\ \A n : Append(txQueue, m) = Append(txQueue, n) => m = n
      <4>1. Len(txQueue) \in Nat /\ Len(Append(txQueue, m)) = Len(txQueue) + 1  BY <1>1
      <4>2. \A n : Append(txQueue, n)[Len(txQueue) + 1] = n  BY <1>1
      <4> QED BY <3>0, <4>1, <4>2
    <3>2. /\ txQueue' # txQueue /\ txQueue' # <<>>
          /\ ~(txQueue # <<>> /\ txQueue' = Tail(txQueue))
      <4>1. txQueue # <<>> => Len(Tail(txQueue)) = Len(txQueue) - 1  BY <1>1, HeadTailProperties
      <4>2. txQueue' # <<>>
        <5>1. Len(<<>>) = 0  OBVIOUS
        <5> QED BY <3>1, <5>1
      <4> QED BY <3>1, <4>1, <4>2
    <3>3. ~CloseDevice  BY <3>2 DEF CloseDevice, Close
    <3>4. ~DriverThreads
      BY <3>2 DEF DriverThreads, Alone, OpenStart, OpenDone, HostThreads, ReaderHello, ReaderTake,
                  ReaderExit, WriterCheck, WriterSend, WriterDrained
    <3>5. ~DevCommand /\ ~DevStatus /\ ~DevRestart /\ ~ChannelLoop
      BY <3>2 DEF DevCommand, DevStatus, DevRestart, ChannelLoop, DevReceived, DevFlowControl, DevSent,
                  FwHandle, FwCrash, FwStatus, FwRestart, FwEmit, Restart, hostVars, linkVars
    <3>6. PICK t \in Callers : Api(t)  BY <3>3, <3>4, <3>5 DEF StackNext
    <3>7. SendOp(t) \/ \E c \in Chans : WriteNoWait(t, c)
      <4>1. \A cmd, todo : ~Enters(t, cmd, todo)  BY <3>2 DEF Enters, GetId
      <4>2. ~ClearNext(t) /\ ~Complete(t) /\ ~GiveUp(t)
        BY <3>2 DEF ClearNext, GetId, Complete, Receive, GiveUp, Timeout
      <4> QED BY <3>6, <4>1, <4>2, ApiKinds
    <3>8. ASSUME SendOp(t)
          PROVE  writer # "off" /\ call[t].st = "ready" /\ m = Cmd(call[t].id, call[t].serial, op[t].cmd)
      <4>1. writer # "off" /\ call[t].st = "ready"
            /\ txQueue' = Append(txQueue, Cmd(call[t].id, call[t].serial, op[t].cmd))
        BY <3>2, <3>8 DEF SendOp, Send
      <4> QED BY <3>0, <3>1, <4>1
    <3>9. ASSUME NEW c \in Chans, WriteNoWait(t, c) PROVE \E f \in Forms : m = Cmd(0, 0, TxCmd(c, f))
      <4>1. PICK f \in Forms : txQueue' = Append(txQueue, Cmd(0, 0, TxCmd(c, f)))
        BY <3>2, <3>9 DEF WriteNoWait, Post
      <4> QED BY <3>0, <3>1, <4>1
    <3> QED BY <3>7, <3>8, <3>9
  <2> QED BY <1>2, <2>1, <2>2
<1> QED BY <1>3, <1>4, <1>5

\* A thread that waits sent its message now or before.
LEMMA WaitingBefore ==
  ASSUME IInv, OpInv, TablesTyped, [StackNext]_stackVars, NEW t \in Callers, call'[t].st = "waiting"
  PROVE  \/ call'[t] = call[t] /\ op'[t] = op[t]
         \/ /\ SendOp(t) /\ writer # "off" /\ op'[t] = op[t]
            /\ call[t].st = "ready" /\ call'[t].id = call[t].id
<1>0. Idle.st = "idle"  BY DEF Idle
<1>1. ASSUME NEW u \in Callers, Api(u), u # t PROVE call'[t] = call[t] /\ op'[t] = op[t]
  BY <1>1, ThreadMoves
<1>2. CASE Api(t)
  <2> HIDE DEF Enters, ClearNext, SendOp, Complete, GiveUp, WriteNoWait
  <2> QED BY <1>0, <1>2, ThreadMoves
<1>3. CASE UNCHANGED stackVars  BY <1>3 DEF stackVars, linkVars, hostVars
<1> QED BY <1>1, <1>2, <1>3, OthersMove DEF StackNext

\* Messages of id k that are not the command cmd.
Strange(k, cmd) == {m \in DownMsg : m.id = k /\ ~(m.kind = "cmd" /\ m.body = cmd)}

\* What carries the id of a waiting call is the command of its operation.
Carried == \A t \in Callers : call[t].st = "waiting" => Free(Path, Strange(call[t].id, op[t].cmd))

\* The id of a thread inside a call.
LEMMA CallIds ==
  ASSUME IInv, NEW t \in Callers, call[t].st # "idle" PROVE call[t].id \in Ids
<1>1. call[t].id \in Id0s /\ call[t].id # 0  BY DEF IInv, Scalars, IdsCarried, Call
<1> QED BY <1>1, LinkAssumption DEF Ids, Id0s

LEMMA CarriedStep ==
  ASSUME HelloInTime, OInv, UpRunning, OpInv, TablesTyped, IdsApart, Carried, [StackNext]_stackVars
  PROVE  Carried'
<1>1. CASE UNCHANGED stackVars
  BY <1>1 DEF stackVars, linkVars, hostVars, Carried, Path
<1>2. CASE StackNext
  <2> SUFFICES ASSUME NEW t \in Callers, call'[t].st = "waiting"
               PROVE  Free(Path', Strange(call'[t].id, op'[t].cmd))
    BY DEF Carried
  <2>1. IInv /\ InSession /\ OInv' /\ Path \in Seq(DownMsg) /\ Path' \in Seq(DownMsg)
    <3>1. IInv /\ InSession  BY DEF OInv
    <3>2. OInv'  BY OStep, StackStep
    <3>3. IInv'  BY <3>2 DEF OInv
    <3>4. (IInv => Path \in Seq(DownMsg))'  BY PathTyped, PTL
    <3> QED BY <3>1, <3>2, <3>3, <3>4, PathTyped
  <2>2. \/ call'[t] = call[t] /\ op'[t] = op[t]
        \/ /\ SendOp(t) /\ writer # "off" /\ op'[t] = op[t]
           /\ call[t].st = "ready" /\ call'[t].id = call[t].id
    BY <2>1, WaitingBefore
  <2>3. PICK k, cmd : k = call[t].id /\ cmd = op[t].cmd  OBVIOUS
  <2>4. call'[t].id = k /\ op'[t].cmd = cmd /\ call[t].st # "idle" /\ k \in Ids
    BY <2>1, <2>2, <2>3, CallIds
  <2>5. PICK B : B = Strange(k, cmd)  OBVIOUS
  <2>6. session = "up" /\ session' = "up"  BY <2>1, <2>4 DEF OInv, InSession
  <2>7. Free(Path, B)
    <3>1. CASE call[t].st = "waiting"  BY <2>3, <2>5, <3>1 DEF Carried
    <3>2. CASE call[t].st = "ready"
      <4>1. NotIn(Path, k)  BY <2>3, <3>2 DEF IdsApart
      <4> QED BY <2>5, <4>1 DEF NotIn, Free, Strange
    <3> QED BY <2>2, <3>1, <3>2
  <2>8. ASSUME NEW u \in Callers, call[u].st = "ready"
        PROVE  Cmd(call[u].id, call[u].serial, op[u].cmd) \notin B
    <3>1. CASE u = t  BY <2>3, <2>5, <3>1 DEF Strange, Cmd
    <3>2. CASE u # t
      <4>1. call[u].id # k  BY <2>3, <2>4, <2>8, <3>2 DEF IdsApart
      <4> QED BY <2>5, <4>1 DEF Strange, Cmd
    <3> QED BY <3>1, <3>2
  <2>9. \A c, f : Cmd(0, 0, TxCmd(c, f)) \notin B
    BY <2>4, <2>5 DEF Ids, Strange, Cmd
  <2>10. Free(Path', B)
    <3>1. CASE Thinned(Path', Path)  BY <2>1, <2>7, <3>1, ThinOrder
    <3>2. ASSUME NEW m \in DownMsg, Added(m),
                 \/ \E u \in Callers : /\ SendOp(u) /\ writer # "off" /\ call[u].st = "ready"
                                       /\ m = Cmd(call[u].id, call[u].serial, op[u].cmd)
                 \/ \E c \in Chans, f \in Forms : m = Cmd(0, 0, TxCmd(c, f))
          PROVE  Free(Path', B)
      <4>1. m \notin B  BY <2>8, <2>9, <3>2
      <4>2. Path' = Append(Path, m)  BY <3>2 DEF Added
      <4> QED BY <2>1, <2>7, <4>1, <4>2, AppendOrder
    <3> QED BY <1>2, <2>6, <3>1, <3>2, StackPath
  <2> QED BY <2>4, <2>5, <2>10
<1> QED BY <1>1, <1>2
-----------------------------------------------------------------------------
(* A channel that is open in the driver is open in the device *)

\* Only what closes a channel takes it away.
LEMMA HandleOn ==
  ASSUME NEW m, NEW d \in DevChan, m.body.op # "close", On(d), NEW o \in Handle(m, d)
  PROVE  On(o.chan)
<1> USE DEF Outcome, On
<1>1. ASSUME o \in HandleOpen(m, d) PROVE On(o.chan)  BY <1>1 DEF HandleOpen
<1>2. ASSUME o \in HandleSetFilter(m, d) PROVE On(o.chan)
  <2>1. [d EXCEPT !.used = @ \cup {m.body.slot}].proto = d.proto  BY DEF DevChan
  <2>2. o.chan \in {d, [d EXCEPT !.used = @ \cup {m.body.slot}]}  BY <1>2 DEF HandleSetFilter, CanAddFilter
  <2> QED BY <2>1, <2>2
<1>3. ASSUME o \in HandleRemFilter(m, d) PROVE On(o.chan)
  <2>1. [d EXCEPT !.used = @ \ {m.body.slot}].proto = d.proto  BY DEF DevChan
  <2>2. o.chan \in {d, [d EXCEPT !.used = @ \ {m.body.slot}]}  BY <1>3 DEF HandleRemFilter, CanRemoveFilter
  <2> QED BY <2>1, <2>2
<1>4. ASSUME o \in HandleTx(m, d) PROVE On(o.chan)
  <2>1. [d EXCEPT !.sending = TRUE].proto = d.proto  BY DEF DevChan
  <2>2. o.chan \in {d, [d EXCEPT !.sending = TRUE]}  BY <1>4 DEF HandleTx, CanSendMsg, IsoSendMsg
  <2> QED BY <2>1, <2>2
<1>5. ASSUME o \in HandleInit(m, d) \/ o \in HandleIoctl(m, d) PROVE On(o.chan)
  BY <1>5 DEF HandleInit, Wakeup, HandleIoctl
<1>6. ASSUME o \in {Outcome(d, <<Reply("ok")>>), Outcome(d, <<>>)} PROVE On(o.chan)  BY <1>6
<1> QED BY <1>1, <1>2, <1>3, <1>4, <1>5, <1>6 DEF Handle

\* What the first answer to open says: ok only of an open channel.
LEMMA HandleOpenAnswer ==
  ASSUME NEW m, m.body \in Commands, m.body.op = "open", NEW d, NEW o \in Handle(m, d)
  PROVE  /\ o.outs # <<>> /\ o.outs[1].kind = "reply"
         /\ o.outs[1].body.status = "ok" => On(o.chan)
<1>0. o \in HandleOpen(m, d)  BY DEF Handle
<1>1. \A a : /\ <<Reply(a)>> # <<>> /\ <<Reply(a)>>[1].kind = "reply"
             /\ <<Reply(a)>>[1].body.status = a
  BY DEF Reply
<1>2. \A e, q : Outcome(e, q).chan = e /\ Outcome(e, q).outs = q  BY DEF Outcome
<1>3. ASSUME m.body.ch = "can", o = Outcome([Off EXCEPT !.proto = m.body.proto], <<Reply("ok")>>)
      PROVE  o.outs = <<Reply("ok")>> /\ On(o.chan)
  <2>1. [Off EXCEPT !.proto = m.body.proto].proto = m.body.proto  BY DEF Off
  <2>2. m.body.proto # "none"  BY <1>3, ProtoOf
  <2>3. o.outs = <<Reply("ok")>> /\ o.chan = [Off EXCEPT !.proto = m.body.proto]  BY <1>2, <1>3
  <2>4. On(o.chan)  BY <2>1, <2>2, <2>3 DEF On
  <2> QED BY <2>3, <2>4
<1>4. ASSUME o = Outcome([Off EXCEPT !.proto = "ISO9141"], <<Reply("ok")>>)
      PROVE  o.outs = <<Reply("ok")>> /\ On(o.chan)
  <2>1. [Off EXCEPT !.proto = "ISO9141"].proto = "ISO9141"  BY DEF Off
  <2> QED BY <1>2, <1>4, <2>1 DEF On
<1>5. ASSUME NEW a \in {"err", "errNoText"}, o = Outcome(d, <<Reply(a)>>)
      PROVE  o.outs = <<Reply(a)>>
  BY <1>2, <1>5
<1>6. \/ m.body.ch = "can" /\ o = Outcome([Off EXCEPT !.proto = m.body.proto], <<Reply("ok")>>)
      \/ o = Outcome([Off EXCEPT !.proto = "ISO9141"], <<Reply("ok")>>)
      \/ \E a \in {"err", "errNoText"} : o = Outcome(d, <<Reply(a)>>)
  BY <1>0 DEF HandleOpen
<1> QED BY <1>1, <1>3, <1>4, <1>5, <1>6

\* Without restarts the device's channel changes by status messages, by a handler,
\* or only in what it is sending.
LEMMA DevMoves ==
  ASSUME IInv, OpInv, TablesTyped, [StackNext]_stackVars, restarts' = restarts, NEW c \in Chans
  PROVE  \/ dev'[c].proto = dev[c].proto /\ dev'[c].used = dev[c].used
         \/ DevStatus /\ dev'[c] = Off /\ Head(down).kind # "cmd" /\ down # <<>>
         \/ /\ DevCommand /\ down # <<>> /\ Head(down) \in DownMsg /\ Head(down).kind = "cmd"
            /\ Head(down).body \in Commands /\ Head(down).body.ch = c
            /\ \E o \in Handle(Head(down), dev[c]) : FwHandle(o.outs) /\ dev'[c] = o.chan
<1>0. restarts \in Nat /\ down \in Seq(DownMsg) /\ dev \in [Chans -> DevChan]
  BY DownFacts DEF IInv, Scalars, TablesTyped
<1>1. \A outs : ~FwCrash(outs)  BY <1>0 DEF FwCrash, Restart
<1>2. ~DevRestart  BY <1>0 DEF DevRestart, FwRestart, Restart
<1>3. ASSUME NEW t \in Callers, Api(t) PROVE dev' = dev  BY <1>3, ThreadMoves
<1>4. CASE CloseDevice \/ DriverThreads  BY <1>4 DEF CloseDevice, DriverThreads, Alone
<1>5. CASE DevStatus  BY <1>5 DEF DevStatus, AllOff, FwStatus
<1>6. CASE DevCommand
  <2> DEFINE m == Head(down)
             e == m.body.ch
  <2>1. down # <<>> /\ m \in DownMsg /\ m.kind = "cmd"  BY <1>0, <1>6, SeqFacts DEF DevCommand
  <2>2. m.body \in Commands  BY <2>1, BodiesAssumption DEF DownMsg
  <2>3. PICK o \in Handle(m, IF e \in Chans THEN dev[e] ELSE Off) :
          FwHandle(o.outs) /\ dev' = IF e \in Chans THEN [dev EXCEPT ![e] = o.chan] ELSE dev
    BY <1>1, <1>6 DEF DevCommand
  <2> HIDE DEF m, e
  <2>4. CASE e = c
    <3>1. o \in Handle(m, dev[c]) /\ dev'[c] = o.chan  BY <1>0, <2>3, <2>4
    <3> QED BY <1>6, <2>1, <2>2, <2>3, <2>4, <3>1 DEF m, e
  <2>5. CASE e # c
    <3>1. dev'[c] = dev[c]  BY <1>0, <2>3, <2>5
    <3> QED BY <3>1
  <2> QED BY <2>4, <2>5
<1>7. ASSUME NEW e \in Chans, DevReceived(e) \/ DevFlowControl(e) \/ DevSent(e)
      PROVE  dev'[c].proto = dev[c].proto /\ dev'[c].used = dev[c].used
  <2>1. PICK b \in BOOLEAN : dev' = dev \/ dev' = [dev EXCEPT ![e].sending = b]
    BY <1>7 DEF DevReceived, DevFlowControl, DevSent
  <2>2. dev[c] \in DevChan  BY <1>0
  <2>3. dev'[c] = dev[c] \/ dev'[c] = [dev[c] EXCEPT !.sending = b]  BY <1>0, <2>1
  <2> QED BY <2>2, <2>3 DEF DevChan
<1>8. CASE UNCHANGED stackVars  BY <1>8 DEF stackVars
<1> QED BY <1>2, <1>3, <1>4, <1>5, <1>6, <1>7, <1>8 DEF StackNext, ChannelLoop

\* Messages that close channel c: hello, goodbye and the request to close it.
Closing(c) == {m \in DownMsg : m.kind # "cmd" \/ (m.body.op = "close" /\ m.body.ch = c)}
Of(k)      == {m \in DownMsg : m.id = k}

\* The driver gives a channel up before it asks for it to be closed.
GivenUp ==
  \A t \in Callers, c \in Chans :
    op[t].cmd.ch = c /\ op[t].cmd.op \in {"open", "close"} => ~chan[c]

\* A channel that is open in the driver is open in the device, and nothing that
\* closes it is under way.
OpenKept ==
  \A c \in Chans : chan[c] => session = "up" /\ On(dev[c]) /\ Free(Path, Closing(c))

\* A channel that is being opened: what closes it, if anything does, is handled
\* before, and ok is answered for an open channel.
OpenAsked ==
  \A t \in Callers, c \in Chans :
    call[t].st = "waiting" /\ op[t].cmd.op = "open" /\ op[t].cmd.ch = c =>
      /\ Behind(Path, Of(call[t].id), Closing(c))
      /\ \A a \in First(call[t].id) : a.status = "ok" => On(dev[c]) /\ Free(Path, Closing(c))
      /\ lastId = call[t].id => Some(call[t].id)

\* A session ends by being closed.
LEMMA SessionEnds ==
  ASSUME OInv, OpInv, TablesTyped, [StackNext]_stackVars, session = "up", session' # "up" PROVE CloseDevice
<1>1. ASSUME NEW t \in Callers, Api(t) PROVE FALSE
  <2>1. HostCall(t)  BY <1>1, ApiStep
  <2> QED BY <2>1 DEF HostCall, GetId, Receive, Timeout, Send, Post
<1>2. ~DriverThreads
  BY DEF DriverThreads, Alone, OpenStart, OpenDone, HostThreads, ReaderHello, ReaderTake,
         ReaderExit, WriterCheck, WriterSend, WriterDrained
<1>3. ~DevCommand /\ ~DevStatus /\ ~DevRestart /\ ~ChannelLoop
  BY DEF DevCommand, DevStatus, DevRestart, ChannelLoop, DevReceived, DevFlowControl, DevSent,
         FwHandle, FwCrash, FwStatus, FwRestart, FwEmit, Restart, hostVars, linkVars
<1>4. ~UNCHANGED stackVars  BY DEF stackVars, linkVars, hostVars
<1> QED BY <1>1, <1>2, <1>3, <1>4 DEF StackNext

\* A channel stays open as long as nobody asks for it to be closed.
LEMMA StillOpen ==
  ASSUME OInv, UpRunning, OpInv, TablesTyped, StackNext, session = "up", session' = "up",
         restarts' = restarts, Path' \in Seq(DownMsg),
         NEW c \in Chans, On(dev[c]), Free(Path, Closing(c)),
         \A u \in Callers : ~(op[u].cmd.op = "close" /\ op[u].cmd.ch = c)
  PROVE  On(dev'[c]) /\ Free(Path', Closing(c))
<1>1. IInv /\ Path \in Seq(DownMsg) /\ dev[c] \in DevChan
  <2>1. IInv  BY DEF OInv
  <2> QED BY <2>1, PathTyped DEF TablesTyped
<1>2. PICK B : B = Closing(c)  OBVIOUS
<1>3. down # <<>> => Head(down) \notin B
  <2>1. down # <<>> => Path # <<>> /\ Head(Path) = Head(down)  BY <1>1, PathHead
  <2> QED BY <1>1, <1>2, <2>1, HeadOrder
<1>4. down # <<>> => Head(down) \in DownMsg
  <2>1. down \in Seq(DownMsg)  BY <1>1, DownFacts
  <2> QED BY <2>1, SeqFacts
<1>5. On(dev'[c])
  <2>1. CASE dev'[c].proto = dev[c].proto  BY <2>1 DEF On
  <2>2. CASE DevStatus /\ Head(down).kind # "cmd" /\ down # <<>>  BY <1>2, <1>3, <1>4, <2>2 DEF Closing
  <2>3. CASE /\ DevCommand /\ down # <<>> /\ Head(down) \in DownMsg /\ Head(down).body.ch = c
             /\ \E o \in Handle(Head(down), dev[c]) : FwHandle(o.outs) /\ dev'[c] = o.chan
    <3>1. Head(down).body.op # "close"  BY <1>2, <1>3, <2>3 DEF Closing
    <3> QED BY <1>1, <2>3, <3>1, HandleOn
  <2> QED BY <1>1, <2>1, <2>2, <2>3, DevMoves
<1>6. Free(Path', B)
  <2>1. CASE Thinned(Path', Path)  BY <1>1, <1>2, <2>1, ThinOrder
  <2>2. ASSUME NEW m \in DownMsg, Added(m),
               \/ \E u \in Callers : /\ SendOp(u) /\ writer # "off" /\ call[u].st = "ready"
                                     /\ m = Cmd(call[u].id, call[u].serial, op[u].cmd)
               \/ \E e \in Chans, f \in Forms : m = Cmd(0, 0, TxCmd(e, f))
        PROVE  Free(Path', B)
    <3>1. m \notin B
      <4>1. \A e, f : TxCmd(e, f).op = "tx"  BY CmdFields
      <4> QED BY <1>2, <2>2, <4>1 DEF Closing, Cmd
    <3>2. Path' = Append(Path, m)  BY <2>2 DEF Added
    <3> QED BY <1>1, <1>2, <3>1, <3>2, AppendOrder
  <2> QED BY <2>1, <2>2, StackPath
<1> QED BY <1>2, <1>5, <1>6

\* Only an answer to open opens a channel in the driver.
LEMMA ChanSet ==
  ASSUME IInv, OpInv, TablesTyped, [StackNext]_stackVars, NEW c \in Chans, chan'[c], ~chan[c]
  PROVE  \E t \in Callers : /\ Complete(t) /\ op[t].cmd.op = "open" /\ op[t].cmd.ch = c
                            /\ Head(inbox[call[t].id]).body.status = "ok"
<1>0. chan \in [Chans -> BOOLEAN]  BY DEF TablesTyped
<1>1. chan' # chan  OBVIOUS
<1>2. ~CloseDevice  BY DEF CloseDevice
<1>3. PICK t \in Callers : Api(t)
  BY <1>1, <1>2, OthersMove DEF StackNext, stackVars
<1>4. \A cmd, todo : ~Enters(t, cmd, todo)
  <2> SUFFICES ASSUME NEW cmd, NEW todo, Enters(t, cmd, todo) PROVE FALSE  OBVIOUS
  <2>1. chan' = [chan EXCEPT ![cmd.ch] = FALSE]  BY <1>1 DEF Enters
  <2> QED BY <1>0, <2>1
<1>5. ~SendOp(t) /\ ~ClearNext(t) /\ ~(\E e \in Chans : WriteNoWait(t, e))
  BY <1>1 DEF SendOp, ClearNext, WriteNoWait, drvVars
<1>6. ~GiveUp(t)  BY <1>1 DEF GiveUp, Finish
<1>7. Complete(t)  BY <1>3, <1>4, <1>5, <1>6, ApiKinds
<1>8. /\ Head(inbox[call[t].id]).body.status = "ok" /\ op[t].cmd.op = "open"
      /\ chan' = [chan EXCEPT ![op[t].cmd.ch] = TRUE]
  BY <1>1, <1>7 DEF Complete, Finish
<1>9. op[t].cmd.ch = c  BY <1>0, <1>8
<1> QED BY <1>7, <1>8, <1>9

LEMMA GivenUpStep ==
  ASSUME IInv, OpInv, TablesTyped, Locked, GivenUp, [StackNext]_stackVars PROVE GivenUp'
<1> SUFFICES ASSUME NEW t \in Callers, NEW c \in Chans, op'[t].cmd.ch = c,
                    op'[t].cmd.op \in {"open", "close"}
             PROVE  ~chan'[c]
  BY DEF GivenUp
<1>0. chan \in [Chans -> BOOLEAN] /\ op \in [Callers -> [cmd : Commands \cup {NoCmd}, todo : SUBSET Slots]]
  BY DEF TablesTyped, OpInv
<1>1. NoOp.cmd.op = "none"  BY CmdFields DEF NoOp
<1>2. CASE op'[t] = op[t]
  <2>1. ~chan[c]  BY <1>2 DEF GivenUp
  <2> SUFFICES ASSUME chan'[c] PROVE FALSE  OBVIOUS
  <2>2. PICK u \in Callers : Complete(u) /\ op[u].cmd.op = "open" /\ op[u].cmd.ch = c
    BY <2>1, ChanSet
  <2>3. u \in Inside(c) /\ t \in Inside(c)  BY <1>2, <2>2 DEF Inside
  <2>4. u = t  BY <2>2, <2>3 DEF Locked
  <2>5. op' = op \/ op' = [op EXCEPT ![t] = NoOp]  BY <2>2, <2>4 DEF Complete, Finish
  <2>6. op' = op /\ op[t].todo # {}
    <3>1. op' = op  BY <1>0, <1>1, <1>2, <2>2, <2>4, <2>5
    <3>2. op[t] # NoOp  BY <1>1, <2>2, <2>4
    <3>3. ~(op' = [op EXCEPT ![t] = NoOp])  BY <1>0, <3>1, <3>2
    <3> QED BY <2>2, <2>4, <3>1, <3>3 DEF Complete, Finish
  <2> QED BY <2>2, <2>4, <2>6 DEF Locked
<1>3. CASE op'[t] # op[t]
  <2>1. PICK u \in Callers : Api(u)
    BY <1>3, OthersMove DEF StackNext, stackVars
  <2>2. u = t  BY <1>3, <2>1, ThreadMoves
  <2>3. \/ \E cmd \in Commands : \E todo \in SUBSET Slots :
             Enters(t, cmd, todo) /\ op'[t] = [cmd |-> cmd, todo |-> todo]
        \/ \E s \in op[t].todo :
             op'[t] = [cmd |-> RemFilterCmd(op[t].cmd.ch, s), todo |-> op[t].todo \ {s}]
        \/ op'[t] = NoOp
    <3> HIDE DEF Enters, ClearNext, SendOp, Complete, GiveUp, WriteNoWait
    <3> QED BY <1>3, <2>1, <2>2, ThreadMoves
  <2>4. PICK cmd \in Commands : \E todo \in SUBSET Slots :
          Enters(t, cmd, todo) /\ op'[t] = [cmd |-> cmd, todo |-> todo]
    <3>1. op'[t].cmd.op \notin {"none", "remFilter"}  OBVIOUS
    <3>2. \A s, todo : op'[t] # [cmd |-> RemFilterCmd(op[t].cmd.ch, s), todo |-> todo]
      <4>1. \A s : RemFilterCmd(op[t].cmd.ch, s).op = "remFilter"  BY CmdFields
      <4>2. \A x, todo : op'[t] = [cmd |-> x, todo |-> todo] => op'[t].cmd = x  OBVIOUS
      <4> HIDE DEF RemFilterCmd
      <4> QED BY <3>1, <4>1, <4>2
    <3>3. op'[t] # NoOp  BY <1>1, <3>1
    <3> QED BY <2>3, <3>2, <3>3
  <2>5. cmd.ch = c /\ cmd.op \in {"open", "close"}  BY <2>4
  <2>6. CASE cmd.op = "open"
    <3>1. chan' = chan /\ ~chan[c]  BY <1>0, <2>4, <2>5, <2>6 DEF Enters
    <3> QED BY <3>1
  <2>7. CASE cmd.op = "close"
    <3>1. chan' = [chan EXCEPT ![c] = FALSE]  BY <2>4, <2>5, <2>7 DEF Enters
    <3> QED BY <1>0, <3>1
  <2> QED BY <2>5, <2>6, <2>7
<1> QED BY <1>2, <1>3

LEMMA OpenKeptStep ==
  ASSUME HelloInTime, OInv, UpRunning, OpInv, TablesTyped, Locked, GivenUp, OpenKept, OpenAsked,
         [StackNext]_stackVars, restarts' = restarts
  PROVE  OpenKept'
<1>0. IInv /\ InSession /\ Path' \in Seq(DownMsg)
  <2>1. IInv /\ InSession  BY DEF OInv
  <2>2. OInv'  BY OStep, StackStep
  <2>3. IInv'  BY <2>2 DEF OInv
  <2>4. (IInv => Path \in Seq(DownMsg))'  BY PathTyped, PTL
  <2> QED BY <2>1, <2>3, <2>4
<1>1. CASE UNCHANGED stackVars
  BY <1>1 DEF stackVars, linkVars, hostVars, OpenKept, Path
<1>2. CASE StackNext
  <2> SUFFICES ASSUME NEW c \in Chans, chan'[c]
               PROVE  session' = "up" /\ On(dev'[c]) /\ Free(Path', Closing(c))
    BY DEF OpenKept
  <2>1. CASE chan[c]
    <3>1. session = "up" /\ On(dev[c]) /\ Free(Path, Closing(c))  BY <2>1 DEF OpenKept
    <3>2. ~CloseDevice  BY DEF CloseDevice
    <3>3. session' = "up"  BY <3>1, <3>2, SessionEnds
    <3>4. \A u \in Callers : ~(op[u].cmd.op = "close" /\ op[u].cmd.ch = c)  BY <2>1 DEF GivenUp
    <3> QED BY <1>0, <1>2, <3>1, <3>3, <3>4, StillOpen
  <2>2. CASE ~chan[c]
    <3>1. PICK t \in Callers : /\ Complete(t) /\ op[t].cmd.op = "open" /\ op[t].cmd.ch = c
                               /\ Head(inbox[call[t].id]).body.status = "ok"
      BY <1>0, <2>2, ChanSet
    <3>2. call[t].st = "waiting" /\ inbox[call[t].id] # <<>> /\ session' = session
          /\ down' = down /\ txQueue' = txQueue /\ dev' = dev
      BY <3>1 DEF Complete, Receive, Finish
    <3>3. session = "up"  BY <1>0, <3>2 DEF InSession
    <3>4. Head(inbox[call[t].id]).body \in First(call[t].id)  BY <3>2 DEF First
    <3>5. On(dev[c]) /\ Free(Path, Closing(c))  BY <3>1, <3>2, <3>4 DEF OpenAsked
    <3>6. Path' = Path  BY <3>2 DEF Path
    <3> QED BY <3>2, <3>3, <3>5, <3>6
  <2> QED BY <2>1, <2>2
<1> QED BY <1>1, <1>2

\* Without restarts only the firmware's loop takes a command from the wire.
LEMMA OnlyDevHandles ==
  ASSUME IInv, OpInv, StackNext, FwCommand, restarts' = restarts PROVE DevCommand
<1>0. restarts \in Nat /\ down \in Seq(DownMsg)  BY DownFacts DEF IInv, Scalars
<1>1. /\ down # <<>> /\ Head(down).kind = "cmd" /\ down' = Tail(down) /\ UNCHANGED hostVars
  BY <1>0 DEF FwCommand, FwHandle, FwCrash, Restart
<1>2. down' # down
  <2>1. Len(Tail(down)) = Len(down) - 1 /\ Len(down) \in Nat  BY <1>0, <1>1, HeadTailProperties
  <2>2. Tail(down) # down  BY <2>1
  <2>3. down' = Tail(down)  BY <1>1
  <2> QED BY <2>2, <2>3
<1>3. ASSUME NEW t \in Callers, Api(t) PROVE FALSE
  <2>1. HostCall(t)  BY <1>3, ApiStep
  <2> QED BY <1>2, <2>1 DEF HostCall, GetId, Receive, Timeout, Send, Post
<1>4. ~CloseDevice  BY <1>2 DEF CloseDevice, Close
<1>5. ~DriverThreads
  <2>1. UNCHANGED <<session, reader, writer>>  BY <1>1 DEF hostVars
  <2> QED BY <1>2, <2>1 DEF DriverThreads, Alone, OpenStart, OpenDone, HostThreads, ReaderHello,
            ReaderTake, ReaderExit, WriterCheck, WriterSend, WriterDrained
<1>6. ~DevStatus  BY <1>1 DEF DevStatus, FwStatus
<1>7. ~DevRestart  BY <1>0 DEF DevRestart, FwRestart, Restart
<1>8. ~ChannelLoop
  BY <1>2 DEF ChannelLoop, DevReceived, DevFlowControl, DevSent, FwEmit, linkVars
<1> QED BY <1>3, <1>4, <1>5, <1>6, <1>7, <1>8 DEF StackNext

\* What there is of answers for a thread that goes on waiting, as long as its own
\* command is not handled.
LEMMA StackFirst ==
  ASSUME IInv, OpInv, UpPlain, IdsApart, StackNext, session = "up", session' = "up",
         restarts' = restarts, NEW t \in Callers, call[t].st = "waiting", call'[t] = call[t],
         NEW k \in Ids, k = call[t].id, lastId = k => Some(k), DevCommand => Head(down).id # k
  PROVE  First(k)' \subseteq First(k) /\ (Some(k) => Some(k)') /\ (lastId' = k => Some(k)')
<1>1. CASE UNCHANGED linkVars
  <2>1. up' = up /\ inbox' = inbox /\ lastId' = lastId  BY <1>1 DEF linkVars, hostVars, devVars
  <2> QED BY <2>1 DEF First, Some
<1>2. CASE LinkNext
  <2>1. \A u \in Callers : Receive(u) => call[u].id # k
    <3> SUFFICES ASSUME NEW u \in Callers, Receive(u), call[u].id = k PROVE FALSE  OBVIOUS
    <3>1. call[u].st = "waiting" /\ call' = [call EXCEPT ![u] = Idle]  BY DEF Receive
    <3>2. u = t  BY <3>1 DEF IdsApart
    <3>3. call'[t] = Idle  BY <3>1, <3>2 DEF IInv, Scalars
    <3> QED BY <3>3 DEF Idle
  <2>2. FwCommand => Head(down).id # k  BY OnlyDevHandles
  <2> QED BY <1>2, <2>1, <2>2, FirstStep
<1> QED BY <1>1, <1>2, StackStep

LEMMA OpenAskedStep ==
  ASSUME HelloInTime, OInv, UpRunning, UpPlain, IdsApart, OpInv, TablesTyped, Locked, Carried, OpenAsked,
         [StackNext]_stackVars, restarts' = restarts
  PROVE  OpenAsked'
<1>0. IInv /\ InSession /\ OInv' /\ Path \in Seq(DownMsg) /\ Path' \in Seq(DownMsg)
  <2>1. IInv /\ InSession  BY DEF OInv
  <2>2. OInv'  BY OStep, StackStep
  <2>3. IInv'  BY <2>2 DEF OInv
  <2>4. (IInv => Path \in Seq(DownMsg))'  BY PathTyped, PTL
  <2> QED BY <2>1, <2>2, <2>3, <2>4, PathTyped
<1>1. CASE UNCHANGED stackVars
  <2>1. UNCHANGED <<down, txQueue, up, inbox, call, op, dev, lastId>>
    BY <1>1 DEF stackVars, linkVars, hostVars, devVars
  <2>2. \A k : First(k)' = First(k) /\ Some(k)' = Some(k)  BY <2>1 DEF First, Some
  <2>3. Path' = Path  BY <2>1 DEF Path
  <2> QED BY <2>1, <2>2, <2>3 DEF OpenAsked
<1>2. CASE StackNext
  <2> SUFFICES ASSUME NEW t \in Callers, NEW c \in Chans,
                      call'[t].st = "waiting", op'[t].cmd.op = "open", op'[t].cmd.ch = c
               PROVE  /\ Behind(Path', Of(call'[t].id), Closing(c))
                      /\ \A a \in First(call[t].id)' : a.status = "ok" => On(dev'[c]) /\ Free(Path', Closing(c))
                      /\ lastId' = call'[t].id => Some(call[t].id)'
    BY DEF OpenAsked
  <2>1. \/ call'[t] = call[t] /\ op'[t] = op[t]
        \/ /\ SendOp(t) /\ writer # "off" /\ op'[t] = op[t]
           /\ call[t].st = "ready" /\ call'[t].id = call[t].id
    BY <1>0, WaitingBefore
  <2>2. PICK k, cmd : k = call[t].id /\ cmd = op[t].cmd  OBVIOUS
  <2>3. /\ call'[t].id = k /\ op'[t] = op[t] /\ cmd.op = "open" /\ cmd.ch = c
        /\ call[t].st # "idle" /\ k \in Ids
    BY <1>0, <2>1, <2>2, CallIds
  <2>4. session = "up" /\ session' = "up"  BY <1>0, <2>3 DEF OInv, InSession
  <2>5. PICK A, B : A = Of(k) /\ B = Closing(c)  OBVIOUS
  <2>6. Behind(Path, A, B)
    <3>1. CASE call[t].st = "waiting"  BY <2>2, <2>3, <2>5, <3>1 DEF OpenAsked
    <3>2. CASE call[t].st = "ready"
      <4>1. NotIn(Path, k)  BY <2>2, <3>2 DEF IdsApart
      <4> QED BY <2>5, <4>1 DEF NotIn, Behind, Of
    <3> QED BY <2>1, <3>1, <3>2
  \* Nobody else is inside the channel.
  <2>7. \A u \in Callers : ~(op[u].cmd.op = "close" /\ op[u].cmd.ch = c)
    <3> SUFFICES ASSUME NEW u \in Callers, op[u].cmd.op = "close", op[u].cmd.ch = c PROVE FALSE  OBVIOUS
    <3>1. u \in Inside(c) /\ t \in Inside(c) /\ u # t  BY <2>2, <2>3 DEF Inside
    <3> QED BY <3>1 DEF Locked
  <2>8. Behind(Path', A, B)
    <3>1. CASE Thinned(Path', Path)  BY <1>0, <2>6, <3>1, ThinOrder
    <3>2. ASSUME NEW m \in DownMsg, Added(m),
                 \/ \E u \in Callers : /\ SendOp(u) /\ writer # "off" /\ call[u].st = "ready"
                                       /\ m = Cmd(call[u].id, call[u].serial, op[u].cmd)
                 \/ \E e \in Chans, f \in Forms : m = Cmd(0, 0, TxCmd(e, f))
          PROVE  Behind(Path', A, B)
      <4>1. m \notin B
        <5>1. \A e, f : TxCmd(e, f).op = "tx"  BY CmdFields
        <5> QED BY <2>5, <2>7, <3>2, <5>1 DEF Closing, Cmd
      <4>2. Path' = Append(Path, m)  BY <3>2 DEF Added
      <4> QED BY <1>0, <2>6, <4>1, <4>2, AppendOrder
    <3> QED BY <1>2, <2>4, <3>1, <3>2, StackPath
  <2>9. (\A a \in First(k)' : a.status = "ok" => On(dev'[c]) /\ Free(Path', B)) /\ (lastId' = k => Some(k)')
    <3>1. CASE call[t].st = "ready"
      <4>1. SendOp(t) /\ NotUp(k)  BY <2>1, <2>2, <3>1 DEF IdsApart
      <4>2. up' = up /\ inbox' = inbox /\ lastId' = lastId  BY <4>1 DEF SendOp, Send, devVars
      <4>3. First(k)' = {} /\ lastId' # k  BY <4>1, <4>2 DEF NotUp, First, FirstIn
      <4> QED BY <4>3
    <3>2. CASE call[t].st = "waiting" /\ DevCommand /\ Head(down).id = k
      <4>1. down # <<>> /\ Path # <<>> /\ Head(Path) = Head(down) /\ Head(down) \in DownMsg
        <5>1. down # <<>> /\ down \in Seq(DownMsg)  BY <1>0, <3>2, DownFacts DEF DevCommand
        <5> QED BY <1>0, <5>1, PathHead, SeqFacts
      <4>2. Head(down).kind = "cmd" /\ Head(down).body = cmd
        <5>1. Free(Path, Strange(k, cmd))  BY <2>2, <3>2 DEF Carried
        <5>2. Head(Path) \notin Strange(k, cmd)  BY <1>0, <4>1, <5>1, HeadOrder
        <5> QED BY <3>2, <4>1, <5>2 DEF Strange
      <4>3. Free(Path', B)
        <5>1. Head(Path) \in A  BY <2>5, <3>2, <4>1 DEF Of
        <5>2. Free(Path, B)  BY <1>0, <2>6, <4>1, <5>1, HeadOrder
        <5>3. Thinned(Path', Path)  BY <1>2, <2>4, <3>2, StackPath
        <5> QED BY <1>0, <5>2, <5>3, ThinOrder
      <4>4. PICK o \in Handle(Head(down), dev[c]) : FwHandle(o.outs) /\ dev'[c] = o.chan
        <5>1. cmd \in Commands  BY <4>1, <4>2, BodiesAssumption DEF DownMsg
        <5>2. restarts \in Nat /\ c = Head(down).body.ch  BY <1>0, <2>3, <4>2 DEF IInv, Scalars
        <5>3. \A outs : ~FwCrash(outs)  BY <5>2 DEF FwCrash, Restart
        <5> QED BY <3>2, <5>2, <5>3 DEF DevCommand, TablesTyped
      <4>5. /\ o.outs # <<>> /\ o.outs[1].kind = "reply"
            /\ o.outs[1].body.status = "ok" => On(o.chan)
        <5>1. Head(down).body \in Commands  BY <4>1, <4>2, BodiesAssumption DEF DownMsg
        <5> QED BY <2>3, <4>2, <5>1, HandleOpenAnswer
      <4>6. NotUp(k)
        <5>1. NotIn(Path, k) \/ NotUp(k)  BY <2>2, <3>2 DEF IdsApart
        <5>2. ~NotIn(Path, k)
          <6>1. 1 \in 1 .. Len(Path) /\ Head(Path) = Path[1]  BY <1>0, <4>1, HeadTailProperties
          <6> QED BY <3>2, <4>1, <6>1 DEF NotIn
        <5> QED BY <5>1, <5>2
      <4>7. o.outs \in Seq(Outs)  BY HandleOuts DEF Brief
      <4>8. Some(k)' /\ First(k)' \subseteq {o.outs[1].body}
        BY <1>0, <2>3, <3>2, <4>4, <4>5, <4>6, <4>7, FirstAnswer
      <4> QED BY <4>3, <4>4, <4>5, <4>8
    <3>3. CASE call[t].st = "waiting" /\ ~(DevCommand /\ Head(down).id = k)
      <4>1. call'[t] = call[t]  BY <2>1, <3>3
      <4>2. /\ \A a \in First(k) : a.status = "ok" => On(dev[c]) /\ Free(Path, B)
            /\ lastId = k => Some(k)
        BY <2>2, <2>3, <2>5, <3>3 DEF OpenAsked
      <4>3. First(k)' \subseteq First(k) /\ (lastId' = k => Some(k)')
        BY <1>0, <1>2, <2>2, <2>3, <2>4, <3>3, <4>1, <4>2, StackFirst
      <4>4. On(dev[c]) /\ Free(Path, B) => On(dev'[c]) /\ Free(Path', B)
        BY <1>0, <1>2, <2>4, <2>5, <2>7, StillOpen
      <4> QED BY <4>2, <4>3, <4>4
    <3> QED BY <2>1, <3>1, <3>2, <3>3
  <2>10. First(call[t].id)' = First(k)' /\ Some(call[t].id)' = Some(k)'
    BY <2>3 DEF First, Some
  <2> QED BY <2>3, <2>5, <2>8, <2>9, <2>10
<1> QED BY <1>1, <1>2

\* The first round of ids, without restarts of the device.
FirstRound == calls < IdLimit - 1 /\ restarts = 0

\* What holds of every reachable state, and what of those in the first round.
StackInv == OInv /\ UpRunning /\ UpPlain /\ Numbered /\ OpInv /\ TablesTyped /\ Locked /\ GivenUp
RoundInv == IdsApart /\ Carried /\ OpenKept /\ OpenAsked

LEMMA StackInvInit == StackInit => StackInv /\ RoundInv
<1> SUFFICES ASSUME StackInit PROVE StackInv /\ RoundInv  OBVIOUS
<1>1. LinkInit /\ OpInv  BY StackInitInv
<1>2. IInv /\ Numbered  BY <1>1, InitInv, InitNumbered
<1>3. OInv  BY <1>1, <1>2 DEF OInv, LinkInit, QueueIsOfSession, InSession, HelloFirst, Idle
<1>4. UpRunning /\ UpPlain  BY <1>1 DEF LinkInit, UpRunning, UpPlain
<1>5. TablesTyped  BY DEF StackInit, TablesTyped, Off, DevChan
<1>6. Locked /\ GivenUp
  <2>1. NoOp.cmd.op = "none" /\ NoOp.cmd.ch = "none" /\ NoOp.todo = {} /\ "none" \notin Chans
    BY CmdFields, StackAssumption DEF NoOp
  <2> QED BY <1>1, <2>1 DEF StackInit, LinkInit, Idle, Locked, GivenUp, Inside
<1>7. RoundInv
  <2>1. \A t \in Callers : call[t].st = "idle"  BY <1>1 DEF LinkInit, Idle
  <2>2. \A c \in Chans : ~chan[c]  BY DEF StackInit
  <2> QED BY <2>1, <2>2 DEF RoundInv, IdsApart, Carried, OpenKept, OpenAsked
<1> QED BY <1>1, <1>2, <1>3, <1>4, <1>5, <1>6, <1>7 DEF StackInv

LEMMA StackInvStep == ASSUME HelloInTime, StackInv, [StackNext]_stackVars PROVE StackInv'
<1>1. IInv /\ InSession  BY DEF StackInv, OInv
<1>2. [LinkNext]_linkVars /\ OpInv'  BY StackStep DEF StackInv
<1>3. OInv'  BY <1>2, OStep DEF StackInv
<1>4. UpRunning'  BY <1>1, <1>2, UpRunningStep DEF StackInv
<1>5. UpPlain'  BY <1>1, <1>2, UpPlainStep DEF StackInv
<1>6. Numbered'  BY <1>1, <1>2, NumberedStep DEF StackInv
<1>7. TablesTyped'  BY <1>1, IInvType, TablesStep DEF StackInv
<1>8. Locked'  BY <1>1, LockedStep DEF StackInv
<1>9. GivenUp'  BY <1>1, GivenUpStep DEF StackInv
<1> QED BY <1>2, <1>3, <1>4, <1>5, <1>6, <1>7, <1>8, <1>9 DEF StackInv

\* Rounds and restarts only count up.
LEMMA RoundBefore ==
  ASSUME IInv, [LinkNext]_linkVars, FirstRound' PROVE FirstRound /\ restarts' = restarts
<1>1. calls \in Nat /\ restarts \in Nat  BY DEF IInv, Scalars
<1>2. (calls' = calls \/ calls' = calls + 1) /\ (restarts' = restarts \/ restarts' = restarts + 1)
  <2>1. CASE UNCHANGED linkVars  BY <2>1 DEF linkVars, hostVars, devVars
  <2>2. CASE HostSession  BY <2>2 DEF HostSession, OpenStart, OpenDone, Close, devVars
  <2>3. CASE HostThreads
    BY <2>3 DEF HostThreads, ReaderHello, ReaderTake, ReaderExit, WriterCheck, WriterSend,
                WriterDrained, devVars
  <2>4. ASSUME NEW t \in Callers, HostCall(t)
        PROVE  (calls' = calls \/ calls' = calls + 1) /\ (restarts' = restarts \/ restarts' = restarts + 1)
    BY <2>4 DEF HostCall, GetId, Receive, Timeout, Send, Post, devVars
  <2>5. CASE Firmware
    BY <2>5 DEF Firmware, FwStatus, FwRestart, FwCommand, FwHandle, FwCrash, FwEmit, Restart,
                hostVars, devVars
  <2> QED BY <2>1, <2>2, <2>3, <2>4, <2>5 DEF LinkNext
<1>3. calls' \in Nat /\ restarts' \in Nat /\ calls' < IdLimit - 1 /\ restarts' = 0
  BY <1>1, <1>2 DEF FirstRound
<1>4. calls < IdLimit - 1 /\ restarts = 0  BY <1>1, <1>2, <1>3, LinkAssumption
<1> QED BY <1>3, <1>4 DEF FirstRound

LEMMA RoundInvStep ==
  ASSUME HelloInTime, StackInv, FirstRound => RoundInv, [StackNext]_stackVars, FirstRound' PROVE RoundInv'
<1>1. [LinkNext]_linkVars /\ IInv  BY StackStep DEF StackInv, OInv
<1>2. FirstRound /\ restarts' = restarts  BY <1>1, RoundBefore
<1>3. RoundInv  BY <1>2
<1>4. calls' < IdLimit - 1  BY DEF FirstRound
<1>5. IdsApart'  BY <1>1, <1>3, <1>4, IdsApartStep DEF StackInv, RoundInv
<1>6. Carried'  BY <1>3, CarriedStep DEF StackInv, RoundInv
<1>7. OpenKept'  BY <1>2, <1>3, OpenKeptStep DEF StackInv, RoundInv
<1>8. OpenAsked'  BY <1>2, <1>3, OpenAskedStep DEF StackInv, RoundInv
<1> QED BY <1>5, <1>6, <1>7, <1>8 DEF RoundInv

\* A channel the driver has is one the device has: however calls time out, writes
\* are lost, threads interleave and sessions follow each other, as long as the ids
\* do not wrap and the device does not restart.
THEOREM StackDriverOpen ==
  ASSUME HelloInTime
  PROVE  StackSpec => [](calls < IdLimit - 1 /\ restarts = 0 => DriverOpenIsDeviceOpen)
<1>1. StackInit => StackInv /\ (FirstRound => RoundInv)  BY StackInvInit
<1>2. StackInv /\ (FirstRound => RoundInv) /\ [StackNext]_stackVars => StackInv' /\ (FirstRound => RoundInv)'
  BY StackInvStep, RoundInvStep
<1>3. (FirstRound => RoundInv) => (calls < IdLimit - 1 /\ restarts = 0 => DriverOpenIsDeviceOpen)
  BY DEF FirstRound, RoundInv, OpenKept, DriverOpenIsDeviceOpen
<1> QED BY <1>1, <1>2, <1>3, PTL DEF StackSpec
-----------------------------------------------------------------------------
(* The two tables *)

-----------------------------------------------------------------------------
(* Without timeouts and lost writes the tables agree *)

\* What changes a table.
Changes     == {"open", "close", "setFilter", "remFilter"}
Changing(c) == {t \in Callers : op[t].cmd.ch = c /\ op[t].cmd.op \in Changes}

\* Only one thread at a time changes a table, and it is alone inside.
LEMMA ChangesAlone ==
  ASSUME Locked, NEW c \in Chans, NEW t \in Changing(c), NEW u \in Inside(c)
  PROVE  u = t
<1>1. t \in Inside(c) /\ op[t].cmd.op # "tx"  BY DEF Changing, Inside, Changes
<1> QED BY <1>1 DEF Locked

\* What a step does to the driver's table of channel c.
LEMMA TableMoves ==
  ASSUME IInv, OpInv, TablesTyped, [StackNext]_stackVars, NEW c \in Chans
  PROVE  \/ chan'[c] = chan[c] /\ filt'[c] = filt[c]
         \/ CloseDevice /\ ~chan'[c] /\ filt'[c] = {}
         \/ \E t \in Callers, cmd \in Commands : \E todo \in SUBSET Slots :
              /\ Api(t) /\ Enters(t, cmd, todo) /\ cmd.op = "close" /\ cmd.ch = c
              /\ ~chan'[c] /\ filt'[c] = {}
         \/ \E t \in Callers : Complete(t) /\ op[t].cmd.ch = c
<1>0. chan \in [Chans -> BOOLEAN] /\ filt \in [Chans -> SUBSET Slots]  BY DEF TablesTyped, OpInv
<1>1. CASE UNCHANGED stackVars  BY <1>1 DEF stackVars
<1>2. CASE CloseDevice  BY <1>2 DEF CloseDevice
<1>3. CASE DriverThreads \/ DevCommand \/ DevStatus \/ DevRestart \/ ChannelLoop
  <2>1. ~CloseDevice => chan' = chan /\ filt' = filt  BY <1>3, OthersMove
  <2> QED BY <1>2, <2>1
<1>4. ASSUME NEW t \in Callers, Api(t)
      PROVE  \/ chan'[c] = chan[c] /\ filt'[c] = filt[c]
             \/ \E cmd \in Commands : \E todo \in SUBSET Slots :
                  /\ Enters(t, cmd, todo) /\ cmd.op = "close" /\ cmd.ch = c
                  /\ ~chan'[c] /\ filt'[c] = {}
             \/ Complete(t) /\ op[t].cmd.ch = c
  <2>1. ASSUME NEW cmd \in Commands, NEW todo \in SUBSET Slots, Enters(t, cmd, todo)
        PROVE  \/ chan'[c] = chan[c] /\ filt'[c] = filt[c]
               \/ cmd.op = "close" /\ cmd.ch = c /\ ~chan'[c] /\ filt'[c] = {}
    <3>1. CASE cmd.op = "close"
      <4>1. chan' = [chan EXCEPT ![cmd.ch] = FALSE] /\ filt' = [filt EXCEPT ![cmd.ch] = {}]
        BY <2>1, <3>1 DEF Enters
      <4> QED BY <1>0, <3>1, <4>1
    <3>2. CASE cmd.op # "close"  BY <2>1, <3>2 DEF Enters
    <3> QED BY <3>1, <3>2
  <2>2. CASE (\E e \in Chans : WriteNoWait(t, e)) \/ ClearNext(t) \/ SendOp(t)
    BY <2>2 DEF WriteNoWait, ClearNext, SendOp, drvVars
  <2>3. CASE GiveUp(t)  BY <2>3 DEF GiveUp, Finish
  <2>4. CASE Complete(t)
    <3>1. PICK e, s, ok : e = op[t].cmd.ch /\ s = op[t].cmd.slot
                          /\ ok = (Head(inbox[call[t].id]).body.status = "ok")  OBVIOUS
    <3>2. chan' = [chan EXCEPT ![e] = TRUE] \/ chan' = chan
      BY <2>4, <3>1 DEF Complete, Finish
    <3>3. filt' = [filt EXCEPT ![e] = @ \cup {s}] \/ filt' = [filt EXCEPT ![e] = @ \ {s}] \/ filt' = filt
      BY <2>4, <3>1 DEF Complete, Finish
    <3>4. e # c => chan'[c] = chan[c] /\ filt'[c] = filt[c]  BY <1>0, <3>2, <3>3
    <3> QED BY <2>4, <3>1, <3>4
  <2> HIDE DEF Enters, WriteNoWait, ClearNext, SendOp, Complete, GiveUp
  <2> QED BY <1>4, <2>1, <2>2, <2>3, <2>4, ApiKinds
<1> QED BY <1>1, <1>2, <1>3, <1>4 DEF StackNext

\* Whoever does not move and changes c has the table of c to itself.
LEMMA TableKeeps ==
  ASSUME IInv, OpInv, TablesTyped, Locked, [StackNext]_stackVars, NEW c \in Chans,
         NEW t \in Changing(c), ~Complete(t)
  PROVE  chan'[c] = chan[c] /\ filt'[c] = filt[c]
<1>1. t \in Inside(c)  BY DEF Changing, Inside, Changes
<1>2. ~CloseDevice  BY <1>1 DEF CloseDevice, WriteFree
<1>3. ASSUME NEW u \in Callers, NEW cmd, NEW todo, Enters(u, cmd, todo), cmd.op = "close", cmd.ch = c
      PROVE FALSE
  <2>1. WriteFree(c)  BY <1>3 DEF Enters
  <2> QED BY <1>1, <2>1 DEF WriteFree
<1>4. ASSUME NEW u \in Callers, Complete(u), op[u].cmd.ch = c PROVE chan'[c] = chan[c] /\ filt'[c] = filt[c]
  <2>1. op[u].cmd.op \notin Changes
    <3>1. ASSUME op[u].cmd.op \in Changes PROVE FALSE
      <4>1. u \in Inside(c)  BY <1>4, <3>1 DEF Changes, Inside
      <4>2. u = t  BY <4>1, ChangesAlone
      <4> QED BY <1>4, <4>2
    <3> QED BY <3>1
  <2>2. chan' = chan /\ filt' = filt  BY <1>4, <2>1 DEF Complete, Finish, Changes
  <2> QED BY <2>2
<1> QED BY <1>2, <1>3, <1>4, TableMoves

\* What the driver's table and its threads have to do with each other: a closed
\* channel has no filters, filters are set on open channels, and a thread between
\* two round trips has another to make.
Chained ==
  /\ \A c \in Chans : ~chan[c] => filt[c] = {}
  /\ \A t \in Callers, c \in Chans :
       op[t].cmd.ch = c /\ op[t].cmd.op \in {"setFilter", "remFilter"} => chan[c]
  /\ \A t \in Callers : op[t] # NoOp => session = "up" /\ (call[t].st = "idle" => op[t].todo # {})

LEMMA ChainedStep ==
  ASSUME OInv, OpInv, TablesTyped, Locked, Chained, [StackNext]_stackVars PROVE Chained'
<1>0. IInv /\ InSession /\ chan \in [Chans -> BOOLEAN] /\ filt \in [Chans -> SUBSET Slots]
      /\ op \in [Callers -> [cmd : Commands \cup {NoCmd}, todo : SUBSET Slots]]
  BY DEF OInv, TablesTyped, OpInv
<1>a. NoOp.cmd.op = "none" /\ NoOp.todo = {}  BY CmdFields DEF NoOp
<1>1. ASSUME NEW c \in Chans, ~chan'[c] PROVE filt'[c] = {}
  <2>1. CASE chan'[c] = chan[c] /\ filt'[c] = filt[c]  BY <1>1, <2>1 DEF Chained
  <2>2. ASSUME NEW t \in Callers, Complete(t), op[t].cmd.ch = c PROVE filt'[c] = {}
    <3>1. chan' = chan \/ chan' = [chan EXCEPT ![c] = TRUE]  BY <2>2 DEF Complete, Finish
    <3>2. ~chan[c]  BY <1>0, <1>1, <3>1
    <3>3. op[t].cmd.op \notin {"setFilter", "remFilter"}  BY <2>2, <3>2 DEF Chained
    <3>4. filt' = filt  BY <2>2, <3>3 DEF Complete, Finish
    <3> QED BY <3>2, <3>4 DEF Chained
  <2> QED BY <1>0, <2>1, <2>2, TableMoves
\* A channel that a thread sets filters on stays open.
<1>2. ASSUME NEW t \in Callers, NEW c \in Chans, op[t].cmd.ch = c,
             op[t].cmd.op \in {"setFilter", "remFilter"}
      PROVE  chan'[c]
  <2>0. chan[c] /\ t \in Inside(c)  BY <1>2 DEF Chained, Inside
  <2>1. ~CloseDevice  BY <2>0 DEF CloseDevice, WriteFree
  <2>2. ASSUME NEW u \in Callers, NEW cmd, NEW todo, Enters(u, cmd, todo), cmd.op = "close", cmd.ch = c
        PROVE FALSE
    <3>1. WriteFree(c)  BY <2>2 DEF Enters
    <3> QED BY <2>0, <3>1 DEF WriteFree
  <2>3. ASSUME NEW u \in Callers, Complete(u), op[u].cmd.ch = c PROVE chan'[c]
    <3>1. chan' = chan \/ chan' = [chan EXCEPT ![c] = TRUE]  BY <2>3 DEF Complete, Finish
    <3> QED BY <1>0, <2>0, <3>1
  <2> QED BY <1>0, <2>0, <2>1, <2>2, <2>3, TableMoves
<1>3. ASSUME NEW t \in Callers, op'[t] = op[t], call'[t] = call[t], op[t] # NoOp
      PROVE  session' = "up" /\ (call'[t].st = "idle" => op'[t].todo # {})
  <2>1. session = "up" /\ (call[t].st = "idle" => op[t].todo # {})  BY <1>3 DEF Chained
  <2>2. ~CloseDevice
    <3> SUFFICES ASSUME CloseDevice PROVE FALSE  OBVIOUS
    <3>1. call[t].st = "idle"  BY DEF CloseDevice, Close
    <3>2. op[t].cmd.op = "remFilter" /\ op[t].cmd.ch \in Chans
      BY <1>3, <2>1, <3>1 DEF Locked, OpInv
    <3>3. t \in Inside(op[t].cmd.ch)  BY <3>2 DEF Inside
    <3> QED BY <3>2, <3>3 DEF CloseDevice, WriteFree
  <2> QED BY <1>3, <2>1, <2>2, SessionEnds
<1>4. ASSUME NEW t \in Callers
      PROVE  /\ \A c \in Chans : op'[t].cmd.ch = c /\ op'[t].cmd.op \in {"setFilter", "remFilter"} => chan'[c]
             /\ op'[t] # NoOp => session' = "up" /\ (call'[t].st = "idle" => op'[t].todo # {})
  <2>1. CASE op'[t] = op[t] /\ call'[t] = call[t]  BY <1>2, <1>3, <2>1
  <2>2. CASE ~(op'[t] = op[t] /\ call'[t] = call[t])
    <3>1. PICK u \in Callers : Api(u)
      BY <2>2, OthersMove DEF StackNext, stackVars, linkVars, hostVars
    <3>2. u = t  BY <1>0, <2>2, <3>1, ThreadMoves
    <3>3. CASE op'[t] = NoOp  BY <1>a, <3>3
    <3>4. ASSUME NEW cmd \in Commands, NEW todo \in SUBSET Slots, Enters(t, cmd, todo),
                 op'[t] = [cmd |-> cmd, todo |-> todo], call'[t].st = "ready"
          PROVE  /\ \A c \in Chans : op'[t].cmd.ch = c /\ op'[t].cmd.op \in {"setFilter", "remFilter"} => chan'[c]
                 /\ op'[t] # NoOp => session' = "up" /\ (call'[t].st = "idle" => op'[t].todo # {})
      <4>1. session' = "up"  BY <3>4 DEF Enters, GetId
      <4>2. op'[t].cmd = cmd  BY <3>4
      <4>3. ASSUME NEW c \in Chans, cmd.ch = c, cmd.op \in {"setFilter", "remFilter"} PROVE chan'[c]
        <5>1. chan[c] /\ chan' = chan  BY <3>4, <4>3 DEF Enters
        <5> QED BY <5>1
      <4> QED BY <3>4, <4>1, <4>2, <4>3
    <3>5. CASE ClearNext(t) /\ call'[t].st = "ready" /\
               \E s \in op[t].todo :
                 op'[t] = [cmd |-> RemFilterCmd(op[t].cmd.ch, s), todo |-> op[t].todo \ {s}]
      <4>1. session' = "up" /\ chan' = chan /\ op[t].todo # {}  BY <3>5 DEF ClearNext, GetId
      <4>2. op[t].cmd.op = "remFilter"  BY <4>1 DEF Locked
      <4>3. op'[t].cmd.ch = op[t].cmd.ch
        <5>1. \A e, s : RemFilterCmd(e, s).ch = e  BY CmdFields
        <5>2. \A x, todo : op'[t] = [cmd |-> x, todo |-> todo] => op'[t].cmd = x  OBVIOUS
        <5> HIDE DEF RemFilterCmd
        <5> QED BY <3>5, <5>1, <5>2
      <4> QED BY <3>5, <4>1, <4>2, <4>3 DEF Chained
    <3>6. CASE op'[t] = op[t] /\ SendOp(t) /\ call'[t].st = "waiting" /\ op[t] # NoOp
      <4>1. session' = session  BY <3>6 DEF SendOp, Send
      <4> QED BY <1>2, <3>6, <4>1 DEF Chained
    <3>7. CASE op'[t] = op[t] /\ (Complete(t) \/ GiveUp(t)) /\ op[t].todo # {}
      <4>1. session' = session  BY <3>7 DEF Complete, GiveUp, Receive, Timeout
      <4> QED BY <1>2, <1>a, <3>7, <4>1 DEF Chained
    <3>8. SendOp(t) => op[t] # NoOp  BY DEF SendOp
    <3> HIDE DEF Enters, ClearNext, SendOp, Complete, GiveUp, WriteNoWait
    <3> QED BY <1>0, <2>2, <3>1, <3>2, <3>3, <3>4, <3>5, <3>6, <3>7, <3>8, ThreadMoves
  <2> QED BY <2>1, <2>2
<1> QED BY <1>1, <1>4 DEF Chained

\* A channel of the device that is off has no mailboxes, and only two are ever on.
Plain(c, d) == IF On(d) THEN c \in {"can", "kline"} ELSE d.used = {}

\* What d says of the table of channel c once a thread with table b, f has taken
\* the answer to cmd.
Settles(c, b, f, cmd, ok, d) ==
  /\ On(d) <=> b \/ (ok /\ cmd.op = "open")
  /\ c = "can" => d.used = CASE ok /\ cmd.op = "setFilter" -> f \cup {cmd.slot}
                             [] ok /\ cmd.op = "remFilter" -> f \ {cmd.slot}
                             [] OTHER -> f

\* A handler that changes no channel.
LEMMA HandleStays ==
  ASSUME NEW m, NEW d \in DevChan, m.body.op \notin Changes, NEW o \in Handle(m, d)
  PROVE  o.chan.proto = d.proto /\ o.chan.used = d.used
<1> USE DEF Outcome
<1>1. ASSUME o \in HandleTx(m, d) PROVE o.chan.proto = d.proto /\ o.chan.used = d.used
  <2>1. [d EXCEPT !.sending = TRUE].proto = d.proto /\ [d EXCEPT !.sending = TRUE].used = d.used
    BY DEF DevChan
  <2>2. o.chan \in {d, [d EXCEPT !.sending = TRUE]}  BY <1>1 DEF HandleTx, CanSendMsg, IsoSendMsg
  <2> QED BY <2>1, <2>2
<1>2. ASSUME o \in HandleInit(m, d) \/ o \in HandleIoctl(m, d) PROVE o.chan = d
  BY <1>2 DEF HandleInit, Wakeup, HandleIoctl
<1>3. ASSUME o \in {Outcome(d, <<Reply("ok")>>), Outcome(d, <<>>)} PROVE o.chan = d  BY <1>3
<1> QED BY <1>1, <1>2, <1>3 DEF Handle, Changes

\* What a handler that changes channel c does to it, and what it answers first.
LEMMA HandleCases ==
  ASSUME NEW m, NEW d \in DevChan, m.body.op \in Changes, NEW o \in Handle(m, d),
         NEW c, c = m.body.ch, NEW s, s = m.body.slot, Plain(c, d), m.body \in Commands
  PROVE  \/ /\ m.body.op = "open" /\ ~On(d) /\ On(o.chan) /\ o.chan.used = {} /\ c \in {"can", "kline"}
            /\ o.outs = <<Reply("ok")>>
         \/ m.body.op = "open" /\ o.chan = d /\ \E a \in {"err", "errNoText"} : o.outs = <<Reply(a)>>
         \/ /\ m.body.op = "close" /\ o.chan = IF On(d) THEN Off ELSE d
            /\ \E a : o.outs = <<Reply(a)>> \/ o.outs = <<Reply(a), Reply("ok")>>
         \/ m.body.op \in {"setFilter", "remFilter"} /\ ~On(d) /\ o.chan = d
         \/ /\ m.body.op = "setFilter" /\ On(d) /\ c = "can"
            /\ o.outs = <<Reply("ok")>> /\ o.chan = [d EXCEPT !.used = @ \cup {s}]
         \/ /\ m.body.op = "remFilter" /\ On(d) /\ c = "can"
            /\ o.outs = <<Reply("ok")>> /\ o.chan = [d EXCEPT !.used = @ \ {s}]
         \/ /\ m.body.op \in {"setFilter", "remFilter"} /\ On(d) /\ o.chan = d
            /\ \E a \in {"ok", "err", "errNoText"} :
                 o.outs = <<Reply(a)>> /\ (c = "can" => a # "ok")
<1>0. \A e, q : Outcome(e, q).chan = e /\ Outcome(e, q).outs = q  BY DEF Outcome
<1>1. CASE m.body.op = "open"
  <2>1. \/ m.body.ch = "can" /\ ~On(d) /\ o = Outcome([Off EXCEPT !.proto = m.body.proto], <<Reply("ok")>>)
        \/ m.body.ch = "kline" /\ ~On(d) /\ o = Outcome([Off EXCEPT !.proto = "ISO9141"], <<Reply("ok")>>)
        \/ \E a \in {"err", "errNoText"} : o = Outcome(d, <<Reply(a)>>)
    BY <1>1 DEF Handle, HandleOpen
  <2>2. m.body.ch = "can" => m.body.proto # "none"  BY <1>1, ProtoOf
  <2> HIDE DEF Outcome, Reply
  <2>5. ASSUME NEW p, p # "none", ~On(d), o = Outcome([Off EXCEPT !.proto = p], <<Reply("ok")>>)
        PROVE  On(o.chan) /\ o.chan.used = {} /\ o.outs = <<Reply("ok")>>
    <3>1. PICK e : e = [Off EXCEPT !.proto = p]  OBVIOUS
    <3>2. e.proto = p /\ e.used = {}  BY <3>1 DEF Off
    <3>3. o.chan = e /\ o.outs = <<Reply("ok")>>  BY <1>0, <2>5, <3>1
    <3> QED BY <2>5, <3>2, <3>3 DEF On
  <2> HIDE DEF On, Off
  <2>6. CASE \E a \in {"err", "errNoText"} : o = Outcome(d, <<Reply(a)>>)
    BY <1>0, <1>1, <2>6
  <2>7. CASE m.body.ch = "can" /\ ~On(d) /\ o = Outcome([Off EXCEPT !.proto = m.body.proto], <<Reply("ok")>>)
    BY <1>1, <2>2, <2>5, <2>7
  <2>8. CASE m.body.ch = "kline" /\ ~On(d) /\ o = Outcome([Off EXCEPT !.proto = "ISO9141"], <<Reply("ok")>>)
    BY <1>1, <2>5, <2>8
  <2> QED BY <2>1, <2>6, <2>7, <2>8
<1>2. CASE m.body.op = "close"
  <2>1. \E a : o = Outcome(IF On(d) THEN Off ELSE d, <<Reply(a)>>)
               \/ o = Outcome(IF On(d) THEN Off ELSE d, <<Reply(a), Reply("ok")>>)
    <3>1. o \in HandleClose(m, d)  BY <1>2 DEF Handle
    <3>2. CASE On(d)
      <4>1. o = Outcome(Off, <<Reply("ok"), Reply("ok")>>)  BY <3>1, <3>2 DEF HandleClose, Plain
      <4> HIDE DEF Outcome, Reply, On, Off
      <4> QED BY <3>2, <4>1
    <3>3. CASE ~On(d)
      <4>1. o = Outcome(d, <<Reply("err")>>) \/ o = Outcome(d, <<Reply("errNoText"), Reply("ok")>>)
        BY <3>1, <3>3 DEF HandleClose
      <4> HIDE DEF Outcome, Reply, On, Off
      <4> QED BY <3>3, <4>1
    <3> QED BY <3>2, <3>3
  <2> HIDE DEF Outcome, Reply, On, Off
  <2> QED BY <1>0, <1>2, <2>1
<1>3. CASE m.body.op = "setFilter"
  <2>1. \/ ~On(d) /\ \E q : o = Outcome(d, q)
        \/ On(d) /\ c = "can" /\ o = Outcome([d EXCEPT !.used = @ \cup {s}], <<Reply("ok")>>)
        \/ On(d) /\ \E a \in {"ok", "err", "errNoText"} :
                      o = Outcome(d, <<Reply(a)>>) /\ (c = "can" => a # "ok")
    <3>1. o \in HandleSetFilter(m, d)  BY <1>3 DEF Handle
    <3>2. CASE On(d) /\ c = "can"
      <4>1. o \in CanAddFilter(m, d)  BY <3>1, <3>2 DEF HandleSetFilter
      <4> QED BY <3>2, <4>1 DEF CanAddFilter
    <3>3. CASE ~(On(d) /\ c = "can")
      <4>1. \E a \in {"ok", "err", "errNoText"} : o = Outcome(d, <<Reply(a)>>)
        BY <3>1, <3>3 DEF HandleSetFilter
      <4> HIDE DEF Outcome, Reply, On
      <4> QED BY <3>3, <4>1
    <3> QED BY <3>2, <3>3
  <2> HIDE DEF Outcome, Reply, On, Off
  <2> QED BY <1>0, <1>3, <2>1
<1>4. CASE m.body.op = "remFilter"
  <2>1. \/ ~On(d) /\ \E q : o = Outcome(d, q)
        \/ On(d) /\ c = "can" /\ o = Outcome([d EXCEPT !.used = @ \ {s}], <<Reply("ok")>>)
        \/ On(d) /\ \E a \in {"ok", "err", "errNoText"} :
                      o = Outcome(d, <<Reply(a)>>) /\ (c = "can" => a # "ok")
    <3>1. o \in HandleRemFilter(m, d)  BY <1>4 DEF Handle
    <3>2. CASE On(d) /\ c = "can"
      <4>1. o \in CanRemoveFilter(m, d)  BY <3>1, <3>2 DEF HandleRemFilter
      <4> QED BY <3>2, <4>1 DEF CanRemoveFilter
    <3>3. CASE ~On(d)
      <4>1. \E q : o = Outcome(d, q)  BY <3>1, <3>3 DEF HandleRemFilter
      <4> QED BY <3>3, <4>1
    <3>4. CASE On(d) /\ c # "can"
      <4>1. o = Outcome(d, <<Reply("ok")>>)  BY <3>1, <3>4 DEF HandleRemFilter, Plain
      <4> HIDE DEF Outcome, Reply, On
      <4> QED BY <3>4, <4>1
    <3> QED BY <3>2, <3>3, <3>4
  <2> HIDE DEF Outcome, Reply, On, Off
  <2> QED BY <1>0, <1>4, <2>1
<1> QED BY <1>1, <1>2, <1>3, <1>4 DEF Changes

\* Outcome o of a command m that changes channel c of the device, d, when the
\* driver's table b, f agreed with it before.
FromAgreeing(c, b, f, m, d, o) ==
  /\ m.body \in Commands /\ m.body.op \in Changes /\ d \in DevChan
  /\ c = m.body.ch /\ Plain(c, d) /\ o \in Handle(m, d) /\ f \in SUBSET Slots
  /\ ~b => f = {}
  /\ b <=> m.body.op \in {"setFilter", "remFilter"}
  /\ m.body.op # "close" => (b <=> On(d)) /\ (c = "can" => f = d.used)

\* Its first answer makes the tables agree again when the driver takes it.
LEMMA HandleSettles ==
  ASSUME NEW c, NEW b \in BOOLEAN, NEW f, NEW m, NEW d, NEW o, FromAgreeing(c, b, f, m, d, o)
  PROVE  /\ o.outs # <<>> /\ o.outs[1].kind = "reply"
         /\ Settles(c, b, f, m.body, o.outs[1].body.status = "ok", o.chan)
         /\ Plain(c, o.chan)
<1>a. /\ m.body \in Commands /\ m.body.op \in Changes /\ d \in DevChan
      /\ c = m.body.ch /\ Plain(c, d) /\ o \in Handle(m, d) /\ f \in SUBSET Slots
      /\ ~b => f = {}
      /\ b <=> m.body.op \in {"setFilter", "remFilter"}
      /\ m.body.op # "close" => (b <=> On(d)) /\ (c = "can" => f = d.used)
  BY DEF FromAgreeing
<1> USE <1>a
<1>0. \A a : /\ <<Reply(a)>> # <<>> /\ <<Reply(a)>>[1].kind = "reply"
             /\ <<Reply(a)>>[1].body.status = a
             /\ <<Reply(a), Reply("ok")>> # <<>> /\ <<Reply(a), Reply("ok")>>[1].kind = "reply"
  BY DEF Reply
<1>1. ~On(Off) /\ Off.used = {}  BY DEF On, Off
<1>2. PICK s : s = m.body.slot  OBVIOUS
<1>3. \A u : /\ [d EXCEPT !.used = u].proto = d.proto /\ [d EXCEPT !.used = u].used = u
             /\ On([d EXCEPT !.used = u]) = On(d)
  BY DEF DevChan, On
<1>4. CASE /\ m.body.op = "open" /\ ~On(d) /\ On(o.chan) /\ o.chan.used = {} /\ c \in {"can", "kline"}
           /\ o.outs = <<Reply("ok")>>
  <2>1. o.outs # <<>> /\ o.outs[1].kind = "reply" /\ o.outs[1].body.status = "ok"  BY <1>0, <1>4
  <2>2. Settles(c, b, f, m.body, TRUE, o.chan)
    <3>1. ~b /\ f = {} /\ m.body.op = "open" /\ On(o.chan) /\ o.chan.used = {}  BY <1>4
    <3> QED BY <3>1 DEF Settles
  <2>3. Plain(c, o.chan)  BY <1>4 DEF Plain
  <2> QED BY <2>1, <2>2, <2>3
<1>5. CASE m.body.op = "open" /\ o.chan = d /\ \E a \in {"err", "errNoText"} : o.outs = <<Reply(a)>>
  <2>1. PICK a \in {"err", "errNoText"} : o.outs = <<Reply(a)>>  BY <1>5
  <2>2. o.outs # <<>> /\ o.outs[1].kind = "reply" /\ o.outs[1].body.status # "ok"  BY <1>0, <2>1
  <2> QED BY <1>5, <2>2 DEF Settles
<1>6. CASE /\ m.body.op = "close" /\ o.chan = IF On(d) THEN Off ELSE d
           /\ \E a : o.outs = <<Reply(a)>> \/ o.outs = <<Reply(a), Reply("ok")>>
  <2>0. PICK a : o.outs = <<Reply(a)>> \/ o.outs = <<Reply(a), Reply("ok")>>  BY <1>6
  <2>1. o.outs # <<>> /\ o.outs[1].kind = "reply"
    <3> HIDE DEF Reply
    <3> QED BY <1>0, <2>0
  <2>2. ~On(o.chan) /\ o.chan.used = {}  BY <1>1, <1>6 DEF Plain
  <2>3. ~b /\ f = {} /\ m.body.op = "close"  BY <1>6
  <2>4. \A ok \in BOOLEAN : Settles(c, b, f, m.body, ok, o.chan)
    <3> SUFFICES ASSUME NEW ok \in BOOLEAN PROVE Settles(c, b, f, m.body, ok, o.chan)  OBVIOUS
    <3>1. On(o.chan) <=> b \/ (ok /\ m.body.op = "open")  BY <2>2, <2>3 DEF On
    <3>2. o.chan.used = CASE ok /\ m.body.op = "setFilter" -> f \cup {m.body.slot}
                          [] ok /\ m.body.op = "remFilter" -> f \ {m.body.slot}
                          [] OTHER -> f
      BY <2>2, <2>3
    <3> QED BY <3>1, <3>2 DEF Settles
  <2>5. Plain(c, o.chan)  BY <2>2 DEF Plain
  <2> QED BY <2>1, <2>4, <2>5
<1>7. CASE m.body.op \in {"setFilter", "remFilter"} /\ ~On(d) /\ o.chan = d  BY <1>7
<1>8. CASE /\ m.body.op = "setFilter" /\ On(d) /\ c = "can"
           /\ o.outs = <<Reply("ok")>> /\ o.chan = [d EXCEPT !.used = @ \cup {s}]
  <2>1. o.outs # <<>> /\ o.outs[1].kind = "reply" /\ o.outs[1].body.status = "ok"  BY <1>0, <1>8
  <2>2. On(o.chan) /\ o.chan.used = d.used \cup {s}  BY <1>3, <1>8
  <2>3. b /\ f = d.used /\ c = "can" /\ m.body.op = "setFilter"  BY <1>8
  <2>4. Settles(c, b, f, m.body, TRUE, o.chan)  BY <1>2, <2>2, <2>3 DEF Settles
  <2>5. Plain(c, o.chan)  BY <2>2, <2>3 DEF Plain
  <2> QED BY <2>1, <2>4, <2>5
<1>9. CASE /\ m.body.op = "remFilter" /\ On(d) /\ c = "can"
           /\ o.outs = <<Reply("ok")>> /\ o.chan = [d EXCEPT !.used = @ \ {s}]
  <2>1. o.outs # <<>> /\ o.outs[1].kind = "reply" /\ o.outs[1].body.status = "ok"  BY <1>0, <1>9
  <2>2. On(o.chan) /\ o.chan.used = d.used \ {s}  BY <1>3, <1>9
  <2>3. b /\ f = d.used /\ c = "can" /\ m.body.op = "remFilter"  BY <1>9
  <2>4. Settles(c, b, f, m.body, TRUE, o.chan)  BY <1>2, <2>2, <2>3 DEF Settles
  <2>5. Plain(c, o.chan)  BY <2>2, <2>3 DEF Plain
  <2> QED BY <2>1, <2>4, <2>5
<1>10. CASE /\ m.body.op \in {"setFilter", "remFilter"} /\ On(d) /\ o.chan = d
            /\ \E a \in {"ok", "err", "errNoText"} : o.outs = <<Reply(a)>> /\ (c = "can" => a # "ok")
  <2>1. PICK a \in {"ok", "err", "errNoText"} : o.outs = <<Reply(a)>> /\ (c = "can" => a # "ok")
    BY <1>10
  <2>2. o.outs # <<>> /\ o.outs[1].kind = "reply" /\ o.outs[1].body.status = a  BY <1>0, <2>1
  <2> QED BY <1>10, <2>1, <2>2 DEF Settles
<1> HIDE DEF Reply, On, Off, Plain, Settles, DevChan
<1> QED BY <1>2, <1>4, <1>5, <1>6, <1>7, <1>8, <1>9, <1>10, HandleCases

\* Without lost writes the threads of a session run as long as it does.
Alive ==
  /\ session = "opening" => running /\ reader # "off" /\ writer # "off"
  /\ session = "up" => running /\ reader = "loop" /\ writer # "off"
  /\ session = "none" => ~running

LEMMA AliveStep ==
  ASSUME HelloInTime, ~WritesMayFail, IInv, InSession, Alive, [LinkNext]_linkVars PROVE Alive'
<1>0. session \in {"none", "opening", "up"} /\ reader \in {"off", "hello", "loop"}  BY DEF IInv, Scalars
<1>1. CASE UNCHANGED linkVars  BY <1>1 DEF linkVars, hostVars, Alive
<1>2. CASE HostSession
  <2>1. CASE OpenStart  BY <2>1 DEF OpenStart, Alive
  <2>2. CASE Close  BY <2>2 DEF Close, Alive
  <2>3. CASE OpenDone  BY <1>0, <2>3 DEF OpenDone, Alive
  <2> QED BY <1>2, <2>1, <2>2, <2>3 DEF HostSession
<1>3. CASE ReaderHello  BY <1>3 DEF ReaderHello, InSession, Alive
<1>4. CASE ReaderTake \/ ReaderExit \/ WriterCheck \/ WriterSend \/ WriterDrained
  BY <1>4 DEF ReaderTake, ReaderExit, WriterCheck, WriterSend, WriterDrained, Alive
<1>5. ASSUME NEW t \in Callers, HostCall(t) PROVE Alive'
  BY <1>5 DEF HostCall, GetId, Receive, Timeout, Send, Post, Alive
<1>6. CASE Firmware
  <2>1. UNCHANGED hostVars  BY <1>6, DownFacts, FirmwareTakes
  <2> QED BY <2>1 DEF hostVars, Alive
<1> QED BY <1>1, <1>2, <1>3, <1>4, <1>5, <1>6 DEF LinkNext, HostThreads

\* Around a session only status messages get on the way down.
LEMMA PathOutside ==
  ASSUME IInv, IInv', InSession, LinkNext, session # "up" \/ session' # "up", NEW i \in 1 .. Len(Path')
  PROVE  (Path'[i].kind # "cmd" /\ Path'[i].id = 0) \/ \E j \in 1 .. Len(Path) : Path'[i] = Path[j]
<1>0. /\ down \in Seq(DownMsg) /\ txQueue \in Seq(DownMsg) /\ down' \in Seq(DownMsg) /\ txQueue' \in Seq(DownMsg)
      /\ Path \in Seq(DownMsg)
  <2>1. (IInv => down \in Seq(DownMsg) /\ txQueue \in Seq(DownMsg))'  BY DownFacts, PTL
  <2> QED BY <2>1, DownFacts, PathTyped
<1>1. Thinned(Path', Path) => \E j \in 1 .. Len(Path) : Path'[i] = Path[j]
  <2> SUFFICES ASSUME Thinned(Path', Path) PROVE \E j \in 1 .. Len(Path) : Path'[i] = Path[j]  OBVIOUS
  <2>1. PICK f \in [1 .. Len(Path') -> 1 .. Len(Path)] : \A k \in 1 .. Len(Path') : Path'[k] = Path[f[k]]
    BY DEF Thinned
  <2> QED BY <2>1
<1>2. Thinned(Path, Path)  BY <1>0, ThinSame
<1>3. CASE Firmware
  <2>0. UNCHANGED hostVars /\ Part(down', down)  BY <1>0, <1>3, FirmwareTakes
  <2>1. txQueue' = txQueue /\ Part(down', down)  BY <2>0 DEF hostVars
  <2>2. Thinned(Path', Path)  BY <1>0, <2>1, ThinPart DEF Path
  <2> QED BY <1>1, <2>2
<1>4. CASE OpenStart
  <2>1. PICK n \in 0 .. Len(down) : down' = SubSeq(down, 1, n)  BY <1>4 DEF OpenStart
  <2>2. Part(down', down)  BY <1>0, <2>1, PartOfPrefix
  <2>3. Thinned(down' \o txQueue, down \o txQueue)  BY <1>0, <2>2, ThinPart
  <2>4. Path' = down'  BY <1>0, <1>4 DEF OpenStart, Path
  <2>5. /\ Len(down' \o txQueue) = Len(down') + Len(txQueue) /\ Len(txQueue) \in Nat /\ Len(down') \in Nat
        /\ \A k \in 1 .. Len(down') : (down' \o txQueue)[k] = down'[k]
    BY <1>0, ConcatFacts
  <2>6. PICK f \in [1 .. Len(down' \o txQueue) -> 1 .. Len(Path)] :
          \A k \in 1 .. Len(down' \o txQueue) : (down' \o txQueue)[k] = Path[f[k]]
    BY <2>3 DEF Thinned, Path
  <2>7. i \in 1 .. Len(down' \o txQueue) /\ Path'[i] = (down' \o txQueue)[i]  BY <2>4, <2>5
  <2> QED BY <2>6, <2>7
<1>5. CASE ReaderHello \/ ReaderExit
  <2>1. PICK m : m.kind # "cmd" /\ m.id = 0 /\ txQueue' = txQueue /\ (down' = down \/ down' = Append(down, m))
    <3>1. \A k : StatusMsg(k).kind = k /\ StatusMsg(k).id = 0  BY DEF StatusMsg
    <3> QED BY <1>5, <3>1 DEF ReaderHello, ReaderExit, Written
  <2>2. CASE down' = down  BY <1>1, <1>2, <2>1, <2>2 DEF Path
  <2>3. CASE down' = Append(down, m)
    <3>1. /\ Len(Path) = Len(down) + Len(txQueue) /\ Len(down) \in Nat /\ Len(txQueue) \in Nat
          /\ \A k \in 1 .. Len(down) : Path[k] = down[k]
          /\ \A k \in Len(down) + 1 .. Len(Path) : Path[k] = txQueue[k - Len(down)]
      BY <1>0, ConcatFacts DEF Path
    <3>2. /\ Len(Path') = Len(down') + Len(txQueue) /\ Len(down') = Len(down) + 1
          /\ \A k \in 1 .. Len(down') : Path'[k] = down'[k]
          /\ \A k \in Len(down') + 1 .. Len(Path') : Path'[k] = txQueue[k - Len(down')]
      <4>1. Len(Append(down, m)) = Len(down) + 1  BY <1>0
      <4> QED BY <1>0, <2>1, <2>3, <4>1, ConcatFacts DEF Path
    <3>3. /\ down'[Len(down) + 1] = m
          /\ \A k \in 1 .. Len(down) : down'[k] = down[k]
      BY <1>0, <2>3
    <3>4. CASE i \in 1 .. Len(down)
      <4>1. Path'[i] = down[i] /\ Path[i] = down[i] /\ i \in 1 .. Len(Path)
        BY <3>1, <3>2, <3>3, <3>4
      <4> QED BY <4>1
    <3>5. CASE i = Len(down) + 1  BY <2>1, <3>1, <3>2, <3>3, <3>5
    <3>6. CASE i > Len(down) + 1
      <4>1. i - 1 \in Len(down) + 1 .. Len(Path) /\ i \in Len(down') + 1 .. Len(Path')
            /\ i - Len(down') = (i - 1) - Len(down)
        BY <3>1, <3>2, <3>6
      <4>2. Path'[i] = txQueue[i - Len(down')] /\ Path[i - 1] = txQueue[(i - 1) - Len(down)]
        BY <3>1, <3>2, <4>1
      <4>3. i - 1 \in 1 .. Len(Path)  BY <3>1, <4>1
      <4> QED BY <4>1, <4>2, <4>3
    <3> QED BY <3>1, <3>4, <3>5, <3>6
  <2> QED BY <2>1, <2>2, <2>3
<1>6. CASE WriterSend
  <2>1. txQueue # <<>> /\ txQueue' = Tail(txQueue)
        /\ (down' = down \/ down' = Append(down, Head(txQueue)))
    BY <1>6 DEF WriterSend, Written
  <2>2. Append(down, Head(txQueue)) \o Tail(txQueue) = Path /\ Thinned(down \o Tail(txQueue), Path)
    BY <1>0, <2>1, ThinMove DEF Path
  <2>3. Path' = Path \/ Path' = down \o Tail(txQueue)  BY <2>1, <2>2 DEF Path
  <2> QED BY <1>1, <1>2, <2>2, <2>3
<1>7. CASE ReaderTake \/ WriterCheck \/ WriterDrained \/ OpenDone \/ Close
  <2>1. Path' = Path  BY <1>7 DEF ReaderTake, WriterCheck, WriterDrained, OpenDone, Close, Path
  <2> QED BY <1>1, <1>2, <2>1
<1>8. ASSUME NEW t \in Callers, HostCall(t) PROVE Path' = Path
  <2>1. session' = session /\ down' = down  BY <1>8 DEF HostCall, GetId, Receive, Timeout, Send, Post
  <2>2. session # "up"  BY <2>1
  <2>3. call[t].st = "idle"  BY <2>2 DEF InSession
  <2>4. txQueue' = txQueue  BY <1>8, <2>2, <2>3 DEF HostCall, GetId, Receive, Timeout, Send, Post
  <2> QED BY <2>1, <2>4 DEF Path
<1> QED BY <1>1, <1>2, <1>3, <1>4, <1>5, <1>6, <1>7, <1>8 DEF LinkNext, HostSession, HostThreads

\* Messages that ask for an answer, status messages, and commands that ask for
\* none though they are not data to transmit.
WithId == {m \in DownMsg : m.id # 0}
Status == {m \in DownMsg : m.kind # "cmd"}
Orders == {m \in DownMsg : m.kind = "cmd" /\ m.id = 0 /\ m.body.op # "tx"}

\* Messages whose caller no longer waits.
Lost == {m \in DownMsg : m.id # 0 /\ \A t \in Callers : ~(call[t].st = "waiting" /\ call[t].id = m.id)}

\* Without timeouts what asks for an answer is still waited for, and it is behind
\* the hello of its session and before its goodbye.
PathOwned == Free(Path, Lost) /\ Free(Path, Orders) /\ Behind(Path, WithId, Status)

\* A caller whose command is under way goes on waiting.
LEMMA OwnerStays ==
  ASSUME IInv, OpInv, TablesTyped, IdsApart, [StackNext]_stackVars, timeouts' = timeouts,
         NEW t \in Callers, call[t].st = "waiting", ~NotIn(Path, call[t].id)
  PROVE  call'[t] = call[t] /\ op'[t] = op[t]
<1>0. timeouts \in Nat  BY DEF IInv, Scalars
<1>1. inbox[call[t].id] = <<>>  BY DEF IdsApart, NotUp
<1>2. ~Complete(t)  BY <1>1 DEF Complete, Receive
<1>3. ~GiveUp(t)
  <2>1. GiveUp(t) => timeouts' = timeouts + 1  BY DEF GiveUp, Timeout
  <2> QED BY <1>0, <2>1
<1>4. CASE Api(t)
  <2>1. ~SendOp(t)  BY DEF SendOp, Send
  <2> HIDE DEF Enters, ClearNext, SendOp, Complete, GiveUp, WriteNoWait
  <2> QED BY <1>2, <1>3, <1>4, <2>1, ThreadMoves
<1>5. ASSUME NEW u \in Callers, Api(u), u # t PROVE call'[t] = call[t] /\ op'[t] = op[t]
  BY <1>5, ThreadMoves
<1>6. CASE UNCHANGED stackVars  BY <1>6 DEF stackVars, linkVars, hostVars
<1> QED BY <1>4, <1>5, <1>6, OthersMove DEF StackNext

LEMMA PathOwnedStep ==
  ASSUME HelloInTime, OInv, UpRunning, OpInv, TablesTyped, IdsApart, PathOwned, [StackNext]_stackVars,
         timeouts' = timeouts
  PROVE  PathOwned'
<1>0. IInv /\ InSession /\ IInv' /\ InSession' /\ Path \in Seq(DownMsg) /\ Path' \in Seq(DownMsg)
  <2>1. IInv /\ InSession  BY DEF OInv
  <2>2. OInv'  BY OStep, StackStep
  <2>3. IInv' /\ InSession'  BY <2>2 DEF OInv
  <2>4. (IInv => Path \in Seq(DownMsg))'  BY PathTyped, PTL
  <2> QED BY <2>1, <2>3, <2>4, PathTyped
<1>1. CASE UNCHANGED linkVars
  BY <1>1 DEF linkVars, hostVars, PathOwned, Path, Lost
<1>2. CASE LinkNext /\ (session # "up" \/ session' # "up")
  <2>1. \A t \in Callers : call[t].st = "idle" /\ call'[t].st = "idle"
    <3>1. CASE session # "up" /\ session' # "up"  BY <1>0, <3>1 DEF InSession
    <3>2. CASE session = "up" /\ session' # "up"
      <4>1. StackNext  BY <3>2 DEF stackVars, linkVars, hostVars
      <4>2. CloseDevice  BY <3>2, SessionEnds
      <4> QED BY <4>2 DEF CloseDevice, Close
    <3>3. CASE session # "up" /\ session' = "up"
      <4>1. \A t \in Callers : call[t].st = "idle"  BY <1>0, <3>3 DEF InSession
      <4>2. OpenDone
        <5>1. ~Firmware
          <6>1. Firmware => UNCHANGED hostVars  BY <1>0, DownFacts, FirmwareTakes
          <6> QED BY <3>3, <6>1 DEF hostVars
        <5>2. ~HostThreads
          BY <3>3 DEF HostThreads, ReaderHello, ReaderTake, ReaderExit, WriterCheck, WriterSend, WriterDrained
        <5>3. \A t \in Callers : ~HostCall(t)
          BY <3>3 DEF HostCall, GetId, Receive, Timeout, Send, Post
        <5> QED BY <1>2, <3>3, <5>1, <5>2, <5>3 DEF LinkNext, HostSession, OpenStart, Close
      <4>3. call' = call  BY <4>2 DEF OpenDone
      <4> QED BY <4>1, <4>3
    <3> QED BY <1>2, <3>1, <3>2, <3>3
  <2>2. \A i \in 1 .. Len(Path) : Path[i] \in DownMsg /\ Path[i].id = 0 /\ Path[i] \notin Orders
    <3>1. \A i \in 1 .. Len(Path) : Path[i] \in DownMsg  BY <1>0, ElementOfSeq
    <3> QED BY <2>1, <3>1 DEF PathOwned, Free, Lost
  <2>3. \A i \in 1 .. Len(Path') : Path'[i].id = 0 /\ Path'[i] \notin Orders
    <3> SUFFICES ASSUME NEW i \in 1 .. Len(Path') PROVE Path'[i].id = 0 /\ Path'[i] \notin Orders
      OBVIOUS
    <3>1. CASE \E j \in 1 .. Len(Path) : Path'[i] = Path[j]  BY <2>2, <3>1
    <3>2. CASE Path'[i].kind # "cmd" /\ Path'[i].id = 0  BY <3>2 DEF Orders
    <3> QED BY <1>0, <1>2, <3>1, <3>2, PathOutside
  <2>4. Free(Path', Lost')  BY <2>3 DEF Free, Lost
  <2>5. Free(Path', Orders)  BY <2>3 DEF Free
  <2>6. Behind(Path', WithId, Status)  BY <2>3 DEF Behind, WithId
  <2> QED BY <2>4, <2>5, <2>6 DEF PathOwned, Orders, WithId, Status
<1>3. CASE StackNext /\ session = "up" /\ session' = "up"
  <2>1. PICK L : L = Lost'  OBVIOUS
  <2>2. \A i \in 1 .. Len(Path) : Path[i] \notin L
    <3> SUFFICES ASSUME NEW i \in 1 .. Len(Path), Path[i] \in L PROVE FALSE  OBVIOUS
    <3>1. Path[i] \in DownMsg /\ Path[i].id # 0  BY <2>1 DEF Lost
    <3>2. PICK t \in Callers : call[t].st = "waiting" /\ call[t].id = Path[i].id
      BY <3>1 DEF PathOwned, Free, Lost
    <3>3. ~NotIn(Path, call[t].id)  BY <3>2 DEF NotIn
    <3>4. call'[t] = call[t]  BY <1>0, <3>2, <3>3, OwnerStays
    <3> QED BY <2>1, <3>2, <3>4 DEF Lost
  <2>3. Free(Path, L) /\ Free(Path, Orders) /\ Behind(Path, WithId, Status)
    BY <2>2 DEF Free, PathOwned
  <2>4. Free(Path', L) /\ Free(Path', Orders) /\ Behind(Path', WithId, Status)
    <3>1. CASE Thinned(Path', Path)  BY <1>0, <2>3, <3>1, ThinOrder
    <3>2. ASSUME NEW m \in DownMsg, Added(m),
                 \/ \E u \in Callers : /\ SendOp(u) /\ writer # "off" /\ call[u].st = "ready"
                                       /\ m = Cmd(call[u].id, call[u].serial, op[u].cmd)
                 \/ \E e \in Chans, f \in Forms : m = Cmd(0, 0, TxCmd(e, f))
          PROVE  Free(Path', L) /\ Free(Path', Orders) /\ Behind(Path', WithId, Status)
      <4>1. m.kind = "cmd" /\ m \notin L /\ m \notin Orders
        <5>1. ASSUME NEW u \in Callers, SendOp(u), writer # "off", call[u].st = "ready",
                     m = Cmd(call[u].id, call[u].serial, op[u].cmd)
              PROVE  m.kind = "cmd" /\ m \notin L /\ m \notin Orders
          <6>1. m.kind = "cmd" /\ m.id = call[u].id  BY <5>1 DEF Cmd
          <6>2. call[u].id \in Ids /\ 0 \notin Ids  BY <1>0, <5>1, CallIds DEF Ids
          <6>3. call'[u].st = "waiting" /\ call'[u].id = call[u].id
            <7>1. call \in [Callers -> Call]  BY <1>0 DEF IInv, Scalars
            <7> QED BY <5>1, <7>1 DEF SendOp, Send, Call
          <6>4. m \notin L  BY <2>1, <6>1, <6>3 DEF Lost
          <6>5. m \notin Orders  BY <6>1, <6>2 DEF Orders
          <6> QED BY <6>1, <6>4, <6>5
        <5>2. ASSUME NEW e, NEW f, m = Cmd(0, 0, TxCmd(e, f))
              PROVE  m.kind = "cmd" /\ m \notin L /\ m \notin Orders
          <6>1. TxCmd(e, f).op = "tx"  BY CmdFields
          <6>2. m.kind = "cmd" /\ m.id = 0 /\ m.body = TxCmd(e, f)  BY <5>2 DEF Cmd
          <6>3. m \notin L  BY <2>1, <6>2 DEF Lost
          <6>4. m \notin Orders  BY <6>1, <6>2 DEF Orders
          <6> QED BY <6>2, <6>3, <6>4
        <5> QED BY <3>2, <5>1, <5>2
      <4>2. m \notin Status  BY <4>1 DEF Status
      <4>3. Path' = Append(Path, m)  BY <3>2 DEF Added
      <4>4. Free(Path', L)  BY <1>0, <2>3, <4>1, <4>3, AppendOrder
      <4>5. Free(Path', Orders)  BY <1>0, <2>3, <4>1, <4>3, AppendOrder
      <4>6. Behind(Path', WithId, Status)  BY <1>0, <2>3, <4>2, <4>3, AppendOrder
      <4> QED BY <4>4, <4>5, <4>6
    <3> QED BY <1>3, <3>1, <3>2, StackPath
  <2> QED BY <2>1, <2>4 DEF PathOwned, Orders, WithId, Status
<1>4. CASE UNCHANGED stackVars  BY <1>1, <1>4 DEF stackVars
<1> QED BY <1>1, <1>2, <1>3, <1>4, StackStep

\* The device's channel as it will be once the status messages on the wire are
\* handled.
Later(c) == IF Free(down, Status) THEN dev[c] ELSE Off

Alike(d, e) == d.proto = e.proto /\ d.used = e.used

\* The device handles the command with which thread t changes channel c.
Handled(t, c) ==
  /\ DevCommand /\ down # <<>> /\ Head(down) \in DownMsg /\ Head(down).kind = "cmd"
  /\ call[t].st = "waiting" /\ t \in Changing(c)
  /\ Head(down).id = call[t].id /\ Head(down).body = op[t].cmd
  /\ Later(c) = dev[c] /\ Later(c)' = dev'[c]
  /\ \E o \in Handle(Head(down), dev[c]) : FwHandle(o.outs) /\ dev'[c] = o.chan

\* What one more message, or one less, does to the status messages on the wire.
LEMMA StatusMoves ==
  ASSUME IInv, NEW s \in Seq(DownMsg)
  PROVE  /\ \A m \in DownMsg : m.kind = "cmd" => (Free(Append(s, m), Status) <=> Free(s, Status))
         /\ \A m \in DownMsg : m.kind # "cmd" => ~Free(Append(s, m), Status)
         /\ s # <<>> /\ Head(s).kind = "cmd" => (Free(Tail(s), Status) <=> Free(s, Status))
         /\ s # <<>> /\ Head(s).kind # "cmd" => ~Free(s, Status)
<1>1. ASSUME NEW m \in DownMsg
      PROVE  /\ m.kind = "cmd" => (Free(Append(s, m), Status) <=> Free(s, Status))
             /\ m.kind # "cmd" => ~Free(Append(s, m), Status)
  <2>1. /\ Len(Append(s, m)) = Len(s) + 1 /\ Append(s, m)[Len(s) + 1] = m /\ Len(s) \in Nat
        /\ \A i \in 1 .. Len(s) : Append(s, m)[i] = s[i]
    BY AppendProperties
  <2>2. \A i \in 1 .. Len(Append(s, m)) : i \in 1 .. Len(s) \/ i = Len(s) + 1  BY <2>1
  <2>3. \A i \in 1 .. Len(s) : i \in 1 .. Len(Append(s, m))  BY <2>1
  <2>4. m.kind = "cmd" => (Free(Append(s, m), Status) <=> Free(s, Status))
    BY <2>1, <2>2, <2>3 DEF Free, Status
  <2>5. m.kind # "cmd" => ~Free(Append(s, m), Status)
    <3>1. Len(s) + 1 \in 1 .. Len(Append(s, m))  BY <2>1
    <3> QED BY <2>1, <3>1 DEF Free, Status
  <2> QED BY <2>4, <2>5
<1>2. ASSUME s # <<>>
      PROVE  /\ Head(s).kind = "cmd" => (Free(Tail(s), Status) <=> Free(s, Status))
             /\ Head(s).kind # "cmd" => ~Free(s, Status)
  <2>1. /\ Head(s) = s[1] /\ Len(Tail(s)) = Len(s) - 1 /\ Len(s) \in Nat /\ 1 \in 1 .. Len(s)
        /\ \A i \in 1 .. Len(s) - 1 : Tail(s)[i] = s[i + 1] /\ i + 1 \in 1 .. Len(s)
    BY <1>2, HeadTailProperties
  <2>2. s[1] \in DownMsg  BY <2>1, ElementOfSeq
  <2>3. Head(s).kind # "cmd" => ~Free(s, Status)  BY <2>1, <2>2 DEF Free, Status
  <2>4. ASSUME Head(s).kind = "cmd", Free(Tail(s), Status) PROVE Free(s, Status)
    <3> SUFFICES ASSUME NEW i \in 1 .. Len(s) PROVE s[i] \notin Status  BY DEF Free
    <3>1. CASE i = 1  BY <2>1, <2>4, <3>1 DEF Status
    <3>2. CASE i # 1
      <4>1. i - 1 \in 1 .. Len(s) - 1 /\ i - 1 \in 1 .. Len(Tail(s)) /\ (i - 1) + 1 = i  BY <2>1, <3>2
      <4>2. Tail(s)[i - 1] = s[i]  BY <2>1, <4>1
      <4> QED BY <2>4, <4>1, <4>2 DEF Free
    <3> QED BY <3>1, <3>2
  <2>5. Free(s, Status) => Free(Tail(s), Status)  BY <1>2, HeadOrder
  <2> QED BY <2>3, <2>4, <2>5
<1> QED BY <1>1, <1>2

\* What the host does to the status messages on the wire.
LEMMA HostStatus ==
  ASSUME ~WritesMayFail, IInv, InSession, HostThreads \/ OpenDone \/ Close
  PROVE  \/ Free(down', Status) <=> Free(down, Status)
         \/ (ReaderHello \/ ReaderExit) /\ ~Free(down', Status)
<1>0. down \in Seq(DownMsg) /\ txQueue \in Seq(DownMsg) /\ epoch \in Nat  BY DownFacts
<1>1. CASE ReaderHello \/ ReaderExit
  <2>1. PICK k \in {"hello", "goodbye"} : down' = Append(down, StatusMsg(k))
    BY <1>1 DEF ReaderHello, ReaderExit, Written
  <2>2. StatusMsg(k) \in DownMsg /\ StatusMsg(k).kind # "cmd"  BY <1>0, StatusTagged DEF StatusMsg, TaggedDown
  <2> QED BY <1>0, <1>1, <2>1, <2>2, StatusMoves
<1>2. CASE WriterSend
  <2>1. txQueue # <<>> /\ down' = Append(down, Head(txQueue))  BY <1>2 DEF WriterSend, Written
  <2>2. Head(txQueue) \in DownMsg /\ Head(txQueue).kind = "cmd"
    <3>1. Head(txQueue) = txQueue[1] /\ 1 \in 1 .. Len(txQueue)  BY <1>0, <2>1, HeadTailProperties
    <3>2. txQueue[1] \in DownMsg  BY <1>0, <3>1, ElementOfSeq
    <3> QED BY <3>1, <3>2 DEF InSession
  <2> QED BY <1>0, <2>1, <2>2, StatusMoves
<1>3. CASE ReaderTake \/ WriterCheck \/ WriterDrained \/ OpenDone \/ Close
  <2>1. down' = down  BY <1>3 DEF ReaderTake, WriterCheck, WriterDrained, OpenDone, Close
  <2> QED BY <2>1
<1> QED BY <1>1, <1>2, <1>3 DEF HostThreads

DevPlain == \A c \in Chans : Plain(c, dev[c])

\* A command that changes a channel is handled for a thread that waits for it.
LEMMA HandledFor ==
  ASSUME OInv, PathOwned, Carried, NEW c \in Chans, DevCommand, down # <<>>,
         Head(down) \in DownMsg, Head(down).kind = "cmd",
         Head(down).body.ch = c, Head(down).body.op \in Changes,
         \E o \in Handle(Head(down), dev[c]) : FwHandle(o.outs) /\ dev'[c] = o.chan
  PROVE  \E t \in Callers : Handled(t, c)
<1>0. IInv /\ Path \in Seq(DownMsg) /\ Path # <<>> /\ Head(Path) = Head(down) /\ down \in Seq(DownMsg)
  <2>1. IInv  BY DEF OInv
  <2> QED BY <2>1, PathTyped, PathHead, DownFacts
<1>1. Head(down) \notin Orders /\ Head(down) \notin Lost  BY <1>0, HeadOrder DEF PathOwned
<1>2. Head(down).id # 0  BY <1>1 DEF Orders, Changes
<1>3. PICK t \in Callers : call[t].st = "waiting" /\ call[t].id = Head(down).id  BY <1>1, <1>2 DEF Lost
<1>4. Head(down).body = op[t].cmd
  <2>1. Free(Path, Strange(call[t].id, op[t].cmd))  BY <1>3 DEF Carried
  <2>2. Head(Path) \notin Strange(call[t].id, op[t].cmd)  BY <1>0, <2>1, HeadOrder
  <2> QED BY <1>0, <1>3, <2>2 DEF Strange
<1>5. t \in Changing(c)  BY <1>4 DEF Changing
<1>6. Free(down, Status)
  <2>1. Head(Path) \in WithId  BY <1>0, <1>2 DEF WithId
  <2>2. Free(Path, Status)  BY <1>0, <2>1, HeadOrder DEF PathOwned
  <2>3. \A i \in 1 .. Len(down) : i \in 1 .. Len(Path) /\ Path[i] = down[i]
    <3>1. txQueue \in Seq(DownMsg)  BY <1>0, DownFacts
    <3>2. Len(Path) = Len(down) + Len(txQueue) /\ \A i \in 1 .. Len(down) : Path[i] = down[i]
      BY <1>0, <3>1, ConcatFacts DEF Path
    <3>3. Len(txQueue) \in Nat /\ Len(down) \in Nat  BY <1>0, <3>1
    <3> QED BY <3>2, <3>3
  <2> QED BY <2>2, <2>3 DEF Free
<1>7. Free(down', Status)
  <2>1. down' = Tail(down)
    <3>1. \E o : FwHandle(o.outs)  OBVIOUS
    <3> QED BY <3>1 DEF FwHandle
  <2> QED BY <1>0, <1>6, <2>1, StatusMoves
<1>8. Later(c) = dev[c] /\ Later(c)' = dev'[c]  BY <1>6, <1>7 DEF Later, Status
<1> QED BY <1>3, <1>4, <1>5, <1>8 DEF Handled

\* What a step does to a channel of the device, as it will be.
LEMMA LaterMoves ==
  ASSUME ~WritesMayFail, OInv, OpInv, TablesTyped, Carried, PathOwned, [StackNext]_stackVars,
         restarts' = restarts, ~OpenStart, NEW c \in Chans
  PROVE  \/ Alike(Later(c)', Later(c))
         \/ (ReaderHello \/ ReaderExit) /\ Later(c)' = Off
         \/ \E t \in Callers : Handled(t, c)
<1>0. IInv /\ InSession /\ down \in Seq(DownMsg) /\ restarts \in Nat /\ dev \in [Chans -> DevChan]
  <2>1. IInv /\ InSession  BY DEF OInv
  <2> QED BY <2>1, DownFacts DEF IInv, Scalars, TablesTyped
<1>a. \A d, e : Alike(d, e) <=> d.proto = e.proto /\ d.used = e.used  BY DEF Alike
<1>b. ASSUME Free(down', Status) <=> Free(down, Status), Alike(dev'[c], dev[c])
      PROVE  Alike(Later(c)', Later(c))
  <2>1. CASE Free(down, Status)
    <3>1. Later(c) = dev[c] /\ Later(c)' = dev'[c]  BY <1>b, <2>1 DEF Later, Status
    <3> QED BY <1>b, <3>1 DEF Alike
  <2>2. CASE ~Free(down, Status)
    <3>1. Later(c) = Off /\ Later(c)' = Off  BY <1>b, <2>2 DEF Later, Status
    <3> QED BY <3>1 DEF Alike
  <2> QED BY <2>1, <2>2
<1>1. CASE UNCHANGED stackVars
  <2>1. down' = down /\ dev' = dev  BY <1>1 DEF stackVars, linkVars
  <2>2. Alike(dev'[c], dev[c])  BY <2>1 DEF Alike
  <2> QED BY <1>b, <2>1, <2>2
<1>2. ASSUME NEW t \in Callers, Api(t) PROVE Alike(Later(c)', Later(c))
  <2>1. dev' = dev  BY <1>0, <1>2, ThreadMoves
  <2>2. HostCall(t)  BY <1>2, ApiStep
  <2>3. down' = down  BY <2>2 DEF HostCall, GetId, Receive, Timeout, Send, Post
  <2>4. Alike(dev'[c], dev[c])  BY <2>1 DEF Alike
  <2> QED BY <1>b, <2>3, <2>4
<1>3. CASE CloseDevice \/ DriverThreads
  <2>1. dev' = dev /\ (HostThreads \/ OpenDone \/ Close)
    BY <1>3 DEF CloseDevice, DriverThreads, Alone
  <2>2. Alike(dev'[c], dev[c])  BY <2>1 DEF Alike
  <2>3. CASE Free(down', Status) <=> Free(down, Status)  BY <1>b, <2>2, <2>3
  <2>4. CASE (ReaderHello \/ ReaderExit) /\ ~Free(down', Status)
    <3>1. Later(c)' = Off  BY <2>4 DEF Later, Status
    <3> QED BY <2>4, <3>1
  <2> QED BY <1>0, <2>1, <2>3, <2>4, HostStatus
<1>4. CASE DevStatus
  <2>1. down # <<>> /\ Head(down).kind # "cmd" /\ dev' = AllOff  BY <1>4 DEF DevStatus, FwStatus
  <2>2. ~Free(down, Status)  BY <1>0, <2>1, StatusMoves
  <2>3. dev'[c] = Off  BY <2>1 DEF AllOff
  <2>4. Later(c) = Off /\ Later(c)' = Off  BY <2>2, <2>3 DEF Later, Status
  <2> QED BY <2>4 DEF Alike
<1>5. CASE DevCommand
  <2>0. down # <<>> /\ Head(down).kind = "cmd"  BY <1>5 DEF DevCommand
  <2>1. down' = Tail(down)
    <3>1. \A outs : ~FwCrash(outs)  BY <1>0 DEF FwCrash, Restart
    <3>2. \E outs : FwHandle(outs)  BY <1>5, <3>1 DEF DevCommand
    <3> QED BY <3>2 DEF FwHandle
  <2>2. Free(down', Status) <=> Free(down, Status)  BY <1>0, <2>0, <2>1, StatusMoves
  <2>3. CASE dev'[c].proto = dev[c].proto /\ dev'[c].used = dev[c].used
    BY <1>b, <2>2, <2>3 DEF Alike
  <2>4. ASSUME Head(down) \in DownMsg, Head(down).body \in Commands, Head(down).body.ch = c,
               \E o \in Handle(Head(down), dev[c]) : FwHandle(o.outs) /\ dev'[c] = o.chan
        PROVE  Alike(Later(c)', Later(c)) \/ \E t \in Callers : Handled(t, c)
    <3>1. CASE Head(down).body.op \in Changes
      BY <1>5, <2>0, <2>4, <3>1, HandledFor
    <3>2. CASE Head(down).body.op \notin Changes
      <4>1. PICK o \in Handle(Head(down), dev[c]) : dev'[c] = o.chan  BY <2>4
      <4>2. o.chan.proto = dev[c].proto /\ o.chan.used = dev[c].used  BY <1>0, <3>2, HandleStays
      <4>3. Alike(dev'[c], dev[c])  BY <4>1, <4>2 DEF Alike
      <4> QED BY <1>b, <2>2, <4>3
    <3> QED BY <3>1, <3>2
  <2>5. ~(Head(down).kind # "cmd")  BY <2>0
  <2> QED BY <1>0, <2>3, <2>4, <2>5, DevMoves
<1>6. ~DevRestart  BY <1>0 DEF DevRestart, FwRestart, Restart
<1>7. CASE ChannelLoop
  <2>1. down' = down  BY <1>7 DEF ChannelLoop, DevReceived, DevFlowControl, DevSent, FwEmit, linkVars
  <2>2. ~DevStatus /\ ~DevCommand
    <3>1. DevStatus \/ DevCommand => down # <<>> /\ down' = Tail(down)
      <4>1. \A outs : ~FwCrash(outs)  BY <1>0 DEF FwCrash, Restart
      <4> QED BY <4>1 DEF DevStatus, FwStatus, DevCommand, FwHandle
    <3>2. down # <<>> => Tail(down) # down
      <4>1. down # <<>> => Len(Tail(down)) = Len(down) - 1 /\ Len(down) \in Nat  BY <1>0, HeadTailProperties
      <4> QED BY <4>1
    <3> QED BY <2>1, <3>1, <3>2
  <2>3. Alike(dev'[c], dev[c])  BY <1>0, <2>2, DevMoves DEF Alike
  <2> QED BY <1>b, <2>1, <2>3
<1> QED BY <1>1, <1>2, <1>3, <1>4, <1>5, <1>6, <1>7 DEF StackNext

LEMMA DevPlainStep ==
  ASSUME IInv, OpInv, TablesTyped, DevPlain, [StackNext]_stackVars, restarts' = restarts PROVE DevPlain'
<1> SUFFICES ASSUME NEW c \in Chans PROVE Plain(c, dev'[c])  BY DEF DevPlain
<1>0. Plain(c, dev[c]) /\ dev[c] \in DevChan  BY DEF DevPlain, TablesTyped
<1>1. ASSUME NEW d, d.proto = dev[c].proto, d.used = dev[c].used PROVE Plain(c, d)
  BY <1>0, <1>1 DEF Plain, On
<1>2. Plain(c, Off)  BY DEF Plain, On, Off
<1>3. ASSUME Head(down).body \in Commands, Head(down).body.ch = c, NEW o \in Handle(Head(down), dev[c])
      PROVE  Plain(c, o.chan)
  <2>1. CASE Head(down).body.op \notin Changes
    <3>1. o.chan.proto = dev[c].proto /\ o.chan.used = dev[c].used  BY <1>0, <2>1, HandleStays
    <3> QED BY <1>1, <3>1
  <2>2. CASE Head(down).body.op \in Changes
    <3>1. PICK s : s = Head(down).body.slot  OBVIOUS
    <3>2. \A u : [dev[c] EXCEPT !.used = u].proto = dev[c].proto  BY <1>0 DEF DevChan
    <3>3. \A u : On([dev[c] EXCEPT !.used = u]) = On(dev[c])  BY <3>2 DEF On
    <3>4. \A d : On(d) /\ c \in {"can", "kline"} => Plain(c, d)  BY DEF Plain
    <3>5. \/ o.chan = dev[c] \/ o.chan = Off
          \/ On(o.chan) /\ c \in {"can", "kline"}
          \/ On(dev[c]) /\ c = "can" /\ o.chan = [dev[c] EXCEPT !.used = @ \cup {s}]
          \/ On(dev[c]) /\ c = "can" /\ o.chan = [dev[c] EXCEPT !.used = @ \ {s}]
      <4> HIDE DEF Plain, On, Off, Reply, DevChan
      <4> QED BY <1>0, <1>3, <2>2, <3>1, HandleCases
    <3> HIDE DEF Plain, On, Off, DevChan
    <3> QED BY <1>0, <1>2, <3>3, <3>4, <3>5
  <2> QED BY <2>1, <2>2
<1> HIDE DEF Plain, Off
<1> QED BY <1>1, <1>2, <1>3, DevMoves

\* Between sessions, once the hello or the goodbye is written, no channel of the
\* device will be on.
Ended ==
  (session = "none" /\ reader = "off") \/ (session = "opening" /\ reader = "loop") =>
    \A c \in Chans : ~On(Later(c))

LEMMA EndedStep ==
  ASSUME HelloInTime, ~WritesMayFail, OInv, OpInv, TablesTyped, Carried, PathOwned, Alive, Ended,
         [StackNext]_stackVars, restarts' = restarts
  PROVE  Ended'
<1> SUFFICES ASSUME NEW c \in Chans,
                    (session' = "none" /\ reader' = "off") \/ (session' = "opening" /\ reader' = "loop")
             PROVE  ~On(Later(c)')
  BY DEF Ended
<1>0. IInv /\ InSession /\ [LinkNext]_linkVars  BY StackStep DEF OInv
<1>1. ~OpenStart  BY DEF OpenStart
<1>2. CASE Later(c)' = Off  BY <1>2 DEF On, Off
<1>3. ASSUME NEW t \in Callers, Handled(t, c) PROVE FALSE
  <2>1. session = "up"  BY <1>0, <1>3 DEF Handled, InSession
  <2>2. session' = session
    <3>1. \E outs : FwHandle(outs)  BY <1>3 DEF Handled
    <3> QED BY <3>1 DEF FwHandle, hostVars
  <2> QED BY <2>1, <2>2
<1>4. CASE Alike(Later(c)', Later(c)) /\ ~ReaderHello /\ ~ReaderExit
  <2>1. (session = "none" /\ reader = "off") \/ (session = "opening" /\ reader = "loop")
    <3>1. CASE UNCHANGED linkVars  BY <3>1 DEF linkVars, hostVars
    <3>2. CASE HostSession  BY <1>1, <3>2 DEF HostSession, OpenDone, Close, Alive
    <3>3. CASE ReaderTake \/ WriterCheck \/ WriterSend \/ WriterDrained
      BY <3>3 DEF ReaderTake, WriterCheck, WriterSend, WriterDrained
    <3>4. ASSUME NEW t \in Callers, HostCall(t) PROVE session' = session /\ reader' = reader
      BY <3>4 DEF HostCall, GetId, Receive, Timeout, Send, Post
    <3>5. CASE Firmware
      <4>1. UNCHANGED hostVars  BY <1>0, <3>5, DownFacts, FirmwareTakes
      <4> QED BY <4>1 DEF hostVars
    <3> QED BY <1>0, <1>4, <3>1, <3>2, <3>3, <3>4, <3>5 DEF LinkNext, HostThreads
  <2>2. ~On(Later(c))  BY <2>1 DEF Ended
  <2> QED BY <1>4, <2>2 DEF On, Alike
<1>5. CASE ReaderHello \/ ReaderExit
  <2>1. ~Free(down', Status)
    <3>1. PICK k \in {"hello", "goodbye"} : down' = Append(down, StatusMsg(k))
      BY <1>5 DEF ReaderHello, ReaderExit, Written
    <3>2. down \in Seq(DownMsg) /\ epoch \in Nat  BY <1>0, DownFacts
    <3>3. StatusMsg(k) \in DownMsg /\ StatusMsg(k).kind # "cmd"
      BY <3>2, StatusTagged DEF StatusMsg, TaggedDown
    <3> QED BY <1>0, <3>1, <3>2, <3>3, StatusMoves
  <2>2. Later(c)' = Off  BY <2>1 DEF Later, Status
  <2> QED BY <1>2, <2>2
<1> QED BY <1>1, <1>2, <1>3, <1>4, <1>5, LaterMoves

\* The tables of channel c agree, once the status messages on the wire are handled.
Agree(c) == (chan[c] <=> On(Later(c))) /\ (c = "can" => filt[c] = Later(c).used)

\* They agree except while a thread changes the channel: they do until the device
\* handles its command, and from then on its answer says how they differ.  The
\* thread that closes a channel took it out of the driver's table before.
Tables ==
  session = "up" => \A c \in Chans :
    /\ Changing(c) = {} => Agree(c)
    /\ \A t \in Changing(c) :
         /\ call[t].st # "waiting" \/ ~NotIn(Path, call[t].id) => (op[t].cmd.op # "close" => Agree(c))
         /\ call[t].st = "waiting" =>
              /\ \A a \in First(call[t].id) :
                   Settles(c, chan[c], filt[c], op[t].cmd, a.status = "ok", Later(c))
              /\ lastId = call[t].id => Some(call[t].id)

\* What does not move says what it said.
LEMMA SameTables ==
  ASSUME NEW c \in Chans, Alike(Later(c)', Later(c)), chan'[c] = chan[c], filt'[c] = filt[c]
  PROVE  /\ Agree(c) => Agree(c)'
         /\ \A cmd, ok : Settles(c, chan[c], filt[c], cmd, ok, Later(c))
                         => Settles(c, chan'[c], filt'[c], cmd, ok, Later(c)')
<1>1. PICK d, e : d = Later(c) /\ e = Later(c)'  OBVIOUS
<1>2. (On(e) <=> On(d)) /\ e.used = d.used  BY <1>1 DEF Alike, On
<1>3. Agree(c) => Agree(c)'
  <2> SUFFICES ASSUME Agree(c) PROVE (chan'[c] <=> On(Later(c)')) /\ (c = "can" => filt'[c] = Later(c)'.used)
    BY DEF Agree
  <2>1. (chan[c] <=> On(d)) /\ (c = "can" => filt[c] = d.used)  BY <1>1 DEF Agree
  <2> HIDE DEF On, Later
  <2>2. chan'[c] <=> On(e)  BY <1>2, <2>1
  <2>3. c = "can" => filt'[c] = e.used  BY <1>2, <2>1
  <2> QED BY <1>1, <2>2, <2>3
<1>4. ASSUME NEW cmd, NEW ok, Settles(c, chan[c], filt[c], cmd, ok, d)
      PROVE  Settles(c, chan'[c], filt'[c], cmd, ok, e)
  <2> HIDE DEF On
  <2> QED BY <1>2, <1>4 DEF Settles
<1> QED BY <1>1, <1>3, <1>4

\* The thread that takes the answer makes the tables agree.
LEMMA Settled ==
  ASSUME TablesTyped, OpInv, NEW c \in Chans, NEW t \in Changing(c), Complete(t), Alike(Later(c)', Later(c)),
         Settles(c, chan[c], filt[c], op[t].cmd, Head(inbox[call[t].id]).body.status = "ok", Later(c))
  PROVE  Agree(c)'
<1>0. chan \in [Chans -> BOOLEAN] /\ filt \in [Chans -> SUBSET Slots]  BY DEF TablesTyped, OpInv
<1>1. PICK d, e : d = Later(c) /\ e = Later(c)'  OBVIOUS
<1>2. (On(e) <=> On(d)) /\ e.used = d.used  BY <1>1 DEF Alike, On
<1>3. PICK ok \in BOOLEAN : ok = (Head(inbox[call[t].id]).body.status = "ok")  OBVIOUS
<1>4. PICK o, s : o = op[t].cmd.op /\ s = op[t].cmd.slot  OBVIOUS
<1>5. op[t].cmd.ch = c  BY DEF Changing
<1>6. /\ chan' = IF ok /\ o = "open" THEN [chan EXCEPT ![c] = TRUE] ELSE chan
      /\ filt' = CASE ok /\ o = "setFilter" -> [filt EXCEPT ![c] = @ \cup {s}]
                   [] ok /\ o = "remFilter" -> [filt EXCEPT ![c] = @ \ {s}]
                   [] OTHER -> filt
  BY <1>3, <1>4, <1>5 DEF Complete, Finish
<1>7. On(d) <=> chan[c] \/ (ok /\ o = "open")
  BY <1>1, <1>3, <1>4 DEF Settles
<1>8. c = "can" => d.used = CASE ok /\ o = "setFilter" -> filt[c] \cup {s}
                              [] ok /\ o = "remFilter" -> filt[c] \ {s}
                              [] OTHER -> filt[c]
  BY <1>1, <1>3, <1>4 DEF Settles
<1> HIDE DEF On, Later, Slots
<1>9. chan'[c] <=> On(e)
  <2>1. CASE ok /\ o = "open"
    <3>1. chan'[c]  BY <1>0, <1>6, <2>1
    <3>2. On(e)  BY <1>2, <1>7, <2>1
    <3> QED BY <3>1, <3>2
  <2>2. CASE ~(ok /\ o = "open")
    <3>1. chan' = chan  BY <1>6, <2>2
    <3>2. On(d) <=> chan[c]  BY <1>0, <1>7, <2>2
    <3> QED BY <1>2, <3>1, <3>2
  <2> QED BY <2>1, <2>2
<1>10. c = "can" => filt'[c] = e.used
  <2>1. CASE ok /\ o = "setFilter"
    <3>1. filt'[c] = filt[c] \cup {s}  BY <1>0, <1>6, <2>1
    <3> QED BY <1>2, <1>8, <2>1, <3>1
  <2>2. CASE ok /\ o = "remFilter"
    <3>1. filt'[c] = filt[c] \ {s}  BY <1>0, <1>6, <2>2
    <3> QED BY <1>2, <1>8, <2>2, <3>1
  <2>3. CASE ~(ok /\ o = "setFilter") /\ ~(ok /\ o = "remFilter")
    <3>1. filt'[c] = filt[c]  BY <1>6, <2>3
    <3> QED BY <1>2, <1>8, <2>3, <3>1
  <2> QED BY <2>1, <2>2, <2>3
<1>11. (chan'[c] <=> On(Later(c)')) /\ (c = "can" => filt'[c] = Later(c)'.used)  BY <1>1, <1>9, <1>10
<1> QED BY <1>11 DEF Agree

\* What is no longer under way does not come back.
LEMMA NotInStays ==
  ASSUME OInv, UpRunning, OpInv, TablesTyped, IdsApart, StackNext, session = "up", session' = "up",
         NEW t \in Callers, call[t].st = "waiting", NEW k \in Ids, k = call[t].id, NotIn(Path, k)
  PROVE  NotIn(Path', k)
<1>0. IInv /\ Path \in Seq(DownMsg) /\ Path' \in Seq(DownMsg) /\ 0 \notin Ids
  <2>1. IInv  BY DEF OInv
  <2>2. IInv'  BY <2>1, StepInv, StackStep
  <2>3. (IInv => Path \in Seq(DownMsg))'  BY PathTyped, PTL
  <2> QED BY <2>1, <2>2, <2>3, PathTyped DEF Ids
<1>1. CASE Thinned(Path', Path)  BY <1>0, <1>1, ThinIds
<1>2. ASSUME NEW m \in DownMsg, Added(m),
             \/ \E u \in Callers : /\ SendOp(u) /\ writer # "off" /\ call[u].st = "ready"
                                   /\ m = Cmd(call[u].id, call[u].serial, op[u].cmd)
             \/ \E e \in Chans, f \in Forms : m = Cmd(0, 0, TxCmd(e, f))
      PROVE  NotIn(Path', k)
  <2>1. m.id # k
    <3>1. ASSUME NEW u \in Callers, call[u].st = "ready", m = Cmd(call[u].id, call[u].serial, op[u].cmd)
          PROVE  m.id # k
      <4>1. m.id = call[u].id  BY <3>1 DEF Cmd
      <4> QED BY <3>1, <4>1 DEF IdsApart
    <3>2. ASSUME NEW e, NEW f, m = Cmd(0, 0, TxCmd(e, f)) PROVE m.id # k
      <4>1. m.id = 0  BY <3>2 DEF Cmd
      <4> QED BY <1>0, <4>1
    <3> QED BY <1>2, <3>1, <3>2
  <2>2. Path' = Append(Path, m)  BY <1>2 DEF Added
  <2> QED BY <1>0, <2>1, <2>2, AppendIds
<1> QED BY <1>1, <1>2, StackPath

\* What holds while no call has timed out, no write is lost and the ids last.
CalmInv == Alive /\ PathOwned /\ Ended /\ Tables
CalmAll == /\ OInv /\ UpRunning /\ UpPlain /\ OpInv /\ TablesTyped /\ Locked /\ GivenUp /\ Chained /\ DevPlain
           /\ IdsApart /\ Carried /\ OpenKept /\ CalmInv

\* A session starts with both tables empty.
LEMMA OpenedAgree ==
  ASSUME HelloInTime, ~WritesMayFail, CalmAll, [StackNext]_stackVars, restarts' = restarts,
         session # "up", session' = "up", NEW c \in Chans
  PROVE  Changing(c)' = {} /\ Agree(c)'
<1>0. /\ IInv /\ InSession /\ [LinkNext]_linkVars /\ OInv /\ OpInv /\ TablesTyped /\ Carried /\ PathOwned
      /\ Alive /\ Chained
  BY StackStep DEF CalmAll, CalmInv, OInv
<1>1. OpenDone
  <2>1. ~UNCHANGED linkVars  BY DEF linkVars, hostVars
  <2>2. ~Firmware
    <3>1. Firmware => UNCHANGED hostVars  BY <1>0, DownFacts, FirmwareTakes
    <3> QED BY <3>1 DEF hostVars
  <2>3. ~HostThreads
    BY DEF HostThreads, ReaderHello, ReaderTake, ReaderExit, WriterCheck, WriterSend, WriterDrained
  <2>4. \A t \in Callers : ~HostCall(t)
    BY DEF HostCall, GetId, Receive, Timeout, Send, Post
  <2> QED BY <1>0, <2>1, <2>2, <2>3, <2>4 DEF LinkNext, HostSession, OpenStart, Close
<1>2. session = "opening" /\ reader = "loop" /\ UNCHANGED <<reader, calls, txQueue>>
  <2>1. session = "opening" /\ reader # "hello" /\ UNCHANGED <<reader, calls, txQueue>>
    BY <1>1 DEF OpenDone
  <2> QED BY <1>0, <2>1 DEF Alive, IInv, Scalars
<1>3. ~On(Later(c))  BY <1>2 DEF CalmAll, CalmInv, Ended
<1>4. Later(c).used = {}
  <2>1. Plain(c, dev[c])  BY DEF CalmAll, DevPlain
  <2>2. Later(c) = dev[c] \/ Later(c) = Off  BY DEF Later
  <2>3. Off.used = {}  BY DEF Off
  <2> HIDE DEF Off, On
  <2> QED BY <1>3, <2>1, <2>2, <2>3 DEF Plain
<1>5. ~chan[c] /\ filt[c] = {}
  <2>1. ~chan[c]  BY DEF CalmAll, OpenKept
  <2> QED BY <1>0, <2>1 DEF Chained
<1>6. \A t \in Callers : op[t] = NoOp  BY <1>0 DEF Chained
<1>7. ~OpenStart /\ ~ReaderHello /\ ~ReaderExit
  BY <1>2 DEF OpenStart, ReaderHello, ReaderExit
<1>8. ASSUME NEW t \in Callers PROVE ~Handled(t, c)
  BY <1>0 DEF Handled, InSession
<1>9. Alike(Later(c)', Later(c))  BY <1>0, <1>7, <1>8, LaterMoves
<1>10. \A t \in Callers : ~Api(t)
  <2> SUFFICES ASSUME NEW t \in Callers, Api(t) PROVE FALSE  OBVIOUS
  <2>1. HostCall(t)  BY <1>0, ApiStep
  <2> QED BY <2>1 DEF HostCall, GetId, Receive, Timeout, Send, Post
<1>11. ~CloseDevice  BY DEF CloseDevice, Close
<1>12. chan' = chan /\ filt' = filt /\ op' = op
  BY <1>10, <1>11, OthersMove DEF StackNext, stackVars
<1>13. Changing(c)' = {}
  <2>1. NoOp.cmd.op = "none"  BY CmdFields DEF NoOp
  <2> QED BY <1>6, <1>12, <2>1 DEF Changing, Changes
<1>14. Agree(c)'
  <2>1. Agree(c)
    <3>0. chan[c] \in BOOLEAN  BY <1>0 DEF TablesTyped
    <3>1. chan[c] <=> On(Later(c))
      <4> HIDE DEF Later
      <4> QED BY <1>3, <1>5, <3>0 DEF On
    <3>2. filt[c] = Later(c).used  BY <1>4, <1>5
    <3> QED BY <3>1, <3>2 DEF Agree
  <2> QED BY <1>9, <1>12, <2>1, SameTables
<1> QED BY <1>13, <1>14

\* While a session is up only the commands that change a channel do so.
LEMMA UpMoves ==
  ASSUME ~WritesMayFail, CalmAll, [StackNext]_stackVars, restarts' = restarts,
         session = "up", session' = "up", NEW c \in Chans
  PROVE  Alike(Later(c)', Later(c)) \/ \E t \in Callers : Handled(t, c)
<1>1. /\ OInv /\ OpInv /\ TablesTyped /\ Carried /\ PathOwned /\ InSession /\ Alive
  BY DEF CalmAll, CalmInv, OInv
<1>2. reader = "loop" /\ running  BY <1>1 DEF Alive
<1>3. ~OpenStart /\ ~ReaderHello /\ ~ReaderExit  BY <1>2 DEF OpenStart, ReaderHello, ReaderExit
<1> QED BY <1>1, <1>3, LaterMoves

\* How a thread comes to be changing a channel, or goes on.
LEMMA ChangerMoves ==
  ASSUME CalmAll, [StackNext]_stackVars, timeouts' = timeouts, NEW c \in Chans, NEW t \in Changing(c)'
  PROVE  \/ /\ t \in Changing(c) /\ op'[t] = op[t]
            /\ \/ call'[t] = call[t] /\ ~Complete(t)
               \/ SendOp(t) /\ call[t].st = "ready" /\ call'[t].st = "waiting" /\ call'[t].id = call[t].id
               \/ Complete(t)
         \/ \E cmd \in Commands : \E todo \in SUBSET Slots :
              Api(t) /\ Enters(t, cmd, todo) /\ op'[t].cmd = cmd /\ cmd.ch = c /\ Inside(c) = {}
              /\ call'[t].st = "ready"
         \/ /\ ClearNext(t) /\ Api(t) /\ t \in Changing(c) /\ call[t].st = "idle" /\ call'[t].st = "ready"
            /\ op[t].cmd.op = "remFilter" /\ op'[t].cmd.op = "remFilter"
<1>0. IInv /\ OpInv /\ TablesTyped /\ Locked /\ timeouts \in Nat /\ call \in [Callers -> Call]
  BY DEF CalmAll, OInv, IInv, Scalars
<1>1. t \in Callers /\ op'[t].cmd.ch = c /\ op'[t].cmd.op \in Changes  BY DEF Changing
<1>2. ~GiveUp(t)
  <2>1. GiveUp(t) => timeouts' = timeouts + 1  BY DEF GiveUp, Timeout
  <2> QED BY <1>0, <2>1
<1>3. op'[t] # NoOp
  <2>1. NoOp.cmd.op = "none"  BY CmdFields DEF NoOp
  <2> QED BY <1>1, <2>1 DEF Changes
<1>4. op'[t] = op[t] => t \in Changing(c)  BY <1>1 DEF Changing
<1>5. Complete(t) => call[t].st = "waiting" /\ call'[t].st = "idle"
  BY <1>0, <1>1 DEF Complete, Receive, Idle
<1>6. CASE op'[t] = op[t] /\ call'[t] = call[t]  BY <1>4, <1>5, <1>6
<1>7. CASE ~(op'[t] = op[t] /\ call'[t] = call[t])
  <2>1. PICK u \in Callers : Api(u)
    BY <1>7, OthersMove DEF StackNext, stackVars, linkVars, hostVars
  <2>2. u = t  BY <1>0, <1>1, <1>7, <2>1, ThreadMoves
  <2>3. ASSUME NEW cmd \in Commands, NEW todo \in SUBSET Slots, Enters(t, cmd, todo),
               op'[t] = [cmd |-> cmd, todo |-> todo], call'[t].st = "ready"
        PROVE  /\ Api(t) /\ Enters(t, cmd, todo) /\ op'[t].cmd = cmd /\ cmd.ch = c /\ Inside(c) = {}
               /\ call'[t].st = "ready"
    <3>1. op'[t].cmd = cmd  BY <2>3
    <3>2. cmd.ch = c /\ cmd.op \in Changes  BY <1>1, <3>1
    <3>3. WriteFree(c)  BY <2>3, <3>2 DEF Enters, Changes
    <3> QED BY <2>1, <2>2, <2>3, <3>1, <3>2, <3>3 DEF WriteFree
  <2>4. ASSUME ClearNext(t), call[t].st = "idle", call'[t].st = "ready", NEW s \in op[t].todo,
               op'[t] = [cmd |-> RemFilterCmd(op[t].cmd.ch, s), todo |-> op[t].todo \ {s}]
        PROVE  op[t].cmd.op = "remFilter" /\ op'[t].cmd.op = "remFilter" /\ t \in Changing(c)
    <3>1. op'[t].cmd = RemFilterCmd(op[t].cmd.ch, s)  BY <2>4
    <3>2. op'[t].cmd.op = "remFilter" /\ op'[t].cmd.ch = op[t].cmd.ch  BY <3>1, CmdFields
    <3>3. op[t].cmd.op = "remFilter"  BY <1>0, <1>1, <2>4 DEF Locked
    <3> QED BY <1>1, <3>2, <3>3 DEF Changing, Changes
  <2>5. ASSUME NEW cmd \in Commands, NEW todo \in SUBSET Slots, Enters(t, cmd, todo)
        PROVE  ~Complete(t)
    <3>1. call'[t].st = "ready"  BY <1>0, <1>1, <2>5 DEF Enters, GetId
    <3> QED BY <1>5, <3>1
  <2>6. /\ \/ \E cmd \in Commands : \E todo \in SUBSET Slots :
                /\ Enters(t, cmd, todo) /\ op'[t] = [cmd |-> cmd, todo |-> todo] /\ call'[t].st = "ready"
           \/ /\ ClearNext(t) /\ call[t].st = "idle" /\ call'[t].st = "ready"
              /\ \E s \in op[t].todo :
                   op'[t] = [cmd |-> RemFilterCmd(op[t].cmd.ch, s), todo |-> op[t].todo \ {s}]
           \/ /\ SendOp(t) /\ op'[t] = op[t]
              /\ call[t].st = "ready" /\ call'[t].st = "waiting" /\ call'[t].id = call[t].id
           \/ Complete(t) /\ op'[t] = op[t]
    <3> HIDE DEF Enters, ClearNext, SendOp, Complete, GiveUp, WriteNoWait
    <3> QED BY <1>0, <1>1, <1>2, <1>3, <1>7, <2>1, <2>2, ThreadMoves
  <2> HIDE DEF Enters, ClearNext, SendOp, Complete, Changing
  <2>7. CASE \E cmd \in Commands : \E todo \in SUBSET Slots :
                Enters(t, cmd, todo) /\ op'[t] = [cmd |-> cmd, todo |-> todo] /\ call'[t].st = "ready"
    BY <2>3, <2>7
  <2>8. CASE /\ ClearNext(t) /\ call[t].st = "idle" /\ call'[t].st = "ready"
             /\ \E s \in op[t].todo :
                   op'[t] = [cmd |-> RemFilterCmd(op[t].cmd.ch, s), todo |-> op[t].todo \ {s}]
    BY <2>1, <2>2, <2>4, <2>8
  <2> QED BY <1>4, <2>6, <2>7, <2>8
<1> QED BY <1>6, <1>7

\* A thread stops changing a channel when it takes its answer.
LEMMA ChangerLeaves ==
  ASSUME CalmAll, [StackNext]_stackVars, timeouts' = timeouts, NEW c \in Chans,
         NEW t \in Changing(c), t \notin Changing(c)'
  PROVE  Complete(t)
<1>0. IInv /\ OpInv /\ TablesTyped /\ Locked /\ Alive /\ Chained /\ timeouts \in Nat
  BY DEF CalmAll, CalmInv, OInv, IInv, Scalars
<1>1. t \in Callers /\ op[t].cmd.ch = c /\ op[t].cmd.op \in Changes  BY DEF Changing
<1>2. ~GiveUp(t)
  <2>1. GiveUp(t) => timeouts' = timeouts + 1  BY DEF GiveUp, Timeout
  <2> QED BY <1>0, <2>1
<1>3. op[t] # NoOp
  <2>1. NoOp.cmd.op = "none"  BY CmdFields DEF NoOp
  <2> QED BY <1>1, <2>1 DEF Changes
<1>4. op'[t] # op[t]  BY <1>1 DEF Changing
<1>5. PICK u \in Callers : Api(u)
  BY <1>4, OthersMove DEF StackNext, stackVars
<1>6. u = t  BY <1>0, <1>1, <1>4, <1>5, ThreadMoves
<1>7. \A cmd, todo : ~Enters(t, cmd, todo)  BY <1>3 DEF Enters
<1>8. writer # "off"  BY <1>0, <1>1, <1>3 DEF Chained, Alive
<1>9. ASSUME NEW s \in op[t].todo,
             op'[t] = [cmd |-> RemFilterCmd(op[t].cmd.ch, s), todo |-> op[t].todo \ {s}]
      PROVE  FALSE
  <2>1. op'[t].cmd = RemFilterCmd(op[t].cmd.ch, s)  BY <1>9
  <2>2. op'[t].cmd.op = "remFilter" /\ op'[t].cmd.ch = op[t].cmd.ch  BY <2>1, CmdFields
  <2> QED BY <1>1, <2>2 DEF Changing, Changes
<1> HIDE DEF Enters, ClearNext, SendOp, Complete, GiveUp, WriteNoWait, Changing
<1> QED BY <1>0, <1>1, <1>2, <1>4, <1>5, <1>6, <1>7, <1>8, <1>9, ThreadMoves

\* The device's answer says how the tables differ.
LEMMA HandledSettles ==
  ASSUME CalmAll, session = "up", NEW c \in Chans, NEW t \in Callers, Handled(t, c),
         NEW k \in Ids, k = call[t].id, chan'[c] = chan[c], filt'[c] = filt[c]
  PROVE  /\ Some(k)'
         /\ \A a \in First(k)' : Settles(c, chan'[c], filt'[c], op[t].cmd, a.status = "ok", Later(c)')
<1>0. /\ IInv /\ OpInv /\ TablesTyped /\ GivenUp /\ Chained /\ IdsApart /\ Path \in Seq(DownMsg)
      /\ dev[c] \in DevChan /\ chan[c] \in BOOLEAN /\ filt[c] \in SUBSET Slots /\ Plain(c, dev[c])
  <2>1. IInv /\ OpInv /\ TablesTyped /\ GivenUp /\ Chained /\ IdsApart /\ DevPlain  BY DEF CalmAll, OInv
  <2> QED BY <2>1, PathTyped DEF TablesTyped, OpInv, DevPlain
<1>1. /\ DevCommand /\ down # <<>> /\ Head(down) \in DownMsg /\ Head(down).kind = "cmd"
      /\ call[t].st = "waiting" /\ t \in Changing(c)
      /\ Head(down).id = call[t].id /\ Head(down).body = op[t].cmd
      /\ Later(c) = dev[c] /\ Later(c)' = dev'[c]
  BY DEF Handled
<1>2. PICK o \in Handle(Head(down), dev[c]) : FwHandle(o.outs) /\ dev'[c] = o.chan  BY DEF Handled
<1>3. Head(down).body \in Commands /\ Head(down).body.op \in Changes /\ Head(down).body.ch = c
  BY <1>1, BodiesAssumption DEF DownMsg, Changing
<1>4. ~NotIn(Path, k)
  <2>1. Path # <<>> /\ Head(Path) = Head(down)  BY <1>0, <1>1, PathHead
  <2>2. 1 \in 1 .. Len(Path) /\ Head(Path) = Path[1]  BY <1>0, <2>1, HeadTailProperties
  <2> QED BY <1>1, <2>1, <2>2 DEF NotIn
<1>5. NotUp(k)  BY <1>0, <1>1, <1>4 DEF IdsApart
<1>6. PICK b \in BOOLEAN : \E m, f, d : m = Head(down) /\ b = chan[c] /\ f = filt[c] /\ d = dev[c]  BY <1>0
<1>6a. PICK m, f, d : m = Head(down) /\ b = chan[c] /\ f = filt[c] /\ d = dev[c]  BY <1>6
<1>7. m.body.op # "close" => (b <=> On(d)) /\ (c = "can" => f = d.used)
  <2>1. op[t].cmd.op # "close" => Agree(c)  BY <1>1, <1>4 DEF CalmAll, CalmInv, Tables
  <2>2. Agree(c) => (chan[c] <=> On(Later(c))) /\ (c = "can" => filt[c] = Later(c).used)  BY DEF Agree
  <2> HIDE DEF On, Later, Agree
  <2>3. Agree(c) => (b <=> On(d))  BY <1>1, <1>6a, <2>2
  <2>4. Agree(c) => (c = "can" => f = d.used)  BY <1>1, <1>6a, <2>2
  <2> QED BY <1>1, <1>6a, <2>1, <2>3, <2>4
<1>8. b <=> m.body.op \in {"setFilter", "remFilter"}
  <2>1. m.body = op[t].cmd /\ op[t].cmd.ch = c /\ op[t].cmd.op \in Changes  BY <1>1, <1>3, <1>6a
  <2>2. CASE op[t].cmd.op \in {"setFilter", "remFilter"}
    <3>1. b  BY <1>0, <1>6a, <2>1, <2>2 DEF Chained
    <3> QED BY <2>1, <2>2, <3>1
  <2>3. CASE op[t].cmd.op \in {"open", "close"}
    <3>1. ~b  BY <1>0, <1>6a, <2>1, <2>3 DEF GivenUp
    <3>2. m.body.op \notin {"setFilter", "remFilter"}  BY <2>1, <2>3
    <3> QED BY <3>1, <3>2
  <2> QED BY <2>1, <2>2, <2>3 DEF Changes
<1>9. ~b => f = {}  BY <1>0, <1>6a DEF Chained
<1>10. /\ o.outs # <<>> /\ o.outs[1].kind = "reply"
       /\ Settles(c, b, f, m.body, o.outs[1].body.status = "ok", o.chan)
  <2>1. /\ m.body \in Commands /\ m.body.op \in Changes /\ c = m.body.ch /\ d \in DevChan /\ Plain(c, d)
        /\ o \in Handle(m, d) /\ b \in BOOLEAN /\ f \in SUBSET Slots
    BY <1>0, <1>3, <1>6a
  <2>2. m.body.op # "close" => (b <=> On(d)) /\ (c = "can" => f = d.used)  BY <1>7
  <2>3. b <=> m.body.op \in {"setFilter", "remFilter"}  BY <1>8
  <2>4. ~b => f = {}  BY <1>9
  <2>5. FromAgreeing(c, b, f, m, d, o)  BY <2>1, <2>2, <2>3, <2>4 DEF FromAgreeing
  <2> HIDE DEF Settles, FromAgreeing
  <2> QED BY <2>5, HandleSettles
<1>11. o.outs \in Seq(Outs)  BY HandleOuts DEF Brief
<1>12. Some(k)' /\ First(k)' \subseteq {o.outs[1].body}
  BY <1>0, <1>1, <1>2, <1>5, <1>10, <1>11, FirstAnswer
<1>13. ASSUME NEW a \in First(k)'
       PROVE  Settles(c, chan'[c], filt'[c], op[t].cmd, a.status = "ok", Later(c)')
  <2>1. a = o.outs[1].body  BY <1>12, <1>13
  <2>2. chan'[c] = b /\ filt'[c] = f /\ op[t].cmd = m.body /\ Later(c)' = o.chan  BY <1>1, <1>2, <1>6a
  <2> HIDE DEF Settles, Later
  <2> QED BY <1>10, <2>1, <2>2
<1> QED BY <1>12, <1>13

\* The thread that takes its answer leaves tables that agree.
LEMMA TakenAgree ==
  ASSUME CalmAll, session = "up", NEW c \in Chans, NEW t \in Changing(c), Complete(t), Alike(Later(c)', Later(c))
  PROVE  Agree(c)'
<1>1. call[t].st = "waiting" /\ inbox[call[t].id] # <<>>  BY DEF Complete, Receive
<1>2. Head(inbox[call[t].id]).body \in First(call[t].id)  BY <1>1 DEF First
<1>3. Settles(c, chan[c], filt[c], op[t].cmd, Head(inbox[call[t].id]).body.status = "ok", Later(c))
  BY <1>1, <1>2 DEF CalmAll, CalmInv, Tables
<1> HIDE DEF Settles, Later, Agree
<1> QED BY <1>3, Settled DEF CalmAll

\* The thread whose command is handled next is the one that changes the channel.
LEMMA HandledNext ==
  ASSUME CalmAll, [StackNext]_stackVars, restarts' = restarts, DevCommand, NEW c \in Chans,
         NEW t \in Changing(c), call[t].st = "waiting", Head(down).id = call[t].id
  PROVE  Handled(t, c)
<1>0. /\ OInv /\ IInv /\ Locked /\ PathOwned /\ Carried /\ restarts \in Nat /\ dev \in [Chans -> DevChan]
      /\ Path \in Seq(DownMsg) /\ down \in Seq(DownMsg)
  <2>1. OInv /\ IInv /\ Locked /\ PathOwned /\ Carried /\ TablesTyped  BY DEF CalmAll, CalmInv, OInv
  <2> QED BY <2>1, PathTyped, DownFacts DEF IInv, Scalars, TablesTyped
<1>1. down # <<>> /\ Head(down) \in DownMsg /\ Head(down).kind = "cmd"
  <2>1. down # <<>>  BY DEF DevCommand
  <2> QED BY <1>0, <2>1, SeqFacts DEF DevCommand
<1>2. Head(down).body = op[t].cmd
  <2>1. Path # <<>> /\ Head(Path) = Head(down)  BY <1>0, <1>1, PathHead
  <2>2. Free(Path, Strange(call[t].id, op[t].cmd))  BY <1>0 DEF Carried, Changing
  <2>3. Head(Path) \notin Strange(call[t].id, op[t].cmd)  BY <1>0, <2>1, <2>2, HeadOrder
  <2> QED BY <1>1, <2>1, <2>3 DEF Strange
<1>3. Head(down).body.ch = c /\ Head(down).body.op \in Changes  BY <1>2 DEF Changing
<1>4. \E o \in Handle(Head(down), dev[c]) : FwHandle(o.outs) /\ dev'[c] = o.chan
  <2>1. \A outs : ~FwCrash(outs)  BY <1>0 DEF FwCrash, Restart
  <2>2. PICK o \in Handle(Head(down), IF Head(down).body.ch \in Chans THEN dev[Head(down).body.ch] ELSE Off) :
          FwHandle(o.outs)
          /\ dev' = IF Head(down).body.ch \in Chans THEN [dev EXCEPT ![Head(down).body.ch] = o.chan] ELSE dev
    BY <2>1 DEF DevCommand
  <2>3. o \in Handle(Head(down), dev[c]) /\ dev' = [dev EXCEPT ![c] = o.chan]  BY <1>3, <2>2
  <2>4. dev'[c] = o.chan  BY <1>0, <2>3
  <2> QED BY <2>2, <2>3, <2>4
<1>5. PICK u \in Callers : Handled(u, c)  BY <1>0, <1>1, <1>3, <1>4, HandledFor
<1>6. u = t
  <2>1. u \in Inside(c)  BY <1>5 DEF Handled, Changing, Inside, Changes
  <2> QED BY <1>0, <2>1, ChangesAlone
<1> QED BY <1>5, <1>6

\* What a thread that changes a channel and goes on waiting is answered.
LEMMA AnswerStep ==
  ASSUME HelloInTime, ~WritesMayFail, CalmAll, StackNext, restarts' = restarts, timeouts' = timeouts,
         session = "up", session' = "up", NEW c \in Chans, NEW t \in Changing(c)', call'[t].st = "waiting"
  PROVE  /\ \A a \in First(call[t].id)' :
              Settles(c, chan'[c], filt'[c], op'[t].cmd, a.status = "ok", Later(c)')
         /\ lastId' = call'[t].id => Some(call[t].id)'
<1>0. /\ IInv /\ OInv /\ OpInv /\ TablesTyped /\ Locked /\ UpPlain /\ IdsApart /\ [StackNext]_stackVars
      /\ call \in [Callers -> Call]
  BY DEF CalmAll, OInv, IInv, Scalars
<1>1. t \in Callers  BY DEF Changing
<1>2. /\ t \in Changing(c) /\ op'[t] = op[t] /\ ~Complete(t)
      /\ \/ call'[t] = call[t]
         \/ SendOp(t) /\ call[t].st = "ready" /\ call'[t].id = call[t].id
  <2>1. Complete(t) => call'[t].st = "idle"  BY <1>0, <1>1 DEF Complete, Receive, Idle
  <2>2. SendOp(t) => ~Complete(t)  BY DEF SendOp, Send, Complete, Receive
  <2> HIDE DEF Complete, SendOp, Enters, ClearNext, Changing
  <2> QED BY <1>0, <2>1, <2>2, ChangerMoves
<1>3. chan'[c] = chan[c] /\ filt'[c] = filt[c]  BY <1>0, <1>2, TableKeeps
<1>4. PICK k : k = call[t].id  OBVIOUS
<1>5. call'[t].id = k /\ k \in Ids
  <2>1. call'[t].id = k /\ call[t].st # "idle"  BY <1>2, <1>4
  <2> QED BY <1>0, <1>1, <1>4, <2>1, CallIds
<1>6. First(call[t].id)' = First(k)' /\ Some(call[t].id)' = Some(k)'  BY <1>4, <1>5 DEF First, Some
<1>7. /\ \A a \in First(k)' : Settles(c, chan'[c], filt'[c], op[t].cmd, a.status = "ok", Later(c)')
      /\ lastId' = k => Some(k)'
  <2>1. CASE SendOp(t) /\ call[t].st = "ready"
    <3>1. NotUp(k)  BY <1>0, <1>1, <1>4, <2>1 DEF IdsApart
    <3>2. up' = up /\ inbox' = inbox /\ lastId' = lastId  BY <2>1 DEF SendOp, Send, devVars
    <3>3. First(k)' = {} /\ lastId' # k  BY <3>1, <3>2 DEF NotUp, First, FirstIn
    <3> QED BY <3>3
  <2>2. CASE call'[t] = call[t] /\ DevCommand /\ Head(down).id = k
    <3>1. Handled(t, c)  BY <1>0, <1>2, <1>4, <2>2, HandledNext
    <3> HIDE DEF Settles, Later, Handled, Changing
    <3> QED BY <1>1, <1>3, <1>4, <1>5, <3>1, HandledSettles
  <2>3. CASE call'[t] = call[t] /\ ~(DevCommand /\ Head(down).id = k)
    <3>1. /\ \A a \in First(k) : Settles(c, chan[c], filt[c], op[t].cmd, a.status = "ok", Later(c))
          /\ lastId = k => Some(k)
      BY <1>2, <1>4, <2>3 DEF CalmAll, CalmInv, Tables
    <3>2. First(k)' \subseteq First(k) /\ (lastId' = k => Some(k)')
      <4>1. call[t].st = "waiting"  BY <2>3
      <4> QED BY <1>0, <1>1, <1>4, <1>5, <2>3, <3>1, <4>1, StackFirst
    <3>3. Alike(Later(c)', Later(c))
      <4>1. ASSUME NEW u \in Callers, Handled(u, c) PROVE FALSE
        <5>1. u \in Inside(c)  BY <4>1 DEF Handled, Changing, Inside, Changes
        <5>2. u = t  BY <1>0, <1>2, <5>1, ChangesAlone
        <5> QED BY <1>4, <2>3, <4>1, <5>2 DEF Handled
      <4> QED BY <1>0, <4>1, UpMoves
    <3> HIDE DEF Settles, Later
    <3> QED BY <1>3, <3>1, <3>2, <3>3, SameTables
  <2> QED BY <1>2, <2>1, <2>2, <2>3
<1> HIDE DEF Settles, Later, Changing
<1> QED BY <1>2, <1>5, <1>6, <1>7

\* A step of a thread of the driver is no command that the device handles.
LEMMA OwnStep ==
  ASSUME ~WritesMayFail, CalmAll, [StackNext]_stackVars, restarts' = restarts,
         session = "up", session' = "up", NEW c \in Chans, call' # call
  PROVE  Alike(Later(c)', Later(c))
<1>1. ASSUME NEW t \in Callers, Handled(t, c) PROVE FALSE
  <2>1. DevCommand  BY <1>1 DEF Handled
  <2>2. call' = call  BY <2>1, OthersMove
  <2> QED BY <2>2
<1> HIDE DEF Handled, Alike, Later
<1> QED BY <1>1, UpMoves

\* A channel that no thread changes.
LEMMA QuietAgree ==
  ASSUME ~WritesMayFail, CalmAll, [StackNext]_stackVars, restarts' = restarts, timeouts' = timeouts,
         session = "up", session' = "up", NEW c \in Chans, Changing(c)' = {}
  PROVE  Agree(c)'
<1>0. IInv /\ OpInv /\ TablesTyped /\ Tables /\ call \in [Callers -> Call]
  BY DEF CalmAll, CalmInv, OInv, IInv, Scalars
<1>1. CASE Changing(c) = {}
  <2>1. Agree(c)  BY <1>0, <1>1 DEF Tables
  <2>2. Alike(Later(c)', Later(c))
    <3>1. \A t \in Callers : ~Handled(t, c)  BY <1>1 DEF Handled
    <3> HIDE DEF Handled, Alike, Later
    <3> QED BY <3>1, UpMoves
  <2>3. chan'[c] = chan[c] /\ filt'[c] = filt[c]
    <3>1. ~CloseDevice  BY DEF CloseDevice, Close
    <3>2. ASSUME NEW t \in Callers, NEW cmd \in Commands, NEW todo, Enters(t, cmd, todo),
                 cmd.op = "close", cmd.ch = c
          PROVE  FALSE
      <4>1. op' = [op EXCEPT ![t] = [cmd |-> cmd, todo |-> todo]]  BY <3>2 DEF Enters
      <4>2. op'[t].cmd = cmd  BY <1>0, <4>1 DEF OpInv
      <4>3. t \in Changing(c)'  BY <3>2, <4>2 DEF Changing, Changes
      <4> QED BY <4>3
    <3>3. ASSUME NEW t \in Callers, Complete(t), op[t].cmd.ch = c
          PROVE  chan'[c] = chan[c] /\ filt'[c] = filt[c]
      <4>1. op[t].cmd.op \notin Changes  BY <1>1, <3>3 DEF Changing
      <4>2. chan' = chan /\ filt' = filt  BY <3>3, <4>1 DEF Complete, Finish, Changes
      <4> QED BY <4>2
    <3> HIDE DEF Enters, Complete, CloseDevice
    <3> QED BY <1>0, <3>1, <3>2, <3>3, TableMoves
  <2> HIDE DEF Agree, Alike, Later
  <2> QED BY <2>1, <2>2, <2>3, SameTables
<1>2. CASE Changing(c) # {}
  <2>1. PICK t : t \in Changing(c)  BY <1>2
  <2>2. t \notin Changing(c)'  OBVIOUS
  <2>3. Complete(t)  BY <2>1, <2>2, ChangerLeaves
  <2>4. call' # call
    <3>1. t \in Callers  BY <2>1 DEF Changing
    <3>2. call[t].st = "waiting" /\ call'[t].st = "idle"
      BY <1>0, <2>3, <3>1 DEF Complete, Receive, Idle
    <3> QED BY <3>2
  <2>5. Alike(Later(c)', Later(c))  BY <2>4, OwnStep
  <2> HIDE DEF Agree, Alike, Later, Changing, Complete
  <2> QED BY <2>1, <2>3, <2>5, TakenAgree
<1> QED BY <1>1, <1>2

\* A channel that a thread changes, when the device has not handled its command yet.
LEMMA ChangingAgree ==
  ASSUME HelloInTime, ~WritesMayFail, CalmAll, StackNext, restarts' = restarts, timeouts' = timeouts,
         session = "up", session' = "up", NEW c \in Chans, NEW t \in Changing(c)', IdsApart',
         op'[t].cmd.op # "close", call'[t].st # "waiting" \/ ~NotIn(Path', call'[t].id)
  PROVE  Agree(c)'
<1>0. /\ IInv /\ OInv /\ UpRunning /\ OpInv /\ TablesTyped /\ Locked /\ IdsApart /\ Tables
      /\ [StackNext]_stackVars /\ call \in [Callers -> Call]
  BY DEF CalmAll, CalmInv, OInv, IInv, Scalars
<1>1. t \in Callers  BY DEF Changing
<1>2. CASE t \in Changing(c) /\ op'[t] = op[t] /\ call'[t] = call[t] /\ ~Complete(t)
  <2>1. chan'[c] = chan[c] /\ filt'[c] = filt[c]  BY <1>0, <1>2, TableKeeps
  <2>2. Agree(c)
    <3>1. CASE call[t].st # "waiting"  BY <1>0, <1>2, <3>1 DEF Tables
    <3>2. CASE call[t].st = "waiting" /\ NotIn(Path, call[t].id)
      <4>1. PICK k \in Ids : k = call[t].id  BY <1>0, <1>1, <3>2, CallIds
      <4>2. NotIn(Path', k)  BY <1>0, <1>1, <3>2, <4>1, NotInStays
      <4> QED BY <1>2, <3>2, <4>1, <4>2
    <3>3. CASE ~NotIn(Path, call[t].id)  BY <1>0, <1>2, <3>3 DEF Tables
    <3> QED BY <3>1, <3>2, <3>3
  <2>3. ASSUME NEW u \in Callers, Handled(u, c) PROVE FALSE
    <3>1. u = t
      <4>1. u \in Inside(c)  BY <2>3 DEF Handled, Changing, Inside, Changes
      <4> QED BY <1>0, <1>2, <4>1, ChangesAlone
    <3>2. call[t].st = "waiting"  BY <2>3, <3>1 DEF Handled
    <3>3. PICK k \in Ids : k = call[t].id  BY <1>0, <1>1, <3>2, CallIds
    <3>4. Handled(t, c)  BY <2>3, <3>1
    <3>5. Some(k)'
      <4> HIDE DEF Handled, Settles, Later, Some
      <4> QED BY <1>1, <2>1, <3>3, <3>4, HandledSettles
    <3>6. NotIn(Path', k) \/ NotUp(k)'
      <4>1. call'[t].st = "waiting" /\ call'[t].id = k  BY <1>2, <3>2, <3>3
      <4> QED BY <1>1, <4>1 DEF IdsApart
    <3>7. ~NotUp(k)'  BY <3>5 DEF NotUp, Some
    <3> QED BY <1>2, <3>2, <3>3, <3>6, <3>7
  <2>4. Alike(Later(c)', Later(c))
    <3> HIDE DEF Handled, Alike, Later
    <3> QED BY <1>0, <2>3, UpMoves
  <2> HIDE DEF Agree, Alike, Later
  <2> QED BY <2>1, <2>2, <2>4, SameTables
<1>3. CASE /\ t \in Changing(c) /\ op'[t] = op[t]
           /\ SendOp(t) /\ call[t].st = "ready" /\ call'[t].st = "waiting"
  <2>1. ~Complete(t)  BY <1>3 DEF Complete, Receive
  <2>2. chan'[c] = chan[c] /\ filt'[c] = filt[c]  BY <1>0, <1>3, <2>1, TableKeeps
  <2>3. Agree(c)  BY <1>0, <1>3 DEF Tables
  <2>4. Alike(Later(c)', Later(c))
    <3>1. call' # call  BY <1>3
    <3> QED BY <1>0, <3>1, OwnStep
  <2> HIDE DEF Agree, Alike, Later
  <2> QED BY <2>2, <2>3, <2>4, SameTables
<1>4. CASE t \in Changing(c) /\ Complete(t)
  <2>1. call' # call
    <3>1. call[t].st = "waiting" /\ call'[t].st = "idle"
      BY <1>0, <1>1, <1>4 DEF Complete, Receive, Idle
    <3> QED BY <3>1
  <2>2. Alike(Later(c)', Later(c))  BY <1>0, <2>1, OwnStep
  <2> HIDE DEF Agree, Alike, Later, Changing, Complete
  <2> QED BY <1>4, <2>2, TakenAgree
<1>5. ASSUME NEW cmd \in Commands, NEW todo \in SUBSET Slots, Enters(t, cmd, todo), op'[t].cmd = cmd,
             cmd.ch = c, Inside(c) = {}
      PROVE  Agree(c)'
  <2>1. Agree(c)
    <3>1. Changing(c) = {}  BY <1>5 DEF Changing, Inside, Changes
    <3> QED BY <1>0, <3>1 DEF Tables
  <2>2. chan'[c] = chan[c] /\ filt'[c] = filt[c]  BY <1>5 DEF Enters
  <2>3. Alike(Later(c)', Later(c))
    <3>1. call[t].st = "idle" /\ call'[t].st = "ready"  BY <1>0, <1>1, <1>5 DEF Enters, GetId
    <3>2. call' # call  BY <3>1
    <3> QED BY <1>0, <3>2, OwnStep
  <2> HIDE DEF Agree, Alike, Later
  <2> QED BY <2>1, <2>2, <2>3, SameTables
<1>6. CASE /\ ClearNext(t) /\ t \in Changing(c) /\ call[t].st = "idle" /\ call'[t].st = "ready"
           /\ op[t].cmd.op = "remFilter"
  <2>1. Agree(c)  BY <1>0, <1>6 DEF Tables
  <2>2. chan'[c] = chan[c] /\ filt'[c] = filt[c]  BY <1>6 DEF ClearNext
  <2>3. Alike(Later(c)', Later(c))
    <3>1. call' # call  BY <1>6
    <3> QED BY <1>0, <3>1, OwnStep
  <2> HIDE DEF Agree, Alike, Later
  <2> QED BY <2>1, <2>2, <2>3, SameTables
<1> HIDE DEF Agree, Enters, ClearNext, SendOp, Complete, Changing, Inside, Slots, Commands
<1> QED BY <1>0, <1>2, <1>3, <1>4, <1>5, <1>6, ChangerMoves

LEMMA AgreeStep ==
  ASSUME HelloInTime, ~WritesMayFail, CalmAll, [StackNext]_stackVars, restarts' = restarts,
         timeouts' = timeouts, IdsApart'
  PROVE  Tables'
<1> SUFFICES ASSUME session' = "up", NEW c \in Chans
             PROVE  /\ Changing(c)' = {} => Agree(c)'
                    /\ \A t \in Changing(c)' :
                         /\ call'[t].st # "waiting" \/ ~NotIn(Path', call'[t].id)
                              => (op'[t].cmd.op # "close" => Agree(c)')
                         /\ call'[t].st = "waiting" =>
                              /\ \A a \in First(call[t].id)' :
                                   Settles(c, chan'[c], filt'[c], op'[t].cmd, a.status = "ok", Later(c)')
                              /\ lastId' = call'[t].id => Some(call[t].id)'
  BY DEF Tables
<1>1. CASE session # "up"
  <2>1. Changing(c)' = {} /\ Agree(c)'  BY <1>1, OpenedAgree
  <2> HIDE DEF Agree, Changing
  <2> QED BY <2>1
<1>2. CASE session = "up" /\ UNCHANGED stackVars
  <2>1. /\ Changing(c) = {} => Agree(c)
        /\ \A t \in Changing(c) :
             /\ call[t].st # "waiting" \/ ~NotIn(Path, call[t].id) => (op[t].cmd.op # "close" => Agree(c))
             /\ call[t].st = "waiting" =>
                  /\ \A a \in First(call[t].id) :
                       Settles(c, chan[c], filt[c], op[t].cmd, a.status = "ok", Later(c))
                  /\ lastId = call[t].id => Some(call[t].id)
    BY <1>2 DEF CalmAll, CalmInv, Tables
  <2>2. Changing(c)' = Changing(c)  BY <1>2 DEF stackVars, Changing
  <2>3. Path' = Path  BY <1>2 DEF stackVars, linkVars, hostVars, devVars, Path
  <2>4. Later(c)' = Later(c)  BY <1>2 DEF stackVars, linkVars, Later
  <2>5. Agree(c)' = Agree(c)  BY <1>2, <2>4 DEF stackVars, Agree
  <2>6. \A t : First(call[t].id)' = First(call[t].id) /\ Some(call[t].id)' = Some(call[t].id)
    BY <1>2 DEF stackVars, linkVars, hostVars, devVars, First, Some
  <2>7. call' = call /\ op' = op /\ chan' = chan /\ filt' = filt /\ lastId' = lastId
    BY <1>2 DEF stackVars, linkVars, hostVars, devVars
  <2> HIDE DEF Changing, Path, Later, Agree, First, Some, Settles
  <2> QED BY <2>1, <2>2, <2>3, <2>4, <2>5, <2>6, <2>7
<1>3. CASE session = "up" /\ StackNext
  <2>1. Changing(c)' = {} => Agree(c)'  BY <1>3, QuietAgree
  <2>2. ASSUME NEW t \in Changing(c)', op'[t].cmd.op # "close",
               call'[t].st # "waiting" \/ ~NotIn(Path', call'[t].id)
        PROVE  Agree(c)'
    <3> HIDE DEF Agree, Changing
    <3> QED BY <1>3, <2>2, ChangingAgree
  <2>3. ASSUME NEW t \in Changing(c)', call'[t].st = "waiting"
        PROVE  /\ \A a \in First(call[t].id)' :
                    Settles(c, chan'[c], filt'[c], op'[t].cmd, a.status = "ok", Later(c)')
               /\ lastId' = call'[t].id => Some(call[t].id)'
    <3> HIDE DEF Changing, First, Some, Settles, Later
    <3> QED BY <1>3, <2>3, AnswerStep
  <2> HIDE DEF Changing, First, Some, Settles, Later, Agree
  <2> QED BY <2>1, <2>2, <2>3
<1> QED BY <1>1, <1>2, <1>3

\* The first round of ids, without restarts and timeouts.
Steady == FirstRound /\ timeouts = 0

\* What holds of the reachable states of such a run.
SteadyInv == RoundInv /\ Chained /\ DevPlain /\ CalmInv

LEMMA SteadyInvInit == StackInit => SteadyInv
<1> SUFFICES ASSUME StackInit PROVE SteadyInv  OBVIOUS
<1>1. LinkInit /\ RoundInv  BY StackInitInv, StackInvInit
<1>2. DevPlain /\ \A c \in Chans : ~On(dev[c])  BY DEF StackInit, DevPlain, Plain, On, Off
<1>3. Chained
  <2>1. NoOp.cmd.op = "none"  BY CmdFields DEF NoOp
  <2> QED BY <2>1 DEF StackInit, Chained
<1>4. Alive  BY <1>1 DEF LinkInit, Alive
<1>5. PathOwned
  <2>1. Path = <<>>  BY <1>1, ConcatFacts DEF LinkInit, Path
  <2> QED BY <2>1 DEF PathOwned, Free, Behind
<1>6. Ended  BY <1>2 DEF Ended, Later, On, Off
<1>7. Tables  BY <1>1 DEF LinkInit, Tables
<1> QED BY <1>1, <1>2, <1>3, <1>4, <1>5, <1>6, <1>7 DEF SteadyInv, CalmInv

LEMMA SteadyBefore ==
  ASSUME IInv, [LinkNext]_linkVars, Steady' PROVE Steady /\ restarts' = restarts /\ timeouts' = timeouts
<1>1. FirstRound /\ restarts' = restarts  BY RoundBefore DEF Steady
<1>2. timeouts \in Nat  BY DEF IInv, Scalars
<1>3. timeouts' = timeouts \/ timeouts' = timeouts + 1
  <2>1. CASE UNCHANGED linkVars  BY <2>1 DEF linkVars, hostVars, devVars
  <2>2. CASE HostSession  BY <2>2 DEF HostSession, OpenStart, OpenDone, Close
  <2>3. CASE HostThreads
    BY <2>3 DEF HostThreads, ReaderHello, ReaderTake, ReaderExit, WriterCheck, WriterSend, WriterDrained
  <2>4. ASSUME NEW t \in Callers, HostCall(t) PROVE timeouts' = timeouts \/ timeouts' = timeouts + 1
    BY <2>4 DEF HostCall, GetId, Receive, Timeout, Send, Post
  <2>5. CASE Firmware
    <3>1. UNCHANGED hostVars
      BY <2>5 DEF Firmware, FwStatus, FwRestart, FwCommand, FwHandle, FwCrash, FwEmit, Restart
    <3> QED BY <3>1 DEF hostVars
  <2> QED BY <2>1, <2>2, <2>3, <2>4, <2>5 DEF LinkNext
<1>4. timeouts = 0 /\ timeouts' = timeouts  BY <1>2, <1>3 DEF Steady
<1> QED BY <1>1, <1>4 DEF Steady

LEMMA SteadyInvStep ==
  ASSUME HelloInTime, ~WritesMayFail, StackInv, Steady => SteadyInv, [StackNext]_stackVars, Steady'
  PROVE  SteadyInv'
<1>1. [LinkNext]_linkVars /\ IInv /\ InSession  BY StackStep DEF StackInv, OInv
<1>2. Steady /\ FirstRound /\ restarts' = restarts /\ timeouts' = timeouts
  BY <1>1, SteadyBefore DEF Steady
<1>3. SteadyInv  BY <1>2
<1>4. CalmAll  BY <1>3 DEF CalmAll, StackInv, SteadyInv, RoundInv
<1>5. /\ OInv /\ UpRunning /\ OpInv /\ TablesTyped /\ Locked /\ IdsApart /\ Carried /\ Chained /\ DevPlain
      /\ Alive /\ PathOwned /\ Ended
  BY <1>4 DEF CalmAll, CalmInv
<1>6. RoundInv'
  <2>1. RoundInv  BY <1>3 DEF SteadyInv
  <2> QED BY <2>1, RoundInvStep DEF Steady
<1>7. Chained'  BY <1>5, ChainedStep
<1>8. DevPlain'  BY <1>1, <1>2, <1>5, DevPlainStep
<1>9. Alive'  BY <1>1, <1>5, AliveStep
<1>10. PathOwned'  BY <1>2, <1>5, PathOwnedStep
<1>11. Ended'  BY <1>2, <1>5, EndedStep
<1>12. Tables'
  <2>1. IdsApart'  BY <1>6 DEF RoundInv
  <2> QED BY <1>2, <1>4, <2>1, AgreeStep
<1> QED BY <1>6, <1>7, <1>8, <1>9, <1>10, <1>11, <1>12 DEF SteadyInv, CalmInv

LEMMA SteadyRun ==
  ASSUME HelloInTime, ~WritesMayFail
  PROVE  /\ StackInit => StackInv /\ (Steady => SteadyInv)
         /\ StackInv /\ (Steady => SteadyInv) /\ [StackNext]_stackVars
              => StackInv' /\ (Steady => SteadyInv)'
<1>1. StackInit => StackInv /\ (Steady => SteadyInv)  BY StackInvInit, SteadyInvInit
<1>2. StackInv /\ (Steady => SteadyInv) /\ [StackNext]_stackVars => StackInv' /\ (Steady => SteadyInv)'
  BY StackInvStep, SteadyInvStep
<1> QED BY <1>1, <1>2

\* The driver's table of channels and filters agrees with the device's whenever no
\* operation is inside the channel's lock: however the threads, sessions, messages
\* and status messages interleave, as long as no call times out, no write is lost,
\* the ids do not wrap and the device does not restart.
THEOREM StackTablesAgree ==
  ASSUME HelloInTime, ~WritesMayFail
  PROVE  StackSpec => [](calls < IdLimit - 1 /\ restarts = 0 => TablesAgree)
<1>1. /\ StackInit => StackInv /\ (Steady => SteadyInv)
      /\ StackInv /\ (Steady => SteadyInv) /\ [StackNext]_stackVars
           => StackInv' /\ (Steady => SteadyInv)'
  BY SteadyRun
<1>2. StackInv /\ (Steady => SteadyInv) => (calls < IdLimit - 1 /\ restarts = 0 => TablesAgree)
  <2> SUFFICES ASSUME StackInv, SteadyInv, session = "up", NoStatusUnderWay, NEW c \in Chans, Inside(c) = {}
               PROVE  chan[c] = On(dev[c]) /\ (c = "can" => filt[c] = dev[c].used)
    BY DEF Steady, FirstRound, TablesAgree
  <2>1. Free(down, Status)  BY DEF NoStatusUnderWay, Free, Status
  <2>2. Later(c) = dev[c]  BY <2>1 DEF Later
  <2>3. Changing(c) = {}  BY DEF Changing, Inside, Changes
  <2>4. (chan[c] <=> On(Later(c))) /\ (c = "can" => filt[c] = Later(c).used)
    BY <2>3 DEF SteadyInv, CalmInv, Tables, Agree
  <2>5. chan[c] \in BOOLEAN  BY DEF StackInv, TablesTyped
  <2> QED BY <2>2, <2>4, <2>5 DEF On
<1> QED BY <1>1, <1>2, PTL DEF StackSpec

\* Under the same conditions every channel of the device is off once a session has
\* ended and the device has taken the goodbye.
THEOREM StackIdleAfterGoodbye ==
  ASSUME HelloInTime, ~WritesMayFail
  PROVE  StackSpec => [](calls < IdLimit - 1 /\ restarts = 0 => IdleAfterGoodbye)
<1>1. /\ StackInit => StackInv /\ (Steady => SteadyInv)
      /\ StackInv /\ (Steady => SteadyInv) /\ [StackNext]_stackVars
           => StackInv' /\ (Steady => SteadyInv)'
  BY SteadyRun
<1>2. StackInv /\ (Steady => SteadyInv) => (calls < IdLimit - 1 /\ restarts = 0 => IdleAfterGoodbye)
  <2> SUFFICES ASSUME SteadyInv, session = "none", reader = "off", down = <<>>, NEW c \in Chans
               PROVE  ~On(dev[c])
    BY DEF Steady, FirstRound, IdleAfterGoodbye
  <2>1. Free(down, Status)  BY DEF Free
  <2>2. Later(c) = dev[c]  BY <2>1 DEF Later
  <2> QED BY <2>2 DEF SteadyInv, CalmInv, Ended
<1> QED BY <1>1, <1>2, PTL DEF StackSpec
=============================================================================
