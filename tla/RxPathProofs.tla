---------------------------- MODULE RxPathProofs ----------------------------
(***************************************************************************)
(* What is proved of received data, for every number of threads, sessions  *)
(* and messages, every size of the queue and every number of timeouts and  *)
(* restarts: one message at most of a session that is over gets into a     *)
(* channel (OneStray) and nothing is reordered or read twice (InOrder);    *)
(* and, until an id comes round, nothing else that is not a channel's own  *)
(* gets in (OnlyLeftovers) and nothing of it is lost (StreamKept).         *)
(*                                                                         *)
(* Every step is one of CommLink (RxLink), so that what is proved of the   *)
(* link holds here.  The rest of the invariant follows the data.           *)
(***************************************************************************)
EXTENDS RxPath, CommLinkProofs, FiniteSetTheorems

Held == [msg : Data, via : Sessions]
RxUp == {m \in UpMsg : m.body \in (IF m.kind = "async" THEN Data ELSE Answers)}

\* The types of what RxPath adds to the link: the driver's, the device's, and what
\* is between them.
DrvTyped ==
  /\ chan \in BOOLEAN /\ rxData \in Seq(Held) /\ got \in Seq(Held)
  /\ op \in [Callers -> {"none", "open", "close"}]
PushTyped ==
  /\ queue \in [Sessions -> Seq(Data)]
  /\ push \in [Sessions -> [st : {"off", "check", "take", "push"}, msg : Data \cup {NoMsg}]]
  /\ \A e \in Sessions : push[e].st = "push" => push[e].msg \in Data
BoxTyped ==
  /\ dev \in 0 .. conns /\ conns \in 0 .. MaxCalls /\ sent \in 0 .. MaxSent /\ before \in 0 .. sent
  /\ calls <= MaxCalls
WireTyped == up \in Seq(RxUp) /\ \A i \in Ids : inbox[i] \in Seq(RxUp)

RxTyped == DrvTyped /\ PushTyped /\ BoxTyped /\ WireTyped
-----------------------------------------------------------------------------
(* The steps of RxPath are steps of the link *)

\* The messages of the device's handlers.
LEMMA RxBodies ==
  ASSUME BoxTyped
  PROVE  /\ \A s \in {"ok", "err"}, k \in 0 .. MaxCalls : Answer(s, k) \in Outs /\ Answer(s, k).body \in Answers
         /\ dev # 0 /\ sent < MaxSent => [status |-> "data", conn |-> dev, n |-> sent + 1] \in Data
         /\ conns < MaxCalls => conns + 1 \in 0 .. MaxCalls
<1>1. MaxCalls \in Nat /\ MaxSent \in Nat  BY LinkAssumption, RxAssumption
<1>2. ASSUME NEW s \in {"ok", "err"}, NEW k \in 0 .. MaxCalls
      PROVE  Answer(s, k) \in Outs /\ Answer(s, k).body \in Answers
  <2>1. [status |-> s, conn |-> k, n |-> 0] \in Answers  BY DEF Answers
  <2> QED BY <2>1, RxAssumption DEF Answer, Outs
<1>3. dev # 0 /\ sent < MaxSent => [status |-> "data", conn |-> dev, n |-> sent + 1] \in Data
  BY <1>1 DEF BoxTyped, Data
<1> QED BY <1>1, <1>2, <1>3 DEF BoxTyped

\* One answer, or two, are among what a handler may send.
LEMMA OutsFew ==
  ASSUME NEW m, NEW a \in Outs, NEW b \in Outs
  PROVE  <<a>> \in HandlerOuts(m) /\ <<a, b>> \in HandlerOuts(m)
<1>1. 1 \in 0 .. MaxReplies /\ 2 \in 0 .. MaxReplies /\ ~Disciplined  BY RxAssumption, LinkAssumption
<1>2. <<a>> \in [1 .. 1 -> Outs]  OBVIOUS
<1>3. <<a, b>> \in [1 .. 2 -> Outs]  OBVIOUS
<1> QED BY <1>1, <1>2, <1>3 DEF HandlerOuts

LEMMA DevCommandLink ==
  ASSUME BoxTyped, DevCommand
  PROVE  FwCommand
<1>1. down # <<>>  BY DEF DevCommand
<1>0. MaxCalls \in Nat /\ 0 \in 0 .. MaxCalls  BY LinkAssumption
<1>2. CASE DevOpen
  <2>1. CASE conns < MaxCalls /\ FwHandle(<<Answer("ok", conns + 1)>>)
    BY <2>1, <1>1, RxBodies, OutsFew DEF FwCommand
  <2>2. CASE FwHandle(<<Answer("err", 0)>>)
    BY <2>2, <1>0, <1>1, RxBodies, OutsFew DEF FwCommand
  <2> QED BY <1>2, <2>1, <2>2 DEF DevOpen
<1>3. CASE DevClose
  <2>1. FwHandle(<<Answer("ok", 0), Answer("ok", 0)>>) \/ FwHandle(<<Answer("err", 0), Answer("ok", 0)>>)
    BY <1>3 DEF DevClose
  <2> QED BY <2>1, <1>0, <1>1, RxBodies, OutsFew DEF FwCommand
<1> QED BY <1>2, <1>3 DEF DevCommand

\* Every step of RxPath is a step of the link, or leaves it alone.
LEMMA RxLink ==
  ASSUME RxTyped, [RxNext]_rxVars
  PROVE  [LinkNext]_linkVars
<1>1. CASE OpenSession \/ CloseDevice \/ Read \/ Alone
  BY <1>1 DEF OpenSession, CloseDevice, Read, Alone, LinkNext, HostSession, HostThreads
<1>2. ASSUME NEW e \in Sessions, PushCheck(e) \/ PushTake(e) \/ PushData(e) PROVE UNCHANGED linkVars
  BY <1>2 DEF PushCheck, PushTake, PushData
<1>3. ASSUME NEW t \in Callers, Connect(t) \/ Disconnect(t) \/ SendOp(t) \/ Complete(t) \/ GiveUp(t)
      PROVE  LinkNext
  <2>1. SendOp(t) => op[t] \in Bodies
    BY RxAssumption DEF SendOp, RxTyped, DrvTyped
  <2> QED BY <1>3, <2>1 DEF Connect, Disconnect, SendOp, Complete, GiveUp, LinkNext, HostCall
<1>4. ASSUME NEW t \in Readers, ReadCheck(t) \/ ReadPop(t) \/ ClearRx(t) PROVE UNCHANGED linkVars
  BY <1>4 DEF ReadCheck, ReadPop, ClearRx
<1>5. CASE DevCommand  BY <1>5, DevCommandLink DEF RxTyped, LinkNext, Firmware
<1>6. CASE DevStatus \/ DevRestart  BY <1>6 DEF DevStatus, DevRestart, LinkNext, Firmware
<1>7. CASE DevReceives
  <2>1. [status |-> "data", conn |-> dev, n |-> sent + 1] \in UpBodies
    BY <1>7, RxBodies, RxAssumption DEF DevReceives, RxTyped
  <2> QED BY <1>7, <2>1 DEF DevReceives, LinkNext, Firmware
<1>8. UNCHANGED rxVars => UNCHANGED linkVars  BY DEF rxVars
<1> QED BY <1>1, <1>2, <1>3, <1>4, <1>5, <1>6, <1>7, <1>8 DEF RxNext
-----------------------------------------------------------------------------
(* Types *)

\* The head of a receiver, if the call that waits can take it.
LEMMA BodyTaken ==
  ASSUME IInv, WireTyped, NEW t \in Callers, Receive(t)
  PROVE  /\ call[t].id \in Ids /\ inbox[call[t].id] # <<>>
         /\ Head(inbox[call[t].id]) \in RxUp /\ Head(inbox[call[t].id]).id = call[t].id
<1> DEFINE k == call[t].id
<1>1. call[t] \in Call /\ call[t].st = "waiting" /\ k # 0 /\ inbox[k] # <<>>
  BY DEF IInv, Scalars, IdsCarried, Receive
<1>2. k \in Ids  BY <1>1, LinkAssumption DEF Call, Id0s, Ids
<1>3. inbox[k] \in Seq(RxUp) /\ inbox[k] \in Seq({m \in TaggedUp : m.id = k})
  BY <1>2 DEF WireTyped, IInv, IdsCarried
<1> HIDE DEF k
<1>4. Head(inbox[k]) \in RxUp /\ Head(inbox[k]) \in {m \in TaggedUp : m.id = k}
  BY <1>1, <1>3, SeqFacts
<1> QED BY <1>1, <1>2, <1>4 DEF k

LEMMA DrvStep ==
  ASSUME IInv, RxTyped, [RxNext]_rxVars
  PROVE  DrvTyped'
<1>0. /\ chan \in BOOLEAN /\ rxData \in Seq(Held) /\ got \in Seq(Held)
      /\ op \in [Callers -> {"none", "open", "close"}]
  BY DEF RxTyped, DrvTyped
<1>e. <<>> \in Seq(Held)  OBVIOUS
<1>1. CASE UNCHANGED rxVars  BY <1>0, <1>1 DEF rxVars, drvVars, DrvTyped
<1>2. CASE OpenSession \/ Read \/ Alone \/ DevCommand \/ DevStatus \/ DevRestart \/ DevReceives
  BY <1>0, <1>2 DEF OpenSession, Read, Alone, DevCommand, DevStatus, DevRestart, DevReceives,
                    drvVars, DrvTyped
<1>3. CASE CloseDevice  BY <1>0, <1>3, <1>e DEF CloseDevice, DrvTyped
<1>4. ASSUME NEW e \in Sessions, PushCheck(e) \/ PushTake(e) PROVE DrvTyped'
  BY <1>0, <1>4 DEF PushCheck, PushTake, drvVars, DrvTyped
<1>5. ASSUME NEW e \in Sessions, PushData(e) PROVE DrvTyped'
  <2>1. Pushed(e) \in Held  BY <1>5 DEF Pushed, Held, PushData, RxTyped, PushTyped
  <2>2. Append(rxData, Pushed(e)) \in Seq(Held)  BY <2>1, <1>0, SeqFacts
  <2> QED BY <1>0, <1>5, <2>2 DEF PushData, DrvTyped
<1>6. ASSUME NEW t \in Callers, Connect(t) \/ Disconnect(t) \/ SendOp(t) \/ Complete(t) \/ GiveUp(t)
      PROVE  DrvTyped'
  <2>1. CASE Connect(t)  BY <1>0, <2>1 DEF Connect, Enters, DrvTyped
  <2>2. CASE Disconnect(t)  BY <1>0, <2>2, <1>e DEF Disconnect, Enters, DrvTyped
  <2>3. CASE SendOp(t)  BY <1>0, <2>3 DEF SendOp, Leaves, DrvTyped
  <2>4. ASSUME NEW m, Finish(t, m) PROVE DrvTyped'
    BY <1>0, <2>4 DEF Finish, Stored, Leaves, DrvTyped
  <2> QED BY <1>6, <2>1, <2>2, <2>3, <2>4 DEF Complete, GiveUp
<1>7. ASSUME NEW t \in Readers, ReadCheck(t) \/ ReadPop(t) \/ ClearRx(t) PROVE DrvTyped'
  <2>1. rxData # <<>> => Tail(rxData) \in Seq(Held) /\ Append(got, Head(rxData)) \in Seq(Held)
    BY <1>0, SeqFacts
  <2> QED BY <1>0, <1>7, <2>1, <1>e DEF ReadCheck, ReadPop, ClearRx, DrvTyped
<1> QED BY <1>1, <1>2, <1>3, <1>4, <1>5, <1>6, <1>7 DEF RxNext

LEMMA BoxStep ==
  ASSUME IInv, RxTyped, [RxNext]_rxVars
  PROVE  BoxTyped'
<1>0. /\ dev \in 0 .. conns /\ conns \in 0 .. MaxCalls /\ sent \in 0 .. MaxSent /\ before \in 0 .. sent
      /\ calls <= MaxCalls
  BY DEF RxTyped, BoxTyped
<1>a. MaxCalls \in Nat /\ MaxSent \in Nat  BY LinkAssumption, RxAssumption
<1>1. CASE UNCHANGED <<boxVars, calls>>  BY <1>0, <1>1 DEF boxVars, BoxTyped
<1>2. CASE OpenSession \/ CloseDevice \/ Read \/ Alone
  <2>1. calls' = calls /\ UNCHANGED boxVars
    BY <1>2 DEF OpenSession, CloseDevice, Read, Alone, OpenStart, Close, ReaderTake, ReaderHello, OpenDone,
                ReaderExit, WriterCheck, WriterSend, WriterDrained
  <2> QED BY <1>1, <2>1
<1>3. ASSUME NEW e \in Sessions, PushCheck(e) \/ PushTake(e) \/ PushData(e) PROVE UNCHANGED <<boxVars, calls>>
  BY <1>3 DEF PushCheck, PushTake, PushData, linkVars, hostVars
<1>4. ASSUME NEW t \in Callers, Connect(t) \/ Disconnect(t) PROVE BoxTyped'
  <2>1. UNCHANGED boxVars /\ calls < MaxCalls /\ calls' = calls + 1
    BY <1>4 DEF Connect, Disconnect, GetId
  <2>2. calls' <= MaxCalls  BY <2>1, <1>a DEF IInv, Scalars
  <2> QED BY <1>0, <2>1, <2>2 DEF boxVars, BoxTyped
<1>5. ASSUME NEW t \in Callers, SendOp(t) \/ Complete(t) \/ GiveUp(t) PROVE UNCHANGED <<boxVars, calls>>
  BY <1>5 DEF SendOp, Complete, GiveUp, Finish, Send, Receive, Timeout
<1>6. ASSUME NEW t \in Readers, ReadCheck(t) \/ ReadPop(t) \/ ClearRx(t) PROVE UNCHANGED <<boxVars, calls>>
  BY <1>6 DEF ReadCheck, ReadPop, ClearRx, linkVars, hostVars
<1>7. CASE DevCommand
  <2>1. \/ conns < MaxCalls /\ dev' = conns + 1 /\ conns' = conns + 1 /\ before' = sent
        \/ UNCHANGED <<dev, conns, before>>
        \/ dev' = 0 /\ UNCHANGED <<conns, before>>
    BY <1>7 DEF DevCommand, DevOpen, DevClose
  <2>2. sent' = sent /\ calls' = calls
    BY <1>7 DEF DevCommand, DevOpen, DevClose, FwHandle, hostVars
  <2> QED BY <1>0, <1>a, <2>1, <2>2 DEF BoxTyped
<1>8. CASE DevStatus \/ DevRestart
  BY <1>0, <1>8 DEF DevStatus, DevRestart, FwStatus, FwRestart, Restart, hostVars, BoxTyped
<1>9. CASE DevReceives
  BY <1>0, <1>9, <1>a DEF DevReceives, FwEmit, hostVars, BoxTyped
<1>10. UNCHANGED rxVars => UNCHANGED <<boxVars, calls>>  BY DEF rxVars, linkVars, hostVars
<1> QED BY <1>1, <1>2, <1>3, <1>4, <1>5, <1>6, <1>7, <1>8, <1>9, <1>10 DEF RxNext

LEMMA PushStep ==
  ASSUME RxTyped, [RxNext]_rxVars
  PROVE  PushTyped'
<1>0. /\ queue \in [Sessions -> Seq(Data)]
      /\ push \in [Sessions -> [st : {"off", "check", "take", "push"}, msg : Data \cup {NoMsg}]]
      /\ \A e \in Sessions : push[e].st = "push" => push[e].msg \in Data
  BY DEF RxTyped, PushTyped
<1>a. \A st \in {"off", "check", "take"} : /\ Pusher(st).st = st
                                           /\ Pusher(st) \in [st : {"off", "check", "take", "push"}, msg : Data \cup {NoMsg}]
  BY DEF Pusher
<1>b. ASSUME NEW e, NEW p \in [st : {"off", "check", "take", "push"}, msg : Data \cup {NoMsg}],
             p.st = "push" => p.msg \in Data, push' = [push EXCEPT ![e] = p]
      PROVE  /\ push' \in [Sessions -> [st : {"off", "check", "take", "push"}, msg : Data \cup {NoMsg}]]
             /\ \A x \in Sessions : push'[x].st = "push" => push'[x].msg \in Data
  BY <1>0, <1>b
<1>1. CASE UNCHANGED pushVars  BY <1>0, <1>1 DEF pushVars, PushTyped
<1>2. CASE OpenSession
  <2>1. push' = [push EXCEPT ![epoch + 1] = Pusher("check")] /\ queue' = queue
    BY <1>2 DEF OpenSession
  <2> QED BY <1>0, <1>a, <1>b, <2>1 DEF PushTyped
<1>3. CASE Read
  <2>1. push' = push  BY <1>3 DEF Read
  <2>2. CASE queue' = queue  BY <1>0, <2>1, <2>2 DEF PushTyped
  <2>3. CASE Head(up).kind = "async" /\ queue' = [queue EXCEPT ![epoch] = Append(@, Head(up).body)]
    <3>1. up \in Seq(RxUp) /\ up # <<>>  BY <1>3 DEF Read, ReaderTake, RxTyped, WireTyped
    <3>2. Head(up) \in RxUp  BY <3>1, SeqFacts
    <3>3. Head(up).body \in Data  BY <3>2, <2>3 DEF RxUp
    <3>4. \A e \in Sessions : Append(queue[e], Head(up).body) \in Seq(Data)  BY <3>3, <1>0, SeqFacts
    <3>5. queue' \in [Sessions -> Seq(Data)]  BY <3>4, <2>3, <1>0
    <3> QED BY <1>0, <2>1, <3>5 DEF PushTyped
  <2> QED BY <1>3, <2>2, <2>3 DEF Read
<1>4. ASSUME NEW e \in Sessions, PushCheck(e) PROVE PushTyped'
  <2>1. \E st \in {"off", "take"} : push' = [push EXCEPT ![e] = Pusher(st)]  BY <1>4 DEF PushCheck
  <2>2. queue' = queue \/ queue' = [queue EXCEPT ![e] = <<>>]  BY <1>4 DEF PushCheck
  <2>3. <<>> \in Seq(Data)  OBVIOUS
  <2>4. queue' \in [Sessions -> Seq(Data)]  BY <1>0, <2>2, <2>3
  <2> QED BY <1>a, <1>b, <2>1, <2>4 DEF PushTyped
<1>5. ASSUME NEW e \in Sessions, PushTake(e) PROVE PushTyped'
  <2>1. CASE queue[e] = <<>> /\ push' = [push EXCEPT ![e] = Pusher("check")] /\ queue' = queue
    BY <1>0, <1>a, <1>b, <2>1 DEF PushTyped
  <2>2. CASE queue[e] # <<>> /\ push' = [push EXCEPT ![e] = [st |-> "push", msg |-> Head(queue[e])]]
             /\ queue' = [queue EXCEPT ![e] = Tail(@)]
    <3>1. Head(queue[e]) \in Data /\ Tail(queue[e]) \in Seq(Data)  BY <2>2, <1>0, SeqFacts
    <3>2. queue' \in [Sessions -> Seq(Data)]  BY <3>1, <2>2, <1>0
    <3> DEFINE p == [st |-> "push", msg |-> Head(queue[e])]
    <3>3. p \in [st : {"off", "check", "take", "push"}, msg : Data \cup {NoMsg}] /\ p.msg \in Data  BY <3>1
    <3>4. push' = [push EXCEPT ![e] = p]  BY <2>2
    <3> HIDE DEF p
    <3> QED BY <3>2, <3>3, <3>4, <1>b DEF PushTyped
  <2> QED BY <1>5, <2>1, <2>2 DEF PushTake
<1>6. ASSUME NEW e \in Sessions, PushData(e) PROVE PushTyped'
  <2>1. push' = [push EXCEPT ![e] = Pusher("check")] /\ queue' = queue  BY <1>6 DEF PushData
  <2> QED BY <1>0, <1>a, <1>b, <2>1 DEF PushTyped
<1>7. CloseDevice \/ Alone \/ DevCommand \/ DevStatus \/ DevRestart \/ DevReceives => UNCHANGED pushVars
  BY DEF CloseDevice, Alone, DevCommand, DevStatus, DevRestart, DevReceives
<1>8. ASSUME NEW t \in Callers, Connect(t) \/ Disconnect(t) \/ SendOp(t) \/ Complete(t) \/ GiveUp(t)
      PROVE  UNCHANGED pushVars
  BY <1>8 DEF Connect, Disconnect, SendOp, Complete, GiveUp, Finish
<1>9. ASSUME NEW t \in Readers, ReadCheck(t) \/ ReadPop(t) \/ ClearRx(t) PROVE UNCHANGED pushVars
  BY <1>9 DEF ReadCheck, ReadPop, ClearRx
<1>10. UNCHANGED rxVars => UNCHANGED pushVars  BY DEF rxVars
<1> QED BY <1>1, <1>2, <1>3, <1>4, <1>5, <1>6, <1>7, <1>8, <1>9, <1>10 DEF RxNext

\* What the device answers and sends up.
LEMMA AnswerTyped ==
  ASSUME IInv, BoxTyped, down # <<>>, NEW s \in {"ok", "err"}, NEW k \in 0 .. MaxCalls
  PROVE  [kind |-> "reply", id |-> IdAfter(Head(down)), serial |-> SerialAfter(Head(down)),
          body |-> Answer(s, k).body] \in RxUp
<1>1. Answer(s, k).body \in Answers  BY RxBodies
<1>2. Head(down) \in DownMsg  BY DownFacts, SeqFacts
<1>3. Head(down).id \in Id0s /\ Head(down).serial \in Nat  BY <1>2, LinkAssumption DEF DownMsg, Id0s
<1>4. IdAfter(Head(down)) \in Id0s /\ SerialAfter(Head(down)) \in Nat
  BY <1>3 DEF IdAfter, SerialAfter, IInv, Scalars
<1> QED BY <1>1, <1>4, RxAssumption DEF RxUp, UpMsg

\* What a command does: its answers, and to the connection of the device.
Opened(w) ==
  \/ /\ dev = 0 /\ conns < MaxCalls /\ dev' = conns + 1 /\ conns' = conns + 1 /\ before' = sent
     /\ w[1].body.conn = conns + 1
  \/ w[1].body.status = "err" /\ UNCHANGED <<dev, conns, before>>

LEMMA DevAnswers ==
  ASSUME IInv, BoxTyped, DevCommand
  PROVE  /\ down # <<>> /\ Head(down).kind = "cmd" /\ Head(down).body \in {"open", "close"}
         /\ \E w \in Seq(RxUp) :
              /\ up' = up \o w
              /\ \A i \in 1 .. Len(w) : w[i].kind = "reply" /\ w[i].id = IdAfter(Head(down))
              /\ Head(down).body = "open" => Len(w) = 1 /\ Opened(w)
              /\ Head(down).body = "close" => dev' = 0 /\ UNCHANGED <<conns, before>>
<1> DEFINE r(s, k) == [kind |-> "reply", id |-> IdAfter(Head(down)), serial |-> SerialAfter(Head(down)),
                       body |-> Answer(s, k).body]
           u(outs) == up' = up \o Sent(IdAfter(Head(down)), SerialAfter(Head(down)), outs)
<1>1. down # <<>> /\ Head(down).kind = "cmd" /\ Head(down).body \in {"open", "close"}
  BY DEF DevCommand, DevOpen, DevClose, FwHandle
<1>2. \A s \in {"ok", "err"}, k \in 0 .. MaxCalls : r(s, k) \in RxUp  BY <1>1, AnswerTyped
<1>3. MaxCalls \in Nat /\ 0 \in 0 .. MaxCalls /\ (conns < MaxCalls => conns + 1 \in 0 .. MaxCalls)
  BY RxBodies, LinkAssumption
<1>4. \A s, k, s2, k2 : /\ Sent(IdAfter(Head(down)), SerialAfter(Head(down)), <<Answer(s, k)>>) = <<r(s, k)>>
                       /\ Sent(IdAfter(Head(down)), SerialAfter(Head(down)), <<Answer(s, k), Answer(s2, k2)>>)
                            = <<r(s, k), r(s2, k2)>>
  BY DEF Sent, Answer
<1>5. \A s, k : r(s, k).kind = "reply" /\ r(s, k).id = IdAfter(Head(down))
              /\ r(s, k).body.status = s /\ r(s, k).body.conn = k
  BY DEF Answer
<1>6. CASE Head(down).body = "open"
  <2>1. \/ /\ dev = 0 /\ conns < MaxCalls /\ dev' = conns + 1 /\ conns' = conns + 1 /\ before' = sent
           /\ u(<<Answer("ok", conns + 1)>>)
        \/ u(<<Answer("err", 0)>>) /\ UNCHANGED <<dev, conns, before>>
    BY <1>6 DEF DevCommand, DevOpen, FwHandle
  <2>2. CASE /\ dev = 0 /\ conns < MaxCalls /\ dev' = conns + 1 /\ conns' = conns + 1 /\ before' = sent
             /\ u(<<Answer("ok", conns + 1)>>)
    <3> DEFINE a == r("ok", conns + 1)
    <3>1. up' = up \o <<a>>  BY <2>2, <1>4
    <3>2. a \in RxUp  BY <2>2, <1>2, <1>3
    <3>3. a.kind = "reply" /\ a.id = IdAfter(Head(down)) /\ a.body.conn = conns + 1  BY <1>5
    <3> HIDE DEF a, r, u
    <3>4. <<a>> \in Seq(RxUp) /\ Len(<<a>>) = 1 /\ <<a>>[1] = a  BY <3>2
    <3>5. Opened(<<a>>)  BY <2>2, <3>3, <3>4 DEF Opened
    <3>6. \A i \in 1 .. Len(<<a>>) : <<a>>[i].kind = "reply" /\ <<a>>[i].id = IdAfter(Head(down))
      BY <3>3, <3>4
    <3> DEFINE w == <<a>>
    <3>7. w \in Seq(RxUp) /\ Len(w) = 1 /\ Opened(w) /\ up' = up \o w  BY <3>1, <3>4, <3>5
    <3>8. \A i \in 1 .. Len(w) : w[i].kind = "reply" /\ w[i].id = IdAfter(Head(down))  BY <3>6
    <3> HIDE DEF w
    <3> QED BY <1>1, <1>6, <3>7, <3>8
  <2>3. CASE u(<<Answer("err", 0)>>) /\ UNCHANGED <<dev, conns, before>>
    <3> DEFINE a == r("err", 0)
    <3>1. up' = up \o <<a>>  BY <2>3, <1>4
    <3>2. a \in RxUp  BY <1>2, <1>3
    <3>3. a.kind = "reply" /\ a.id = IdAfter(Head(down)) /\ a.body.status = "err"  BY <1>5
    <3> HIDE DEF a, r, u
    <3>4. <<a>> \in Seq(RxUp) /\ Len(<<a>>) = 1 /\ <<a>>[1] = a  BY <3>2
    <3>5. Opened(<<a>>)  BY <2>3, <3>3, <3>4 DEF Opened
    <3>6. \A i \in 1 .. Len(<<a>>) : <<a>>[i].kind = "reply" /\ <<a>>[i].id = IdAfter(Head(down))
      BY <3>3, <3>4
    <3> DEFINE w == <<a>>
    <3>7. w \in Seq(RxUp) /\ Len(w) = 1 /\ Opened(w) /\ up' = up \o w  BY <3>1, <3>4, <3>5
    <3>8. \A i \in 1 .. Len(w) : w[i].kind = "reply" /\ w[i].id = IdAfter(Head(down))  BY <3>6
    <3> HIDE DEF w
    <3> QED BY <1>1, <1>6, <3>7, <3>8
  <2> QED BY <2>1, <2>2, <2>3
<1>7. CASE Head(down).body = "close"
  <2>1. /\ dev' = 0 /\ UNCHANGED <<conns, before>>
        /\ u(<<Answer("ok", 0), Answer("ok", 0)>>) \/ u(<<Answer("err", 0), Answer("ok", 0)>>)
    BY <1>7 DEF DevCommand, DevClose, FwHandle
  <2>2. PICK s \in {"ok", "err"} : u(<<Answer(s, 0), Answer("ok", 0)>>)  BY <2>1
  <2> DEFINE a == r(s, 0)
             b == r("ok", 0)
  <2>3. up' = up \o <<a, b>>
    <3>1. Sent(IdAfter(Head(down)), SerialAfter(Head(down)), <<Answer(s, 0), Answer("ok", 0)>>) = <<a, b>>
      BY <1>4
    <3> QED BY <2>2, <3>1
  <2>4. a \in RxUp /\ b \in RxUp  BY <1>2, <1>3
  <2>5. /\ a.kind = "reply" /\ a.id = IdAfter(Head(down))
        /\ b.kind = "reply" /\ b.id = IdAfter(Head(down))
    BY <1>5
  <2> HIDE DEF a, b, r, u
  <2>6. <<a, b>> \in Seq(RxUp) /\ Len(<<a, b>>) = 2 /\ <<a, b>>[1] = a /\ <<a, b>>[2] = b  BY <2>4
  <2> DEFINE w == <<a, b>>
  <2>7. w \in Seq(RxUp) /\ up' = up \o w  BY <2>3, <2>6
  <2>8. \A i \in 1 .. Len(w) : w[i].kind = "reply" /\ w[i].id = IdAfter(Head(down))
    <3>1. \A i \in 1 .. 2 : w[i] = a \/ w[i] = b  BY <2>6
    <3> QED BY <3>1, <2>5, <2>6
  <2> HIDE DEF w
  <2> QED BY <1>1, <1>7, <2>1, <2>7, <2>8
<1> QED BY <1>1, <1>6, <1>7

LEMMA WireStep ==
  ASSUME IInv, RxTyped, [RxNext]_rxVars
  PROVE  WireTyped'
<1>0. up \in Seq(RxUp) /\ \A i \in Ids : inbox[i] \in Seq(RxUp)  BY DEF RxTyped, WireTyped
<1>i. inbox = [i \in Ids |-> inbox[i]]  BY DEF IInv, Scalars
<1>e. <<>> \in Seq(RxUp)  OBVIOUS
<1>a. /\ \A n \in 1 .. Len(up) + 1 : SubSeq(up, n, Len(up)) \in Seq(RxUp)
      /\ \A m \in RxUp : Append(up, m) \in Seq(RxUp)
      /\ up # <<>> => Tail(up) \in Seq(RxUp) /\ Head(up) \in RxUp
      /\ \A w \in Seq(RxUp) : up \o w \in Seq(RxUp)
  BY <1>0, SeqFacts
<1>1. CASE UNCHANGED <<up, inbox>>  BY <1>0, <1>1 DEF WireTyped
<1>2. CASE OpenSession \/ CloseDevice
  <2>1. up' = up \/ \E n \in 1 .. Len(up) + 1 : up' = SubSeq(up, n, Len(up))
    BY <1>2 DEF OpenSession, CloseDevice, OpenStart, Close
  <2>2. inbox' = [i \in Ids |-> <<>>]  BY <1>2 DEF OpenSession, CloseDevice, OpenStart, Close
  <2> QED BY <1>0, <1>a, <1>e, <2>1, <2>2 DEF WireTyped
<1>3. CASE Read
  <2>1. up' = Tail(up) /\ up # <<>>  BY <1>3 DEF Read, ReaderTake
  <2> DEFINE m == Head(up)
  <2>2. inbox' = inbox \/ (m.id \in Ids /\ inbox' = [inbox EXCEPT ![m.id] = Append(@, m)])
    BY <1>3 DEF Read, ReaderTake
  <2>3. m \in RxUp  BY <2>1, <1>a
  <2> HIDE DEF m
  <2>4. \A i \in Ids : Append(inbox[i], m) \in Seq(RxUp)  BY <2>3, <1>0, SeqFacts
  <2>5. \A i \in Ids : inbox'[i] = inbox[i] \/ inbox'[i] = Append(inbox[i], m)  BY <2>2, <1>i
  <2> QED BY <1>0, <1>a, <2>1, <2>4, <2>5 DEF WireTyped
<1>4. ASSUME NEW t \in Callers, Complete(t) PROVE WireTyped'
  <2> DEFINE k == call[t].id
  <2>1. Receive(t)  BY <1>4 DEF Complete
  <2>2. k \in Ids /\ inbox[k] # <<>>  BY <2>1, BodyTaken DEF RxTyped
  <2>3. inbox' = [inbox EXCEPT ![k] = Tail(@)] /\ up' = up  BY <2>1 DEF Receive
  <2> HIDE DEF k
  <2>4. Tail(inbox[k]) \in Seq(RxUp)  BY <2>2, <1>0, SeqFacts
  <2>5. \A i \in Ids : inbox'[i] = inbox[i] \/ inbox'[i] = Tail(inbox[k])  BY <2>3, <1>i
  <2> QED BY <1>0, <2>3, <2>4, <2>5 DEF WireTyped
<1>5. CASE DevCommand
  <2>1. inbox' = inbox  BY <1>5 DEF DevCommand, DevOpen, DevClose, FwHandle, hostVars
  <2>2. PICK w \in Seq(RxUp) : up' = up \o w  BY <1>5, DevAnswers DEF RxTyped
  <2> QED BY <1>0, <1>a, <2>1, <2>2 DEF WireTyped
<1>6. CASE DevReceives
  <2> DEFINE b == [status |-> "data", conn |-> dev, n |-> sent + 1]
  <2>1. b \in Data  BY <1>6, RxBodies DEF DevReceives, RxTyped
  <2>2. inbox' = inbox /\ up' = Append(up, [kind |-> "async", id |-> 0, serial |-> 0, body |-> b])
    BY <1>6 DEF DevReceives, FwEmit, hostVars
  <2> HIDE DEF b
  <2>3. 0 \in Id0s  BY LinkAssumption DEF Id0s
  <2>4. [kind |-> "async", id |-> 0, serial |-> 0, body |-> b] \in RxUp
    BY <2>1, <2>3, RxAssumption DEF RxUp, UpMsg
  <2> QED BY <1>0, <1>a, <2>2, <2>4 DEF WireTyped
<1>7. CASE Alone \/ DevStatus \/ DevRestart
  <2>1. UNCHANGED <<up, inbox>>
    BY <1>7 DEF Alone, ReaderHello, OpenDone, ReaderExit, WriterCheck, WriterSend, WriterDrained,
                DevStatus, DevRestart, FwStatus, FwRestart, Restart, hostVars
  <2> QED BY <1>1, <2>1
<1>8. ASSUME NEW e \in Sessions, PushCheck(e) \/ PushTake(e) \/ PushData(e) PROVE UNCHANGED <<up, inbox>>
  BY <1>8 DEF PushCheck, PushTake, PushData, linkVars, hostVars
<1>9. ASSUME NEW t \in Callers, Connect(t) \/ Disconnect(t) \/ SendOp(t) \/ GiveUp(t)
      PROVE  UNCHANGED <<up, inbox>>
  BY <1>9 DEF Connect, Disconnect, SendOp, GiveUp, GetId, Send, Timeout
<1>10. ASSUME NEW t \in Readers, ReadCheck(t) \/ ReadPop(t) \/ ClearRx(t) PROVE UNCHANGED <<up, inbox>>
  BY <1>10 DEF ReadCheck, ReadPop, ClearRx, linkVars, hostVars
<1>11. UNCHANGED rxVars => UNCHANGED <<up, inbox>>  BY DEF rxVars, linkVars, hostVars
<1> QED BY <1>1, <1>2, <1>3, <1>4, <1>5, <1>6, <1>7, <1>8, <1>9, <1>10, <1>11 DEF RxNext
-----------------------------------------------------------------------------
(* The lock of the channel, and the threads that push *)

\* One thread at a time is between the beginning and the end of a round trip; it has
\* the channel's lock, and the driver has no channel.
OneInside ==
  /\ \A t \in Callers : op[t] # "none" <=> call[t].st # "idle"
  /\ \A t, u \in Callers : op[t] # "none" /\ op[u] # "none" => t = u
  /\ \A t \in Callers : op[t] # "none" => ~chan
  /\ chan => session = "up"
  /\ ~chan => rxData = <<>>

LEMMA InsideStep ==
  ASSUME IInv, BusyInSession, RxTyped, OneInside, [RxNext]_rxVars
  PROVE  OneInside'
<1>0. /\ op \in [Callers -> {"none", "open", "close"}] /\ call \in [Callers -> Call]
      /\ chan \in BOOLEAN /\ rxData \in Seq(Held)
  BY DEF IInv, Scalars, RxTyped, DrvTyped
<1>1. CASE UNCHANGED <<op, call, chan, session, rxData>>  BY <1>1 DEF OneInside
<1>2. CASE OpenSession
  <2>1. UNCHANGED <<op, call, chan, rxData>> /\ session = "none"
    BY <1>2 DEF OpenSession, OpenStart, drvVars
  <2> QED BY <2>1 DEF OneInside
<1>3. CASE CloseDevice
  <2>1. UNCHANGED <<op, call>> /\ chan' = FALSE /\ rxData' = <<>>
    BY <1>3 DEF CloseDevice, Close
  <2> QED BY <2>1 DEF OneInside
<1>4. CASE Alone
  <2>1. UNCHANGED <<op, call, chan, rxData>> /\ (session' = session \/ session = "opening")
    BY <1>4 DEF Alone, ReaderHello, OpenDone, ReaderExit, WriterCheck, WriterSend, WriterDrained, drvVars
  <2> QED BY <2>1 DEF OneInside
<1>5. ASSUME NEW e \in Sessions, PushData(e) PROVE OneInside'
  <2>1. UNCHANGED <<op, call, chan, session>> /\ (~chan => rxData' = rxData)
    BY <1>5 DEF PushData, linkVars, hostVars
  <2> QED BY <2>1 DEF OneInside
<1>6. ASSUME NEW t \in Callers, Connect(t) \/ Disconnect(t) PROVE OneInside'
  <2>1. /\ \A u \in Callers : op[u] = "none"
        /\ session = "up" /\ session' = "up" /\ chan' = FALSE /\ rxData' = <<>>
        /\ call' = [call EXCEPT ![t] = [st |-> "ready", id |-> NextId(msgId), serial |-> calls + 1]]
        /\ \E c \in {"open", "close"} : op' = [op EXCEPT ![t] = c]
    BY <1>0, <1>6 DEF Connect, Disconnect, GetId, Enters, LockFree, OneInside
  <2>2. \A u \in Callers : (op'[u] # "none" <=> u = t) /\ (call'[u].st # "idle" <=> u = t)
    BY <1>0, <2>1 DEF OneInside
  <2> QED BY <2>1, <2>2 DEF OneInside
<1>7. ASSUME NEW t \in Callers, SendOp(t) PROVE OneInside'
  <2>1. /\ op[t] # "none" /\ UNCHANGED <<chan, session, rxData>>
        /\ \/ op' = op /\ call' = [call EXCEPT ![t].st = "waiting"]
           \/ op' = [op EXCEPT ![t] = "none"] /\ call' = [call EXCEPT ![t] = Idle]
    BY <1>7 DEF SendOp, Send, Leaves
  <2>2. \A u \in Callers : /\ op'[u] # "none" <=> call'[u].st # "idle"
                           /\ op'[u] # "none" => op[u] # "none"
    BY <1>0, <2>1 DEF OneInside, Idle, Call
  <2> QED BY <2>1, <2>2 DEF OneInside
<1>8. ASSUME NEW t \in Callers, Complete(t) \/ GiveUp(t) PROVE OneInside'
  <2>1. /\ call[t].st = "waiting" /\ UNCHANGED <<session, rxData>>
        /\ op' = [op EXCEPT ![t] = "none"] /\ call' = [call EXCEPT ![t] = Idle]
        /\ chan' = chan \/ chan' = TRUE
    BY <1>8 DEF Complete, GiveUp, Receive, Timeout, Finish, Leaves, Stored
  <2>2. \A u \in Callers : op'[u] = "none" /\ call'[u].st = "idle"
    <3> TAKE u \in Callers
    <3>1. u # t => op[u] = "none"  BY <2>1 DEF OneInside
    <3> QED BY <3>1, <1>0, <2>1 DEF OneInside, Idle
  <2>3. session = "up"  BY <2>1, <1>0 DEF BusyInSession
  <2>4. ~chan /\ rxData = <<>>  BY <2>1 DEF OneInside
  <2> QED BY <2>1, <2>2, <2>3, <2>4 DEF OneInside
<1>9. ASSUME NEW t \in Readers, ReadPop(t) \/ ClearRx(t) PROVE OneInside'
  <2>1. UNCHANGED <<op, call, chan, session>> /\ (rxData = <<>> => rxData' = rxData)
    BY <1>9 DEF ReadPop, ClearRx, linkVars, hostVars
  <2> QED BY <2>1 DEF OneInside
<1>10. Read \/ DevCommand \/ DevStatus \/ DevRestart \/ DevReceives =>
         UNCHANGED <<op, call, chan, session, rxData>>
  BY DEF Read, ReaderTake, DevCommand, DevOpen, DevClose, DevStatus, DevRestart, DevReceives, FwHandle,
         FwStatus, FwRestart, Restart, FwEmit, hostVars, drvVars
<1>11. ASSUME NEW e \in Sessions, PushCheck(e) \/ PushTake(e)
       PROVE  UNCHANGED <<op, call, chan, session, rxData>>
  BY <1>11 DEF PushCheck, PushTake, linkVars, hostVars, drvVars
<1>12. ASSUME NEW t \in Readers, ReadCheck(t) PROVE UNCHANGED <<op, call, chan, session, rxData>>
  BY <1>12 DEF ReadCheck, linkVars, hostVars
<1>13. UNCHANGED rxVars => UNCHANGED <<op, call, chan, session, rxData>>
  BY DEF rxVars, linkVars, hostVars, drvVars
<1> QED BY <1>1, <1>2, <1>3, <1>4, <1>5, <1>6, <1>7, <1>8, <1>9, <1>10, <1>11, <1>12, <1>13 DEF RxNext

\* What a step does to the threads that push and to their queues.
PushMoves ==
  \/ UNCHANGED <<epoch, pushVars>> /\ (running' => running)
  \/ OpenSession
  \/ Read
  \/ \E e \in Sessions : PushCheck(e) \/ PushTake(e) \/ PushData(e)

LEMMA PushCases ==
  ASSUME [RxNext]_rxVars
  PROVE  PushMoves
<1>1. ASSUME NEW t \in Callers, Connect(t) \/ Disconnect(t) \/ SendOp(t) \/ Complete(t) \/ GiveUp(t)
      PROVE  UNCHANGED <<epoch, pushVars, running>>
  BY <1>1 DEF Connect, Disconnect, SendOp, Complete, GiveUp, GetId, Send, Receive, Timeout, Finish
<1>2. ASSUME NEW t \in Readers, ReadCheck(t) \/ ReadPop(t) \/ ClearRx(t)
      PROVE  UNCHANGED <<epoch, pushVars, running>>
  BY <1>2 DEF ReadCheck, ReadPop, ClearRx, linkVars, hostVars
<1>3. CASE CloseDevice  BY <1>3 DEF CloseDevice, Close, PushMoves
<1>4. CASE Alone
  BY <1>4 DEF Alone, ReaderHello, OpenDone, ReaderExit, WriterCheck, WriterSend, WriterDrained, PushMoves
<1>5. DevCommand \/ DevStatus \/ DevRestart \/ DevReceives => UNCHANGED <<epoch, pushVars, running>>
  BY DEF DevCommand, DevOpen, DevClose, DevStatus, DevRestart, DevReceives, FwHandle,
         FwStatus, FwRestart, Restart, FwEmit, hostVars
<1>6. UNCHANGED rxVars => UNCHANGED <<epoch, pushVars, running>>
  BY DEF rxVars, linkVars, hostVars
<1> QED BY <1>1, <1>2, <1>3, <1>4, <1>5, <1>6 DEF RxNext, PushMoves

\* The thread that pushes for a session runs as long as it does; there is none for a
\* session to come.
Pushes ==
  /\ running => epoch \in Sessions /\ push[epoch].st # "off"
  /\ \A e \in Sessions : e > epoch => push[e].st = "off" /\ queue[e] = <<>>

LEMMA PushesStep ==
  ASSUME IInv, RxTyped, Pushes, [RxNext]_rxVars
  PROVE  Pushes'
<1>0. /\ epoch \in Nat /\ DOMAIN push = Sessions /\ DOMAIN queue = Sessions
      /\ MaxSessions \in Nat
  BY LinkAssumption DEF IInv, Scalars, RxTyped, PushTyped
<1>a. PushMoves  BY PushCases
<1>b. \A st : Pusher(st).st = st  BY DEF Pusher
<1>1. CASE UNCHANGED <<epoch, pushVars>> /\ (running' => running)
  BY <1>1 DEF pushVars, Pushes
<1>2. CASE OpenSession
  <2>1. /\ epoch < MaxSessions /\ epoch' = epoch + 1 /\ queue' = queue
        /\ push' = [push EXCEPT ![epoch + 1] = Pusher("check")]
    BY <1>2 DEF OpenSession, OpenStart
  <2>2. epoch' \in Sessions /\ push'[epoch'].st = "check"  BY <1>0, <1>b, <2>1 DEF Sessions
  <2>3. \A e \in Sessions : e > epoch' => e > epoch /\ push'[e] = push[e]
    BY <1>0, <2>1 DEF Sessions
  <2> QED BY <2>1, <2>2, <2>3 DEF Pushes
<1>3. CASE Read
  <2>1. /\ UNCHANGED <<epoch, push, running>>
        /\ \A e \in Sessions : e # epoch => queue'[e] = queue[e]
    BY <1>0, <1>3 DEF Read, ReaderTake
  <2>2. \A e \in Sessions : e > epoch => e # epoch  BY <1>0 DEF Sessions
  <2> QED BY <2>1, <2>2 DEF Pushes
<1>4. ASSUME NEW e \in Sessions, PushCheck(e) PROVE Pushes'
  <2>1. /\ UNCHANGED <<epoch, running>> /\ push[e].st = "check"
        /\ push' = [push EXCEPT ![e] = Pusher(IF Goes(e) THEN "take" ELSE "off")]
        /\ \A x \in Sessions : x # e => queue'[x] = queue[x]
    BY <1>0, <1>4 DEF PushCheck, linkVars, hostVars
  <2>2. ~(e > epoch)  BY <2>1 DEF Pushes
  <2>3. \A x \in Sessions : x > epoch => push'[x] = push[x] /\ queue'[x] = queue[x]
    BY <1>0, <2>1, <2>2
  <2>4. running => push'[epoch].st # "off"
    <3>1. CASE e = epoch  BY <3>1, <1>0, <1>b, <2>1 DEF Goes
    <3>2. CASE e # epoch  BY <3>2, <1>0, <2>1 DEF Pushes
    <3> QED BY <3>1, <3>2
  <2> QED BY <2>1, <2>3, <2>4 DEF Pushes
<1>5. ASSUME NEW e \in Sessions, PushTake(e) \/ PushData(e) PROVE Pushes'
  <2>1. /\ UNCHANGED <<epoch, running>> /\ push[e].st # "off"
        /\ \A x \in Sessions : x # e => queue'[x] = queue[x] /\ push'[x] = push[x]
        /\ push'[e].st # "off"
    BY <1>0, <1>b, <1>5 DEF PushTake, PushData, linkVars, hostVars
  <2>2. ~(e > epoch)  BY <2>1 DEF Pushes
  <2> QED BY <2>1, <2>2 DEF Pushes
<1> QED BY <1>a, <1>1, <1>2, <1>3, <1>4, <1>5 DEF PushMoves

\* What a step does to the channel's queue and to what has been read.
DataMoves ==
  \/ UNCHANGED <<rxData, got>>
  \/ rxData' = <<>> /\ got' = got
  \/ rxData # <<>> /\ rxData' = Tail(rxData) /\ got' = Append(got, Head(rxData))

LEMMA DataCases ==
  ASSUME [RxNext]_rxVars, \A e \in Sessions : ~PushData(e)
  PROVE  DataMoves
<1>1. ASSUME NEW t \in Callers, Connect(t) \/ Disconnect(t) \/ SendOp(t) \/ Complete(t) \/ GiveUp(t)
      PROVE  DataMoves
  BY <1>1 DEF Connect, Disconnect, SendOp, Complete, GiveUp, Finish, DataMoves
<1>2. ASSUME NEW t \in Readers, ReadCheck(t) \/ ReadPop(t) \/ ClearRx(t) PROVE DataMoves
  BY <1>2 DEF ReadCheck, ReadPop, ClearRx, DataMoves
<1>3. CASE CloseDevice  BY <1>3 DEF CloseDevice, DataMoves
<1>4. OpenSession \/ Read \/ Alone \/ DevCommand \/ DevStatus \/ DevRestart \/ DevReceives =>
        UNCHANGED <<rxData, got>>
  BY DEF OpenSession, Read, Alone, DevCommand, DevStatus, DevRestart, DevReceives, drvVars
<1>5. ASSUME NEW e \in Sessions, PushCheck(e) \/ PushTake(e) PROVE UNCHANGED <<rxData, got>>
  BY <1>5 DEF PushCheck, PushTake, drvVars
<1>6. UNCHANGED rxVars => UNCHANGED <<rxData, got>>  BY DEF rxVars, drvVars
<1> QED BY <1>1, <1>2, <1>3, <1>4, <1>5, <1>6 DEF RxNext, DataMoves

\* A thread of a session that is over pushes one message more at most.
Stray ==
  \A e \in Sessions : e < epoch =>
    /\ push[e].st \in {"take", "push"} => \A i \in 1 .. Len(rxData) : rxData[i].via # e
    /\ \A i, j \in 1 .. Len(rxData) : rxData[i].via = e /\ rxData[j].via = e => i = j

LEMMA StrayStep ==
  ASSUME IInv, RxTyped, OneInside, Stray, [RxNext]_rxVars
  PROVE  Stray'
<1>0. /\ epoch \in Nat /\ DOMAIN push = Sessions /\ rxData \in Seq(Held) /\ Len(rxData) \in Nat
  BY DEF IInv, Scalars, RxTyped, PushTyped, DrvTyped
<1>b. \A st : Pusher(st).st = st  BY DEF Pusher
<1>1. ASSUME NEW e \in Sessions, PushData(e) PROVE Stray'
  <2>1. /\ epoch' = epoch /\ push[e].st = "push" /\ push' = [push EXCEPT ![e] = Pusher("check")]
        /\ rxData' = rxData \/ rxData' = Append(rxData, Pushed(e))
    BY <1>1 DEF PushData, linkVars, hostVars
  <2>2. /\ push'[e].st = "check" /\ \A x \in Sessions : x # e => push'[x] = push[x]
    BY <1>0, <1>b, <2>1
  <2>3. CASE rxData' = rxData
    <3>1. \A x \in Sessions : push'[x].st \in {"take", "push"} => push[x].st \in {"take", "push"}
      BY <2>2
    <3> QED BY <2>1, <2>3, <3>1 DEF Stray
  <2>4. CASE rxData' = Append(rxData, Pushed(e))
    <3>1. /\ Len(rxData') = Len(rxData) + 1 /\ rxData'[Len(rxData) + 1].via = e
          /\ \A i \in 1 .. Len(rxData) : rxData'[i] = rxData[i]
      BY <1>0, <2>4, AppendProperties DEF Pushed
    <3>2. ASSUME NEW x \in Sessions, x < epoch, push'[x].st \in {"take", "push"}, NEW i \in 1 .. Len(rxData')
          PROVE  rxData'[i].via # x
      <4>1. x # e /\ push[x].st \in {"take", "push"}  BY <2>2, <3>2
      <4>2. i \in 1 .. Len(rxData) \/ i = Len(rxData) + 1  BY <1>0, <3>1
      <4> QED BY <3>1, <3>2, <4>1, <4>2 DEF Stray
    <3>3. ASSUME NEW x \in Sessions, x < epoch, NEW i \in 1 .. Len(rxData'), NEW j \in 1 .. Len(rxData'),
                 rxData'[i].via = x, rxData'[j].via = x
          PROVE  i = j
      <4>1. i \in 1 .. Len(rxData) \/ i = Len(rxData) + 1  BY <1>0, <3>1
      <4>2. j \in 1 .. Len(rxData) \/ j = Len(rxData) + 1  BY <1>0, <3>1
      <4>3. x = e => \A n \in 1 .. Len(rxData) : rxData[n].via # x  BY <2>1, <3>3 DEF Stray
      <4> QED BY <3>1, <3>3, <4>1, <4>2, <4>3 DEF Stray
    <3> QED BY <2>1, <3>2, <3>3 DEF Stray
  <2> QED BY <2>1, <2>3, <2>4
<1>2. CASE \A e \in Sessions : ~PushData(e)
  <2>1. Part(rxData', rxData)
    <3>1. CASE rxData' = rxData
      <4>1. \A i \in 1 .. Len(rxData') : i + 0 \in 1 .. Len(rxData) /\ rxData'[i] = rxData[i + 0]
        BY <1>0, <3>1
      <4> QED BY <4>1 DEF Part
    <3>2. CASE rxData' = <<>>
      <4>1. \A i \in 1 .. Len(rxData') : FALSE  BY <3>2
      <4> QED BY <4>1 DEF Part
    <3>3. CASE rxData # <<>> /\ rxData' = Tail(rxData)  BY <1>0, <3>3, PartOfTail
    <3> QED BY <1>2, DataCases, <3>1, <3>2, <3>3 DEF DataMoves
  <2>2. PICK k \in Nat : \A i \in 1 .. Len(rxData') : i + k \in 1 .. Len(rxData) /\ rxData'[i] = rxData[i + k]
    BY <2>1 DEF Part
  <2>a. \A i \in 1 .. Len(rxData'), j \in 1 .. Len(rxData') : i + k = j + k => i = j  BY <1>0
  <2>3. ASSUME epoch' = epoch,
               \A x \in Sessions : x < epoch /\ push'[x].st \in {"take", "push"} => push[x].st \in {"take", "push"}
        PROVE  Stray'
    <3>1. ASSUME NEW x \in Sessions, x < epoch', push'[x].st \in {"take", "push"}, NEW i \in 1 .. Len(rxData')
          PROVE  rxData'[i].via # x
      <4>1. \A j \in 1 .. Len(rxData) : rxData[j].via # x  BY <2>3, <3>1 DEF Stray
      <4> QED BY <2>2, <4>1
    <3>2. ASSUME NEW x \in Sessions, x < epoch', NEW i \in 1 .. Len(rxData'), NEW j \in 1 .. Len(rxData'),
                 rxData'[i].via = x, rxData'[j].via = x
          PROVE  i = j
      <4>1. \A m, n \in 1 .. Len(rxData) : rxData[m].via = x /\ rxData[n].via = x => m = n
        BY <2>3, <3>2 DEF Stray
      <4>2. /\ i + k \in 1 .. Len(rxData) /\ rxData'[i] = rxData[i + k]
            /\ j + k \in 1 .. Len(rxData) /\ rxData'[j] = rxData[j + k]
        BY <2>2
      <4>3. i + k = j + k  BY <3>2, <4>1, <4>2
      <4> QED BY <2>a, <4>3
    <3> QED BY <3>1, <3>2 DEF Stray
  <2>4. CASE UNCHANGED <<epoch, pushVars>>  BY <2>3, <2>4 DEF pushVars
  <2>5. CASE OpenSession
    <3>1. session = "none" /\ rxData' = rxData  BY <2>5 DEF OpenSession, OpenStart, drvVars
    <3>2. rxData' = <<>>  BY <3>1 DEF OneInside
    <3>3. \A i \in 1 .. Len(rxData') : FALSE  BY <3>2
    <3> QED BY <3>3 DEF Stray
  <2>6. CASE Read  BY <2>3, <2>6 DEF Read, ReaderTake
  <2>7. ASSUME NEW e \in Sessions, PushCheck(e) PROVE Stray'
    <3>1. epoch' = epoch /\ push' = [push EXCEPT ![e] = Pusher(IF Goes(e) THEN "take" ELSE "off")]
      BY <2>7 DEF PushCheck, linkVars, hostVars
    <3>2. e < epoch => push'[e].st = "off"  BY <1>0, <1>b, <3>1 DEF Goes
    <3> QED BY <1>0, <2>3, <3>1, <3>2
  <2>8. ASSUME NEW e \in Sessions, PushTake(e) PROVE Stray'
    <3>1. epoch' = epoch /\ push[e].st = "take" /\ \A x \in Sessions : x # e => push'[x] = push[x]
      BY <1>0, <2>8 DEF PushTake, linkVars, hostVars
    <3> QED BY <2>3, <3>1
  <2> QED BY <1>2, PushCases, <2>4, <2>5, <2>6, <2>7, <2>8 DEF PushMoves
<1> QED BY <1>1, <1>2

\* Hence one message at most.
LEMMA StrayOne == RxTyped /\ Stray => OneStray
<1> SUFFICES ASSUME RxTyped, Stray, NEW e \in Sessions, e < epoch
             PROVE  Cardinality({i \in 1 .. Len(rxData) : rxData[i].via = e}) <= 1
  BY DEF OneStray
<1> DEFINE S == {i \in 1 .. Len(rxData) : rxData[i].via = e}
<1>1. \A i, j \in S : i = j  BY DEF Stray
<1>2. CASE S = {}  BY <1>2, FS_EmptySet
<1>3. CASE S # {}
  <2>1. PICK i \in S : TRUE  BY <1>3
  <2>2. S = {i}  BY <1>1
  <2> HIDE DEF S
  <2>3. Cardinality(S) = 1  BY <2>2, FS_Singleton
  <2> QED BY <2>3 DEF S
<1> QED BY <1>2, <1>3
-----------------------------------------------------------------------------
(* The order of the data *)

\* The numbers of what waits for the thread of session e, the places of received
\* data on the way up, and all that got as far as the channel's queue.
Waits(e) == {queue[e][i].n : i \in 1 .. Len(queue[e])}
            \cup (IF push[e].st = "push" THEN {push[e].msg.n} ELSE {})
InUp     == {i \in 1 .. Len(up) : up[i].kind = "async"}
Taken    == got \o rxData

\* The device's numbers only grow along the way, for each session.
UpOrdered ==
  /\ \A i, j \in InUp : i < j => up[i].body.n < up[j].body.n
  /\ \A i \in InUp : up[i].body.n <= sent
QueueOrdered(e) ==
  /\ \A i, j \in 1 .. Len(queue[e]) : i < j => queue[e][i].n < queue[e][j].n
  /\ push[e].st = "push" => \A i \in 1 .. Len(queue[e]) : push[e].msg.n < queue[e][i].n
  /\ \A w \in Waits(e) : w <= sent /\ \A i \in InUp : w < up[i].body.n
TakenOrdered ==
  \A i \in 1 .. Len(Taken) :
    /\ Taken[i].msg.n <= sent
    /\ \A e \in Sessions : Taken[i].via = e => \A w \in Waits(e) : Taken[i].msg.n < w
    /\ \A j \in InUp : Taken[i].msg.n < up[j].body.n

Ordered == UpOrdered /\ (\A e \in Sessions : QueueOrdered(e)) /\ TakenOrdered /\ InOrder

LEMMA OrderTypes ==
  ASSUME RxTyped
  PROVE  /\ sent \in Nat /\ up \in Seq(RxUp) /\ Len(up) \in Nat
         /\ \A i \in InUp : i \in 1 .. Len(up) /\ up[i].body \in Data /\ up[i].body.n \in Nat
         /\ \A e \in Sessions : /\ queue[e] \in Seq(Data) /\ Len(queue[e]) \in Nat
                                /\ \A i \in 1 .. Len(queue[e]) : queue[e][i].n \in Nat
                                /\ push[e].st = "push" => push[e].msg.n \in Nat
                                /\ \A w \in Waits(e) : w \in Nat
         /\ Taken \in Seq(Held) /\ Len(Taken) \in Nat
         /\ \A i \in 1 .. Len(Taken) : Taken[i].msg.n \in Nat /\ Taken[i].via \in Sessions
<1>1. MaxSent \in Nat  BY RxAssumption
<1>2. \A m \in Data : m.n \in Nat  BY <1>1 DEF Data
<1>3. sent \in Nat /\ up \in Seq(RxUp) /\ Len(up) \in Nat  BY <1>1 DEF RxTyped, BoxTyped, WireTyped
<1>4. \A i \in InUp : i \in 1 .. Len(up) /\ up[i].body \in Data /\ up[i].body.n \in Nat
  <2>1. \A i \in 1 .. Len(up) : up[i] \in RxUp  BY <1>3
  <2> QED BY <2>1, <1>2 DEF InUp, RxUp
<1>5. ASSUME NEW e \in Sessions
      PROVE  /\ queue[e] \in Seq(Data) /\ Len(queue[e]) \in Nat
             /\ \A i \in 1 .. Len(queue[e]) : queue[e][i].n \in Nat
             /\ push[e].st = "push" => push[e].msg.n \in Nat
             /\ \A w \in Waits(e) : w \in Nat
  <2>1. queue[e] \in Seq(Data)  BY DEF RxTyped, PushTyped
  <2>2. \A i \in 1 .. Len(queue[e]) : queue[e][i] \in Data  BY <2>1
  <2>3. push[e].st = "push" => push[e].msg.n \in Nat  BY <1>2 DEF RxTyped, PushTyped
  <2>4. \A i \in 1 .. Len(queue[e]) : queue[e][i].n \in Nat  BY <2>2, <1>2
  <2> QED BY <2>1, <2>3, <2>4 DEF Waits
<1>6. Taken \in Seq(Held)  BY ConcatFacts DEF Taken, RxTyped, DrvTyped
<1>7. \A i \in 1 .. Len(Taken) : Taken[i] \in Held  BY <1>6
<1>8. \A i \in 1 .. Len(Taken) : Taken[i].msg.n \in Nat /\ Taken[i].via \in Sessions
  BY <1>7, <1>2 DEF Held
<1> QED BY <1>3, <1>4, <1>5, <1>6, <1>8

\* The data on its way up moves up, or is lost.
UpLess == \E k \in Nat : \A i \in InUp' : i + k \in InUp /\ up'[i].body = up[i + k].body

LEMMA UpLessOf ==
  ASSUME NEW S, up \in Seq(S), \/ up' = up
                               \/ up # <<>> /\ up' = Tail(up)
                               \/ \E n \in 1 .. Len(up) + 1 : up' = SubSeq(up, n, Len(up))
                               \/ \E w \in Seq(S) : up' = up \o w /\ \A i \in 1 .. Len(w) : w[i].kind # "async"
  PROVE  UpLess
<1>1. ASSUME Part(up', up) PROVE UpLess
  <2>1. PICK k \in Nat : \A i \in 1 .. Len(up') : i + k \in 1 .. Len(up) /\ up'[i] = up[i + k]
    BY <1>1 DEF Part
  <2>2. \A i \in InUp' : i + k \in InUp /\ up'[i].body = up[i + k].body  BY <2>1 DEF InUp
  <2> QED BY <2>2 DEF UpLess
<1>2. CASE up' = up
  <2>1. \A i \in InUp' : i + 0 \in InUp /\ up'[i].body = up[i + 0].body
    <3>1. InUp' = InUp  BY <1>2 DEF InUp
    <3>2. \A i \in InUp : i + 0 = i  BY DEF InUp
    <3> QED BY <3>1, <3>2, <1>2
  <2> QED BY <2>1 DEF UpLess
<1>3. CASE up # <<>> /\ up' = Tail(up)  BY <1>1, <1>3, PartOfTail
<1>4. CASE \E n \in 1 .. Len(up) + 1 : up' = SubSeq(up, n, Len(up))  BY <1>1, <1>4, PartOfSuffix
<1>5. ASSUME NEW w \in Seq(S), up' = up \o w, \A i \in 1 .. Len(w) : w[i].kind # "async" PROVE UpLess
  <2>1. /\ Len(up') = Len(up) + Len(w) /\ Len(up) \in Nat /\ Len(w) \in Nat
        /\ \A i \in 1 .. Len(up) : up'[i] = up[i]
        /\ \A i \in Len(up) + 1 .. Len(up') : up'[i] = w[i - Len(up)] /\ i - Len(up) \in 1 .. Len(w)
    BY <1>5, ConcatFacts
  <2>2. \A i \in InUp' : i + 0 \in InUp /\ up'[i].body = up[i + 0].body
    <3> TAKE i \in InUp'
    <3>1. i \in 1 .. Len(up') /\ up'[i].kind = "async"  BY DEF InUp
    <3>2. i \in 1 .. Len(up)
      <4>1. ~(i \in Len(up) + 1 .. Len(up'))  BY <3>1, <2>1, <1>5
      <4> QED BY <4>1, <3>1, <2>1
    <3>3. i + 0 = i  BY <3>2
    <3> QED BY <3>1, <3>2, <3>3, <2>1 DEF InUp
  <2> QED BY <2>2 DEF UpLess
<1> QED BY <1>2, <1>3, <1>4, <1>5

LEMMA UpCases ==
  ASSUME IInv, RxTyped, [RxNext]_rxVars
  PROVE  DevReceives \/ (sent' = sent /\ UpLess)
<1>0. up \in Seq(RxUp)  BY DEF RxTyped, WireTyped
<1>1. CASE up' = up /\ sent' = sent  BY <1>0, <1>1, UpLessOf
<1>2. CASE OpenSession
  <2>1. sent' = sent /\ \E n \in 1 .. Len(up) + 1 : up' = SubSeq(up, n, Len(up))
    BY <1>2 DEF OpenSession, OpenStart, boxVars
  <2> QED BY <1>0, <2>1, UpLessOf
<1>3. CASE Read
  <2>1. sent' = sent /\ up # <<>> /\ up' = Tail(up)  BY <1>3 DEF Read, ReaderTake, boxVars
  <2> QED BY <1>0, <2>1, UpLessOf
<1>4. CASE DevCommand
  <2>1. sent' = sent  BY <1>4 DEF DevCommand
  <2>2. PICK w \in Seq(RxUp) : up' = up \o w /\ \A i \in 1 .. Len(w) : w[i].kind = "reply"
    BY <1>4, DevAnswers DEF RxTyped
  <2> QED BY <1>0, <2>1, <2>2, UpLessOf
<1>5. CloseDevice \/ Alone \/ DevStatus \/ DevRestart => up' = up /\ sent' = sent
  BY DEF CloseDevice, Alone, DevStatus, DevRestart, Close, ReaderHello, OpenDone, ReaderExit, WriterCheck,
         WriterSend, WriterDrained, FwStatus, FwRestart, Restart, boxVars
<1>6. ASSUME NEW e \in Sessions, PushCheck(e) \/ PushTake(e) \/ PushData(e) PROVE up' = up /\ sent' = sent
  BY <1>6 DEF PushCheck, PushTake, PushData, linkVars, boxVars
<1>7. ASSUME NEW t \in Callers, Connect(t) \/ Disconnect(t) \/ SendOp(t) \/ Complete(t) \/ GiveUp(t)
      PROVE  up' = up /\ sent' = sent
  BY <1>7 DEF Connect, Disconnect, SendOp, Complete, GiveUp, GetId, Send, Receive, Timeout, Finish, boxVars
<1>8. ASSUME NEW t \in Readers, ReadCheck(t) \/ ReadPop(t) \/ ClearRx(t) PROVE up' = up /\ sent' = sent
  BY <1>8 DEF ReadCheck, ReadPop, ClearRx, linkVars, boxVars
<1>9. UNCHANGED rxVars => up' = up /\ sent' = sent  BY DEF rxVars, linkVars, boxVars
<1> QED BY <1>1, <1>2, <1>3, <1>4, <1>5, <1>6, <1>7, <1>8, <1>9 DEF RxNext

\* s is the beginning of t.
Begins(s, t) == \A i \in 1 .. Len(s) : i \in 1 .. Len(t) /\ s[i] = t[i]

\* The part of Ordered about what is on its way up.
LEMMA UpStaysOrdered ==
  ASSUME RxTyped, UpOrdered, UpLess, sent' = sent
  PROVE  /\ UpOrdered'
         /\ \A w \in Nat : (\A i \in InUp : w < up[i].body.n) => (\A i \in InUp' : w < up'[i].body.n)
<1>1. PICK k \in Nat : \A i \in InUp' : i + k \in InUp /\ up'[i].body = up[i + k].body  BY DEF UpLess
<1>2. \A i \in InUp' : i \in Int
  <2>1. \A i \in InUp' : i \in 1 .. Len(up')  BY DEF InUp
  <2> QED BY <2>1
<1>3. \A i, j \in InUp' : i < j => i + k < j + k  BY <1>2
<1> QED BY <1>1, <1>3 DEF UpOrdered

LEMMA OrderedLess ==
  ASSUME RxTyped, Ordered, UpLess, sent' = sent, Begins(Taken', Taken),
         \A e \in Sessions : /\ queue'[e] = queue[e] \/ queue'[e] = <<>>
                             /\ push'[e].st = "push" => push'[e] = push[e]
  PROVE  Ordered'
<1>1. /\ UpOrdered'
      /\ \A w \in Nat : (\A i \in InUp : w < up[i].body.n) => (\A i \in InUp' : w < up'[i].body.n)
  BY UpStaysOrdered DEF Ordered
<1>2. ASSUME NEW e \in Sessions
      PROVE  \A w \in Waits(e)' : w \in Waits(e)
  <2>1. queue'[e] = queue[e] \/ queue'[e] = <<>>  OBVIOUS
  <2>2. queue'[e] = <<>> => \A i \in 1 .. Len(queue'[e]) : FALSE  OBVIOUS
  <2> QED BY <2>1, <2>2 DEF Waits
<1>3. ASSUME NEW e \in Sessions PROVE QueueOrdered(e)'
  <2>1. queue'[e] = <<>> => \A i \in 1 .. Len(queue'[e]) : FALSE  OBVIOUS
  <2>2. \A w \in Waits(e)' : w \in Nat /\ w <= sent /\ \A i \in InUp : w < up[i].body.n
    BY <1>2, OrderTypes DEF Ordered, QueueOrdered
  <2>3. \A w \in Waits(e)' : w <= sent' /\ \A i \in InUp' : w < up'[i].body.n  BY <1>1, <2>2
  <2>4. /\ \A i, j \in 1 .. Len(queue'[e]) : i < j => queue'[e][i].n < queue'[e][j].n
        /\ push'[e].st = "push" => \A i \in 1 .. Len(queue'[e]) : push'[e].msg.n < queue'[e][i].n
    <3>1. CASE queue'[e] = <<>>  BY <3>1, <2>1
    <3>2. CASE queue'[e] = queue[e]  BY <3>2 DEF Ordered, QueueOrdered
    <3> QED BY <3>1, <3>2
  <2> QED BY <2>3, <2>4 DEF QueueOrdered
<1>4. \A i \in 1 .. Len(Taken') : i \in 1 .. Len(Taken) /\ Taken'[i] = Taken[i]  BY DEF Begins
<1>5. TakenOrdered'
  <2>1. ASSUME NEW i \in 1 .. Len(Taken')
        PROVE  /\ Taken'[i].msg.n <= sent'
               /\ \A e \in Sessions : Taken'[i].via = e => \A w \in Waits(e)' : Taken'[i].msg.n < w
               /\ \A j \in InUp' : Taken'[i].msg.n < up'[j].body.n
    <3>1. i \in 1 .. Len(Taken) /\ Taken'[i] = Taken[i]  BY <1>4
    <3>2. Taken[i].msg.n \in Nat /\ Taken[i].via \in Sessions  BY <3>1, OrderTypes
    <3>3. /\ Taken[i].msg.n <= sent
          /\ \A e \in Sessions : Taken[i].via = e => \A w \in Waits(e) : Taken[i].msg.n < w
          /\ \A j \in InUp : Taken[i].msg.n < up[j].body.n
      BY <3>1 DEF Ordered, TakenOrdered
    <3> QED BY <1>1, <1>2, <3>1, <3>2, <3>3
  <2> QED BY <2>1 DEF TakenOrdered
<1>6. InOrder'
  <2>1. \A i, j \in 1 .. Len(Taken') : i < j /\ Taken'[i].via = Taken'[j].via => Taken'[i].msg.n < Taken'[j].msg.n
    BY <1>4 DEF Ordered, InOrder, Taken
  <2> QED BY <2>1 DEF InOrder, Taken
<1> QED BY <1>1, <1>3, <1>5, <1>6 DEF Ordered

\* The queue of session e gets x.
Gets(e, x) == queue' = [queue EXCEPT ![e] = Append(@, x)]

LEMMA QueueGets ==
  ASSUME RxTyped, NEW e \in Sessions, NEW x \in Data, Gets(e, x)
  PROVE  /\ Len(queue'[e]) = Len(queue[e]) + 1 /\ queue'[e][Len(queue[e]) + 1] = x
         /\ \A i \in 1 .. Len(queue[e]) : queue'[e][i] = queue[e][i]
         /\ \A d \in Sessions : d # e => queue'[d] = queue[d]
<1> PICK q : q = queue[e]  OBVIOUS
<1> PICK s : s = queue'[e]  OBVIOUS
<1>1. q \in Seq(Data) /\ DOMAIN queue = Sessions  BY DEF RxTyped, PushTyped
<1>2. s = Append(q, x) /\ \A d \in Sessions : d # e => queue'[d] = queue[d]  BY <1>1 DEF Gets
<1>3. Len(s) = Len(q) + 1 /\ s[Len(q) + 1] = x /\ \A i \in 1 .. Len(q) : s[i] = q[i]
  BY <1>1, <1>2, AppendProperties
<1> QED BY <1>2, <1>3

LEMMA InOrderStays ==
  ASSUME InOrder, UNCHANGED <<rxData, got>>
  PROVE  InOrder'
<1>1. \A i, j \in 1 .. Len(Taken) : i < j /\ Taken[i].via = Taken[j].via => Taken[i].msg.n < Taken[j].msg.n
  BY DEF InOrder, Taken
<1>2. Taken' = Taken  BY DEF Taken
<1>3. \A i, j \in 1 .. Len(Taken') : i < j /\ Taken'[i].via = Taken'[j].via => Taken'[i].msg.n < Taken'[j].msg.n
  BY <1>1, <1>2
<1> QED BY <1>3 DEF InOrder, Taken

\* The reader thread gives a message to the thread that pushes.
LEMMA OrderedRead ==
  ASSUME RxTyped, Ordered, epoch \in Sessions, up # <<>>, up' = Tail(up), Head(up).kind = "async",
         queue' = [queue EXCEPT ![epoch] = Append(@, Head(up).body)],
         UNCHANGED <<push, rxData, got, sent>>
  PROVE  Ordered'
<1> DEFINE x == Head(up).body
           q == queue[epoch]
<1>0. /\ up \in Seq(RxUp) /\ Len(up) \in Nat /\ sent \in Nat /\ q \in Seq(Data) /\ Len(q) \in Nat
      /\ DOMAIN queue = Sessions
  BY OrderTypes DEF RxTyped, PushTyped
<1>1. 1 \in InUp /\ up[1].body = x  BY <1>0 DEF InUp
<1>2. x \in Data /\ x.n \in Nat  BY <1>1, OrderTypes
<1>u. UpLess  BY <1>0, UpLessOf
<1>3. /\ UpOrdered'
      /\ \A w \in Nat : (\A i \in InUp : w < up[i].body.n) => (\A i \in InUp' : w < up'[i].body.n)
  BY <1>u, UpStaysOrdered DEF Ordered
<1>4. \A i \in InUp' : x.n < up'[i].body.n
  <2> TAKE i \in InUp'
  <2>1. i \in 1 .. Len(Tail(up)) /\ Tail(up)[i].kind = "async"  BY DEF InUp
  <2>2. i + 1 \in 1 .. Len(up) /\ Tail(up)[i] = up[i + 1] /\ 1 < i + 1  BY <2>1, <1>0
  <2>3. i + 1 \in InUp  BY <2>1, <2>2 DEF InUp
  <2> QED BY <1>1, <2>2, <2>3 DEF Ordered, UpOrdered
<1>5. x.n <= sent /\ \A w \in Waits(epoch) : w < x.n
  BY <1>1 DEF Ordered, UpOrdered, QueueOrdered
<1>6. /\ Len(queue'[epoch]) = Len(q) + 1 /\ queue'[epoch][Len(q) + 1] = x
      /\ \A i \in 1 .. Len(q) : queue'[epoch][i] = q[i]
      /\ \A e \in Sessions : e # epoch => queue'[e] = queue[e]
  <2>1. Gets(epoch, x)  BY DEF Gets
  <2> HIDE DEF x
  <2> QED BY <2>1, <1>2, QueueGets
<1> HIDE DEF x
<1>7. ASSUME NEW e \in Sessions, NEW w \in Waits(e)'
      PROVE  w \in Waits(e) \/ (e = epoch /\ w = x.n)
  <2>1. CASE e # epoch  BY <2>1, <1>6, <1>7 DEF Waits
  <2>2. CASE e = epoch
    <3>1. CASE push[e].st = "push" /\ w = push[e].msg.n  BY <3>1 DEF Waits
    <3>2. CASE \E i \in 1 .. Len(queue'[epoch]) : w = queue'[epoch][i].n
      <4>1. PICK i \in 1 .. Len(queue'[epoch]) : w = queue'[epoch][i].n  BY <3>2
      <4>2. i \in 1 .. Len(q) \/ i = Len(q) + 1  BY <1>0, <1>6
      <4> QED BY <4>1, <4>2, <1>6, <2>2 DEF Waits
    <3> QED BY <2>2, <3>1, <3>2, <1>7 DEF Waits
  <2> QED BY <2>1, <2>2
<1>8. ASSUME NEW e \in Sessions PROVE QueueOrdered(e)'
  <2>1. \A w \in Waits(e)' : w <= sent' /\ \A i \in InUp' : w < up'[i].body.n
    <3> TAKE w \in Waits(e)'
    <3>1. CASE w \in Waits(e)
      <4>1. w \in Nat /\ w <= sent /\ \A i \in InUp : w < up[i].body.n
        BY <3>1, OrderTypes DEF Ordered, QueueOrdered
      <4> QED BY <4>1, <1>3
    <3>2. CASE w = x.n  BY <3>2, <1>4, <1>5
    <3> QED BY <3>1, <3>2, <1>7
  <2>2. CASE e # epoch
    <3>1. queue'[e] = queue[e] /\ push'[e] = push[e]  BY <2>2, <1>6
    <3> QED BY <3>1, <2>1 DEF Ordered, QueueOrdered
  <2>3. CASE e = epoch
    <3>1. \A i \in 1 .. Len(q) : q[i].n \in Waits(epoch)  BY DEF Waits
    <3>2. \A i, j \in 1 .. Len(q) : i < j => q[i].n < q[j].n  BY DEF Ordered, QueueOrdered
    <3>3. ASSUME NEW i \in 1 .. Len(queue'[e]), NEW j \in 1 .. Len(queue'[e]), i < j
          PROVE  queue'[e][i].n < queue'[e][j].n
      <4>1. i \in 1 .. Len(q)  BY <1>0, <1>6, <2>3, <3>3
      <4>2. CASE j \in 1 .. Len(q)  BY <4>1, <4>2, <1>6, <2>3, <3>2, <3>3
      <4>3. CASE j = Len(q) + 1  BY <4>1, <4>3, <1>5, <1>6, <2>3, <3>1
      <4> QED BY <4>2, <4>3, <1>0, <1>6, <2>3
    <3>4. ASSUME push'[e].st = "push", NEW i \in 1 .. Len(queue'[e])
          PROVE  push'[e].msg.n < queue'[e][i].n
      <4>1. push[e].st = "push" /\ push'[e] = push[e] /\ push[e].msg.n \in Waits(e)  BY <3>4 DEF Waits
      <4>2. CASE i \in 1 .. Len(q)  BY <4>1, <4>2, <1>6, <2>3 DEF Ordered, QueueOrdered
      <4>3. CASE i = Len(q) + 1  BY <4>1, <4>3, <1>5, <1>6, <2>3
      <4> QED BY <4>2, <4>3, <1>0, <1>6, <2>3
    <3> QED BY <2>1, <3>3, <3>4 DEF QueueOrdered
  <2> QED BY <2>2, <2>3
<1>9. Taken' = Taken  BY DEF Taken
<1>10. TakenOrdered'
  <2>1. ASSUME NEW i \in 1 .. Len(Taken)
        PROVE  /\ Taken[i].msg.n <= sent'
               /\ \A e \in Sessions : Taken[i].via = e => \A w \in Waits(e)' : Taken[i].msg.n < w
               /\ \A j \in InUp' : Taken[i].msg.n < up'[j].body.n
    <3>1. Taken[i].msg.n \in Nat /\ Taken[i].via \in Sessions  BY OrderTypes
    <3>2. /\ Taken[i].msg.n <= sent
          /\ \A e \in Sessions : Taken[i].via = e => \A w \in Waits(e) : Taken[i].msg.n < w
          /\ \A j \in InUp : Taken[i].msg.n < up[j].body.n
      BY DEF Ordered, TakenOrdered
    <3>3. Taken[i].msg.n < x.n  BY <3>2, <1>1
    <3>4. \A e \in Sessions : Taken[i].via = e => \A w \in Waits(e)' : Taken[i].msg.n < w
      BY <3>2, <3>3, <1>7
    <3> QED BY <1>3, <3>1, <3>2, <3>4
  <2> QED BY <2>1, <1>9 DEF TakenOrdered
<1>11. InOrder'  BY InOrderStays DEF Ordered
<1> QED BY <1>3, <1>8, <1>10, <1>11 DEF Ordered

\* If no number but those that waited waits, and the rest stays, order is a matter of
\* the thread's own queue.
LEMMA OrderedSame ==
  ASSUME RxTyped, Ordered, UNCHANGED <<up, sent, rxData, got>>, NEW e \in Sessions,
         \A x \in Sessions : x # e => queue'[x] = queue[x] /\ push'[x] = push[x],
         \A w \in Waits(e)' : w \in Waits(e),
         \A i, j \in 1 .. Len(queue'[e]) : i < j => queue'[e][i].n < queue'[e][j].n,
         push'[e].st = "push" => \A i \in 1 .. Len(queue'[e]) : push'[e].msg.n < queue'[e][i].n
  PROVE  Ordered'
<1>1. InUp' = InUp /\ Taken' = Taken  BY DEF InUp, Taken
<1>2. ASSUME NEW x \in Sessions PROVE \A w \in Waits(x)' : w \in Waits(x)
  <2>1. CASE x # e  BY <2>1 DEF Waits
  <2> QED BY <2>1
<1>3. ASSUME NEW x \in Sessions PROVE QueueOrdered(x)'
  <2>1. \A w \in Waits(x)' : w <= sent' /\ \A i \in InUp' : w < up'[i].body.n
    BY <1>1, <1>2 DEF Ordered, QueueOrdered
  <2>2. CASE x = e  BY <2>1, <2>2 DEF QueueOrdered
  <2>3. CASE x # e
    <3>1. queue'[x] = queue[x] /\ push'[x] = push[x]  BY <2>3
    <3> QED BY <2>1, <3>1 DEF Ordered, QueueOrdered
  <2> QED BY <2>2, <2>3
<1>4. TakenOrdered'
  <2>1. ASSUME NEW i \in 1 .. Len(Taken)
        PROVE  /\ Taken[i].msg.n <= sent'
               /\ \A x \in Sessions : Taken[i].via = x => \A w \in Waits(x)' : Taken[i].msg.n < w
               /\ \A j \in InUp' : Taken[i].msg.n < up'[j].body.n
    BY <1>1, <1>2 DEF Ordered, TakenOrdered
  <2> QED BY <1>1, <2>1 DEF TakenOrdered
<1>5. UpOrdered'  BY <1>1 DEF Ordered, UpOrdered
<1>6. InOrder'  BY InOrderStays DEF Ordered
<1> QED BY <1>3, <1>4, <1>5, <1>6 DEF Ordered

LEMMA OrderedTake ==
  ASSUME RxTyped, Ordered, NEW e \in Sessions, PushTake(e)
  PROVE  Ordered'
<1> DEFINE q == queue[e]
<1>0. /\ q \in Seq(Data) /\ Len(q) \in Nat /\ DOMAIN queue = Sessions /\ DOMAIN push = Sessions
      /\ \A i \in 1 .. Len(q) : q[i].n \in Waits(e)
  BY OrderTypes DEF RxTyped, PushTyped, Waits
<1>1. UNCHANGED <<up, sent, rxData, got>>  BY DEF PushTake, linkVars, drvVars, boxVars
<1>2. \A x \in Sessions : x # e => queue'[x] = queue[x] /\ push'[x] = push[x]
  BY <1>0 DEF PushTake
<1>3. CASE q = <<>>
  <2>1. queue' = queue /\ push'[e].st # "push"  BY <1>0, <1>3 DEF PushTake, Pusher
  <2>2. \A w \in Waits(e)' : w \in Waits(e)  BY <2>1 DEF Waits
  <2>3. \A i, j \in 1 .. Len(queue'[e]) : i < j => queue'[e][i].n < queue'[e][j].n
    BY <2>1 DEF Ordered, QueueOrdered
  <2> QED BY <1>1, <1>2, <2>1, <2>2, <2>3, OrderedSame
<1>4. CASE q # <<>>
  <2>1. queue'[e] = Tail(q) /\ push'[e].msg = Head(q)
    BY <1>0, <1>4 DEF PushTake
  <2> HIDE DEF q
  <2>2. /\ Head(q) = q[1] /\ 1 \in 1 .. Len(q)
        /\ \A i \in 1 .. Len(Tail(q)) : i + 1 \in 1 .. Len(q) /\ Tail(q)[i] = q[i + 1] /\ 1 < i + 1
    BY <1>0, <1>4
  <2>3. \A i, j \in 1 .. Len(q) : i < j => q[i].n < q[j].n  BY DEF Ordered, QueueOrdered, q
  <2>4. \A w \in Waits(e)' : w \in Waits(e)
    <3> SUFFICES ASSUME NEW w \in Waits(e)' PROVE w \in Waits(e)  OBVIOUS
    <3>1. w = push'[e].msg.n \/ \E i \in 1 .. Len(queue'[e]) : w = queue'[e][i].n  BY DEF Waits
    <3>2. w = q[1].n \/ \E i \in 1 .. Len(Tail(q)) : w = Tail(q)[i].n  BY <2>1, <2>2, <3>1
    <3> QED BY <1>0, <2>2, <3>2
  <2>5. \A i, j \in 1 .. Len(queue'[e]) : i < j => queue'[e][i].n < queue'[e][j].n
    <3>1. \A i, j \in 1 .. Len(Tail(q)) : i < j => i + 1 < j + 1  OBVIOUS
    <3> QED BY <2>1, <2>2, <2>3, <3>1
  <2>6. \A i \in 1 .. Len(queue'[e]) : push'[e].msg.n < queue'[e][i].n  BY <2>1, <2>2, <2>3
  <2> QED BY <1>1, <1>2, <2>4, <2>5, <2>6, OrderedSame
<1> QED BY <1>3, <1>4

\* A message gets into the channel's queue, or is dropped.
LEMMA OrderedPush ==
  ASSUME RxTyped, Ordered, NEW e \in Sessions, PushData(e)
  PROVE  Ordered'
<1>0. /\ DOMAIN queue = Sessions /\ DOMAIN push = Sessions /\ up \in Seq(RxUp)
      /\ got \in Seq(Held) /\ rxData \in Seq(Held)
  BY DEF RxTyped, PushTyped, DrvTyped, WireTyped
<1>1. /\ UNCHANGED <<up, sent, got, queue>> /\ push[e].st = "push"
      /\ push' = [push EXCEPT ![e] = Pusher("check")]
      /\ rxData' = rxData \/ rxData' = Append(rxData, Pushed(e))
  BY DEF PushData, linkVars, boxVars
<1>2. push'[e].st = "check" /\ \A x \in Sessions : x # e => push'[x] = push[x]
  BY <1>0, <1>1 DEF Pusher
<1>3. CASE rxData' = rxData
  <2>1. UpLess  BY <1>0, <1>1, UpLessOf
  <2>2. Begins(Taken', Taken)  BY <1>1, <1>3 DEF Begins, Taken
  <2> QED BY <1>1, <1>2, <2>1, <2>2, OrderedLess
<1>4. CASE rxData' = Append(rxData, Pushed(e))
  <2> DEFINE x == push[e].msg
             n == Len(Taken)
  <2>0. Pushed(e) \in Held  BY <1>1 DEF Pushed, Held, RxTyped, PushTyped
  <2>1. n \in Nat /\ x.n \in Nat /\ x.n \in Waits(e)  BY <1>1, OrderTypes DEF Waits
  <2>2. /\ Len(Taken') = n + 1 /\ Taken'[n + 1].msg = x /\ Taken'[n + 1].via = e
        /\ \A i \in 1 .. n : Taken'[i] = Taken[i]
    <3>1. Append(rxData, Pushed(e)) \in Seq(Held) /\ Taken \in Seq(Held)
      BY <2>0, <1>0, ConcatFacts, AppendProperties DEF Taken
    <3>2. Taken' = Append(Taken, Pushed(e))
      <4>1. Taken' = got \o Append(rxData, Pushed(e))  BY <1>1, <1>4 DEF Taken
      <4>2. got \o Append(rxData, Pushed(e)) = Append(got \o rxData, Pushed(e))
        BY <1>0, <2>0
      <4> QED BY <4>1, <4>2 DEF Taken
    <3>3. Len(Taken') = n + 1 /\ Taken'[n + 1] = Pushed(e) /\ \A i \in 1 .. n : Taken'[i] = Taken[i]
      BY <2>0, <3>1, <3>2, AppendProperties
    <3> QED BY <3>3 DEF Pushed
  <2> HIDE DEF x, n
  <2>3. InUp' = InUp  BY <1>1 DEF InUp
  <2>4. UpOrdered'  BY <1>1, <2>3 DEF Ordered, UpOrdered
  <2>5. ASSUME NEW y \in Sessions PROVE \A w \in Waits(y)' : w \in Waits(y)
    <3>1. CASE y # e
      <4>1. push'[y] = push[y]  BY <1>2, <3>1
      <4> QED BY <1>1, <4>1 DEF Waits
    <3>2. CASE y = e  BY <1>1, <1>2, <3>2 DEF Waits
    <3> QED BY <3>1, <3>2
  <2>6. ASSUME NEW y \in Sessions PROVE QueueOrdered(y)'
    <3>1. \A w \in Waits(y)' : w <= sent' /\ \A i \in InUp' : w < up'[i].body.n
      BY <1>1, <2>3, <2>5 DEF Ordered, QueueOrdered
    <3>2. push'[y].st = "push" => push'[y] = push[y]  BY <1>2
    <3> QED BY <1>1, <3>1, <3>2 DEF Ordered, QueueOrdered
  <2>7. \A w \in Waits(e)' : x.n < w
    <3>1. \A i \in 1 .. Len(queue[e]) : x.n < queue[e][i].n  BY <1>1 DEF Ordered, QueueOrdered, x
    <3> QED BY <1>1, <1>2, <3>1 DEF Waits
  <2>8. x.n <= sent /\ \A i \in InUp : x.n < up[i].body.n  BY <2>1 DEF Ordered, QueueOrdered
  <2>9. TakenOrdered'
    <3>1. ASSUME NEW i \in 1 .. Len(Taken')
          PROVE  /\ Taken'[i].msg.n <= sent'
                 /\ \A y \in Sessions : Taken'[i].via = y => \A w \in Waits(y)' : Taken'[i].msg.n < w
                 /\ \A j \in InUp' : Taken'[i].msg.n < up'[j].body.n
      <4>1. CASE i = n + 1  BY <4>1, <1>1, <2>2, <2>3, <2>7, <2>8
      <4>2. CASE i \in 1 .. n
        <5>1. /\ Taken[i].msg.n <= sent
              /\ \A y \in Sessions : Taken[i].via = y => \A w \in Waits(y) : Taken[i].msg.n < w
              /\ \A j \in InUp : Taken[i].msg.n < up[j].body.n
          BY <4>2 DEF Ordered, TakenOrdered, n
        <5> QED BY <4>2, <5>1, <1>1, <2>2, <2>3, <2>5
      <4> QED BY <4>1, <4>2, <2>1, <2>2
    <3> QED BY <3>1 DEF TakenOrdered
  <2>10. InOrder'
    <3>1. ASSUME NEW i \in 1 .. Len(Taken'), NEW j \in 1 .. Len(Taken'), i < j, Taken'[i].via = Taken'[j].via
          PROVE  Taken'[i].msg.n < Taken'[j].msg.n
      <4>1. i \in 1 .. n  BY <3>1, <2>1, <2>2
      <4>2. CASE j = n + 1
        <5>1. Taken[i].via = e  BY <3>1, <4>1, <4>2, <2>2
        <5>2. Taken[i].msg.n < x.n  BY <4>1, <5>1, <2>1 DEF Ordered, TakenOrdered, n
        <5> QED BY <5>2, <4>1, <4>2, <2>2
      <4>3. CASE j \in 1 .. n
        <5>1. Taken[i].msg.n < Taken[j].msg.n
          BY <3>1, <4>1, <4>3, <2>2 DEF Ordered, InOrder, Taken, n
        <5> QED BY <5>1, <4>1, <4>3, <2>2
      <4> QED BY <4>2, <4>3, <2>1, <2>2
    <3> QED BY <3>1 DEF InOrder, Taken
  <2> QED BY <2>4, <2>6, <2>9, <2>10 DEF Ordered
<1> QED BY <1>1, <1>3, <1>4

\* The device receives a message.
LEMMA OrderedReceives ==
  ASSUME RxTyped, Ordered, DevReceives
  PROVE  Ordered'
<1> DEFINE m == [kind |-> "async", id |-> 0, serial |-> 0,
                 body |-> [status |-> "data", conn |-> dev, n |-> sent + 1]]
<1>0. up \in Seq(RxUp) /\ Len(up) \in Nat /\ sent \in Nat  BY OrderTypes
<1>1. UNCHANGED <<drvVars, pushVars>> /\ sent' = sent + 1 /\ up' = Append(up, m)
  BY DEF DevReceives, FwEmit
<1>2. m.kind = "async" /\ m.body.n = sent + 1  OBVIOUS
<1> HIDE DEF m
<1>3. Len(up') = Len(up) + 1 /\ up'[Len(up) + 1] = m /\ \A i \in 1 .. Len(up) : up'[i] = up[i]
  BY <1>0, <1>1
<1>4. ASSUME NEW i \in InUp' PROVE \/ i \in InUp /\ up'[i] = up[i]
                                   \/ i = Len(up) + 1 /\ up'[i].body.n = sent + 1
  <2>1. i \in 1 .. Len(up') /\ up'[i].kind = "async"  BY DEF InUp
  <2>2. i \in 1 .. Len(up) \/ i = Len(up) + 1  BY <2>1, <1>0, <1>3
  <2> QED BY <2>1, <2>2, <1>2, <1>3 DEF InUp
<1>5. \A i \in InUp : i < Len(up) + 1 /\ up[i].body.n \in Nat /\ up[i].body.n <= sent
  BY <1>0, OrderTypes DEF Ordered, UpOrdered
<1>6. UpOrdered'
  <2>1. ASSUME NEW i \in InUp', NEW j \in InUp', i < j PROVE up'[i].body.n < up'[j].body.n
    <3>1. i \in InUp /\ up'[i] = up[i]
      <4>1. j \in 1 .. Len(up')  BY DEF InUp
      <4> QED BY <4>1, <1>0, <1>3, <1>4, <2>1
    <3>2. CASE j \in InUp /\ up'[j] = up[j]  BY <2>1, <3>1, <3>2 DEF Ordered, UpOrdered
    <3>3. CASE up'[j].body.n = sent + 1  BY <1>0, <1>5, <3>1, <3>3
    <3> QED BY <1>4, <3>2, <3>3
  <2>2. \A i \in InUp' : up'[i].body.n <= sent'
    <3> TAKE i \in InUp'
    <3>1. CASE i \in InUp /\ up'[i] = up[i]
      <4>1. up'[i].body.n \in Nat /\ up'[i].body.n <= sent  BY <1>5, <3>1
      <4>2. \A v \in Nat : v <= sent => v <= sent'  BY <1>0, <1>1
      <4> QED BY <4>1, <4>2
    <3>2. CASE up'[i].body.n = sent + 1  BY <3>2, <1>0, <1>1
    <3> QED BY <1>4, <3>1, <3>2
  <2> QED BY <2>1, <2>2 DEF UpOrdered
<1>7. ASSUME NEW w \in Nat, w <= sent, \A i \in InUp : w < up[i].body.n
      PROVE  w <= sent' /\ \A i \in InUp' : w < up'[i].body.n
  <2>1. w <= sent' /\ w < sent + 1  BY <1>0, <1>1, <1>7
  <2> QED BY <2>1, <1>4, <1>7
<1>8. Taken' = Taken /\ queue' = queue /\ push' = push  BY <1>1 DEF drvVars, pushVars, Taken
<1>9. \A e \in Sessions : Waits(e)' = Waits(e)  BY <1>8 DEF Waits
<1>10. ASSUME NEW e \in Sessions PROVE QueueOrdered(e)'
  <2>1. \A w \in Waits(e) : w <= sent' /\ \A i \in InUp' : w < up'[i].body.n
    BY <1>7, OrderTypes DEF Ordered, QueueOrdered
  <2> QED BY <1>8, <1>9, <2>1 DEF Ordered, QueueOrdered
<1>11. TakenOrdered'
  <2>1. ASSUME NEW i \in 1 .. Len(Taken)
        PROVE  /\ Taken[i].msg.n <= sent' /\ \A j \in InUp' : Taken[i].msg.n < up'[j].body.n
               /\ \A e \in Sessions : Taken[i].via = e => \A w \in Waits(e)' : Taken[i].msg.n < w
    <3>1. /\ Taken[i].msg.n <= sent
          /\ \A e \in Sessions : Taken[i].via = e => \A w \in Waits(e) : Taken[i].msg.n < w
          /\ \A j \in InUp : Taken[i].msg.n < up[j].body.n
      BY DEF Ordered, TakenOrdered
    <3>2. Taken[i].msg.n \in Nat  BY OrderTypes
    <3> QED BY <1>7, <1>9, <3>1, <3>2
  <2> QED BY <1>8, <2>1 DEF TakenOrdered
<1>12. InOrder'
  <2>1. got' = got /\ rxData' = rxData  BY <1>1 DEF drvVars
  <2>2. InOrder  BY DEF Ordered
  <2> QED BY <2>1, <2>2, InOrderStays
<1> QED BY <1>6, <1>10, <1>11, <1>12 DEF Ordered

LEMMA TakenBegins ==
  ASSUME RxTyped, DataMoves
  PROVE  Begins(Taken', Taken)
<1>0. got \in Seq(Held) /\ rxData \in Seq(Held)  BY DEF RxTyped, DrvTyped
<1>1. Taken \in Seq(Held)  BY OrderTypes
<1>2. CASE UNCHANGED <<rxData, got>>  BY <1>2 DEF Taken, Begins
<1>3. CASE rxData' = <<>> /\ got' = got
  <2>1. Taken' = got  BY <1>0, <1>3 DEF Taken
  <2>2. /\ \A i \in 1 .. Len(got) : Taken[i] = got[i]
        /\ Len(Taken) = Len(got) + Len(rxData) /\ Len(got) \in Nat /\ Len(rxData) \in Nat
    BY <1>0, ConcatFacts DEF Taken
  <2> QED BY <2>1, <2>2 DEF Begins
<1>4. CASE rxData # <<>> /\ rxData' = Tail(rxData) /\ got' = Append(got, Head(rxData))
  <2>1. Taken' = Taken  BY <1>0, <1>4, ThinMove DEF Taken
  <2> QED BY <2>1 DEF Begins
<1> QED BY <1>2, <1>3, <1>4 DEF DataMoves

LEMMA OrderedStep ==
  ASSUME IInv, RxTyped, Ordered, [RxNext]_rxVars
  PROVE  Ordered'
<1>0. DOMAIN push = Sessions /\ DOMAIN queue = Sessions /\ epoch \in Nat
  BY DEF RxTyped, PushTyped, IInv, Scalars
<1>1. CASE \E e \in Sessions : PushTake(e)  BY <1>1, OrderedTake
<1>2. CASE \E e \in Sessions : PushData(e)  BY <1>2, OrderedPush
<1>3. CASE DevReceives  BY <1>3, OrderedReceives
<1>4. CASE Read /\ queue' # queue
  <2>1. /\ up # <<>> /\ up' = Tail(up) /\ Head(up).kind = "async"
        /\ queue' = [queue EXCEPT ![epoch] = Append(@, Head(up).body)]
        /\ UNCHANGED <<push, rxData, got, sent>>
    BY <1>4 DEF Read, ReaderTake, drvVars, boxVars
  <2>2. epoch \in Sessions
    <3>1. epoch \notin Sessions => queue' = queue
      <4> DEFINE x == Append(queue[epoch], Head(up).body)
      <4>1. queue' = [queue EXCEPT ![epoch] = x] /\ queue \in [Sessions -> Seq(Data)]
        BY <2>1 DEF RxTyped, PushTyped
      <4> HIDE DEF x
      <4> QED BY <4>1
    <3> QED BY <3>1, <1>4
  <2> QED BY <2>1, <2>2, OrderedRead
<1>5. CASE /\ \A e \in Sessions : ~PushTake(e) /\ ~PushData(e)
           /\ ~DevReceives /\ ~(Read /\ queue' # queue)
  <2>1. sent' = sent /\ UpLess  BY <1>5, UpCases
  <2>2. Begins(Taken', Taken)  BY <1>5, DataCases, TakenBegins
  <2>3. \A e \in Sessions : /\ queue'[e] = queue[e] \/ queue'[e] = <<>>
                            /\ push'[e].st = "push" => push'[e] = push[e]
    <3> TAKE e \in Sessions
    <3>1. CASE UNCHANGED pushVars  BY <3>1 DEF pushVars
    <3>2. CASE OpenSession
      <4>1. queue' = queue /\ push' = [push EXCEPT ![epoch + 1] = Pusher("check")]
        BY <3>2 DEF OpenSession
      <4> QED BY <4>1, <1>0 DEF Pusher
    <3>3. CASE Read  BY <1>5, <3>3 DEF Read
    <3>4. ASSUME NEW x \in Sessions, PushCheck(x)
          PROVE  /\ queue'[e] = queue[e] \/ queue'[e] = <<>>
                 /\ push'[e].st = "push" => push'[e] = push[e]
      <4>1. /\ queue' = queue \/ queue' = [queue EXCEPT ![x] = <<>>]
            /\ \E st \in {"take", "off"} : push' = [push EXCEPT ![x] = Pusher(st)]
        BY <3>4 DEF PushCheck
      <4> QED BY <4>1, <1>0 DEF Pusher
    <3> QED BY <1>5, PushCases, <3>1, <3>2, <3>3, <3>4 DEF PushMoves
  <2> QED BY <2>1, <2>2, <2>3, OrderedLess
<1> QED BY <1>1, <1>2, <1>3, <1>4, <1>5
-----------------------------------------------------------------------------
(* Commands on their way down, and the calls they belong to *)

\* The commands with body b, those without an id, those of the call with id k, those
\* of other calls, and what has id k but is not its command b.
Cmds(b)  == {m \in DownMsg : m.kind = "cmd" /\ m.body = b}
Bare     == {m \in DownMsg : m.kind = "cmd" /\ m.id = 0}
Own(k)   == {m \in DownMsg : m.kind = "cmd" /\ m.id = k}
Other(k) == {m \in DownMsg : m.kind = "cmd" /\ m.id # k}
Strange(k, b) == {m \in DownMsg : m.id = k /\ ~(m.kind = "cmd" /\ m.body = b)}

\* Only SendOp adds to the queue.
LEMMA RxQueued ==
  ASSUME txQueue \in Seq(DownMsg), RxNext, NEW m, txQueue' = Append(txQueue, m)
  PROVE  \E t \in Callers : SendOp(t) /\ writer # "off" /\ m = Cmd(call[t].id, call[t].serial, op[t])
<1>1. Append(txQueue, m) # txQueue /\ Append(txQueue, m) # <<>>
      /\ (txQueue # <<>> => Append(txQueue, m) # Tail(txQueue))
  <2>1. Len(Append(txQueue, m)) = Len(txQueue) + 1 /\ Len(txQueue) \in Nat  OBVIOUS
  <2>2. txQueue # <<>> => Len(Tail(txQueue)) = Len(txQueue) - 1  OBVIOUS
  <2> QED BY <2>1, <2>2
<1>2. ASSUME NEW t \in Callers, SendOp(t)
      PROVE  writer # "off" /\ m = Cmd(call[t].id, call[t].serial, op[t])
  <2>1. writer # "off" /\ txQueue' = Append(txQueue, Cmd(call[t].id, call[t].serial, op[t]))
    BY <1>1, <1>2 DEF SendOp, Send
  <2> DEFINE c == Cmd(call[t].id, call[t].serial, op[t])
  <2> HIDE DEF c
  <2>2. Append(txQueue, m)[Len(txQueue) + 1] = m /\ Append(txQueue, c)[Len(txQueue) + 1] = c  OBVIOUS
  <2>3. txQueue' = Append(txQueue, c)  BY <2>1 DEF c
  <2> QED BY <2>1, <2>2, <2>3 DEF c
<1>3. OpenSession => txQueue' = <<>>  BY DEF OpenSession, OpenStart
<1>4. CASE Alone
  <2>1. txQueue' = txQueue \/ (txQueue # <<>> /\ txQueue' = Tail(txQueue))
    BY <1>4 DEF Alone, ReaderHello, OpenDone, ReaderExit, WriterCheck, WriterSend, WriterDrained
  <2> QED BY <1>1, <2>1
<1>5. CloseDevice \/ Read \/ DevCommand \/ DevStatus \/ DevRestart \/ DevReceives => txQueue' = txQueue
  BY DEF CloseDevice, Close, Read, ReaderTake, DevCommand, DevOpen, DevClose, DevStatus, DevRestart,
         DevReceives, FwHandle, FwStatus, FwRestart, Restart, FwEmit, hostVars
<1>6. ASSUME NEW e \in Sessions, PushCheck(e) \/ PushTake(e) \/ PushData(e) PROVE txQueue' = txQueue
  BY <1>6 DEF PushCheck, PushTake, PushData, linkVars, hostVars
<1>7. ASSUME NEW t \in Callers, Connect(t) \/ Disconnect(t) \/ Complete(t) \/ GiveUp(t)
      PROVE  txQueue' = txQueue
  BY <1>7 DEF Connect, Disconnect, Complete, GiveUp, GetId, Receive, Timeout
<1>8. ASSUME NEW t \in Readers, ReadCheck(t) \/ ReadPop(t) \/ ClearRx(t) PROVE txQueue' = txQueue
  BY <1>8 DEF ReadCheck, ReadPop, ClearRx, linkVars, hostVars
<1> QED BY <1>1, <1>2, <1>3, <1>4, <1>5, <1>6, <1>7, <1>8 DEF RxNext

\* No command goes without an id.
NoBare == down \in Seq(DownMsg \ Bare) /\ txQueue \in Seq(DownMsg \ Bare)

LEMMA NoBareStep ==
  ASSUME IInv, RxTyped, NoBare, [RxNext]_rxVars
  PROVE  NoBare'
<1>1. CASE UNCHANGED linkVars  BY <1>1 DEF linkVars, hostVars, NoBare
<1>2. CASE RxNext /\ LinkNext
  <2> DEFINE S == DownMsg \ Bare
  <2>1. \A k \in {"hello", "goodbye"} : StatusMsg(k) \in S
    <3> TAKE k \in {"hello", "goodbye"}
    <3>1. StatusMsg(k) \in TaggedDown /\ StatusMsg(k).kind = k
      BY StatusTagged DEF IInv, Scalars, StatusMsg
    <3> QED BY <3>1 DEF Bare, TaggedDown
  <2>2. \A m : txQueue' = Append(txQueue, m) => m \in S
    <3> SUFFICES ASSUME NEW m, txQueue' = Append(txQueue, m) PROVE m \in S  OBVIOUS
    <3>1. PICK t \in Callers : SendOp(t) /\ m = Cmd(call[t].id, call[t].serial, op[t])
      BY <1>2, DownFacts, RxQueued
    <3>2. op[t] \in Bodies  BY <3>1, RxAssumption DEF SendOp, RxTyped, DrvTyped
    <3>3. m \in DownMsg  BY <3>1, <3>2, CmdTyped
    <3>4. call[t].id # 0  BY <3>1 DEF SendOp, Send, IInv, IdsCarried
    <3>5. m.id = call[t].id  BY <3>1 DEF Cmd
    <3> QED BY <3>3, <3>4, <3>5 DEF Bare
  <2>3. down \in Seq(S) /\ txQueue \in Seq(S)  BY DEF NoBare
  <2> HIDE DEF S
  <2>4. down' \in Seq(S) /\ txQueue' \in Seq(S)  BY <1>2, <2>1, <2>2, <2>3, DownKeeps
  <2> QED BY <2>4 DEF S, NoBare
<1> QED BY <1>1, <1>2, RxLink DEF rxVars

\* What a step does to the calls that wait.
LEMMA RxWaiting ==
  ASSUME IInv, RxTyped, [RxNext]_rxVars, NEW t \in Callers, call'[t].st = "waiting"
  PROVE  \/ call'[t] = call[t] /\ op'[t] = op[t]
         \/ SendOp(t) /\ call[t].st = "ready" /\ writer # "off" /\ op' = op /\ call'[t].id = call[t].id
<1>0. call \in [Callers -> Call] /\ op \in [Callers -> {"none", "open", "close"}]
  BY DEF IInv, Scalars, RxTyped, DrvTyped
<1>i. Idle.st = "idle"  BY DEF Idle
<1>1. CASE UNCHANGED <<call, op>>  BY <1>1
<1>2. OpenSession \/ CloseDevice \/ Read \/ Alone => UNCHANGED <<call, op>>
  BY DEF OpenSession, CloseDevice, Read, Alone, OpenStart, Close, ReaderTake, ReaderHello, OpenDone,
         ReaderExit, WriterCheck, WriterSend, WriterDrained, drvVars
<1>3. ASSUME NEW e \in Sessions, PushCheck(e) \/ PushTake(e) \/ PushData(e) PROVE UNCHANGED <<call, op>>
  BY <1>3 DEF PushCheck, PushTake, PushData, linkVars, hostVars, drvVars
<1>4. ASSUME NEW u \in Callers, Connect(u) \/ Disconnect(u)
      PROVE  call'[t] = call[t] /\ op'[t] = op[t]
  <2>1. /\ call' = [call EXCEPT ![u] = [st |-> "ready", id |-> NextId(msgId), serial |-> calls + 1]]
        /\ \E c \in {"open", "close"} : op' = [op EXCEPT ![u] = c]
    BY <1>4 DEF Connect, Disconnect, GetId, Enters
  <2>2. u # t  BY <1>0, <2>1
  <2> QED BY <1>0, <2>1, <2>2
<1>5. ASSUME NEW u \in Callers, Complete(u) \/ GiveUp(u)
      PROVE  call'[t] = call[t] /\ op'[t] = op[t]
  <2>1. call' = [call EXCEPT ![u] = Idle] /\ op' = [op EXCEPT ![u] = "none"]
    BY <1>5 DEF Complete, GiveUp, Receive, Timeout, Finish, Leaves
  <2>2. u # t  BY <1>0, <1>i, <2>1
  <2> QED BY <1>0, <2>1, <2>2
<1>6. ASSUME NEW u \in Callers, SendOp(u)
      PROVE  \/ call'[t] = call[t] /\ op'[t] = op[t]
             \/ SendOp(t) /\ call[t].st = "ready" /\ writer # "off" /\ op' = op /\ call'[t].id = call[t].id
  <2>1. /\ call[u].st = "ready"
        /\ \/ writer # "off" /\ op' = op /\ call' = [call EXCEPT ![u].st = "waiting"]
           \/ op' = [op EXCEPT ![u] = "none"] /\ call' = [call EXCEPT ![u] = Idle]
    BY <1>6 DEF SendOp, Send, Leaves
  <2>2. CASE u # t  BY <1>0, <2>1, <2>2
  <2>3. CASE u = t  BY <1>0, <1>6, <1>i, <2>1, <2>3 DEF Call
  <2> QED BY <2>2, <2>3
<1>7. ASSUME NEW u \in Readers, ReadCheck(u) \/ ReadPop(u) \/ ClearRx(u) PROVE UNCHANGED <<call, op>>
  BY <1>7 DEF ReadCheck, ReadPop, ClearRx, linkVars, hostVars
<1>8. DevCommand \/ DevStatus \/ DevRestart \/ DevReceives => UNCHANGED <<call, op>>
  BY DEF DevCommand, DevOpen, DevClose, DevStatus, DevRestart, DevReceives, FwHandle, FwStatus, FwRestart,
         Restart, FwEmit, hostVars, drvVars
<1>9. UNCHANGED rxVars => UNCHANGED <<call, op>>  BY DEF rxVars, linkVars, hostVars, drvVars
<1> QED BY <1>1, <1>2, <1>3, <1>4, <1>5, <1>6, <1>7, <1>8, <1>9 DEF RxNext

\* In a session nothing new is on the way down unless a command is sent.
LEMMA RxPathStep ==
  ASSUME OInv, UpRunning, RxTyped, [RxNext]_rxVars, session = "up", session' = "up",
         \A u \in Callers : ~SendOp(u)
  PROVE  /\ Thinned(Path', Path)
         /\ DevCommand => Path # <<>> /\ Thinned(Path', Tail(Path))
<1>0. IInv /\ BoxTyped  BY DEF OInv, RxTyped
<1>1. CASE UNCHANGED rxVars /\ ~RxNext
  <2>1. Path' = Path  BY <1>1 DEF rxVars, linkVars, hostVars, Path
  <2>2. Thinned(Path, Path)  BY <1>0, PathTyped, ThinSame
  <2> QED BY <1>1, <2>1, <2>2 DEF RxNext
<1>2. CASE RxNext /\ LinkNext
  <2>1. \A m : ~Added(m)  BY <1>0, <1>2, DownFacts, RxQueued DEF Added
  <2>2. Thinned(Path', Path) /\ (FwStatus \/ FwCommand => Path # <<>> /\ Thinned(Path', Tail(Path)))
    BY <1>2, <2>1, PathStep
  <2> QED BY <1>0, <2>2, DevCommandLink
<1>3. CASE RxNext /\ UNCHANGED linkVars
  <2>1. Path' = Path  BY <1>3 DEF linkVars, hostVars, Path
  <2>2. Thinned(Path, Path)  BY <1>0, PathTyped, ThinSame
  <2>3. ~DevCommand
    <3>1. DevCommand => down # <<>> /\ down' = Tail(down)
      BY DEF DevCommand, DevOpen, DevClose, FwHandle
    <3>2. down \in Seq(DownMsg)  BY <1>0, DownFacts
    <3>3. down # <<>> => Tail(down) # down
      <4>1. down # <<>> => Len(Tail(down)) = Len(down) - 1 /\ Len(down) \in Nat  BY <3>2
      <4> QED BY <4>1
    <3> QED BY <1>3, <3>1, <3>3 DEF linkVars
  <2> QED BY <2>1, <2>2, <2>3
<1> QED BY <1>1, <1>2, <1>3, RxLink

\* The command of a call that waits says what its thread is inside, and no command
\* is behind it.
Sole ==
  \A t \in Callers : call[t].st = "waiting" =>
    Free(Path, Strange(call[t].id, op[t])) /\ Behind(Path, Own(call[t].id), Other(call[t].id))

\* A call that waits and goes on waiting, in a session that goes on.
LEMMA RxGoesOn ==
  ASSUME OInv, RxTyped, OneInside, [RxNext]_rxVars, NEW t \in Callers,
         call[t].st = "waiting", call'[t] = call[t]
  PROVE  /\ session = "up" /\ session' = "up" /\ ~chan /\ op[t] # "none" /\ ~LockFree
         /\ \A u \in Callers : ~SendOp(u) /\ ~Complete(u) /\ ~GiveUp(u) /\ ~Connect(u) /\ ~Disconnect(u)
         /\ ~OpenSession /\ ~CloseDevice
         /\ \A e \in Sessions : ~PushData(e)
         /\ \A u \in Readers : ~ReadPop(u) /\ ~ClearRx(u)
<1>0. call \in [Callers -> Call] /\ op[t] # "none" /\ ~chan  BY DEF OInv, IInv, Scalars, OneInside
<1>i. Idle.st = "idle"  BY DEF Idle
<1>1. session = "up"  BY DEF OInv, InSession
<1>2. ~LockFree  BY <1>0 DEF LockFree
<1>3. ASSUME NEW u \in Callers
      PROVE  ~SendOp(u) /\ ~Complete(u) /\ ~GiveUp(u) /\ ~Connect(u) /\ ~Disconnect(u)
  <2>1. ~Connect(u) /\ ~Disconnect(u)  BY <1>2 DEF Connect, Disconnect
  <2>2. SendOp(u) => u = t /\ call[u].st = "ready"  BY <1>0 DEF SendOp, Send, OneInside
  <2>3. Complete(u) \/ GiveUp(u) => call[u].st = "waiting" /\ call' = [call EXCEPT ![u] = Idle]
    BY DEF Complete, GiveUp, Receive, Timeout
  <2>4. Complete(u) \/ GiveUp(u) => u = t  BY <2>3, <1>0 DEF OneInside
  <2>5. call'[t].st # "idle"  OBVIOUS
  <2> QED BY <1>0, <1>i, <2>1, <2>2, <2>3, <2>4, <2>5
<1>4. ~OpenSession /\ ~CloseDevice  BY <1>1, <1>2 DEF OpenSession, OpenStart, CloseDevice
<1>5. (\A e \in Sessions : ~PushData(e)) /\ \A u \in Readers : ~ReadPop(u) /\ ~ClearRx(u)
  BY <1>2 DEF PushData, ReadPop, ClearRx
<1>6. session' = "up"
  <2>1. CASE UNCHANGED session  BY <1>1, <2>1
  <2>2. Read \/ Alone => session' = session
    BY <1>1 DEF Read, ReaderTake, Alone, ReaderHello, OpenDone, ReaderExit, WriterCheck, WriterSend, WriterDrained
  <2>3. ASSUME NEW e \in Sessions, PushCheck(e) \/ PushTake(e) PROVE session' = session
    BY <2>3 DEF PushCheck, PushTake, linkVars, hostVars
  <2>4. ASSUME NEW u \in Readers, ReadCheck(u) PROVE session' = session
    BY <2>4 DEF ReadCheck, linkVars, hostVars
  <2>5. DevCommand \/ DevStatus \/ DevRestart \/ DevReceives => session' = session
    BY DEF DevCommand, DevOpen, DevClose, DevStatus, DevRestart, DevReceives, FwHandle, FwStatus, FwRestart,
           Restart, FwEmit, hostVars
  <2>6. UNCHANGED rxVars => session' = session  BY DEF rxVars, linkVars, hostVars
  <2> QED BY <1>3, <1>4, <1>5, <2>1, <2>2, <2>3, <2>4, <2>5, <2>6 DEF RxNext
<1> QED BY <1>0, <1>1, <1>2, <1>3, <1>4, <1>5, <1>6

LEMMA SoleStep ==
  ASSUME OInv, OInv', UpRunning, IdsApart, RxTyped, OneInside, Sole, [RxNext]_rxVars
  PROVE  Sole'
<1>0. IInv /\ Path \in Seq(DownMsg)  BY PathTyped DEF OInv
<1>p. Path' \in Seq(DownMsg)
  <2>1. (IInv => Path \in Seq(DownMsg))'  BY PathTyped, PTL
  <2> QED BY <2>1 DEF OInv
<1> SUFFICES ASSUME NEW t \in Callers, call'[t].st = "waiting"
             PROVE  /\ Free(Path', Strange(call'[t].id, op'[t]))
                    /\ Behind(Path', Own(call'[t].id), Other(call'[t].id))
  BY DEF Sole, Free, Behind, Strange, Own, Other
<1>1. CASE call'[t] = call[t] /\ op'[t] = op[t]
  <2> PICK k : k = call[t].id  OBVIOUS
  <2> PICK b : b = op[t]  OBVIOUS
  <2>1. Thinned(Path', Path)  BY <1>1, RxGoesOn, RxPathStep
  <2>2. Free(Path, Strange(k, b)) /\ Behind(Path, Own(k), Other(k))  BY <1>1 DEF Sole
  <2>3. Free(Path', Strange(k, b)) /\ Behind(Path', Own(k), Other(k))
    BY <1>0, <1>p, <2>1, <2>2, ThinOrder
  <2> QED BY <1>1, <2>3
<1>2. CASE SendOp(t) /\ call[t].st = "ready" /\ writer # "off" /\ op' = op /\ call'[t].id = call[t].id
  <2> PICK k : k = call[t].id  OBVIOUS
  <2> PICK b : b = op[t]  OBVIOUS
  <2> PICK m : m = Cmd(call[t].id, call[t].serial, op[t])  OBVIOUS
  <2>1. txQueue' = Append(txQueue, m) /\ down' = down  BY <1>2 DEF SendOp, Send
  <2>2. op[t] \in Bodies  BY <1>2, RxAssumption DEF SendOp, RxTyped, DrvTyped
  <2>3. m \in DownMsg /\ m.kind = "cmd" /\ m.id = k /\ m.body = b  BY <1>0, <2>2, CmdTyped DEF Cmd
  <2>4. Path' = Append(Path, m)  BY <1>0, <2>1, <2>3, QueuedAdds DEF Added
  <2>5. \A i \in 1 .. Len(Path) : Path[i].id # k  BY <1>2 DEF IdsApart, NotIn
  <2>6. Free(Path, Strange(k, b)) /\ Free(Path, Own(k))  BY <2>5 DEF Free, Strange, Own
  <2>7. m \notin Strange(k, b) /\ m \notin Other(k)  BY <2>3 DEF Strange, Other
  <2>8. Free(Path', Strange(k, b)) /\ Behind(Path', Own(k), Other(k))
    BY <1>0, <2>3, <2>4, <2>6, <2>7, AppendOrder, LastOrder
  <2> QED BY <1>2, <2>8
<1> QED BY <1>0, <1>1, <1>2, RxWaiting
-----------------------------------------------------------------------------
(* The connection of the device *)

\* Connection c was the last the device opened, nothing is on its way that could open
\* another, and the data from place i on is its own.
Latest(c, i) ==
  /\ c \in 1 .. conns /\ dev \in {0, c} /\ Free(Path, Cmds("open"))
  /\ \A j \in i .. Len(up) : up[j].kind = "async" => up[j].body.conn = c

\* As long as the device has the connection, its messages are there, or in R.
Kept(c, i, R) ==
  dev = c => \A n \in before + 1 .. sent : (\E j \in i .. Len(up) : up[j].body.n = n) \/ n \in R

\* Nothing is opened as long as no command to open is on its way.
LEMMA LatestCommand ==
  ASSUME IInv, RxTyped, NEW c, NEW i, Latest(c, i), DevCommand
  PROVE  Head(down).body = "close" /\ dev' = 0 /\ UNCHANGED <<conns, before>>
<1>1. down # <<>> /\ Head(down).kind = "cmd" /\ Head(down).body \in {"open", "close"}
      /\ (Head(down).body = "close" => dev' = 0 /\ UNCHANGED <<conns, before>>)
  BY DevAnswers DEF RxTyped
<1>2. Path \in Seq(DownMsg) /\ Path # <<>> /\ Head(Path) = Head(down)  BY <1>1, PathTyped, PathHead
<1>3. Head(Path) \notin Cmds("open") /\ Head(Path) \in DownMsg  BY <1>2, HeadOrder, SeqFacts DEF Latest
<1> QED BY <1>1, <1>2, <1>3 DEF Cmds

\* Every step but the reader thread's keeps what is known of the connection.
LEMMA LatestStep ==
  ASSUME OInv, OInv', UpRunning, RxTyped, [RxNext]_rxVars, session = "up", session' = "up",
         \A u \in Callers : ~SendOp(u), ~Read,
         NEW c, NEW i \in 1 .. Len(up) + 1, Latest(c, i), NEW R
  PROVE  Latest(c, i)' /\ (Kept(c, i, R) => Kept(c, i, R)')
<1>0. IInv /\ Path \in Seq(DownMsg) /\ up \in Seq(RxUp) /\ Len(up) \in Nat
  BY PathTyped DEF OInv, RxTyped, WireTyped
<1>n. sent \in Nat /\ conns \in Nat /\ before \in Nat
  BY RxAssumption, LinkAssumption DEF RxTyped, BoxTyped
<1>p. Path' \in Seq(DownMsg)
  <2>1. (IInv => Path \in Seq(DownMsg))'  BY PathTyped, PTL
  <2> QED BY <2>1 DEF OInv
<1>1. Free(Path', Cmds("open"))
  <2>1. Free(Path, Cmds("open"))  BY DEF Latest
  <2>2. Thinned(Path', Path)  BY RxPathStep
  <2> QED BY <1>0, <1>p, <2>1, <2>2, ThinOrder
<1>2. CASE up' = up /\ sent' = sent /\ UNCHANGED <<conns, before>> /\ dev' \in {0, dev}
  BY <1>1, <1>2, <1>n DEF Latest, Kept
<1>3. CASE DevCommand
  <2>1. dev' = 0 /\ conns' = conns  BY <1>0, <1>3, LatestCommand
  <2>2. PICK w \in Seq(RxUp) : up' = up \o w /\ \A j \in 1 .. Len(w) : w[j].kind = "reply"
    BY <1>0, <1>3, DevAnswers DEF RxTyped
  <2>3. /\ Len(up') = Len(up) + Len(w) /\ Len(w) \in Nat
        /\ \A j \in 1 .. Len(up) : up'[j] = up[j]
        /\ \A j \in Len(up) + 1 .. Len(up') : up'[j] = w[j - Len(up)] /\ j - Len(up) \in 1 .. Len(w)
    BY <1>0, <2>2, ConcatFacts
  <2>4. ASSUME NEW j \in i .. Len(up'), up'[j].kind = "async" PROVE up'[j].body.conn = c
    <3>1. ~(j \in Len(up) + 1 .. Len(up'))  BY <2>2, <2>3, <2>4
    <3>2. j \in i .. Len(up) /\ j \in 1 .. Len(up)  BY <1>0, <2>3, <3>1
    <3> QED BY <2>3, <2>4, <3>2 DEF Latest
  <2> QED BY <1>1, <1>n, <2>1, <2>4 DEF Latest, Kept
<1>4. CASE DevReceives
  <2> DEFINE m == [kind |-> "async", id |-> 0, serial |-> 0,
                   body |-> [status |-> "data", conn |-> dev, n |-> sent + 1]]
  <2>1. dev # 0 /\ sent' = sent + 1 /\ UNCHANGED <<dev, conns, before>> /\ up' = Append(up, m)
    BY <1>4 DEF DevReceives, FwEmit
  <2>2. m.body.n = sent + 1 /\ m.body.conn = dev  OBVIOUS
  <2> HIDE DEF m
  <2>3. Len(up') = Len(up) + 1 /\ up'[Len(up) + 1] = m /\ \A j \in 1 .. Len(up) : up'[j] = up[j]
    BY <1>0, <2>1
  <2>4. ASSUME NEW j \in i .. Len(up'), up'[j].kind = "async" PROVE up'[j].body.conn = c
    <3>1. CASE j = Len(up) + 1  BY <3>1, <2>1, <2>2, <2>3 DEF Latest
    <3>2. CASE j \in i .. Len(up)
      <4>1. j \in 1 .. Len(up)  BY <3>2, <1>0
      <4> QED BY <2>3, <2>4, <3>2, <4>1 DEF Latest
    <3> QED BY <1>0, <2>3, <3>1, <3>2
  <2>5. ASSUME Kept(c, i, R), NEW n \in before + 1 .. sent + 1, dev = c
        PROVE  (\E j \in i .. Len(up') : up'[j].body.n = n) \/ n \in R
    <3>1. CASE n = sent + 1
      <4>1. Len(up) + 1 \in i .. Len(up')  BY <1>0, <2>3
      <4> QED BY <3>1, <4>1, <2>2, <2>3
    <3>2. CASE n \in before + 1 .. sent
      <4>1. CASE n \in R  BY <4>1
      <4>2. CASE \E j \in i .. Len(up) : up[j].body.n = n
        <5>1. PICK j \in i .. Len(up) : up[j].body.n = n  BY <4>2
        <5>2. j \in 1 .. Len(up) /\ j \in i .. Len(up')  BY <1>0, <2>3
        <5> QED BY <5>1, <5>2, <2>3
      <4> QED BY <3>2, <4>1, <4>2, <2>5 DEF Kept
    <3> QED BY <1>n, <3>1, <3>2
  <2> QED BY <1>1, <2>1, <2>4, <2>5 DEF Latest, Kept
<1>5. Alone \/ DevStatus \/ DevRestart =>
        up' = up /\ sent' = sent /\ UNCHANGED <<conns, before>> /\ dev' \in {0, dev}
  BY DEF Alone, ReaderHello, OpenDone, ReaderExit, WriterCheck, WriterSend, WriterDrained, DevStatus,
         DevRestart, FwStatus, FwRestart, Restart, boxVars
<1>6. ASSUME NEW e \in Sessions, PushCheck(e) \/ PushTake(e) \/ PushData(e)
      PROVE  up' = up /\ UNCHANGED boxVars
  BY <1>6 DEF PushCheck, PushTake, PushData, linkVars
<1>7. ASSUME NEW t \in Callers, Connect(t) \/ Disconnect(t) \/ Complete(t) \/ GiveUp(t)
      PROVE  up' = up /\ UNCHANGED boxVars
  BY <1>7 DEF Connect, Disconnect, Complete, GiveUp, GetId, Receive, Timeout, Finish
<1>8. ASSUME NEW t \in Readers, ReadCheck(t) \/ ReadPop(t) \/ ClearRx(t)
      PROVE  up' = up /\ UNCHANGED boxVars
  BY <1>8 DEF ReadCheck, ReadPop, ClearRx, linkVars
<1>9. UNCHANGED rxVars => up' = up /\ UNCHANGED boxVars  BY DEF rxVars, linkVars
<1>10. CloseDevice => up' = up /\ UNCHANGED boxVars  BY DEF CloseDevice, Close
<1>11. ~OpenSession  BY DEF OpenSession, OpenStart
<1>12. UNCHANGED boxVars => sent' = sent /\ UNCHANGED <<conns, before>> /\ dev' = dev  BY DEF boxVars
<1> QED BY <1>2, <1>3, <1>4, <1>5, <1>6, <1>7, <1>8, <1>9, <1>10, <1>11, <1>12 DEF RxNext

\* The reader thread takes the first message: the places move up by one.
LEMMA LatestRead ==
  ASSUME OInv, OInv', UpRunning, RxTyped, [RxNext]_rxVars, session = "up", session' = "up",
         \A u \in Callers : ~SendOp(u), Read,
         NEW c, NEW i \in 1 .. Len(up) + 1, Latest(c, i), NEW k \in Nat, k = IF i > 1 THEN i - 1 ELSE 1,
         NEW R, NEW R2, R \subseteq R2, i = 1 /\ Head(up).kind = "async" => Head(up).body.n \in R2
  PROVE  Latest(c, k)' /\ (Kept(c, i, R) => Kept(c, k, R2)')
<1>0. IInv /\ Path \in Seq(DownMsg) /\ up \in Seq(RxUp) /\ Len(up) \in Nat
  BY PathTyped DEF OInv, RxTyped, WireTyped
<1>n. sent \in Nat /\ before \in Nat
  BY RxAssumption DEF RxTyped, BoxTyped
<1>p. Path' \in Seq(DownMsg)
  <2>1. (IInv => Path \in Seq(DownMsg))'  BY PathTyped, PTL
  <2> QED BY <2>1 DEF OInv
<1>1. Free(Path', Cmds("open"))
  <2>1. Free(Path, Cmds("open"))  BY DEF Latest
  <2>2. Thinned(Path', Path)  BY RxPathStep
  <2> QED BY <1>0, <1>p, <2>1, <2>2, ThinOrder
<1>2. up # <<>> /\ up' = Tail(up) /\ UNCHANGED boxVars  BY DEF Read, ReaderTake
<1>3. /\ Len(up') = Len(up) - 1 /\ \A j \in 1 .. Len(up') : j + 1 \in 1 .. Len(up) /\ up'[j] = up[j + 1]
      /\ \A j \in 2 .. Len(up) : j - 1 \in 1 .. Len(up') /\ up'[j - 1] = up[j] /\ up[1] = Head(up)
  BY <1>0, <1>2
<1>4. ASSUME NEW j \in k .. Len(up'), up'[j].kind = "async" PROVE up'[j].body.conn = c
  <2>1. j \in 1 .. Len(up') /\ j + 1 \in i .. Len(up)  BY <1>0, <1>3
  <2> QED BY <1>3, <1>4, <2>1 DEF Latest
<1>5. ASSUME Kept(c, i, R), NEW n \in before + 1 .. sent, dev = c
      PROVE  (\E j \in k .. Len(up') : up'[j].body.n = n) \/ n \in R2
  <2>1. CASE n \in R  BY <2>1
  <2>2. CASE \E j \in i .. Len(up) : up[j].body.n = n
    <3>1. PICK j \in i .. Len(up) : up[j].body.n = n  BY <2>2
    <3>2. CASE j # 1
      <4>1. j \in 2 .. Len(up) /\ j - 1 \in k .. Len(up')  BY <1>0, <1>3, <3>2
      <4> QED BY <1>3, <3>1, <4>1
    <3>3. CASE j = 1
      <4>1. i = 1 /\ up[1] = Head(up)  BY <1>0, <1>2, <3>3
      <4>2. up[1] \in RxUp  BY <1>0, <3>3
      <4>3. up[1].kind # "async" => up[1].body.n = 0  BY <4>2 DEF RxUp, Answers
      <4>4. n # 0  BY <1>n
      <4> QED BY <3>1, <3>3, <4>1, <4>3, <4>4
    <3> QED BY <3>2, <3>3
  <2> QED BY <1>5, <2>1, <2>2 DEF Kept
<1>6. conns' = conns /\ dev' = dev /\ before' = before /\ sent' = sent  BY <1>2 DEF boxVars
<1> QED BY <1>1, <1>4, <1>5, <1>6 DEF Latest, Kept

\* What waits for the thread of the session goes on waiting, or is pushed.
LEMMA WaitsStep ==
  ASSUME IInv, RxTyped, UpRunning, Pushes, [RxNext]_rxVars, session = "up", NEW e, e = epoch
  PROVE  /\ epoch' = e /\ e \in Sessions
         /\ \A w \in Waits(e) : w \in Waits(e)' \/ (PushData(e) /\ w = push[e].msg.n)
         /\ Read /\ Head(up).kind = "async" => Head(up).body.n \in Waits(e)'
<1>0. /\ e \in Sessions /\ push[e].st # "off" /\ running
      /\ queue \in [Sessions -> Seq(Data)] /\ DOMAIN push = Sessions
  BY DEF UpRunning, Pushes, RxTyped, PushTyped
<1>1. CASE UNCHANGED <<epoch, pushVars>>
  <2>1. Waits(e)' = Waits(e)  BY <1>1 DEF pushVars, Waits
  <2>2. Read => queue' # queue \/ Head(up).kind # "async"
    <3>1. Read /\ Head(up).kind = "async" => queue' = [queue EXCEPT ![e] = Append(@, Head(up).body)]
      BY <1>0 DEF Read
    <3>2. Append(queue[e], Head(up).body) # queue[e]
      <4>1. Len(Append(queue[e], Head(up).body)) = Len(queue[e]) + 1 /\ Len(queue[e]) \in Nat
        BY <1>0, LenProperties
      <4> QED BY <4>1
    <3> QED BY <1>0, <3>1, <3>2
  <2> QED BY <1>0, <1>1, <2>1, <2>2 DEF pushVars
<1>2. CASE Read
  <2>1. epoch' = epoch /\ push' = push  BY <1>2 DEF Read, ReaderTake
  <2>2. CASE Head(up).kind # "async"
    <3>1. queue' = queue  BY <1>2, <2>2 DEF Read
    <3>2. Waits(e)' = Waits(e)  BY <2>1, <3>1 DEF Waits
    <3> QED BY <1>0, <2>1, <2>2, <3>2
  <2>3. CASE Head(up).kind = "async"
    <3> DEFINE q == queue[e]
               x == Head(up).body
    <3>1. queue'[e] = Append(q, x)  BY <1>0, <1>2, <2>3 DEF Read
    <3>2. x \in Data
      <4>1. up \in Seq(RxUp) /\ up # <<>>  BY <1>2 DEF RxTyped, WireTyped, Read, ReaderTake
      <4>2. Head(up) \in RxUp  BY <4>1, SeqFacts
      <4> QED BY <4>2, <2>3 DEF RxUp
    <3>3. q \in Seq(Data)  BY <1>0
    <3> HIDE DEF q, x
    <3>4. /\ Len(queue'[e]) = Len(q) + 1 /\ Len(q) \in Nat /\ queue'[e][Len(q) + 1] = x
          /\ \A i \in 1 .. Len(q) : queue'[e][i] = q[i]
      BY <3>1, <3>2, <3>3, AppendProperties
    <3>5. /\ \A i \in 1 .. Len(q) : i \in 1 .. Len(queue'[e])
          /\ Len(q) + 1 \in 1 .. Len(queue'[e])
      BY <3>4
    <3>6. \A i \in 1 .. Len(queue'[e]) : queue'[e][i].n \in Waits(e)'  BY DEF Waits
    <3>7. x.n \in Waits(e)' /\ \A i \in 1 .. Len(q) : q[i].n \in Waits(e)'  BY <3>4, <3>5, <3>6
    <3>8. push[e].st = "push" => push[e].msg.n \in Waits(e)'  BY <2>1 DEF Waits
    <3>w. \A w \in Waits(e) : (\E i \in 1 .. Len(q) : w = q[i].n) \/ (push[e].st = "push" /\ w = push[e].msg.n)
      BY DEF Waits, q
    <3>9. \A w \in Waits(e) : w \in Waits(e)'  BY <3>7, <3>8, <3>w
    <3> QED BY <1>0, <2>1, <3>7, <3>9 DEF x
  <2> QED BY <2>2, <2>3
<1>3. ASSUME NEW x \in Sessions, x # e, PushCheck(x) \/ PushTake(x) \/ PushData(x)
      PROVE  epoch' = e /\ Waits(e)' = Waits(e) /\ ~Read
  <2>1. epoch' = epoch /\ up' = up  BY <1>3 DEF PushCheck, PushTake, PushData, linkVars, hostVars
  <2>2. queue'[e] = queue[e] /\ push'[e] = push[e]
    BY <1>0, <1>3 DEF PushCheck, PushTake, PushData
  <2>3. ~Read
    <3>1. Read => up # <<>> /\ up' = Tail(up)  BY DEF Read, ReaderTake
    <3>2. up # <<>> => Tail(up) # up
      <4>1. up # <<>> => Len(Tail(up)) = Len(up) - 1 /\ Len(up) \in Nat  BY DEF RxTyped, WireTyped
      <4> QED BY <4>1
    <3> QED BY <2>1, <3>1, <3>2
  <2> QED BY <2>1, <2>2, <2>3 DEF Waits
<1>4. ASSUME PushCheck(e) \/ PushTake(e) \/ PushData(e)
      PROVE  /\ epoch' = e /\ ~Read
             /\ \A w \in Waits(e) : w \in Waits(e)' \/ (PushData(e) /\ w = push[e].msg.n)
  <2>1. epoch' = epoch /\ up' = up  BY <1>4 DEF PushCheck, PushTake, PushData, linkVars, hostVars
  <2>2. ~Read
    <3>1. Read => up # <<>> /\ up' = Tail(up)  BY DEF Read, ReaderTake
    <3>2. up # <<>> => Tail(up) # up
      <4>1. up # <<>> => Len(Tail(up)) = Len(up) - 1 /\ Len(up) \in Nat  BY DEF RxTyped, WireTyped
      <4> QED BY <4>1
    <3> QED BY <2>1, <3>1, <3>2
  <2>3. CASE PushCheck(e)
    <3>1. queue' = queue /\ push[e].st = "check"  BY <1>0, <2>3 DEF PushCheck, Goes
    <3> QED BY <2>1, <2>2, <3>1 DEF Waits
  <2>4. CASE PushTake(e) /\ queue[e] = <<>>
    <3>1. queue' = queue /\ push[e].st = "take"  BY <2>4 DEF PushTake
    <3> QED BY <2>1, <2>2, <3>1 DEF Waits
  <2>5. CASE PushTake(e) /\ queue[e] # <<>>
    <3> DEFINE q == queue[e]
    <3>1. queue'[e] = Tail(q) /\ push'[e].msg = Head(q) /\ push'[e].st = "push" /\ push[e].st = "take"
      BY <1>0, <2>5 DEF PushTake
    <3>2. q \in Seq(Data) /\ q # <<>>  BY <1>0, <2>5
    <3> HIDE DEF q
    <3>3. ASSUME NEW i \in 1 .. Len(q) PROVE q[i].n \in Waits(e)'
      <4>1. CASE i = 1  BY <4>1, <3>1, <3>2 DEF Waits
      <4>2. CASE i # 1
        <5>1. i - 1 \in 1 .. Len(Tail(q)) /\ Tail(q)[i - 1] = q[i]  BY <3>2, <4>2
        <5> QED BY <5>1, <3>1 DEF Waits
      <4> QED BY <4>1, <4>2
    <3>4. \A w \in Waits(e) : w \in Waits(e)'  BY <3>1, <3>3 DEF Waits, q
    <3> QED BY <2>1, <2>2, <3>4
  <2>6. CASE PushData(e)
    <3>1. queue' = queue /\ push[e].st = "push"  BY <2>6 DEF PushData
    <3> QED BY <2>1, <2>2, <2>6, <3>1 DEF Waits
  <2> QED BY <1>4, <2>3, <2>4, <2>5, <2>6
<1>5. ~OpenSession  BY DEF OpenSession, OpenStart
<1> QED BY <1>0, <1>1, <1>2, <1>3, <1>4, <1>5, PushCases DEF PushMoves
-----------------------------------------------------------------------------
(* What the caller that connects will take for its connection *)

\* m tells the call with id k that the device opened connection c.
Accepted(m, k, c) == m.id = k /\ m.kind = "reply" /\ m.body.status = "ok" /\ m.body.conn = c

\* An answer on its way to the call with id k, and one in its receiver.
SeenUp(k) ==
  \A c \in 0 .. MaxCalls, i \in 1 .. Len(up) :
    Accepted(up[i], k, c) => Latest(c, i + 1) /\ Kept(c, i + 1, {})
SeenIn(k) ==
  \A c \in 0 .. MaxCalls, i \in 1 .. Len(inbox[k]) :
    Accepted(inbox[k][i], k, c) => Latest(c, 1) /\ Kept(c, 1, Waits(epoch))

OpenSeen ==
  \A t \in Callers : call[t].st = "waiting" /\ op[t] = "open" => SeenUp(call[t].id) /\ SeenIn(call[t].id)

\* The link's invariant, and what RxPath adds to it before the data itself.
RxBase ==
  /\ OInv /\ UpRunning /\ IdsApart /\ RxTyped /\ OneInside /\ Pushes /\ NoBare /\ Sole

\* The reader thread takes a message, which may be that answer.
LEMMA SeenRead ==
  ASSUME RxBase, OInv', [RxNext]_rxVars, NEW t \in Callers, call[t].st = "waiting", call'[t] = call[t],
         Read, NEW k \in Ids, k = call[t].id, SeenUp(k), SeenIn(k)
  PROVE  SeenUp(k)' /\ SeenIn(k)'
<1>0. /\ OInv /\ UpRunning /\ RxTyped /\ IInv /\ OneInside /\ Pushes /\ up \in Seq(RxUp) /\ Len(up) \in Nat
      /\ inbox[k] \in Seq(RxUp) /\ DOMAIN inbox = Ids
  BY DEF RxBase, OInv, IInv, Scalars, RxTyped, WireTyped
<1>1. session = "up" /\ session' = "up" /\ \A u \in Callers : ~SendOp(u)  BY <1>0, RxGoesOn
<1>2. up # <<>> /\ up' = Tail(up)  BY DEF Read, ReaderTake
<1>3. /\ Len(up') = Len(up) - 1 /\ \A j \in 1 .. Len(up') : j + 1 \in 1 .. Len(up) /\ up'[j] = up[j + 1]
      /\ up[1] = Head(up) /\ 1 \in 1 .. Len(up)
  BY <1>0, <1>2
<1>4. SeenUp(k)'
  <2>1. ASSUME NEW c \in 0 .. MaxCalls, NEW i \in 1 .. Len(up'), Accepted(up'[i], k, c)
        PROVE  Latest(c, i + 1)' /\ Kept(c, i + 1, {})'
    <3>1. i + 1 \in 1 .. Len(up) /\ Accepted(up[i + 1], k, c)
      BY <1>3, <2>1
    <3>2. Latest(c, i + 2) /\ Kept(c, i + 2, {})
      <4>1. Latest(c, (i + 1) + 1) /\ Kept(c, (i + 1) + 1, {})
        BY <3>1 DEF SeenUp
      <4>2. (i + 1) + 1 = i + 2  OBVIOUS
      <4> QED BY <3>1, <4>1, <4>2
    <3>3. i + 2 \in 1 .. Len(up) + 1 /\ i + 2 > 1 /\ i + 1 = (i + 2) - 1 /\ i + 1 \in Nat /\ i + 2 # 1
      BY <1>0, <3>1
    <3>4. Latest(c, i + 1)' /\ Kept(c, i + 1, {})'
      <4> PICK a : a = i + 2  OBVIOUS
      <4> PICK b : b = i + 1  OBVIOUS
      <4>1. a \in 1 .. Len(up) + 1 /\ Latest(c, a) /\ Kept(c, a, {}) /\ b \in Nat
            /\ b = (IF a > 1 THEN a - 1 ELSE 1) /\ a # 1
        BY <3>2, <3>3
      <4>2. Latest(c, b)' /\ (Kept(c, a, {}) => Kept(c, b, {})')
        BY <1>0, <1>1, <4>1, LatestRead
      <4> QED BY <4>1, <4>2
    <3> QED BY <3>4
  <2> QED BY <2>1 DEF SeenUp
<1>5. SeenIn(k)'
  <2> PICK e : e = epoch  OBVIOUS
  <2> PICK W : W = Waits(e)  OBVIOUS
  <2> PICK W2 : W2 = Waits(e)'  OBVIOUS
  <2>1. /\ epoch' = e /\ W \subseteq W2
        /\ Head(up).kind = "async" => Head(up).body.n \in W2
    <3>1. ~PushData(e)  BY <1>0, <1>1, WaitsStep, RxGoesOn
    <3> QED BY <1>0, <1>1, <3>1, WaitsStep
  <2>2. \/ inbox'[k] = inbox[k]
        \/ Head(up).kind = "reply" /\ inbox'[k] = Append(inbox[k], Head(up))
    BY <1>0 DEF Read, ReaderTake
  <2>3. ASSUME NEW c \in 0 .. MaxCalls, NEW i \in 1 .. Len(inbox'[k]), Accepted(inbox'[k][i], k, c)
        PROVE  Latest(c, 1)' /\ Kept(c, 1, Waits(epoch))'
    <3>1. CASE i \in 1 .. Len(inbox[k]) /\ inbox'[k][i] = inbox[k][i]
      <4>1. Latest(c, 1) /\ Kept(c, 1, W)  BY <2>3, <3>1 DEF SeenIn
      <4>2. Latest(c, 1)' /\ (Kept(c, 1, W) => Kept(c, 1, W2)')
        <5> PICK a : a = 1  OBVIOUS
        <5>1. a \in 1 .. Len(up) + 1 /\ a \in Nat /\ a = (IF a > 1 THEN a - 1 ELSE 1) /\ Latest(c, a)
          BY <1>0, <4>1
        <5>2. Latest(c, a)' /\ (Kept(c, a, W) => Kept(c, a, W2)')
          BY <1>0, <1>1, <2>1, <5>1, LatestRead
        <5> QED BY <5>2
      <4>3. Kept(c, 1, W2)'  BY <4>1, <4>2
      <4>4. Waits(epoch)' = W2  BY <2>1 DEF Waits
      <4> QED BY <4>2, <4>3, <4>4
    <3>2. CASE Head(up).kind = "reply" /\ inbox'[k][i] = Head(up)
      <4>1. Latest(c, 2) /\ Kept(c, 2, {})
        <5>1. Accepted(up[1], k, c)  BY <1>3, <2>3, <3>2
        <5>2. Latest(c, 1 + 1) /\ Kept(c, 1 + 1, {})  BY <1>3, <5>1 DEF SeenUp
        <5>3. 1 + 1 = 2  OBVIOUS
        <5> QED BY <5>1, <5>2, <5>3
      <4>2. Latest(c, 1)' /\ (Kept(c, 2, {}) => Kept(c, 1, W2)')
        <5> PICK a : a = 2  OBVIOUS
        <5> PICK b : b = 1  OBVIOUS
        <5>1. a \in 1 .. Len(up) + 1 /\ b \in Nat /\ b = (IF a > 1 THEN a - 1 ELSE 1) /\ Latest(c, a) /\ a # 1
          BY <1>0, <1>3, <4>1
        <5>2. Latest(c, b)' /\ (Kept(c, a, {}) => Kept(c, b, W2)')
          BY <1>0, <1>1, <5>1, LatestRead
        <5> QED BY <5>2
      <4>3. Kept(c, 1, W2)'  BY <4>1, <4>2
      <4>4. Waits(epoch)' = W2  BY <2>1 DEF Waits
      <4> QED BY <4>2, <4>3, <4>4
    <3>3. \/ i \in 1 .. Len(inbox[k]) /\ inbox'[k][i] = inbox[k][i]
          \/ Head(up).kind = "reply" /\ inbox'[k][i] = Head(up)
      <4>1. CASE inbox'[k] = inbox[k]  BY <4>1
      <4>2. CASE Head(up).kind = "reply" /\ inbox'[k] = Append(inbox[k], Head(up))
        <5> DEFINE q == inbox[k]
                   x == Head(up)
        <5>1. q \in Seq(RxUp) /\ inbox'[k] = Append(q, x) /\ x.kind = "reply"  BY <1>0, <4>2
        <5>2. x \in RxUp  BY <1>0, <1>2, SeqFacts
        <5> HIDE DEF q, x
        <5>3. /\ Len(inbox'[k]) = Len(q) + 1 /\ inbox'[k][Len(q) + 1] = x /\ Len(q) \in Nat
              /\ \A j \in 1 .. Len(q) : inbox'[k][j] = q[j]
          BY <5>1, <5>2, AppendProperties
        <5>4. i \in 1 .. Len(q) \/ i = Len(q) + 1  BY <5>3
        <5> QED BY <5>1, <5>3, <5>4 DEF q, x
      <4> QED BY <2>2, <4>1, <4>2
    <3> QED BY <3>1, <3>2, <3>3
  <2> QED BY <2>3 DEF SeenIn
<1> QED BY <1>4, <1>5

\* What the reader thread does not take stays.
LEMMA InboxStays ==
  ASSUME RxNext, ~Read, ~OpenSession, ~CloseDevice, \A u \in Callers : ~Complete(u)
  PROVE  inbox' = inbox
<1>1. Alone => inbox' = inbox
  BY DEF Alone, ReaderHello, OpenDone, ReaderExit, WriterCheck, WriterSend, WriterDrained
<1>2. ASSUME NEW t \in Callers, Connect(t) \/ Disconnect(t) \/ SendOp(t) \/ GiveUp(t) PROVE inbox' = inbox
  BY <1>2 DEF Connect, Disconnect, SendOp, GiveUp, GetId, Send, Timeout
<1>3. ASSUME NEW e \in Sessions, PushCheck(e) \/ PushTake(e) \/ PushData(e) PROVE inbox' = inbox
  BY <1>3 DEF PushCheck, PushTake, PushData, linkVars, hostVars
<1>4. ASSUME NEW u \in Readers, ReadCheck(u) \/ ReadPop(u) \/ ClearRx(u) PROVE inbox' = inbox
  BY <1>4 DEF ReadCheck, ReadPop, ClearRx, linkVars, hostVars
<1>5. DevCommand \/ DevStatus \/ DevRestart \/ DevReceives => inbox' = inbox
  BY DEF DevCommand, DevOpen, DevClose, DevStatus, DevRestart, DevReceives, FwHandle, FwStatus, FwRestart,
         Restart, FwEmit, hostVars
<1> QED BY <1>1, <1>2, <1>3, <1>4, <1>5 DEF RxNext

\* The device opens a connection for this call, or for nobody who waits.
LEMMA SeenOpened ==
  ASSUME RxBase, OInv', [RxNext]_rxVars, NEW t \in Callers, call[t].st = "waiting", call'[t] = call[t],
         op[t] = "open", DevCommand, Head(down).body = "open",
         NEW k \in Ids, k = call[t].id, SeenUp(k), SeenIn(k)
  PROVE  SeenUp(k)' /\ SeenIn(k)'
<1>0. /\ OInv /\ UpRunning /\ RxTyped /\ BoxTyped /\ IInv /\ OneInside /\ IdsApart
      /\ up \in Seq(RxUp) /\ Len(up) \in Nat /\ Path \in Seq(DownMsg)
  BY PathTyped DEF RxBase, OInv, RxTyped, WireTyped
<1>n. conns \in Nat /\ MaxCalls \in Nat  BY <1>0, LinkAssumption DEF BoxTyped
<1>p. Path' \in Seq(DownMsg)
  <2>1. (IInv => Path \in Seq(DownMsg))'  BY PathTyped, PTL
  <2> QED BY <2>1 DEF OInv
<1>1. /\ down # <<>> /\ Head(down).kind = "cmd" /\ inbox' = inbox /\ sent' = sent
  BY DEF DevCommand, DevOpen, DevClose, FwHandle, hostVars
<1>2. PICK w \in Seq(RxUp) : /\ up' = up \o w /\ Len(w) = 1 /\ Opened(w)
                             /\ \A i \in 1 .. Len(w) : w[i].kind = "reply" /\ w[i].id = IdAfter(Head(down))
  BY <1>0, DevAnswers
<1>3. /\ Len(up') = Len(up) + 1 /\ up'[Len(up) + 1] = w[1] /\ \A i \in 1 .. Len(up) : up'[i] = up[i]
  <2>0. up' = up \o w /\ Len(w) = 1  BY <1>2
  <2>1. /\ Len(up') = Len(up) + 1
        /\ \A i \in 1 .. Len(up) : up'[i] = up[i]
        /\ \A i \in Len(up) + 1 .. Len(up') : up'[i] = w[i - Len(up)]
    <3>1. /\ Len(up') = Len(up) + Len(w) /\ \A i \in 1 .. Len(up) : up'[i] = up[i]
          /\ \A i \in Len(up) + 1 .. Len(up') : up'[i] = w[i - Len(up)] /\ i - Len(up) \in 1 .. Len(w)
      <4>1. up \in Seq(RxUp) /\ w \in Seq(RxUp) /\ up' = up \o w  BY <1>0, <1>2
      <4> QED BY <4>1, ConcatFacts
    <3> QED BY <2>0, <3>1
  <2>2. Len(up) + 1 \in Len(up) + 1 .. Len(up') /\ (Len(up) + 1) - Len(up) = 1  BY <1>0, <2>1
  <2> QED BY <2>1, <2>2
<1>4. Head(down) \in DownMsg /\ Head(down).id # 0 /\ w[1].id = Head(down).id
  <2>1. down \in Seq(DownMsg \ Bare)  BY DEF RxBase, NoBare
  <2>2. Head(down) \in DownMsg \ Bare  BY <1>1, <2>1, SeqFacts
  <2> QED BY <1>1, <1>2, <2>2 DEF Bare, IdAfter
<1>5. Path # <<>> /\ Head(Path) = Head(down)  BY <1>0, <1>1, PathHead
<1>6. \A c, i : ~Latest(c, i)
  <2>1. Head(Path) \in Cmds("open")  BY <1>1, <1>4, <1>5 DEF Cmds
  <2>2. ~Free(Path, Cmds("open"))  BY <1>0, <1>5, <2>1, HeadOrder
  <2> QED BY <2>2 DEF Latest
<1>7. \A c \in 0 .. MaxCalls : /\ \A i \in 1 .. Len(up) : ~Accepted(up[i], k, c)
                               /\ \A i \in 1 .. Len(inbox[k]) : ~Accepted(inbox[k][i], k, c)
  BY <1>6 DEF SeenUp, SeenIn
<1>8. SeenIn(k)'  BY <1>1, <1>7 DEF SeenIn
<1>9. ASSUME NEW c \in 0 .. MaxCalls, NEW i \in 1 .. Len(up'), Accepted(up'[i], k, c)
      PROVE  Latest(c, i + 1)' /\ Kept(c, i + 1, {})'
  <2>1. i = Len(up) + 1
    <3>1. i \notin 1 .. Len(up)  BY <1>3, <1>7, <1>9
    <3> QED BY <1>0, <1>3, <3>1
  <2>2. w[1].id = k /\ w[1].body.status = "ok" /\ w[1].body.conn = c
    BY <1>3, <1>9, <2>1 DEF Accepted
  <2>3. c = conns + 1 /\ dev' = c /\ conns' = c /\ before' = sent  BY <1>2, <2>2 DEF Opened
  <2>4. Head(Path) \in Own(k)  BY <1>1, <1>4, <1>5, <2>2 DEF Own
  <2>5. Free(Path, Other(k))
    <3>1. Behind(Path, Own(k), Other(k))  BY DEF RxBase, Sole
    <3> QED BY <1>0, <1>5, <2>4, <3>1, HeadOrder
  <2>6. OnceIn(Path, k)  BY <1>0 DEF IdsApart
  <2>7. Free(Path', Cmds("open"))
    <3>1. Thinned(Path', Tail(Path))  BY <1>0, RxGoesOn, RxPathStep
    <3>2. Tail(Path) \in Seq(DownMsg)  BY <1>0, <1>5, SeqFacts
    <3>3. Free(Tail(Path), Cmds("open"))
      <4> SUFFICES ASSUME NEW j \in 1 .. Len(Tail(Path)) PROVE Tail(Path)[j] \notin Cmds("open")
        BY DEF Free
      <4>1. j + 1 \in 1 .. Len(Path) /\ Tail(Path)[j] = Path[j + 1] /\ 1 \in 1 .. Len(Path) /\ j + 1 # 1
            /\ Path[1] = Head(Path)
        BY <1>0, <1>5
      <4>2. Path[1].id = k  BY <2>4, <4>1 DEF Own
      <4>3. Path[j + 1].id # k  BY <2>6, <4>1, <4>2 DEF OnceIn
      <4>4. Path[j + 1] \notin Other(k)  BY <2>5, <4>1 DEF Free
      <4> QED BY <4>1, <4>3, <4>4 DEF Other, Cmds
    <3> QED BY <1>p, <3>1, <3>2, <3>3, ThinOrder
  <2>8. \A j \in i + 1 .. Len(up') : FALSE  BY <1>0, <1>3, <2>1
  <2>9. \A n \in before' + 1 .. sent' : FALSE
    <3>1. sent \in Nat  BY RxAssumption DEF RxTyped, BoxTyped, RxBase
    <3> QED BY <1>1, <2>3, <3>1
  <2> QED BY <1>n, <2>3, <2>7, <2>8, <2>9 DEF Latest, Kept
<1> QED BY <1>8, <1>9 DEF SeenUp

\* Any other step.
LEMMA SeenElse ==
  ASSUME RxBase, OInv', [RxNext]_rxVars, NEW t \in Callers, call[t].st = "waiting", call'[t] = call[t],
         op[t] = "open", ~Read, ~(DevCommand /\ Head(down).body = "open"),
         NEW k \in Ids, k = call[t].id, SeenUp(k), SeenIn(k)
  PROVE  SeenUp(k)' /\ SeenIn(k)'
<1>0. /\ OInv /\ UpRunning /\ RxTyped /\ BoxTyped /\ IInv /\ OneInside /\ Pushes
      /\ up \in Seq(RxUp) /\ Len(up) \in Nat /\ Path \in Seq(DownMsg)
  BY PathTyped DEF RxBase, OInv, RxTyped, WireTyped
<1>1. /\ session = "up" /\ session' = "up" /\ \A u \in Callers : ~SendOp(u) /\ ~Complete(u)
      /\ ~OpenSession /\ ~CloseDevice /\ \A e \in Sessions : ~PushData(e)
  BY <1>0, RxGoesOn
<1>2. inbox' = inbox
  <2>1. UNCHANGED rxVars => inbox' = inbox  BY DEF rxVars, linkVars, hostVars
  <2> QED BY <1>1, <2>1, InboxStays
<1>3. ASSUME NEW c, NEW i \in 1 .. Len(up) + 1, Latest(c, i), NEW R
      PROVE  Latest(c, i)' /\ (Kept(c, i, R) => Kept(c, i, R)')
  BY <1>0, <1>1, <1>3, LatestStep
<1>4. ASSUME NEW c, NEW i \in 1 .. Len(up'), Accepted(up'[i], k, c)
      PROVE  i \in 1 .. Len(up) /\ up'[i] = up[i]
  <2>1. CASE up' = up  BY <2>1
  <2>2. CASE DevCommand
    <3>1. Head(down).body = "close" /\ down # <<>> /\ Head(down).kind = "cmd"  BY <1>0, <2>2, DevAnswers
    <3>2. PICK w \in Seq(RxUp) : /\ up' = up \o w
                                 /\ \A j \in 1 .. Len(w) : w[j].id = IdAfter(Head(down))
      BY <1>0, <2>2, DevAnswers
    <3>3. Head(down) \in DownMsg /\ Head(down).id # 0
      <4>1. down \in Seq(DownMsg \ Bare)  BY DEF RxBase, NoBare
      <4>2. Head(down) \in DownMsg \ Bare  BY <3>1, <4>1, SeqFacts
      <4> QED BY <3>1, <4>2 DEF Bare
    <3>4. Head(down).id # k
      <4>1. Free(Path, Strange(k, "open"))  BY DEF RxBase, Sole
      <4>2. Path # <<>> /\ Head(Path) = Head(down)  BY <1>0, <3>1, PathHead
      <4>3. Head(down) \notin Strange(k, "open")  BY <1>0, <4>1, <4>2, HeadOrder
      <4> QED BY <3>1, <3>3, <4>3 DEF Strange
    <3>5. /\ Len(up') = Len(up) + Len(w) /\ Len(w) \in Nat
          /\ \A j \in 1 .. Len(up) : up'[j] = up[j]
          /\ \A j \in Len(up) + 1 .. Len(up') : up'[j] = w[j - Len(up)] /\ j - Len(up) \in 1 .. Len(w)
      BY <1>0, <3>2, ConcatFacts
    <3>6. ~(i \in Len(up) + 1 .. Len(up'))  BY <1>4, <3>2, <3>3, <3>4, <3>5 DEF Accepted, IdAfter
    <3> QED BY <1>0, <3>5, <3>6
  <2>3. CASE DevReceives
    <3> DEFINE m == [kind |-> "async", id |-> 0, serial |-> 0,
                     body |-> [status |-> "data", conn |-> dev, n |-> sent + 1]]
    <3>1. up' = Append(up, m)  BY <2>3 DEF DevReceives, FwEmit
    <3>2. m.kind = "async"  OBVIOUS
    <3> HIDE DEF m
    <3>3. Len(up') = Len(up) + 1 /\ up'[Len(up) + 1] = m /\ \A j \in 1 .. Len(up) : up'[j] = up[j]
      BY <1>0, <3>1
    <3>4. i # Len(up) + 1  BY <1>4, <3>2, <3>3 DEF Accepted
    <3> QED BY <1>0, <3>3, <3>4
  <2>4. Alone \/ DevStatus \/ DevRestart => up' = up
    BY DEF Alone, ReaderHello, OpenDone, ReaderExit, WriterCheck, WriterSend, WriterDrained, DevStatus,
           DevRestart, FwStatus, FwRestart, Restart
  <2>5. ASSUME NEW e \in Sessions, PushCheck(e) \/ PushTake(e) \/ PushData(e) PROVE up' = up
    BY <2>5 DEF PushCheck, PushTake, PushData, linkVars
  <2>6. ASSUME NEW u \in Callers, Connect(u) \/ Disconnect(u) \/ Complete(u) \/ GiveUp(u) PROVE up' = up
    BY <2>6 DEF Connect, Disconnect, Complete, GiveUp, GetId, Receive, Timeout
  <2>7. ASSUME NEW u \in Readers, ReadCheck(u) \/ ReadPop(u) \/ ClearRx(u) PROVE up' = up
    BY <2>7 DEF ReadCheck, ReadPop, ClearRx, linkVars
  <2>8. UNCHANGED rxVars => up' = up  BY DEF rxVars, linkVars
  <2> QED BY <1>1, <2>1, <2>2, <2>3, <2>4, <2>5, <2>6, <2>7, <2>8 DEF RxNext
<1>5. SeenUp(k)'
  <2>1. ASSUME NEW c \in 0 .. MaxCalls, NEW i \in 1 .. Len(up'), Accepted(up'[i], k, c)
        PROVE  Latest(c, i + 1)' /\ Kept(c, i + 1, {})'
    <3>1. i \in 1 .. Len(up) /\ up'[i] = up[i]  BY <1>4, <2>1
    <3>2. Latest(c, i + 1) /\ Kept(c, i + 1, {})  BY <2>1, <3>1 DEF SeenUp
    <3> PICK a : a = i + 1  OBVIOUS
    <3>3. a \in 1 .. Len(up) + 1 /\ Latest(c, a) /\ Kept(c, a, {})  BY <1>0, <3>1, <3>2
    <3>4. Latest(c, a)' /\ Kept(c, a, {})'  BY <1>3, <3>3
    <3> QED BY <3>4
  <2> QED BY <2>1 DEF SeenUp
<1>6. SeenIn(k)'
  <2> PICK e : e = epoch  OBVIOUS
  <2> PICK W : W = Waits(e)  OBVIOUS
  <2>1. epoch' = e /\ \A w \in W : w \in Waits(e)'  BY <1>0, <1>1, WaitsStep
  <2>2. ASSUME NEW c \in 0 .. MaxCalls, NEW i \in 1 .. Len(inbox[k]), Accepted(inbox[k][i], k, c)
        PROVE  Latest(c, 1)' /\ Kept(c, 1, Waits(epoch))'
    <3>1. Latest(c, 1) /\ Kept(c, 1, W)  BY <2>2 DEF SeenIn
    <3> PICK a : a = 1  OBVIOUS
    <3>2. a \in 1 .. Len(up) + 1 /\ Latest(c, a) /\ Kept(c, a, W)  BY <1>0, <3>1
    <3>3. Latest(c, a)' /\ Kept(c, a, W)'  BY <1>3, <3>2
    <3> PICK W2 : W2 = Waits(e)'  OBVIOUS
    <3>4. Waits(epoch)' = W2 /\ W \subseteq W2
      <4>1. W \subseteq W2  BY <2>1
      <4>2. Waits(epoch)' = Waits(e)'  BY <2>1 DEF Waits
      <4> QED BY <4>1, <4>2
    <3>5. Kept(c, a, W2)'  BY <3>3, <3>4 DEF Kept
    <3> QED BY <3>3, <3>4, <3>5
  <2> QED BY <1>2, <2>2 DEF SeenIn
<1> QED BY <1>5, <1>6

LEMMA OpenSeenStep ==
  ASSUME RxBase, OInv', OpenSeen, [RxNext]_rxVars
  PROVE  OpenSeen'
<1>0. IInv /\ RxTyped /\ IdsApart /\ call \in [Callers -> Call]  BY DEF RxBase, OInv, IInv, Scalars
<1> SUFFICES ASSUME NEW t \in Callers, NEW k, k = call'[t].id, call'[t].st = "waiting", op'[t] = "open"
             PROVE  SeenUp(k)' /\ SeenIn(k)'
  BY DEF OpenSeen, SeenUp, SeenIn
<1>1. CASE call'[t] = call[t] /\ op'[t] = op[t]
  <2>1. k \in Ids
    <3>1. call[t] \in Call /\ call[t].id # 0  BY <1>0, <1>1 DEF IInv, IdsCarried
    <3> QED BY <3>1, <1>1, LinkAssumption DEF Call, Id0s, Ids
  <2>2. call[t].st = "waiting" /\ op[t] = "open" /\ k = call[t].id  BY <1>1
  <2>3. SeenUp(k) /\ SeenIn(k)  BY <2>2 DEF OpenSeen
  <2>4. CASE Read  BY <1>1, <2>1, <2>2, <2>3, <2>4, SeenRead
  <2>5. CASE DevCommand /\ Head(down).body = "open"  BY <1>1, <2>1, <2>2, <2>3, <2>5, SeenOpened
  <2>6. CASE ~Read /\ ~(DevCommand /\ Head(down).body = "open")
    BY <1>1, <2>1, <2>2, <2>3, <2>6, SeenElse
  <2> QED BY <2>4, <2>5, <2>6
<1>2. CASE SendOp(t) /\ call[t].st = "ready" /\ call'[t].id = call[t].id
  <2>1. up' = up /\ inbox' = inbox  BY <1>2 DEF SendOp, Send
  <2>2. (\A i \in 1 .. Len(up) : up[i].id # k) /\ inbox[k] = <<>>  BY <1>0, <1>2 DEF IdsApart, NotUp
  <2>3. \A i \in 1 .. Len(inbox'[k]) : FALSE  BY <2>1, <2>2
  <2>4. SeenUp(k)'  BY <2>1, <2>2 DEF SeenUp, Accepted
  <2>5. SeenIn(k)'  BY <2>3 DEF SeenIn
  <2> QED BY <2>4, <2>5
<1> QED BY <1>0, <1>1, <1>2, RxWaiting
-----------------------------------------------------------------------------
(* What the channel's owner has of the connection *)

\* The numbers of what was read, is to be read, or was shed.
Hands == {m.n : m \in shed} \cup {rxData[i].msg.n : i \in 1 .. Len(rxData)}
         \cup {got[i].msg.n : i \in 1 .. Len(got)}

\* A channel that is stored is that of the device's last connection, unless the device
\* lost it; what else there is was there when it was stored.
ChanKept ==
  chan => /\ Latest(cur, 1) /\ Kept(cur, 1, Waits(epoch) \cup Hands)
          /\ \A m \in ToPush : m \in late \/ m.conn = cur
          /\ OnlyLeftovers

LEMMA ToPushIn ==
  ASSUME NEW m
  PROVE  m \in ToPush <=> \E e \in Sessions : \/ push[e].st = "push" /\ m = push[e].msg
                                              \/ \E i \in 1 .. Len(queue[e]) : m = queue[e][i]
BY DEF ToPush

\* Only the reader thread adds to what is to be pushed.
LEMMA ToPushStep ==
  ASSUME RxTyped, [RxNext]_rxVars, NEW m, m \in ToPush'
  PROVE  m \in ToPush \/ (Read /\ Head(up).kind = "async" /\ m = Head(up).body)
<1>0. /\ queue \in [Sessions -> Seq(Data)] /\ DOMAIN push = Sessions
  BY DEF RxTyped, PushTyped
<1>1. PICK e \in Sessions : \/ push'[e].st = "push" /\ m = push'[e].msg
                            \/ \E i \in 1 .. Len(queue'[e]) : m = queue'[e][i]
  BY DEF ToPush
<1>a. queue[e] \in Seq(Data)  BY <1>0
<1>b. \A st : Pusher(st).st = st  BY DEF Pusher
<1>2. ASSUME push'[e].st = "push" => push'[e] = push[e],
             queue'[e] = queue[e] \/ queue'[e] = <<>>
      PROVE  m \in ToPush
  <2>1. queue'[e] = <<>> => \A i \in 1 .. Len(queue'[e]) : FALSE  OBVIOUS
  <2>2. \/ push[e].st = "push" /\ m = push[e].msg
        \/ \E i \in 1 .. Len(queue[e]) : m = queue[e][i]
    BY <1>1, <1>2, <2>1
  <2> QED BY <2>2, ToPushIn
<1>3. CASE UNCHANGED pushVars  BY <1>2, <1>3 DEF pushVars
<1>4. CASE OpenSession
  <2>1. queue' = queue /\ push' = [push EXCEPT ![epoch + 1] = Pusher("check")]
    BY <1>4 DEF OpenSession
  <2>2. push'[e].st = "push" => push'[e] = push[e]  BY <2>1, <1>0, <1>b
  <2> QED BY <1>2, <2>1, <2>2
<1>5. CASE Read
  <2>1. push' = push  BY <1>5 DEF Read
  <2>2. CASE queue'[e] = queue[e]  BY <1>2, <2>1, <2>2
  <2>3. CASE queue'[e] # queue[e]
    <3>1. Head(up).kind = "async" /\ queue' = [queue EXCEPT ![epoch] = Append(@, Head(up).body)]
      BY <1>5, <2>3 DEF Read
    <3>2. epoch = e  BY <1>0, <2>3, <3>1
    <3> DEFINE q == queue[e]
               x == Head(up).body
    <3>3. queue'[e] = Append(q, x)  BY <1>0, <3>1, <3>2
    <3>4. x \in Data
      <4>1. up \in Seq(RxUp) /\ up # <<>>  BY <1>5 DEF RxTyped, WireTyped, Read, ReaderTake
      <4>2. Head(up) \in RxUp  BY <4>1, SeqFacts
      <4> QED BY <4>2, <3>1 DEF RxUp
    <3>5. q \in Seq(Data)  BY <1>0
    <3> HIDE DEF q, x
    <3>6. /\ Len(queue'[e]) = Len(q) + 1 /\ queue'[e][Len(q) + 1] = x /\ Len(q) \in Nat
          /\ \A i \in 1 .. Len(q) : queue'[e][i] = q[i]
      BY <3>3, <3>4, <3>5, AppendProperties
    <3>7. CASE push'[e].st = "push" /\ m = push'[e].msg  BY <2>1, <3>7, ToPushIn
    <3>8. CASE \E i \in 1 .. Len(queue'[e]) : m = queue'[e][i]
      <4>1. PICK i \in 1 .. Len(queue'[e]) : m = queue'[e][i]  BY <3>8
      <4>2. CASE i = Len(q) + 1  BY <1>5, <3>1, <3>6, <4>1, <4>2 DEF x
      <4>3. CASE i \in 1 .. Len(q)
        <5>1. i \in 1 .. Len(queue[e]) /\ m = queue[e][i]  BY <3>6, <4>1, <4>3 DEF q
        <5> QED BY <5>1, ToPushIn
      <4> QED BY <3>6, <4>2, <4>3
    <3> QED BY <1>1, <3>7, <3>8
  <2> QED BY <2>2, <2>3
<1>6. ASSUME NEW x \in Sessions, PushCheck(x) \/ PushData(x) PROVE m \in ToPush
  <2>1. /\ queue' = queue \/ queue' = [queue EXCEPT ![x] = <<>>]
        /\ \E st \in {"take", "off", "check"} : push' = [push EXCEPT ![x] = Pusher(st)]
    BY <1>6 DEF PushCheck, PushData
  <2>2. push'[e].st = "push" => push'[e] = push[e]  BY <2>1, <1>0, <1>b
  <2>3. queue'[e] = queue[e] \/ queue'[e] = <<>>  BY <2>1, <1>0
  <2> QED BY <1>2, <2>2, <2>3
<1>7. ASSUME NEW x \in Sessions, PushTake(x) PROVE m \in ToPush
  <2>1. CASE x # e
    <3>1. queue'[e] = queue[e] /\ push'[e] = push[e]  BY <1>0, <1>7, <2>1 DEF PushTake
    <3> QED BY <1>2, <3>1
  <2>2. CASE x = e /\ queue[e] = <<>>
    <3>1. queue' = queue /\ push'[e].st = "check"  BY <1>0, <1>7, <1>b, <2>2 DEF PushTake
    <3> QED BY <1>2, <3>1
  <2>3. CASE x = e /\ queue[e] # <<>>
    <3> DEFINE q == queue[e]
    <3>1. queue'[e] = Tail(q) /\ push'[e].msg = Head(q)  BY <1>0, <1>7, <2>3 DEF PushTake
    <3>2. q \in Seq(Data) /\ q # <<>>  BY <1>0, <2>3
    <3> HIDE DEF q
    <3>3. /\ Head(q) = q[1] /\ 1 \in 1 .. Len(q)
          /\ \A i \in 1 .. Len(Tail(q)) : i + 1 \in 1 .. Len(q) /\ Tail(q)[i] = q[i + 1]
      BY <3>2
    <3>4. \E i \in 1 .. Len(q) : m = q[i]  BY <1>1, <3>1, <3>3
    <3>5. \E i \in 1 .. Len(queue[e]) : m = queue[e][i]  BY <3>4 DEF q
    <3> QED BY <3>5, ToPushIn
  <2> QED BY <2>1, <2>2, <2>3
<1> QED BY PushCases, <1>3, <1>4, <1>5, <1>6, <1>7 DEF PushMoves

\* With a channel before and after the step, nobody is inside a round trip.
LEMMA ChanGoesOn ==
  ASSUME RxTyped, OneInside, OneInside', [RxNext]_rxVars, chan, chan'
  PROVE  /\ session = "up" /\ session' = "up" /\ ~OpenSession /\ ~CloseDevice
         /\ \A u \in Callers : ~SendOp(u) /\ ~Complete(u) /\ ~GiveUp(u) /\ ~Connect(u) /\ ~Disconnect(u)
         /\ cur' = cur /\ late' = late
<1>1. /\ session = "up" /\ session' = "up" /\ \A u \in Callers : op[u] = "none" /\ call[u].st = "idle"
  BY DEF OneInside
<1>2. ~OpenSession /\ ~CloseDevice  BY <1>1 DEF OpenSession, OpenStart, CloseDevice
<1>3. ASSUME NEW u \in Callers
      PROVE  ~SendOp(u) /\ ~Complete(u) /\ ~GiveUp(u) /\ ~Connect(u) /\ ~Disconnect(u)
  BY <1>1 DEF SendOp, Complete, GiveUp, Connect, Disconnect, Receive, Timeout
<1>4. CASE Read \/ Alone \/ DevCommand \/ DevStatus \/ DevRestart \/ DevReceives
  BY <1>1, <1>2, <1>3, <1>4
     DEF Read, Alone, DevCommand, DevStatus, DevRestart, DevReceives, drvVars
<1>5. ASSUME NEW e \in Sessions, PushCheck(e) \/ PushTake(e) \/ PushData(e)
      PROVE  cur' = cur /\ late' = late
  BY <1>5 DEF PushCheck, PushTake, PushData, drvVars
<1>6. ASSUME NEW u \in Readers, ReadCheck(u) \/ ReadPop(u) \/ ClearRx(u)
      PROVE  cur' = cur /\ late' = late
  BY <1>6 DEF ReadCheck, ReadPop, ClearRx
<1>7. UNCHANGED rxVars => cur' = cur /\ late' = late  BY DEF rxVars, drvVars
<1> QED BY <1>1, <1>2, <1>3, <1>4, <1>5, <1>6, <1>7 DEF RxNext

LEMMA HandsIn ==
  ASSUME NEW n
  PROVE  n \in Hands <=> \/ \E m \in shed : n = m.n
                         \/ \E i \in 1 .. Len(rxData) : n = rxData[i].msg.n
                         \/ \E i \in 1 .. Len(got) : n = got[i].msg.n
BY DEF Hands

\* What was handed on stays so; what a thread pushes is; and all the channel's queue
\* has was in it or pushed.
LEMMA HandsStep ==
  ASSUME RxTyped, OneInside, OneInside', [RxNext]_rxVars, chan, chan'
  PROVE  /\ \A n \in Hands : n \in Hands'
         /\ \A e \in Sessions : PushData(e) => push[e].msg.n \in Hands'
         /\ \A i \in 1 .. Len(rxData') :
              \/ \E j \in 1 .. Len(rxData) : rxData'[i] = rxData[j]
              \/ \E m \in ToPush : rxData'[i].msg = m
<1> DEFINE Goal == /\ \A n \in Hands : n \in Hands'
                   /\ \A e \in Sessions : PushData(e) => push[e].msg.n \in Hands'
                   /\ \A i \in 1 .. Len(rxData') :
                        \/ \E j \in 1 .. Len(rxData) : rxData'[i] = rxData[j]
                        \/ \E m \in ToPush : rxData'[i].msg = m
<1>0. /\ rxData \in Seq(Held) /\ got \in Seq(Held) /\ DOMAIN push = Sessions
  BY DEF RxTyped, DrvTyped, PushTyped
<1>g. /\ session = "up" /\ session' = "up" /\ ~OpenSession /\ ~CloseDevice
      /\ \A u \in Callers : ~SendOp(u) /\ ~Complete(u) /\ ~GiveUp(u) /\ ~Connect(u) /\ ~Disconnect(u)
  BY ChanGoesOn
<1>1. ASSUME NEW n \in Hands'
      PROVE  \/ \E m \in shed' : n = m.n
             \/ \E i \in 1 .. Len(rxData') : n = rxData'[i].msg.n
             \/ \E i \in 1 .. Len(got') : n = got'[i].msg.n
  BY DEF Hands
<1>2. ASSUME NEW n, \/ \E m \in shed' : n = m.n
                    \/ \E i \in 1 .. Len(rxData') : n = rxData'[i].msg.n
                    \/ \E i \in 1 .. Len(got') : n = got'[i].msg.n
      PROVE  n \in Hands'
  BY <1>2 DEF Hands
<1>3. CASE \E e \in Sessions : PushData(e)
  <2>1. PICK e \in Sessions : PushData(e)  BY <1>3
  <2> DEFINE m == push[e].msg
             p == Pushed(e)
  <2>2. /\ push[e].st = "push" /\ got' = got /\ p.msg = m /\ p \in Held
        /\ \/ rxData' = Append(rxData, p) /\ shed' = shed
           \/ rxData' = rxData /\ shed' = shed \cup {m}
    <3>1. p \in Held /\ p.msg = m  BY <2>1 DEF Pushed, Held, PushData, RxTyped, PushTyped
    <3>2. Len(rxData) \in Nat /\ MaxQueue \in Nat  BY <1>0, RxAssumption
    <3> QED BY <2>1, <3>1, <3>2 DEF PushData
  <2>3. m \in ToPush  BY <2>2, ToPushIn
  <2>4. \A x \in Sessions : PushData(x) => x = e
    <3>1. push' = [push EXCEPT ![e] = Pusher("check")]  BY <2>1 DEF PushData
    <3>2. ASSUME NEW x \in Sessions, PushData(x), x # e PROVE FALSE
      <4>1. push[x].st = "push" /\ push' = [push EXCEPT ![x] = Pusher("check")]  BY <3>2 DEF PushData
      <4>2. push'[x] = push[x] /\ push'[x] = Pusher("check")  BY <1>0, <3>1, <3>2, <4>1
      <4> QED BY <4>1, <4>2 DEF Pusher
    <3> QED BY <3>2
  <2> HIDE DEF m, p
  <2>5. CASE rxData' = Append(rxData, p) /\ shed' = shed
    <3>1. /\ Len(rxData') = Len(rxData) + 1 /\ rxData'[Len(rxData) + 1] = p /\ Len(rxData) \in Nat
          /\ \A i \in 1 .. Len(rxData) : rxData'[i] = rxData[i]
      BY <1>0, <2>2, <2>5, AppendProperties
    <3>2. Len(rxData) + 1 \in 1 .. Len(rxData')  BY <3>1
    <3>3. \A i \in 1 .. Len(rxData) : i \in 1 .. Len(rxData')  BY <3>1
    <3>4. m.n \in Hands'  BY <1>2, <2>2, <3>1, <3>2
    <3>5. ASSUME NEW n \in Hands PROVE n \in Hands'
      BY <1>2, <2>2, <2>5, <3>1, <3>3, HandsIn
    <3>6. \A i \in 1 .. Len(rxData') : i \in 1 .. Len(rxData) \/ i = Len(rxData) + 1  BY <3>1
    <3> QED BY <2>2, <2>3, <2>4, <3>1, <3>4, <3>5, <3>6 DEF m
  <2>6. CASE rxData' = rxData /\ shed' = shed \cup {m}
    <3>1. m.n \in Hands'  BY <1>2, <2>6
    <3>2. \A n \in Hands : n \in Hands'  BY <1>2, <2>2, <2>6, HandsIn
    <3> QED BY <2>4, <2>6, <3>1, <3>2 DEF m
  <2> QED BY <2>2, <2>5, <2>6
<1>4. CASE (\E u \in Readers : ClearRx(u)) /\ \A e \in Sessions : ~PushData(e)
  <2>1. shed' = shed \cup {rxData[i].msg : i \in 1 .. Len(rxData)} /\ rxData' = <<>> /\ got' = got
    BY <1>4 DEF ClearRx
  <2>2. \A i \in 1 .. Len(rxData') : FALSE  BY <2>1
  <2>3. \A n \in Hands : n \in Hands'  BY <1>2, <2>1, HandsIn
  <2> QED BY <1>4, <2>2, <2>3
<1>5. CASE (\E u \in Readers : ReadPop(u)) /\ \A e \in Sessions : ~PushData(e)
  <2>1. /\ shed' = shed
        /\ \/ rxData' = rxData /\ got' = got
           \/ rxData # <<>> /\ rxData' = Tail(rxData) /\ got' = Append(got, Head(rxData))
    BY <1>5 DEF ReadPop
  <2>2. CASE rxData' = rxData /\ got' = got
    <3>1. \A n \in Hands : n \in Hands'  BY <1>2, <2>1, <2>2, HandsIn
    <3> QED BY <1>5, <2>2, <3>1
  <2>3. CASE rxData # <<>> /\ rxData' = Tail(rxData) /\ got' = Append(got, Head(rxData))
    <3> DEFINE h == Head(rxData)
    <3>1. h = rxData[1] /\ h \in Held /\ got' = Append(got, h)  BY <1>0, <2>3, SeqFacts
    <3> HIDE DEF h
    <3>2. /\ Len(got') = Len(got) + 1 /\ got'[Len(got) + 1] = h /\ Len(got) \in Nat
          /\ \A i \in 1 .. Len(got) : got'[i] = got[i]
      BY <1>0, <3>1, AppendProperties
    <3>3. /\ Len(rxData') = Len(rxData) - 1 /\ Len(rxData) \in Nat
          /\ \A i \in 1 .. Len(rxData') : i + 1 \in 1 .. Len(rxData) /\ rxData'[i] = rxData[i + 1]
      BY <1>0, <2>3
    <3>4. \A i \in 2 .. Len(rxData) : i - 1 \in 1 .. Len(rxData') /\ rxData'[i - 1] = rxData[i]
      BY <1>0, <2>3
    <3>5. ASSUME NEW n \in Hands PROVE n \in Hands'
      <4>1. CASE \E i \in 1 .. Len(rxData) : n = rxData[i].msg.n
        <5>1. PICK i \in 1 .. Len(rxData) : n = rxData[i].msg.n  BY <4>1
        <5>2. CASE i = 1
          <6>1. Len(got) + 1 \in 1 .. Len(got')  BY <3>2
          <6> QED BY <1>2, <3>1, <3>2, <5>1, <5>2, <6>1
        <5>3. CASE i # 1
          <6>1. i \in 2 .. Len(rxData)  BY <3>3, <5>3
          <6>2. i - 1 \in 1 .. Len(rxData') /\ rxData'[i - 1] = rxData[i]  BY <3>4, <6>1
          <6> QED BY <1>2, <5>1, <6>2
        <5> QED BY <5>2, <5>3
      <4>2. CASE \E i \in 1 .. Len(got) : n = got[i].msg.n
        <5>1. \A i \in 1 .. Len(got) : i \in 1 .. Len(got')  BY <3>2
        <5> QED BY <1>2, <3>2, <4>2, <5>1
      <4>3. CASE \E m \in shed : n = m.n  BY <1>2, <2>1, <4>3
      <4> QED BY <4>1, <4>2, <4>3, HandsIn
    <3> QED BY <1>5, <3>3, <3>5
  <2> QED BY <2>1, <2>2, <2>3
<1>6. CASE UNCHANGED <<shed, rxData, got>> /\ \A e \in Sessions : ~PushData(e)
  <2>1. \A n \in Hands : n \in Hands'  BY <1>2, <1>6, HandsIn
  <2> QED BY <1>6, <2>1
<1> HIDE DEF Goal
<1>7. Read \/ Alone \/ DevCommand \/ DevStatus \/ DevRestart \/ DevReceives => UNCHANGED <<shed, rxData, got>>
  BY DEF Read, Alone, DevCommand, DevStatus, DevRestart, DevReceives, drvVars
<1>8. ASSUME NEW e \in Sessions, PushCheck(e) \/ PushTake(e) PROVE UNCHANGED <<shed, rxData, got>>
  BY <1>8 DEF PushCheck, PushTake, drvVars
<1>9. ASSUME NEW u \in Readers, ReadCheck(u) PROVE UNCHANGED <<shed, rxData, got>>
  BY <1>9 DEF ReadCheck
<1>10. UNCHANGED rxVars => UNCHANGED <<shed, rxData, got>>  BY DEF rxVars, drvVars
<1> QED BY <1>g, <1>3, <1>4, <1>5, <1>6, <1>7, <1>8, <1>9, <1>10 DEF RxNext, Goal

\* The channel stays.
LEMMA ChanStays ==
  ASSUME RxBase, OInv', OneInside', ChanKept, [RxNext]_rxVars, chan, chan'
  PROVE  /\ Latest(cur, 1)' /\ Kept(cur, 1, Waits(epoch) \cup Hands)'
         /\ \A m \in ToPush' : m \in late' \/ m.conn = cur'
         /\ OnlyLeftovers'
<1>0. /\ OInv /\ IInv /\ UpRunning /\ RxTyped /\ OneInside /\ Pushes /\ up \in Seq(RxUp) /\ Len(up) \in Nat
  BY DEF RxBase, OInv, RxTyped, WireTyped
<1>1. /\ session = "up" /\ session' = "up" /\ (\A u \in Callers : ~SendOp(u)) /\ cur' = cur /\ late' = late
  BY <1>0, ChanGoesOn
<1> PICK c : c = cur  OBVIOUS
<1> PICK e : e = epoch  OBVIOUS
<1> PICK a : a = 1  OBVIOUS
<1> PICK R : R = Waits(e) \cup Hands  OBVIOUS
<1> PICK W2 : W2 = Waits(e)'  OBVIOUS
<1> PICK H2 : H2 = Hands'  OBVIOUS
<1> PICK R2 : R2 = W2 \cup H2  OBVIOUS
<1>2. /\ cur' = c /\ a \in 1 .. Len(up) + 1 /\ a \in Nat /\ a = (IF a > 1 THEN a - 1 ELSE 1)
      /\ Latest(c, a) /\ Kept(c, a, R)
  <2>1. Latest(cur, 1) /\ Kept(cur, 1, Waits(epoch) \cup Hands)  BY DEF ChanKept
  <2>2. Latest(c, a) /\ Kept(c, a, R)  BY <2>1
  <2> QED BY <1>0, <1>1, <2>2
<1>3. /\ \A n \in Hands : n \in H2
      /\ \A x \in Sessions : PushData(x) => push[x].msg.n \in H2
      /\ \A i \in 1 .. Len(rxData') : \/ \E j \in 1 .. Len(rxData) : rxData'[i] = rxData[j]
                                      \/ \E m \in ToPush : rxData'[i].msg = m
  BY <1>0, HandsStep
<1>4. /\ epoch' = e /\ e \in Sessions
      /\ \A w \in Waits(e) : w \in W2 \/ (PushData(e) /\ w = push[e].msg.n)
      /\ Read /\ Head(up).kind = "async" => Head(up).body.n \in W2
  BY <1>0, <1>1, WaitsStep
<1>5. R \subseteq R2  BY <1>3, <1>4
<1>6. Latest(c, a)' /\ Kept(c, a, R2)'
  <2>1. CASE Read
    <3>1. a = 1 /\ Head(up).kind = "async" => Head(up).body.n \in R2  BY <1>4, <2>1
    <3>2. Latest(c, a)' /\ (Kept(c, a, R) => Kept(c, a, R2)')
      BY <1>0, <1>1, <1>2, <1>5, <2>1, <3>1, LatestRead
    <3> QED BY <1>2, <3>2
  <2>2. CASE ~Read
    <3>1. Latest(c, a)' /\ (Kept(c, a, R) => Kept(c, a, R)')
      BY <1>0, <1>1, <1>2, <2>2, LatestStep
    <3>2. Kept(c, a, R)'  BY <1>2, <3>1
    <3> QED BY <1>5, <3>1, <3>2 DEF Kept
  <2> QED BY <2>1, <2>2
<1>7. Latest(cur, 1)' /\ Kept(cur, 1, Waits(epoch) \cup Hands)'
  <2>1. Waits(epoch)' = W2  BY <1>4 DEF Waits
  <2>2. (Waits(epoch) \cup Hands)' = R2  BY <2>1
  <2>3. cur' = c /\ a = 1  BY <1>2
  <2>4. Latest(cur, 1)'  BY <1>6, <2>3 DEF Latest
  <2>5. Kept(cur, 1, Waits(epoch) \cup Hands)'  BY <1>6, <2>2, <2>3 DEF Kept
  <2> QED BY <2>4, <2>5
<1>8. ASSUME NEW m, m \in ToPush' PROVE m \in late' \/ m.conn = cur'
  <2>1. CASE m \in ToPush  BY <1>1, <2>1 DEF ChanKept
  <2>2. CASE Read /\ Head(up).kind = "async" /\ m = Head(up).body
    <3>1. up # <<>>  BY <2>2 DEF Read, ReaderTake
    <3>2. 1 \in 1 .. Len(up) /\ up[1] = Head(up)  BY <1>0, <3>1
    <3>3. up[1].kind = "async" => up[1].body.conn = c  BY <1>2, <3>2 DEF Latest
    <3> QED BY <1>1, <2>2, <3>2, <3>3
  <2> QED BY <1>0, <1>8, <2>1, <2>2, ToPushStep
<1>9. ASSUME NEW i \in 1 .. Len(rxData')
      PROVE  rxData'[i].msg.conn = cur' \/ rxData'[i].msg \in late'
  <2>1. CASE \E j \in 1 .. Len(rxData) : rxData'[i] = rxData[j]
    BY <1>1, <2>1 DEF ChanKept, OnlyLeftovers
  <2>2. CASE \E m \in ToPush : rxData'[i].msg = m  BY <1>1, <2>2 DEF ChanKept
  <2> QED BY <1>3, <2>1, <2>2
<1> QED BY <1>7, <1>8, <1>9 DEF OnlyLeftovers

\* The channel is stored.
LEMMA ChanStored ==
  ASSUME RxBase, OneInside, OpenSeen, [RxNext]_rxVars, ~chan, chan'
  PROVE  /\ Latest(cur, 1)' /\ Kept(cur, 1, Waits(epoch) \cup Hands)'
         /\ \A m \in ToPush' : m \in late' \/ m.conn = cur'
         /\ OnlyLeftovers'
<1>0. /\ OInv /\ IInv /\ RxTyped /\ WireTyped /\ OneInside
  BY DEF RxBase, OInv, RxTyped
<1>1. PICK t \in Callers : Complete(t) /\ op[t] = "open" /\ Head(inbox[call[t].id]).body.status = "ok"
                           /\ Stored(Head(inbox[call[t].id]).body.conn)
  <2>1. OpenSession \/ Read \/ Alone \/ DevCommand \/ DevStatus \/ DevRestart \/ DevReceives => chan' = chan
    BY DEF OpenSession, Read, Alone, DevCommand, DevStatus, DevRestart, DevReceives, drvVars
  <2>2. ASSUME NEW e \in Sessions, PushCheck(e) \/ PushTake(e) \/ PushData(e) PROVE chan' = chan
    BY <2>2 DEF PushCheck, PushTake, PushData, drvVars
  <2>3. ASSUME NEW u \in Readers, ReadCheck(u) \/ ReadPop(u) \/ ClearRx(u) PROVE chan' = chan
    BY <2>3 DEF ReadCheck, ReadPop, ClearRx
  <2>4. UNCHANGED rxVars => chan' = chan  BY DEF rxVars, drvVars
  <2>5. ASSUME NEW u \in Callers, Connect(u) \/ SendOp(u) PROVE chan' = chan
    BY <2>5 DEF Connect, SendOp
  <2>6. ASSUME NEW u \in Callers, Disconnect(u) \/ CloseDevice PROVE ~chan'
    BY <2>6 DEF Disconnect, CloseDevice
  <2>7. ASSUME NEW u \in Callers, GiveUp(u) PROVE chan' = chan
    <3>1. NoMsg.status # "ok"  BY DEF NoMsg
    <3> QED BY <2>7, <3>1 DEF GiveUp, Finish
  <2>8. ASSUME NEW u \in Callers, Complete(u)
        PROVE  op[u] = "open" /\ Head(inbox[call[u].id]).body.status = "ok"
               /\ Stored(Head(inbox[call[u].id]).body.conn)
    BY <2>8 DEF Complete, Finish
  <2>9. CloseDevice => ~chan'  BY DEF CloseDevice
  <2> QED BY <2>1, <2>2, <2>3, <2>4, <2>5, <2>6, <2>7, <2>8, <2>9 DEF RxNext
<1> PICK k : k = call[t].id  OBVIOUS
<1> PICK q : q = inbox[k]  OBVIOUS
<1>2. k \in Ids /\ q # <<>> /\ Head(q) \in RxUp /\ Head(q).id = k /\ q \in Seq(RxUp)
      /\ call[t].st = "waiting"
  <2>1. Receive(t)  BY <1>1 DEF Complete
  <2>2. call[t].st = "waiting"  BY <2>1 DEF Receive
  <2>3. k \in Ids /\ q # <<>> /\ Head(q) \in RxUp /\ Head(q).id = k  BY <1>0, <2>1, BodyTaken
  <2>4. q \in Seq(RxUp)  BY <1>0, <2>3 DEF WireTyped
  <2> QED BY <2>2, <2>3, <2>4
<1> PICK c : c = Head(q).body.conn  OBVIOUS
<1>3. /\ 1 \in 1 .. Len(q) /\ q[1] = Head(q) /\ Head(q).body.status = "ok"
      /\ cur' = c /\ late' = ToPush
  <2>1. 1 \in 1 .. Len(q) /\ q[1] = Head(q)  BY <1>2
  <2> QED BY <1>1, <2>1 DEF Stored
<1>4. Head(q).kind = "reply" /\ Head(q).body \in Answers /\ c \in 0 .. MaxCalls
  <2>1. Head(q).body \in (IF Head(q).kind = "async" THEN Data ELSE Answers) /\ Head(q) \in UpMsg
    BY <1>2 DEF RxUp
  <2>2. Head(q).kind \in {"reply", "async"}  BY <2>1 DEF UpMsg
  <2>3. Head(q).kind # "async"  BY <1>3, <2>1 DEF Data
  <2> QED BY <2>1, <2>2, <2>3 DEF Answers
<1>5. Latest(c, 1) /\ Kept(c, 1, Waits(epoch))
  <2>1. SeenIn(k)  BY <1>1, <1>2 DEF OpenSeen
  <2>2. Accepted(inbox[k][1], k, c)  BY <1>2, <1>3, <1>4 DEF Accepted
  <2>3. 1 \in 1 .. Len(inbox[k])  BY <1>3
  <2> QED BY <1>4, <2>1, <2>2, <2>3 DEF SeenIn
<1>6. UNCHANGED <<down, txQueue, up, epoch, dev, conns, sent, before, queue, push, rxData>>
  BY <1>1 DEF Complete, Receive, Finish, pushVars, boxVars
<1>7. Latest(c, 1)' /\ Kept(c, 1, Waits(epoch))'
  <2>1. Path' = Path  BY <1>6 DEF Path
  <2>2. Latest(c, 1)'  BY <1>5, <1>6, <2>1 DEF Latest
  <2>3. Waits(epoch)' = Waits(epoch)  BY <1>6 DEF Waits
  <2>4. Kept(c, 1, Waits(epoch))'  BY <1>5, <1>6, <2>3 DEF Kept
  <2> QED BY <2>2, <2>4
<1>8. Latest(cur, 1)' /\ Kept(cur, 1, Waits(epoch) \cup Hands)'
  <2>1. Latest(cur, 1)'  BY <1>3, <1>7 DEF Latest
  <2>2. Kept(cur, 1, Waits(epoch))'  BY <1>3, <1>7 DEF Kept
  <2>3. Kept(cur, 1, Waits(epoch) \cup Hands)'  BY <2>2 DEF Kept
  <2> QED BY <2>1, <2>3
<1>9. ToPush' = ToPush  BY <1>6 DEF ToPush
<1>10. OnlyLeftovers'
  <2>1. rxData' = <<>>  BY <1>0, <1>6 DEF OneInside
  <2>2. \A i \in 1 .. Len(rxData') : FALSE  BY <2>1
  <2> QED BY <2>2 DEF OnlyLeftovers
<1> QED BY <1>3, <1>8, <1>9, <1>10

LEMMA ChanKeptStep ==
  ASSUME RxBase, OInv', OneInside', OpenSeen, ChanKept, [RxNext]_rxVars
  PROVE  ChanKept'
<1>1. OneInside  BY DEF RxBase
<1>2. CASE chan /\ chan'  BY <1>2, ChanStays DEF ChanKept
<1>3. CASE ~chan /\ chan'  BY <1>1, <1>3, ChanStored DEF ChanKept
<1>4. CASE ~chan'  BY <1>4 DEF ChanKept
<1> QED BY <1>2, <1>3, <1>4
-----------------------------------------------------------------------------
(* The invariant, and what follows *)

\* What holds for ever, also with a hello behind an open and ids that come round ..
RxFree == IInv /\ BusyInSession /\ RxTyped /\ OneInside /\ Pushes /\ Stray /\ Ordered

\* .. with a hello that is in time ..
RxTimely == OInv /\ UpRunning /\ NoBare /\ Numbered

\* .. and only until an id comes round: then a receiver may have an answer to an
\* earlier call with the id, and a close is answered twice.
NoneRound == calls < IdLimit - 1
RxRound == IdsApart /\ Sole /\ OpenSeen /\ ChanKept

RxInv == RxFree /\ RxTimely /\ (NoneRound => RxRound)

LEMMA RxInvInit == RxInit => RxFree /\ RxInv
<1> SUFFICES ASSUME RxInit PROVE RxFree /\ RxInv  OBVIOUS
<1>1. /\ LinkInit /\ chan = FALSE /\ rxData = <<>> /\ got = <<>> /\ dev = 0 /\ conns = 0 /\ sent = 0
      /\ before = 0 /\ op = [t \in Callers |-> "none"] /\ queue = [e \in Sessions |-> <<>>]
      /\ push = [e \in Sessions |-> Pusher("off")]
  BY DEF RxInit
<1>2. /\ \A t \in Callers : op[t] = "none" /\ call[t].st = "idle"
      /\ \A e \in Sessions : queue[e] = <<>> /\ push[e].st = "off"
      /\ \A i \in Ids : inbox[i] = <<>>
  BY <1>1 DEF Pusher, LinkInit, Idle
<1>3. up = <<>> /\ down = <<>> /\ txQueue = <<>> /\ running = FALSE /\ session = "none" /\ calls = 0
      /\ reader = "off"
  BY <1>1 DEF LinkInit
<1>4. IInv /\ Numbered  BY <1>1, InitInv, InitNumbered
<1>5. OInv  BY <1>1, <1>4 DEF OInv, LinkInit, QueueIsOfSession, InSession, HelloFirst, Idle
<1>6. UpRunning /\ IdsApart /\ BusyInSession  BY <1>2, <1>3 DEF UpRunning, IdsApart, BusyInSession
<1>7. RxTyped
  <2>1. DrvTyped
    <3>1. <<>> \in Seq(Held) /\ op \in [Callers -> {"none", "open", "close"}]  BY <1>1
    <3> QED BY <1>1, <3>1 DEF DrvTyped
  <2>2. PushTyped
    <3>1. Pusher("off") \in [st : {"off", "check", "take", "push"}, msg : Data \cup {NoMsg}]
          /\ Pusher("off").st # "push"
      BY DEF Pusher
    <3>2. <<>> \in Seq(Data)  OBVIOUS
    <3> QED BY <1>1, <3>1, <3>2 DEF PushTyped
  <2>3. BoxTyped  BY <1>1, <1>3, LinkAssumption, RxAssumption DEF BoxTyped
  <2>4. WireTyped
    <3>1. <<>> \in Seq(RxUp)  OBVIOUS
    <3> QED BY <1>2, <1>3, <3>1 DEF WireTyped
  <2> QED BY <2>1, <2>2, <2>3, <2>4 DEF RxTyped
<1>8. OneInside /\ Pushes /\ NoBare /\ Sole
  <2>1. OneInside  BY <1>1, <1>2 DEF OneInside
  <2>2. Pushes  BY <1>2, <1>3 DEF Pushes
  <2>3. NoBare  BY <1>3 DEF NoBare
  <2>4. Sole  BY <1>2 DEF Sole
  <2> QED BY <2>1, <2>2, <2>3, <2>4
<1>9. Stray  BY <1>1, <1>2 DEF Stray
<1>10. Ordered
  <2>1. InUp = {}  BY <1>3 DEF InUp
  <2>2. \A e \in Sessions : Waits(e) = {} /\ \A i \in 1 .. Len(queue[e]) : FALSE
    <3>1. \A e \in Sessions : \A i \in 1 .. Len(queue[e]) : FALSE  BY <1>2
    <3> QED BY <1>2, <3>1 DEF Waits
  <2>3. \A i \in 1 .. Len(got \o rxData) : FALSE  BY <1>1
  <2>4. UpOrdered  BY <2>1 DEF UpOrdered
  <2>5. \A e \in Sessions : QueueOrdered(e)  BY <1>2, <2>2 DEF QueueOrdered
  <2>6. TakenOrdered /\ InOrder  BY <2>3 DEF TakenOrdered, Taken, InOrder
  <2> QED BY <2>4, <2>5, <2>6 DEF Ordered
<1>11. OpenSeen /\ ChanKept  BY <1>1, <1>2 DEF OpenSeen, ChanKept
<1> QED BY <1>4, <1>5, <1>6, <1>7, <1>8, <1>9, <1>10, <1>11 DEF RxInv, RxFree, RxTimely, RxRound

LEMMA RxFreeStep ==
  ASSUME RxFree, [RxNext]_rxVars
  PROVE  RxFree' /\ [LinkNext]_linkVars
<1>0. IInv /\ BusyInSession /\ RxTyped /\ OneInside /\ Pushes /\ Stray /\ Ordered  BY DEF RxFree
<1>1. [LinkNext]_linkVars  BY <1>0, RxLink
<1>2. IInv' /\ BusyInSession'  BY <1>0, <1>1, StepInv, BusyStep
<1>3. RxTyped'  BY <1>0, DrvStep, PushStep, BoxStep, WireStep DEF RxTyped
<1>4. OneInside'  BY <1>0, InsideStep
<1>5. Pushes'  BY <1>0, PushesStep
<1>6. Stray'  BY <1>0, StrayStep
<1>7. Ordered'  BY <1>0, OrderedStep
<1> QED BY <1>1, <1>2, <1>3, <1>4, <1>5, <1>6, <1>7 DEF RxFree

LEMMA RxTimelyStep ==
  ASSUME HelloInTime, RxFree, RxTimely, [RxNext]_rxVars
  PROVE  RxTimely'
<1>0. OInv /\ UpRunning /\ NoBare /\ Numbered /\ IInv /\ RxTyped  BY DEF RxFree, RxTimely
<1>1. [LinkNext]_linkVars  BY RxFreeStep
<1>2. OInv'  BY <1>0, <1>1, OStep
<1>3. UpRunning'
  <2>1. InSession  BY <1>0 DEF OInv
  <2> QED BY <1>0, <1>1, <2>1, UpRunningStep
<1>4. NoBare'  BY <1>0, NoBareStep
<1>5. Numbered'  BY <1>0, <1>1, NumberedStep
<1> QED BY <1>2, <1>3, <1>4, <1>5 DEF RxTimely

\* calls never goes back.
LEMMA NoneRoundBefore ==
  ASSUME IInv, IInv', [LinkNext]_linkVars, NoneRound'
  PROVE  NoneRound
<1>1. calls \in Nat /\ calls' \in Nat  BY DEF IInv, Scalars
<1>2. calls' = calls \/ calls' = calls + 1
  BY DEF linkVars, LinkNext, HostSession, HostThreads, HostCall, Firmware, OpenStart, OpenDone, Close,
         ReaderHello, ReaderTake, ReaderExit, WriterCheck, WriterSend, WriterDrained,
         GetId, Receive, Timeout, Send, Post, FwStatus, FwRestart, FwCommand, FwHandle,
         FwCrash, FwEmit, Restart, hostVars
<1>3. calls' < IdLimit - 1  BY DEF NoneRound
<1> QED BY <1>1, <1>2, <1>3, LinkAssumption DEF NoneRound

LEMMA RxRoundStep ==
  ASSUME HelloInTime, RxFree, RxTimely, RxRound, [RxNext]_rxVars, NoneRound'
  PROVE  RxRound'
<1>0. /\ OInv /\ UpRunning /\ Numbered /\ RxTyped /\ OneInside
      /\ IdsApart /\ Sole /\ OpenSeen /\ ChanKept
  BY DEF RxFree, RxTimely, RxRound
<1>1. RxBase  BY DEF RxFree, RxTimely, RxRound, RxBase
<1>2. [LinkNext]_linkVars /\ OneInside'
  <2>1. [LinkNext]_linkVars /\ RxFree'  BY RxFreeStep
  <2> QED BY <2>1 DEF RxFree
<1>3. OInv'
  <2>1. RxTimely'  BY RxTimelyStep
  <2> QED BY <2>1 DEF RxTimely
<1>4. IdsApart'
  <2>1. calls' < IdLimit - 1  BY DEF NoneRound
  <2> QED BY <1>0, <1>2, <2>1, IdsApartStep
<1>5. Sole'  BY <1>0, <1>3, SoleStep
<1>6. OpenSeen'  BY <1>0, <1>1, <1>3, OpenSeenStep
<1>7. ChanKept'  BY <1>0, <1>1, <1>2, <1>3, ChanKeptStep
<1> QED BY <1>4, <1>5, <1>6, <1>7 DEF RxRound

LEMMA RxInvStep ==
  ASSUME HelloInTime, RxInv, [RxNext]_rxVars
  PROVE  RxInv'
<1>0. RxFree /\ RxTimely /\ (NoneRound => RxRound)  BY DEF RxInv
<1>1. RxFree' /\ [LinkNext]_linkVars  BY <1>0, RxFreeStep
<1>2. RxTimely'  BY <1>0, RxTimelyStep
<1>3. ASSUME NoneRound' PROVE RxRound'
  <2>1. IInv /\ IInv'  BY <1>0, <1>1 DEF RxFree
  <2>2. NoneRound  BY <1>1, <1>3, <2>1, NoneRoundBefore
  <2> QED BY <1>0, <1>3, <2>2, RxRoundStep
<1> QED BY <1>1, <1>2, <1>3 DEF RxInv

\* The invariant has what the properties say.
LEMMA RxFreeSays == RxFree => OneStray /\ InOrder
<1>1. RxFree => RxTyped /\ Stray /\ Ordered  BY DEF RxFree
<1>2. RxTyped /\ Stray => OneStray  BY StrayOne
<1> QED BY <1>1, <1>2 DEF Ordered

LEMMA RxInvSays == RxInv /\ NoneRound => OnlyLeftovers /\ StreamKept
<1> SUFFICES ASSUME RxInv, NoneRound PROVE OnlyLeftovers /\ StreamKept  OBVIOUS
<1>0. /\ OInv /\ UpRunning /\ RxTyped /\ OneInside /\ Pushes /\ Ordered /\ ChanKept
  BY DEF RxInv, RxFree, RxTimely, RxRound
<1>1. OnlyLeftovers
  <2>1. CASE chan  BY <1>0, <2>1 DEF ChanKept
  <2>2. CASE ~chan
    <3>1. rxData = <<>>  BY <1>0, <2>2 DEF OneInside
    <3>2. \A i \in 1 .. Len(rxData) : FALSE  BY <3>1
    <3> QED BY <3>2 DEF OnlyLeftovers
  <2> QED BY <2>1, <2>2
<1>3. InOrder  BY <1>0 DEF Ordered
<1>4. NothingLost
  <2> SUFFICES ASSUME chan, dev = cur, NEW n \in before + 1 .. sent
               PROVE  \/ \E i \in 1 .. Len(up) : up[i].body.n = n
                      \/ \E m \in ToPush \cup shed : m.n = n
                      \/ \E i \in 1 .. Len(rxData) : rxData[i].msg.n = n
                      \/ \E i \in 1 .. Len(got) : got[i].msg.n = n
    BY DEF NothingLost
  <2>1. \/ \E j \in 1 .. Len(up) : up[j].body.n = n
        \/ n \in Waits(epoch)
        \/ n \in Hands
    BY <1>0 DEF ChanKept, Kept
  <2>2. CASE n \in Waits(epoch)
    <3>1. epoch \in Sessions  BY <1>0 DEF OneInside, UpRunning, Pushes
    <3>2. \/ \E i \in 1 .. Len(queue[epoch]) : n = queue[epoch][i].n
          \/ push[epoch].st = "push" /\ n = push[epoch].msg.n
      BY <2>2 DEF Waits
    <3>3. CASE \E i \in 1 .. Len(queue[epoch]) : n = queue[epoch][i].n
      <4>1. PICK i \in 1 .. Len(queue[epoch]) : n = queue[epoch][i].n  BY <3>3
      <4>2. queue[epoch][i] \in ToPush  BY <3>1, ToPushIn
      <4> QED BY <4>1, <4>2
    <3>4. CASE push[epoch].st = "push" /\ n = push[epoch].msg.n
      <4>1. push[epoch].msg \in ToPush  BY <3>1, <3>4, ToPushIn
      <4> QED BY <3>4, <4>1
    <3> QED BY <3>2, <3>3, <3>4
  <2>3. CASE n \in Hands  BY <2>3, HandsIn
  <2> QED BY <2>1, <2>2, <2>3
<1> QED BY <1>1, <1>3, <1>4 DEF StreamKept

\* One message at most of each session that is over gets into a channel (comm.rs:182,
\* is_running is asked before every message), for ever: whatever calls time out,
\* however the ids come round, devices restart or sessions follow each other.
THEOREM RxOneStray == RxSpec => []OneStray
<1>1. RxInit => RxFree  BY RxInvInit
<1>2. RxFree /\ [RxNext]_rxVars => RxFree'  BY RxFreeStep
<1>3. RxFree => OneStray  BY RxFreeSays
<1> QED BY <1>1, <1>2, <1>3, PTL DEF RxSpec

\* What came through one session is read in the order the device received it, each
\* message once, for ever (ReaderTake, the thread of comm.rs:177, read_channel_data).
THEOREM RxInOrder == RxSpec => []InOrder
<1>1. RxInit => RxFree  BY RxInvInit
<1>2. RxFree /\ [RxNext]_rxVars => RxFree'  BY RxFreeStep
<1>3. RxFree => InOrder  BY RxFreeSays
<1> QED BY <1>1, <1>2, <1>3, PTL DEF RxSpec

\* Until an id comes round (98 calls of get_id in the code), data that is
\* not a channel's own gets into it only if the driver's threads had it when the
\* channel was stored.  After that a connect may take the second answer to an
\* earlier close (channel.cpp:98) for its own, and store a channel the device
\* has not opened.
THEOREM RxOnlyLeftovers ==
  ASSUME HelloInTime PROVE RxSpec => [](calls < IdLimit - 1 => OnlyLeftovers)
<1>1. RxInit => RxInv  BY RxInvInit
<1>2. RxInv /\ [RxNext]_rxVars => RxInv'  BY RxInvStep
<1>3. RxInv => (calls < IdLimit - 1 => OnlyLeftovers)  BY RxInvSays DEF NoneRound
<1> QED BY <1>1, <1>2, <1>3, PTL DEF RxSpec

\* Until an id comes round, nothing of the connection the device has is lost that the
\* application did not clear and for which there was room, besides the order of
\* RxInOrder (receive_channel_data, read_channel_data and the thread of comm.rs:177).
THEOREM RxStreamKept ==
  ASSUME HelloInTime PROVE RxSpec => [](calls < IdLimit - 1 => StreamKept)
<1>1. RxInit => RxInv  BY RxInvInit
<1>2. RxInv /\ [RxNext]_rxVars => RxInv'  BY RxInvStep
<1>3. RxInv => (calls < IdLimit - 1 => StreamKept)  BY RxInvSays DEF NoneRound
<1> QED BY <1>1, <1>2, <1>3, PTL DEF RxSpec

\* Received data travels over the link that CommLink describes, with the firmware's
\* answers to opening and closing a channel in the place of its abstract handlers.
THEOREM RxImplementsLink == RxSpec => LinkSpec
<1>1. RxInit => LinkInit /\ IInv /\ RxTyped
  <2>1. RxInit => LinkInit  BY DEF RxInit
  <2> QED BY <2>1, RxInvInit DEF RxFree
<1>2. ASSUME IInv, RxTyped, [RxNext]_rxVars PROVE [LinkNext]_linkVars /\ IInv' /\ RxTyped'
  <2>1. [LinkNext]_linkVars  BY <1>2, RxLink
  <2>2. IInv'  BY <1>2, <2>1, StepInv
  <2>3. RxTyped'  BY <1>2, DrvStep, PushStep, BoxStep, WireStep DEF RxTyped
  <2> QED BY <2>1, <2>2, <2>3
<1> QED BY <1>1, <1>2, PTL DEF RxSpec, LinkSpec
=============================================================================
