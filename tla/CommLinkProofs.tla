--------------------------- MODULE CommLinkProofs ---------------------------
(***************************************************************************)
(* Proofs about CommLink for every number of threads, every IdLimit and    *)
(* every value of the bounds: its type invariant, that every message       *)
(* carries the id of the call it was made for (IdsCarried), and what       *)
(* follows for callers (ForeignReplyFar).                                  *)
(*                                                                         *)
(* IInv is inductive: TypeOK and IdsCarried together.  ForeignReplyFar is  *)
(* not inductive by itself, it says nothing of messages still under way.   *)
(* OInv adds what keeps sessions apart.  LinkFirstRound is about whose     *)
(* answer a caller takes (ReplyIsOwn): its own, in the first round of ids. *)
(*                                                                         *)
(* The last part is about order, for the modules that extend the link:     *)
(* commands are handled in the order in which they were sent (Path,        *)
(* PathStep), and the first answer to a call stays its first (FirstStep).  *)
(***************************************************************************)
EXTENDS CommLink, SequenceTheorems, TLAPS

\* Division with remainder.
LEMMA DivMod ==
  ASSUME NEW n \in Nat, NEW m \in Nat, m > 0
  PROVE  n = m * (n \div m) + (n % m) /\ n % m \in 0 .. m - 1 /\ n \div m \in Int
<1>1. n = m * (n \div m) + (n % m) OBVIOUS
<1>2. n % m \in 0 .. m - 1 OBVIOUS
<1>3. n \div m \in Int OBVIOUS
<1> QED BY <1>1, <1>2, <1>3

\* The remainder is unique.
LEMMA ModUnique ==
  ASSUME NEW m \in Nat, m > 0, NEW a \in Int, NEW b \in 0 .. m - 1
  PROVE  (m * a + b) % m = b
OBVIOUS

\* The remainder of the next number: one more, or 0 after the last.
LEMMA ModNext ==
  ASSUME NEW n \in Nat, NEW m \in Nat, m > 0
  PROVE  (n + 1) % m = IF (n % m) + 1 = m THEN 0 ELSE (n % m) + 1
<1>1. PICK q \in Int, r \in 0 .. m - 1 : n = m * q + r /\ r = n % m
  BY DivMod
<1>2. CASE r + 1 < m
  <2>1. n + 1 = m * q + (r + 1) /\ r + 1 \in 0 .. m - 1 BY <1>1, <1>2
  <2>2. (n + 1) % m = r + 1 BY <2>1, ModUnique
  <2> QED BY <2>2, <1>1, <1>2
<1>3. CASE r + 1 = m
  <2>1. n + 1 = m * (q + 1) + 0 BY <1>1, <1>3
  <2>2. q + 1 \in Int /\ 0 \in 0 .. m - 1 OBVIOUS
  <2>3. (m * (q + 1) + 0) % m = 0 BY <2>2, ModUnique
  <2> QED BY <2>1, <2>3, <1>1, <1>3
<1> QED BY <1>1, <1>2, <1>3

\* get_id's counter, which wraps by comparison, counts modulo IdLimit - 1.
LEMMA IdOfNext ==
  ASSUME NEW n \in Nat
  PROVE  IdOf(n) \in Ids /\ IdOf(n + 1) = NextId(IdOf(n))
<1>1. IdLimit - 1 \in Nat /\ IdLimit - 1 > 0 BY LinkAssumption
<1>2. n % (IdLimit - 1) \in 0 .. (IdLimit - 1) - 1 BY <1>1, DivMod
<1>3. (n + 1) % (IdLimit - 1) = IF (n % (IdLimit - 1)) + 1 = IdLimit - 1 THEN 0 ELSE (n % (IdLimit - 1)) + 1
  BY <1>1, ModNext
<1> QED BY <1>1, <1>2, <1>3, LinkAssumption DEF IdOf, NextId, Ids

\* Two numbers with one remainder are at least the modulus apart.
LEMMA ModFar ==
  ASSUME NEW m \in Nat, m > 0, NEW a \in Nat, NEW b \in Nat, a % m = b % m, a < b
  PROVE  b - a >= m
<1>1. PICK p \in Int, r \in 0 .. m - 1 : a = m * p + r /\ r = a % m BY DivMod
<1>2. PICK q \in Int, s \in 0 .. m - 1 : b = m * q + s /\ s = b % m BY DivMod
<1>3. b - a = m * (q - p) BY <1>1, <1>2
<1>4. q - p >= 1
  <2>1. m * (q - p) > 0 BY <1>3
  <2> QED BY <2>1
<1> QED
  <2>1. m * (q - p) >= m BY <1>4
  <2> QED BY <2>1, <1>3

\* Two calls that drew the same id are a whole round of ids apart.
LEMMA SameIdFar ==
  ASSUME NEW a \in Nat, NEW b \in Nat, IdOf(a) = IdOf(b), a # b
  PROVE  b - a >= IdLimit - 1 \/ a - b >= IdLimit - 1
<1>1. IdLimit - 1 \in Nat /\ IdLimit - 1 > 0 BY LinkAssumption
<1>2. a % (IdLimit - 1) = b % (IdLimit - 1) BY <1>1, DivMod DEF IdOf
<1>3. CASE a < b BY <1>1, <1>2, <1>3, ModFar
<1>4. CASE b < a BY <1>1, <1>2, <1>4, ModFar
<1> QED BY <1>3, <1>4

\* What the queue operations keep: the elements stay in the same set.
LEMMA SeqFacts ==
  ASSUME NEW S, NEW s \in Seq(S)
  PROVE  /\ \A e \in S : Append(s, e) \in Seq(S)
         /\ s # <<>> => Head(s) \in S /\ Tail(s) \in Seq(S)
         /\ \A n \in 1 .. Len(s) + 1 : SubSeq(s, n, Len(s)) \in Seq(S)
         /\ \A n \in 0 .. Len(s) : SubSeq(s, 1, n) \in Seq(S)
         /\ \A u \in Seq(S) : s \o u \in Seq(S)
<1>1. \A e \in S : Append(s, e) \in Seq(S) BY AppendProperties
<1>2. s # <<>> => Head(s) \in S /\ Tail(s) \in Seq(S) BY HeadTailProperties
<1>3. \A n \in 1 .. Len(s) + 1 : SubSeq(s, n, Len(s)) \in Seq(S)
  <2> TAKE n \in 1 .. Len(s) + 1
  <2>1. \A i \in n .. Len(s) : s[i] \in S OBVIOUS
  <2> QED BY <2>1, SubSeqProperties
<1>4. \A n \in 0 .. Len(s) : SubSeq(s, 1, n) \in Seq(S)
  <2> TAKE n \in 0 .. Len(s)
  <2>1. \A i \in 1 .. n : s[i] \in S OBVIOUS
  <2> QED BY <2>1, SubSeqProperties
<1>5. \A u \in Seq(S) : s \o u \in Seq(S) BY ConcatProperties
<1> QED BY <1>1, <1>2, <1>3, <1>4, <1>5

\* Sequences over a subset.
LEMMA SeqSubset ==
  ASSUME NEW S, NEW T, S \subseteq T
  PROVE  Seq(S) \subseteq Seq(T)
OBVIOUS
-----------------------------------------------------------------------------
\* The part of TypeOK that speaks of no queue; IdsCarried says more of the queues.
Scalars ==
  /\ session \in {"none", "opening", "up"} /\ epoch \in Nat /\ running \in BOOLEAN
  /\ reader \in {"off", "hello", "loop"} /\ writer \in {"off", "check", "recv"}
  /\ calls \in Nat /\ posts \in Nat /\ timeouts \in Nat /\ restarts \in Nat
  /\ lastId \in Id0s /\ lastSerial \in Nat
  /\ call \in [Callers -> Call]
  /\ inbox = [i \in Ids |-> inbox[i]]

\* The inductive invariant.
IInv == Scalars /\ IdsCarried

\* The invariant gives every variable its type.
LEMMA IInvType == IInv => TypeOK
<1> SUFFICES ASSUME IInv PROVE TypeOK OBVIOUS
<1>1. TaggedDown \subseteq DownMsg /\ TaggedUp \subseteq UpMsg BY DEF TaggedDown, TaggedUp
<1>2. txQueue \in Seq(DownMsg) /\ down \in Seq(DownMsg) /\ up \in Seq(UpMsg)
  BY <1>1, SeqSubset DEF IInv, IdsCarried
<1>3. ASSUME NEW i \in Ids PROVE inbox[i] \in Seq(UpMsg)
  <2>1. inbox[i] \in Seq({m \in TaggedUp : m.id = i}) BY DEF IInv, IdsCarried
  <2>2. {m \in TaggedUp : m.id = i} \subseteq UpMsg BY <1>1
  <2> QED BY <2>1, <2>2, SeqSubset
<1>4. inbox \in [Ids -> Seq(UpMsg)] BY <1>3 DEF IInv, Scalars
<1>5. msgId \in Ids BY IdOfNext DEF IInv, Scalars, IdsCarried
<1> QED BY <1>2, <1>4, <1>5 DEF IInv, Scalars, TypeOK

\* It holds before the first session.
LEMMA InitInv == LinkInit => IInv
<1> SUFFICES ASSUME LinkInit PROVE IInv OBVIOUS
<1> USE DEF LinkInit
<1>1. 0 \in Id0s BY LinkAssumption DEF Id0s
<1>2. IdOf(0) = 1
  <2>1. 0 % (IdLimit - 1) = 0 BY LinkAssumption
  <2> QED BY <2>1 DEF IdOf
<1>3. IdsCarried BY <1>1, <1>2 DEF IdsCarried, Tagged, Idle
<1>4. call \in [Callers -> Call] BY <1>1 DEF Idle, Call
<1> QED BY <1>1, <1>3, <1>4 DEF IInv, Scalars

\* Messages the driver writes are tagged.
LEMMA StatusTagged ==
  ASSUME NEW k \in {"hello", "goodbye"}, epoch \in Nat
  PROVE  StatusMsg(k) \in TaggedDown
<1>1. 0 \in Id0s BY LinkAssumption DEF Id0s
<1> QED BY <1>1 DEF StatusMsg, TaggedDown, DownMsg, Tagged

LEMMA CmdTagged ==
  ASSUME NEW id \in Id0s, NEW n \in Nat, NEW b \in Bodies, epoch \in Nat,
         id # 0 => id = IdOf(n)
  PROVE  Cmd(id, n, b) \in TaggedDown
BY DEF Cmd, TaggedDown, DownMsg, Tagged

\* So is what a handler sends.
LEMMA SentTagged ==
  ASSUME NEW id \in Id0s, NEW n \in Nat, NEW outs \in Seq(Outs), id # 0 => id = IdOf(n)
  PROVE  Sent(id, n, outs) \in Seq(TaggedUp)
<1>1. 0 \in Id0s BY LinkAssumption DEF Id0s
<1>2. ASSUME NEW i \in 1 .. Len(outs)
      PROVE  (IF outs[i].kind = "reply"
                THEN [kind |-> "reply", id |-> id, serial |-> n, body |-> outs[i].body]
                ELSE [kind |-> "async", id |-> 0, serial |-> 0, body |-> outs[i].body]) \in TaggedUp
  <2>1. outs[i] \in Outs OBVIOUS
  <2> QED BY <1>1, <2>1 DEF TaggedUp, UpMsg, Tagged, Outs
<1>3. Len(outs) \in Nat OBVIOUS
<1> QED BY <1>2, <1>3 DEF Sent

\* Whatever the handlers send, it is a sequence of answers and received data.
LEMMA HandlerOutsType ==
  ASSUME NEW m, NEW outs \in HandlerOuts(m)
  PROVE  outs \in Seq(Outs)
<1>1. \A n \in Nat : [1 .. n -> Outs] \subseteq Seq(Outs) BY SeqDef
<1>2. <<>> \in Seq(Outs) OBVIOUS
<1>3. CASE outs \in UNION {[1 .. n -> Outs] : n \in 0 .. MaxReplies}
  BY <1>1, <1>3, LinkAssumption
<1>4. CASE outs \in [1 .. 1 -> [kind : {"reply"}, body : UpBodies]]
  <2>1. [kind : {"reply"}, body : UpBodies] \subseteq Outs BY DEF Outs
  <2>2. outs \in [1 .. 1 -> Outs] BY <1>4, <2>1
  <2> QED BY <1>1, <2>2
<1> QED BY <1>2, <1>3, <1>4 DEF HandlerOuts

\* A restart keeps the invariant whatever part of the received bytes it loses.
LEMMA RestartKeeps ==
  ASSUME IInv, NEW s \in Seq(TaggedDown), Restart(s), up' \in Seq(TaggedUp)
  PROVE  IInv'
<1>1. down' \in Seq(TaggedDown) BY SeqFacts DEF Restart
<1>2. 0 \in Id0s BY LinkAssumption DEF Id0s
<1>3. IdsCarried' BY <1>1 DEF Restart, hostVars, IInv, IdsCarried, Tagged
<1>4. Scalars' BY <1>2 DEF Restart, hostVars, IInv, Scalars
<1> QED BY <1>3, <1>4 DEF IInv
-----------------------------------------------------------------------------
(* Every step keeps IInv: one lemma per group of actions. *)

\* passthru_open and passthru_close keep the invariant.
LEMMA SessionStep == IInv /\ HostSession => IInv'
<1> SUFFICES ASSUME IInv, HostSession PROVE IInv' OBVIOUS
<1> USE DEF hostVars, devVars
<1>1. CASE OpenStart
  <2>1. down' \in Seq(TaggedDown) /\ up' \in Seq(TaggedUp)
    BY <1>1, SeqFacts DEF OpenStart, IInv, IdsCarried
  <2>2. txQueue' \in Seq(TaggedDown) BY <1>1 DEF OpenStart
  <2>3. inbox' = [i \in Ids |-> <<>>] BY <1>1 DEF OpenStart
  <2>4. IdsCarried' BY <1>1, <2>1, <2>2, <2>3 DEF OpenStart, IInv, IdsCarried
  <2>5. Scalars' BY <1>1, <2>3 DEF OpenStart, IInv, Scalars
  <2> QED BY <2>4, <2>5 DEF IInv
<1>2. CASE OpenDone BY <1>2 DEF OpenDone, IInv, Scalars, IdsCarried
<1>3. CASE Close
  <2>1. IdsCarried' BY <1>3 DEF Close, IInv, IdsCarried
  <2>2. Scalars' BY <1>3 DEF Close, IInv, Scalars
  <2> QED BY <2>1, <2>2 DEF IInv
<1> QED BY <1>1, <1>2, <1>3 DEF HostSession

\* So do the reader and the writer thread,
LEMMA ThreadStep == IInv /\ HostThreads => IInv'
<1> SUFFICES ASSUME IInv, HostThreads PROVE IInv' OBVIOUS
<1> USE DEF hostVars, devVars
<1>t. /\ txQueue \in Seq(TaggedDown) /\ down \in Seq(TaggedDown) /\ up \in Seq(TaggedUp)
      /\ epoch \in Nat
  BY DEF IInv, Scalars, IdsCarried
<1>w. ASSUME NEW m \in TaggedDown, down' \in Written(m) PROVE down' \in Seq(TaggedDown)
  <2>1. down' = Append(down, m) \/ down' = down BY <1>w DEF Written
  <2>2. Append(down, m) \in Seq(TaggedDown) BY <1>t, SeqFacts
  <2> QED BY <1>t, <2>1, <2>2
<1>1. CASE ReaderHello
  <2>1. down' \in Seq(TaggedDown) BY <1>1, <1>t, StatusTagged, SeqFacts DEF ReaderHello
  <2>2. IdsCarried' BY <1>1, <2>1 DEF ReaderHello, IInv, IdsCarried
  <2>3. Scalars' BY <1>1 DEF ReaderHello, IInv, Scalars
  <2> QED BY <2>2, <2>3 DEF IInv
<1>2. CASE ReaderTake
  <2> DEFINE m == Head(up)
  <2>1. m \in TaggedUp /\ up' \in Seq(TaggedUp) BY <1>2, <1>t, SeqFacts DEF ReaderTake
  <2> HIDE DEF m
  <2>2. \/ inbox' = inbox
        \/ m.id \in Ids /\ inbox' = [inbox EXCEPT ![m.id] = Append(@, m)]
    BY <1>2 DEF ReaderTake, m
  <2>3. \A i \in Ids : inbox[i] \in Seq({n \in TaggedUp : n.id = i}) BY DEF IInv, IdsCarried
  <2>4. inbox = [i \in Ids |-> inbox[i]] BY DEF IInv, Scalars
  <2>5. m.id \in Ids => Append(inbox[m.id], m) \in Seq({n \in TaggedUp : n.id = m.id})
    BY <2>1, <2>3, AppendProperties
  <2>6. inbox' = [i \in Ids |-> inbox'[i]] BY <2>2, <2>4
  <2>7. \A i \in Ids : inbox'[i] \in Seq({n \in TaggedUp : n.id = i})
    <3>1. CASE inbox' = inbox BY <3>1, <2>3
    <3>2. CASE m.id \in Ids /\ inbox' = [inbox EXCEPT ![m.id] = Append(@, m)]
      <4> TAKE i \in Ids
      <4>1. CASE i = m.id BY <4>1, <3>2, <2>4, <2>5
      <4>2. CASE i # m.id BY <4>2, <3>2, <2>3, <2>4
      <4> QED BY <4>1, <4>2
    <3> QED BY <3>1, <3>2, <2>2
  <2>8. IdsCarried' BY <1>2, <2>1, <2>7 DEF ReaderTake, IInv, IdsCarried
  <2>9. Scalars' BY <1>2, <2>6 DEF ReaderTake, IInv, Scalars
  <2> QED BY <2>8, <2>9 DEF IInv
<1>3. CASE ReaderExit
  <2>1. down' \in Seq(TaggedDown) BY <1>3, <1>t, <1>w, StatusTagged DEF ReaderExit
  <2>2. IdsCarried' BY <1>3, <2>1 DEF ReaderExit, IInv, IdsCarried
  <2>3. Scalars' BY <1>3 DEF ReaderExit, IInv, Scalars
  <2> QED BY <2>2, <2>3 DEF IInv
<1>4. CASE WriterCheck BY <1>4 DEF WriterCheck, IInv, Scalars, IdsCarried
<1>5. CASE WriterSend
  <2>1. Head(txQueue) \in TaggedDown /\ txQueue' \in Seq(TaggedDown)
    BY <1>5, <1>t, SeqFacts DEF WriterSend
  <2>2. down' \in Seq(TaggedDown) BY <1>5, <1>w, <2>1 DEF WriterSend
  <2>3. IdsCarried' BY <1>5, <2>1, <2>2 DEF WriterSend, IInv, IdsCarried
  <2>4. Scalars' BY <1>5 DEF WriterSend, IInv, Scalars
  <2> QED BY <2>3, <2>4 DEF IInv
<1>6. CASE WriterDrained BY <1>6 DEF WriterDrained, IInv, Scalars, IdsCarried
<1> QED BY <1>1, <1>2, <1>3, <1>4, <1>5, <1>6 DEF HostThreads

\* the steps of run_on_m2, write_and_read and write_comm_struct,
LEMMA CallStep == ASSUME NEW t \in Callers PROVE IInv /\ HostCall(t) => IInv'
<1> SUFFICES ASSUME IInv, HostCall(t) PROVE IInv' OBVIOUS
<1> USE DEF hostVars, devVars
<1>t. /\ txQueue \in Seq(TaggedDown) /\ epoch \in Nat /\ calls \in Nat /\ posts \in Nat
      /\ call \in [Callers -> Call] /\ timeouts \in Nat
  BY DEF IInv, Scalars, IdsCarried
<1>z. 0 \in Id0s /\ Ids \subseteq Id0s /\ 0 \notin Ids BY LinkAssumption DEF Id0s, Ids
<1>i. Idle \in Call /\ Tagged(Idle) /\ Idle.st = "idle" BY <1>z DEF Idle, Call, Tagged
<1>c. \A u \in Callers : Tagged(call[u]) /\ (call[u].st # "idle" => call[u].id # 0)
  BY DEF IInv, IdsCarried
<1>1. CASE GetId(t)
  <2> DEFINE c == [st |-> "ready", id |-> NextId(msgId), serial |-> calls + 1]
  <2>1. msgId' = IdOf(calls') /\ msgId' \in Ids /\ calls' \in Nat /\ msgId' = NextId(msgId)
    BY <1>1, <1>t, IdOfNext DEF GetId, IInv, IdsCarried
  <2>2. c \in Call /\ Tagged(c) /\ c.id # 0 BY <1>1, <1>t, <1>z, <2>1 DEF GetId, Call, Tagged
  <2>3. call' = [call EXCEPT ![t] = c] BY <1>1 DEF GetId
  <2> HIDE DEF c
  <2>4. call' \in [Callers -> Call] BY <1>t, <2>2, <2>3
  <2>5. \A u \in Callers : Tagged(call'[u]) /\ (call'[u].st # "idle" => call'[u].id # 0)
    BY <1>t, <1>c, <2>2, <2>3
  <2>6. IdsCarried' BY <1>1, <2>1, <2>5 DEF GetId, IInv, IdsCarried, Tagged
  <2>7. Scalars' BY <1>1, <2>1, <2>4 DEF GetId, IInv, Scalars
  <2> QED BY <2>6, <2>7 DEF IInv
<1>2. CASE Receive(t)
  <2>1. call' \in [Callers -> Call] BY <1>2, <1>t, <1>i DEF Receive
  <2>2. \A u \in Callers : Tagged(call'[u]) /\ (call'[u].st # "idle" => call'[u].id # 0)
    BY <1>2, <1>t, <1>c, <1>i DEF Receive
  <2> DEFINE k == call[t].id
  <2>3. k \in Ids /\ inbox[k] # <<>> /\ inbox' = [inbox EXCEPT ![k] = Tail(@)]
    BY <1>2, <1>t, <1>c, LinkAssumption DEF Receive, Call, Ids, Id0s
  <2> HIDE DEF k
  <2>4. \A i \in Ids : inbox[i] \in Seq({n \in TaggedUp : n.id = i}) BY DEF IInv, IdsCarried
  <2>5. inbox = [i \in Ids |-> inbox[i]] BY DEF IInv, Scalars
  <2>6. Tail(inbox[k]) \in Seq({n \in TaggedUp : n.id = k}) BY <2>3, <2>4, HeadTailProperties
  <2>7. inbox' = [i \in Ids |-> inbox'[i]] BY <2>3, <2>5
  <2>8. \A i \in Ids : inbox'[i] \in Seq({n \in TaggedUp : n.id = i}) BY <2>3, <2>4, <2>5, <2>6
  <2>9. IdsCarried' BY <1>2, <2>2, <2>8 DEF Receive, IInv, IdsCarried, Tagged
  <2>10. Scalars' BY <1>2, <2>1, <2>7 DEF Receive, IInv, Scalars
  <2> QED BY <2>9, <2>10 DEF IInv
<1>3. CASE Timeout(t)
  <2>1. call' \in [Callers -> Call] BY <1>3, <1>t, <1>i DEF Timeout
  <2>2. \A u \in Callers : Tagged(call'[u]) /\ (call'[u].st # "idle" => call'[u].id # 0)
    BY <1>3, <1>t, <1>c, <1>i DEF Timeout
  <2>3. IdsCarried' BY <1>3, <2>2 DEF Timeout, IInv, IdsCarried, Tagged
  <2>4. Scalars' BY <1>3, <1>t, <2>1 DEF Timeout, IInv, Scalars
  <2> QED BY <2>3, <2>4 DEF IInv
<1>4. ASSUME NEW b \in Bodies, Send(t, b) PROVE IInv'
  <2>1. call' \in [Callers -> Call] BY <1>4, <1>t, <1>i, SMTT(30) DEF Send, Call
  <2>2. \A u \in Callers : Tagged(call'[u]) /\ (call'[u].st # "idle" => call'[u].id # 0)
    BY <1>4, <1>t, <1>c, <1>i DEF Send, Tagged, Call
  <2>3. Cmd(call[t].id, call[t].serial, b) \in TaggedDown
    BY <1>t, <1>c, CmdTagged DEF Call, Tagged
  <2>4. txQueue' \in Seq(TaggedDown) BY <1>4, <1>t, <2>3, SeqFacts DEF Send
  <2>5. IdsCarried' BY <1>4, <2>2, <2>4 DEF Send, IInv, IdsCarried, Tagged
  <2>6. Scalars' BY <1>4, <2>1 DEF Send, IInv, Scalars
  <2> QED BY <2>5, <2>6 DEF IInv
<1>5. ASSUME NEW b \in Bodies, Post(t, b) PROVE IInv'
  <2>1. Cmd(0, 0, b) \in TaggedDown BY <1>t, <1>z, CmdTagged
  <2>2. txQueue' \in Seq(TaggedDown) BY <1>5, <1>t, <2>1, SeqFacts DEF Post
  <2>3. IdsCarried' BY <1>5, <2>2 DEF Post, IInv, IdsCarried
  <2>4. Scalars' BY <1>5, <1>t DEF Post, IInv, Scalars
  <2> QED BY <2>3, <2>4 DEF IInv
<1> QED BY <1>1, <1>2, <1>3, <1>4, <1>5 DEF HostCall

\* and the turns of the firmware's loop, its restarts included.
LEMMA FirmwareStep == IInv /\ Firmware => IInv'
<1> SUFFICES ASSUME IInv, Firmware PROVE IInv' OBVIOUS
<1> USE DEF hostVars, devVars
<1>t. /\ down \in Seq(TaggedDown) /\ up \in Seq(TaggedUp) /\ lastId \in Id0s /\ lastSerial \in Nat
      /\ restarts \in Nat /\ 0 \in Id0s /\ (lastId # 0 => lastId = IdOf(lastSerial))
  <2>1. down \in Seq(TaggedDown) /\ up \in Seq(TaggedUp) BY DEF IInv, IdsCarried
  <2>2. lastId \in Id0s /\ lastSerial \in Nat /\ restarts \in Nat BY DEF IInv, Scalars
  <2>3. 0 \in Id0s BY LinkAssumption DEF Id0s
  <2>4. lastId # 0 => lastId = IdOf(lastSerial)
    <3>1. Tagged([id |-> lastId, serial |-> lastSerial]) BY DEF IInv, IdsCarried
    <3> QED BY <3>1 DEF Tagged
  <2> QED BY <2>1, <2>2, <2>3, <2>4
<1>1. CASE FwStatus
  <2>1. down' \in Seq(TaggedDown) BY <1>1, <1>t, SeqFacts DEF FwStatus
  <2>2. lastId' \in Id0s /\ Tagged([id |-> lastId, serial |-> lastSerial])'
    BY <1>1, <1>t DEF FwStatus, Tagged
  <2>3. IdsCarried' BY <1>1, <2>1, <2>2 DEF FwStatus, IInv, IdsCarried
  <2>4. Scalars' BY <1>1, <2>2 DEF FwStatus, IInv, Scalars
  <2> QED BY <2>3, <2>4 DEF IInv
<1>2. CASE FwRestart BY <1>2, <1>t, RestartKeeps DEF FwRestart
<1>3. CASE FwCommand
  <2>1. PICK outs \in HandlerOuts(Head(down)) : FwHandle(outs) \/ FwCrash(outs)
    BY <1>3 DEF FwCommand
  <2> DEFINE id == IdAfter(Head(down))
             n  == SerialAfter(Head(down))
  <2>2. outs \in Seq(Outs) BY HandlerOutsType
  <2>3. Head(down) \in TaggedDown /\ Tail(down) \in Seq(TaggedDown)
    BY <1>3, <1>t, SeqFacts DEF FwCommand
  <2>4. id \in Id0s /\ n \in Nat /\ (id # 0 => id = IdOf(n))
    BY <2>3, <1>t DEF IdAfter, SerialAfter, TaggedDown, DownMsg, Tagged
  <2> HIDE DEF id, n
  <2>5. Sent(id, n, outs) \in Seq(TaggedUp) BY <2>2, <2>4, SentTagged
  <2>6. up \o Sent(id, n, outs) \in Seq(TaggedUp) BY <2>5, <1>t, SeqFacts
  <2>7. CASE FwHandle(outs)
    <3>1. lastId' = id /\ lastSerial' = n /\ up' \in Seq(TaggedUp) /\ down' \in Seq(TaggedDown)
      BY <2>7, <2>3, <2>6 DEF FwHandle, id, n
    <3>2. IdsCarried' BY <2>7, <2>4, <3>1 DEF FwHandle, IInv, IdsCarried, Tagged
    <3>3. Scalars' BY <2>7, <2>4, <3>1 DEF FwHandle, IInv, Scalars
    <3> QED BY <3>2, <3>3 DEF IInv
  <2>8. CASE FwCrash(outs) BY <2>8, <2>3, <2>6, RestartKeeps DEF FwCrash, id, n
  <2> QED BY <2>1, <2>7, <2>8
<1>4. ASSUME NEW b \in UpBodies, FwEmit(b) PROVE IInv'
  <2>1. [kind |-> "async", id |-> 0, serial |-> 0, body |-> b] \in TaggedUp
    BY <1>t DEF TaggedUp, UpMsg, Tagged
  <2>2. up' \in Seq(TaggedUp) BY <1>4, <2>1, <1>t, SeqFacts DEF FwEmit
  <2>3. IdsCarried' BY <1>4, <2>2 DEF FwEmit, IInv, IdsCarried
  <2>4. Scalars' BY <1>4 DEF FwEmit, IInv, Scalars
  <2> QED BY <2>3, <2>4 DEF IInv
<1> QED BY <1>1, <1>2, <1>3, <1>4 DEF Firmware
-----------------------------------------------------------------------------
\* Hence every step does.
LEMMA StepInv == IInv /\ [LinkNext]_linkVars => IInv'
<1>1. CASE UNCHANGED linkVars
  BY <1>1 DEF linkVars, hostVars, devVars, IInv, Scalars, IdsCarried, Tagged
<1> QED BY <1>1, SessionStep, ThreadStep, CallStep, FirmwareStep DEF LinkNext

\* In every reachable state every variable has its type.
THEOREM LinkTypeOK == LinkSpec => []TypeOK
BY InitInv, StepInv, IInvType, PTL DEF LinkSpec

\* In every reachable state every id under way, in either direction and in the
\* firmware's last_id, is the id of the call it is tagged with: an answer reaches
\* only the receiver of the id that call drew.
THEOREM LinkIdsCarried == LinkSpec => []IdsCarried
<1>1. IInv => IdsCarried BY DEF IInv
<1> QED BY <1>1, InitInv, StepInv, PTL DEF LinkSpec

\* An answer a caller can take that is not its own is at least IdLimit - 1 calls of
\* get_id away: 98 other calls are made between the two in the code (IdLimit = 100).
THEOREM LinkForeignReplyFar == LinkSpec => []ForeignReplyFar
<1>1. IInv => ForeignReplyFar
  <2> SUFFICES ASSUME IInv, NEW t \in Callers, call[t].st = "waiting",
                      NEW i \in 1 .. Len(inbox[call[t].id])
               PROVE  LET s == inbox[call[t].id][i].serial IN
                        \/ s = call[t].serial
                        \/ s - call[t].serial >= IdLimit - 1
                        \/ call[t].serial - s >= IdLimit - 1
    BY DEF ForeignReplyFar
  <2> DEFINE k == call[t].id
             m == inbox[k][i]
  <2>1. call[t] \in Call /\ k \in Ids /\ k = IdOf(call[t].serial)
    <3>1. call[t] \in Call BY DEF IInv, Scalars
    <3>2. k # 0 /\ k = IdOf(call[t].serial) BY DEF IInv, IdsCarried, Tagged
    <3>3. k \in Id0s BY <3>1 DEF Call
    <3> QED BY <3>1, <3>2, <3>3, LinkAssumption DEF Ids, Id0s
  <2>2. m \in TaggedUp /\ m.id = k
    <3>1. inbox[k] \in Seq({n \in TaggedUp : n.id = k}) BY <2>1 DEF IInv, IdsCarried
    <3>2. i \in 1 .. Len(inbox[k]) OBVIOUS
    <3>3. m \in {n \in TaggedUp : n.id = k}
      <4> HIDE DEF k
      <4> QED BY <3>1, <3>2
    <3> QED BY <3>3
  <2>3. m.serial \in Nat /\ call[t].serial \in Nat BY <2>1, <2>2 DEF TaggedUp, UpMsg, Call
  <2>4. IdOf(m.serial) = IdOf(call[t].serial) BY <2>1, <2>2 DEF TaggedUp, Tagged, Ids
  <2> QED BY <2>3, <2>4, SameIdFar
<1> QED BY <1>1, InitInv, StepInv, PTL DEF LinkSpec
-----------------------------------------------------------------------------
(* Sessions: what closing and opening carry over, and the order of hello. *)

\* A command that waits to be written belongs to the last session.
QueueIsOfSession == \A i \in 1 .. Len(txQueue) : txQueue[i].epoch = epoch

\* The queue through its operations.
LEMMA QueueStep == IInv /\ QueueIsOfSession /\ [LinkNext]_linkVars => QueueIsOfSession'
<1> SUFFICES ASSUME IInv, QueueIsOfSession, [LinkNext]_linkVars PROVE QueueIsOfSession' OBVIOUS
<1>1. txQueue \in Seq(TaggedDown) BY DEF IInv, IdsCarried
<1>2. CASE UNCHANGED <<txQueue, epoch>> BY <1>2 DEF QueueIsOfSession
<1>3. CASE txQueue' = <<>> BY <1>3 DEF QueueIsOfSession
<1>4. CASE txQueue # <<>> /\ txQueue' = Tail(txQueue) /\ epoch' = epoch
  <2>1. \A i \in 1 .. Len(Tail(txQueue)) : i + 1 \in 1 .. Len(txQueue) /\ Tail(txQueue)[i] = txQueue[i + 1]
    BY <1>1, <1>4, HeadTailProperties
  <2> QED BY <1>4, <2>1 DEF QueueIsOfSession
<1>5. ASSUME NEW id, NEW n, NEW b, txQueue' = Append(txQueue, Cmd(id, n, b)), epoch' = epoch
      PROVE  QueueIsOfSession'
  <2>1. Cmd(id, n, b).epoch = epoch BY DEF Cmd
  <2>2. \A i \in 1 .. Len(txQueue') : \/ i \in 1 .. Len(txQueue) /\ txQueue'[i] = txQueue[i]
                                      \/ txQueue'[i] = Cmd(id, n, b)
    BY <1>1, <1>5
  <2> QED BY <1>5, <2>1, <2>2 DEF QueueIsOfSession
<1>6. HostSession => txQueue' = <<>> \/ UNCHANGED <<txQueue, epoch>>
  BY DEF HostSession, OpenStart, OpenDone, Close
<1>7. HostThreads => \/ UNCHANGED <<txQueue, epoch>>
                     \/ txQueue # <<>> /\ txQueue' = Tail(txQueue) /\ epoch' = epoch
  BY DEF HostThreads, ReaderHello, ReaderTake, ReaderExit, WriterCheck, WriterSend, WriterDrained
<1>8. ASSUME NEW t \in Callers, HostCall(t) PROVE QueueIsOfSession'
  <2>1. GetId(t) \/ Receive(t) \/ Timeout(t) => UNCHANGED <<txQueue, epoch>>
    BY DEF GetId, Receive, Timeout
  <2>2. ASSUME NEW b \in Bodies, Send(t, b) PROVE QueueIsOfSession'
    <3>1. epoch' = epoch BY <2>2 DEF Send
    <3>2. txQueue' = txQueue \/ txQueue' = Append(txQueue, Cmd(call[t].id, call[t].serial, b))
      BY <2>2 DEF Send
    <3> QED BY <3>1, <3>2, <1>2, <1>5
  <2>3. ASSUME NEW b \in Bodies, Post(t, b) PROVE QueueIsOfSession'
    <3>1. epoch' = epoch BY <2>3 DEF Post
    <3>2. txQueue' = txQueue \/ txQueue' = Append(txQueue, Cmd(0, 0, b)) BY <2>3 DEF Post
    <3> QED BY <3>1, <3>2, <1>2, <1>5
  <2> QED BY <1>8, <2>1, <2>2, <2>3, <1>2 DEF HostCall
<1>9. Firmware => UNCHANGED <<txQueue, epoch>>
  BY DEF Firmware, FwStatus, FwRestart, FwCommand, FwHandle, FwCrash, FwEmit, Restart, hostVars
<1>10. UNCHANGED linkVars => UNCHANGED <<txQueue, epoch>> BY DEF linkVars, hostVars
<1> QED BY <1>2, <1>3, <1>4, <1>6, <1>7, <1>8, <1>9, <1>10 DEF LinkNext

\* s is a part of t, from one place to another.
Part(s, t) == \E k \in Nat : \A i \in 1 .. Len(s) : i + k \in 1 .. Len(t) /\ s[i] = t[i + k]

\* No call is inside write_and_read but in a session; hello goes out before one of
\* its session's commands can be queued, to a wire that has none of them yet.
InSession ==
  /\ session # "up" => \A t \in Callers : call[t].st = "idle"
  /\ \A i \in 1 .. Len(txQueue) : txQueue[i].kind = "cmd"
  /\ \A i \in 1 .. Len(down) : down[i].epoch <= epoch
  /\ reader = "hello" =>
       /\ session = "opening" /\ txQueue = <<>>
       /\ \A i \in 1 .. Len(down) : down[i].kind = "cmd" => down[i].epoch # epoch

OInv == IInv /\ QueueIsOfSession /\ InSession /\ HelloFirst

LEMMA DownFacts ==
  ASSUME IInv
  PROVE  /\ down \in Seq(DownMsg) /\ epoch \in Nat /\ txQueue \in Seq(DownMsg) /\ Len(down) \in Nat
         /\ \A i \in 1 .. Len(down) : down[i].epoch \in Nat
<1>1. down \in Seq(DownMsg) /\ txQueue \in Seq(DownMsg) /\ epoch \in Nat BY IInvType DEF TypeOK
<1>2. \A i \in 1 .. Len(down) : down[i] \in DownMsg BY <1>1, ElementOfSeq
<1>3. \A i \in 1 .. Len(down) : down[i].epoch \in Nat BY <1>2 DEF DownMsg
<1> QED BY <1>1, <1>3

\* What the device reads, or loses, leaves a part.
LEMMA PartOfTail == ASSUME NEW S, NEW t \in Seq(S), t # <<>> PROVE Part(Tail(t), t)
<1>1. \A i \in 1 .. Len(Tail(t)) : i + 1 \in 1 .. Len(t) /\ Tail(t)[i] = t[i + 1]
  BY HeadTailProperties
<1> QED BY <1>1 DEF Part

LEMMA PartOfSuffix ==
  ASSUME NEW S, NEW t \in Seq(S), NEW n \in 1 .. Len(t) + 1 PROVE Part(SubSeq(t, n, Len(t)), t)
<1>1. n - 1 \in Nat /\ Len(t) \in Nat OBVIOUS
<1>2. \A i \in 1 .. Len(SubSeq(t, n, Len(t))) :
        i + (n - 1) \in 1 .. Len(t) /\ SubSeq(t, n, Len(t))[i] = t[i + (n - 1)]
  BY <1>1
<1> QED BY <1>1, <1>2 DEF Part

LEMMA PartOfPrefix ==
  ASSUME NEW S, NEW t \in Seq(S), NEW n \in 0 .. Len(t) PROVE Part(SubSeq(t, 1, n), t)
<1>1. \A i \in 1 .. Len(SubSeq(t, 1, n)) : i + 0 \in 1 .. Len(t) /\ SubSeq(t, 1, n)[i] = t[i + 0]
  OBVIOUS
<1> QED BY <1>1 DEF Part

LEMMA PartOfPart ==
  ASSUME NEW r, NEW s, NEW t, Len(r) \in Nat, Part(r, s), Part(s, t) PROVE Part(r, t)
<1>1. PICK k \in Nat : \A i \in 1 .. Len(r) : i + k \in 1 .. Len(s) /\ r[i] = s[i + k] BY DEF Part
<1>2. PICK j \in Nat : \A i \in 1 .. Len(s) : i + j \in 1 .. Len(t) /\ s[i] = t[i + j] BY DEF Part
<1>3. \A i \in 1 .. Len(r) : i + (k + j) \in 1 .. Len(t) /\ r[i] = t[i + (k + j)]
  <2> TAKE i \in 1 .. Len(r)
  <2>1. i + k \in 1 .. Len(s) /\ r[i] = s[i + k] BY <1>1
  <2>2. (i + k) + j \in 1 .. Len(t) /\ s[i + k] = t[(i + k) + j] BY <2>1, <1>2
  <2>3. (i + k) + j = i + (k + j) BY <1>1
  <2> QED BY <2>1, <2>2, <2>3
<1>4. k + j \in Nat BY <1>1, <1>2
<1> QED BY <1>3, <1>4 DEF Part

\* A part of an ordered wire is ordered.
LEMMA PartKeeps ==
  ASSUME IInv, InSession, HelloFirst, Part(down', down)
  PROVE  /\ HelloFirst'
         /\ \A i \in 1 .. Len(down') : down'[i].epoch \in Nat /\ down'[i].epoch <= epoch
         /\ reader = "hello" =>
              \A i \in 1 .. Len(down') : down'[i].kind = "cmd" => down'[i].epoch # epoch
<1>1. PICK k \in Nat : \A i \in 1 .. Len(down') : i + k \in 1 .. Len(down) /\ down'[i] = down[i + k]
  BY DEF Part
<1>2. HelloFirst'
  <2> SUFFICES ASSUME NEW i \in 1 .. Len(down'), NEW j \in 1 .. Len(down'),
                      down'[i].kind = "cmd", down'[j].kind = "hello", down'[i].epoch = down'[j].epoch
               PROVE  j < i
    BY DEF HelloFirst
  <2>1. /\ i + k \in 1 .. Len(down) /\ j + k \in 1 .. Len(down)
        /\ down'[i] = down[i + k] /\ down'[j] = down[j + k]
    BY <1>1
  <2>2. j + k < i + k BY <2>1 DEF HelloFirst
  <2> QED BY <2>2, <1>1
<1> QED BY <1>1, <1>2, DownFacts DEF InSession

\* What the host writes comes last.
LEMMA WriteKeeps ==
  ASSUME IInv, InSession, HelloFirst, NEW m \in DownMsg, down' = Append(down, m), m.epoch = epoch,
         m.kind = "hello" => reader = "hello"
  PROVE  /\ HelloFirst' /\ \A i \in 1 .. Len(down') : down'[i].epoch <= epoch
<1>1. /\ Len(down') = Len(down) + 1 /\ Len(down) \in Nat /\ down'[Len(down) + 1] = m
      /\ \A i \in 1 .. Len(down) : down'[i] = down[i]
  BY DownFacts, AppendProperties
<1>2. \A i \in 1 .. Len(down') : i \in 1 .. Len(down) \/ i = Len(down) + 1 BY <1>1
<1>3. \A i \in 1 .. Len(down') : down'[i].epoch <= epoch
  BY <1>1, <1>2, DownFacts DEF InSession
<1>4. HelloFirst'
  <2> SUFFICES ASSUME NEW i \in 1 .. Len(down'), NEW j \in 1 .. Len(down'),
                      down'[i].kind = "cmd", down'[j].kind = "hello", down'[i].epoch = down'[j].epoch
               PROVE  j < i
    BY DEF HelloFirst
  <2>1. CASE i \in 1 .. Len(down) /\ j \in 1 .. Len(down)  BY <2>1, <1>1 DEF HelloFirst
  <2>2. CASE i = Len(down) + 1 /\ j \in 1 .. Len(down)  BY <2>2, <1>1
  <2>3. CASE i \in 1 .. Len(down) /\ j = Len(down) + 1
    <3>1. down[i].kind = "cmd" /\ down[i].epoch = epoch /\ reader = "hello" BY <2>3, <1>1
    <3> QED BY <3>1, <2>3 DEF InSession
  <2>4. CASE i = Len(down) + 1 /\ j = Len(down) + 1  BY <2>4, <1>1
  <2> QED BY <1>2, <2>1, <2>2, <2>3, <2>4
<1> QED BY <1>3, <1>4

\* What the device does: it takes from the wire, and leaves the host alone.
LEMMA FirmwareTakes ==
  ASSUME down \in Seq(DownMsg), Firmware
  PROVE  /\ UNCHANGED hostVars /\ Part(down', down)
         /\ FwStatus \/ FwCommand => down # <<>> /\ Part(down', Tail(down))
<1>1. UNCHANGED hostVars
  BY DEF Firmware, FwStatus, FwRestart, FwCommand, FwHandle, FwCrash, FwEmit, Restart
<1>2. FwStatus \/ FwCommand => down # <<>> /\ Part(down', Tail(down))
  <2>1. CASE down # <<>> /\ down' = Tail(down)
    <3>1. Tail(down) \in Seq(DownMsg)  BY <2>1, HeadTailProperties
    <3>2. \A i \in 1 .. Len(Tail(down)) : i + 0 \in 1 .. Len(Tail(down)) /\ Tail(down)[i] = Tail(down)[i + 0]
      BY <3>1
    <3> QED BY <2>1, <3>2 DEF Part
  <2>2. ASSUME NEW outs, FwCrash(outs) PROVE down # <<>> /\ Part(down', Tail(down))
    <3>1. down # <<>> /\ Tail(down) \in Seq(DownMsg) BY <2>2, HeadTailProperties DEF FwCrash
    <3>2. PICK n \in 1 .. Len(Tail(down)) + 1 : down' = SubSeq(Tail(down), n, Len(Tail(down)))
      BY <2>2 DEF FwCrash, Restart
    <3> QED BY <3>1, <3>2, PartOfSuffix
  <2> QED BY <2>1, <2>2 DEF FwStatus, FwCommand, FwHandle
<1>3. Part(down', down)
  <2>1. CASE down' = down
    <3>1. \A i \in 1 .. Len(down') : i + 0 \in 1 .. Len(down) /\ down'[i] = down[i + 0]
      BY <2>1
    <3> QED BY <3>1 DEF Part
  <2>2. CASE FwRestart
    <3>1. PICK n \in 1 .. Len(down) + 1 : down' = SubSeq(down, n, Len(down))
      BY <2>2 DEF FwRestart, Restart
    <3> QED BY <3>1, PartOfSuffix
  <2>3. CASE FwStatus \/ FwCommand
    <3>1. down # <<>> /\ Part(down', Tail(down)) /\ Part(Tail(down), down)  BY <1>2, <2>3, PartOfTail
    <3>2. Len(down') \in Nat
      <4>1. Tail(down) \in Seq(DownMsg)  BY <3>1, HeadTailProperties
      <4>2. down' = Tail(down) \/ \E n \in 1 .. Len(Tail(down)) + 1 : down' = SubSeq(Tail(down), n, Len(Tail(down)))
        BY <2>3 DEF FwStatus, FwCommand, FwHandle, FwCrash, Restart
      <4> QED BY <4>1, <4>2
    <3> QED BY <3>1, <3>2, PartOfPart
  <2> QED BY <2>1, <2>2, <2>3 DEF Firmware, FwEmit
<1> QED BY <1>1, <1>2, <1>3

LEMMA FirmwareInSession == ASSUME OInv, Firmware PROVE InSession' /\ HelloFirst'
<1>1. IInv /\ InSession /\ HelloFirst BY DEF OInv
<1>2. down \in Seq(DownMsg) BY <1>1, DownFacts
<1>3. UNCHANGED hostVars /\ Part(down', down)  BY <1>2, FirmwareTakes
<1> QED BY <1>1, <1>3, PartKeeps DEF InSession, hostVars

LEMMA SessionInSession == ASSUME HelloInTime, OInv, HostSession PROVE InSession' /\ HelloFirst'
<1>1. IInv /\ InSession /\ HelloFirst BY DEF OInv
<1>2. CASE OpenStart
  <2>1. PICK n \in 0 .. Len(down) : down' = SubSeq(down, 1, n) BY <1>2 DEF OpenStart
  <2>2. Part(down', down) BY <1>1, <2>1, DownFacts, PartOfPrefix
  <2>3. /\ HelloFirst' /\ \A i \in 1 .. Len(down') : down'[i].epoch \in Nat /\ down'[i].epoch <= epoch
    BY <1>1, <2>2, PartKeeps
  <2>4. /\ session = "none" /\ session' = "opening" /\ epoch' = epoch + 1 /\ txQueue' = <<>>
        /\ call' = call
    BY <1>2 DEF OpenStart
  <2>5. epoch \in Nat BY <1>1, DownFacts
  <2>6. \A i \in 1 .. Len(down') : down'[i].epoch <= epoch' /\ down'[i].epoch # epoch'
    BY <2>3, <2>4, <2>5
  <2>7. \A t \in Callers : call'[t].st = "idle" BY <1>1, <2>4 DEF InSession
  <2>8. \A i \in 1 .. Len(txQueue') : FALSE BY <2>4
  <2> QED BY <2>3, <2>4, <2>6, <2>7, <2>8 DEF InSession
<1>3. CASE OpenDone
  <2>1. reader # "hello" /\ session = "opening" /\ UNCHANGED <<reader, call, txQueue, down, epoch>>
    BY <1>3 DEF OpenDone
  <2> QED BY <1>1, <2>1 DEF InSession, HelloFirst
<1>4. CASE Close
  <2>1. /\ session = "up" /\ (\A t \in Callers : call[t].st = "idle")
        /\ UNCHANGED <<reader, call, txQueue, down, epoch>>
    BY <1>4 DEF Close
  <2> QED BY <1>1, <2>1 DEF InSession, HelloFirst
<1> QED BY <1>2, <1>3, <1>4 DEF HostSession

LEMMA ThreadInSession == ASSUME OInv, HostThreads PROVE InSession' /\ HelloFirst'
<1>1. IInv /\ QueueIsOfSession /\ InSession /\ HelloFirst BY DEF OInv
<1>2. CASE reader' = reader /\ UNCHANGED <<session, epoch, call, txQueue, down>>
  BY <1>1, <1>2 DEF InSession, HelloFirst
<1>3. CASE reader' # "hello" /\ UNCHANGED <<session, epoch, call, txQueue, down>>
  BY <1>1, <1>3 DEF InSession, HelloFirst
<1>4. ASSUME NEW kind \in {"hello", "goodbye"}, kind = "hello" => reader = "hello",
             reader' # "hello", down' = Append(down, StatusMsg(kind)),
             UNCHANGED <<session, epoch, call, txQueue>>
      PROVE  InSession' /\ HelloFirst'
  <2>1. StatusMsg(kind) \in DownMsg BY <1>1, DownFacts, StatusTagged DEF TaggedDown
  <2>2. StatusMsg(kind).epoch = epoch /\ StatusMsg(kind).kind = kind BY DEF StatusMsg
  <2>3. HelloFirst' /\ \A i \in 1 .. Len(down') : down'[i].epoch <= epoch
    BY <1>1, <1>4, <2>1, <2>2, WriteKeeps
  <2> QED BY <1>1, <1>4, <2>3 DEF InSession
<1>5. CASE WriterSend
  <2>1. /\ txQueue \in Seq(DownMsg) /\ txQueue # <<>> /\ txQueue' = Tail(txQueue)
        /\ UNCHANGED <<session, epoch, call, reader>>
    BY <1>1, <1>5, DownFacts DEF WriterSend
  <2>2. /\ Head(txQueue) \in DownMsg /\ Head(txQueue) = txQueue[1] /\ 1 \in 1 .. Len(txQueue)
        /\ \A i \in 1 .. Len(Tail(txQueue)) : i + 1 \in 1 .. Len(txQueue) /\ Tail(txQueue)[i] = txQueue[i + 1]
    BY <2>1, HeadTailProperties
  <2>3. Head(txQueue).epoch = epoch /\ Head(txQueue).kind = "cmd"
    BY <1>1, <2>2 DEF QueueIsOfSession, InSession
  <2>4. reader # "hello" BY <1>1, <2>1 DEF InSession
  <2>5. \A i \in 1 .. Len(txQueue') : txQueue'[i].kind = "cmd" BY <1>1, <2>1, <2>2 DEF InSession
  <2>6. down' = down \/ down' = Append(down, Head(txQueue)) BY <1>5 DEF WriterSend, Written
  <2>7. HelloFirst' /\ \A i \in 1 .. Len(down') : down'[i].epoch <= epoch
    <3>1. CASE down' = down BY <1>1, <3>1 DEF InSession, HelloFirst
    <3>2. CASE down' = Append(down, Head(txQueue)) BY <1>1, <2>2, <2>3, <3>2, WriteKeeps
    <3> QED BY <2>6, <3>1, <3>2
  <2> QED BY <1>1, <2>1, <2>4, <2>5, <2>7 DEF InSession
<1>6. ReaderHello => InSession' /\ HelloFirst'
  BY <1>3, <1>4 DEF ReaderHello
<1>7. ReaderExit => InSession' /\ HelloFirst'
  BY <1>3, <1>4 DEF ReaderExit, Written
<1>8. ReaderTake \/ WriterCheck \/ WriterDrained => InSession' /\ HelloFirst'
  BY <1>2 DEF ReaderTake, WriterCheck, WriterDrained
<1> QED BY <1>5, <1>6, <1>7, <1>8 DEF HostThreads

LEMMA CallInSession ==
  ASSUME OInv, NEW t \in Callers, HostCall(t) PROVE InSession' /\ HelloFirst'
<1>1. IInv /\ InSession /\ HelloFirst BY DEF OInv
<1>2. session = "up" /\ UNCHANGED <<session, reader, down, epoch>>
  BY <1>1 DEF HostCall, GetId, Receive, Timeout, Send, Post, InSession
<1>3. reader # "hello" BY <1>1, <1>2 DEF InSession
<1>4. txQueue \in Seq(DownMsg) BY <1>1, DownFacts
<1>5. \A i \in 1 .. Len(txQueue') : txQueue'[i].kind = "cmd"
  <2>1. CASE txQueue' = txQueue BY <1>1, <2>1 DEF InSession
  <2>2. ASSUME NEW id, NEW n, NEW b, txQueue' = Append(txQueue, Cmd(id, n, b))
        PROVE  \A i \in 1 .. Len(txQueue') : txQueue'[i].kind = "cmd"
    <3>1. Cmd(id, n, b).kind = "cmd" BY DEF Cmd
    <3>2. \A i \in 1 .. Len(txQueue') : \/ i \in 1 .. Len(txQueue) /\ txQueue'[i] = txQueue[i]
                                        \/ txQueue'[i] = Cmd(id, n, b)
      BY <1>4, <2>2
    <3> QED BY <1>1, <3>1, <3>2 DEF InSession
  <2>3. \/ txQueue' = txQueue
        \/ \E b \in Bodies : txQueue' = Append(txQueue, Cmd(call[t].id, call[t].serial, b))
        \/ \E b \in Bodies : txQueue' = Append(txQueue, Cmd(0, 0, b))
    BY DEF HostCall, GetId, Receive, Timeout, Send, Post
  <2> QED BY <2>1, <2>2, <2>3
<1> QED BY <1>1, <1>2, <1>3, <1>5 DEF InSession, HelloFirst

LEMMA OStep == ASSUME HelloInTime PROVE OInv /\ [LinkNext]_linkVars => OInv'
<1> SUFFICES ASSUME OInv, [LinkNext]_linkVars PROVE OInv' OBVIOUS
<1>1. IInv' /\ QueueIsOfSession' BY StepInv, QueueStep DEF OInv
<1>2. InSession' /\ HelloFirst'
  <2>1. CASE UNCHANGED linkVars
    BY <2>1 DEF linkVars, hostVars, OInv, InSession, HelloFirst
  <2>2. ASSUME NEW t \in Callers, HostCall(t) PROVE InSession' /\ HelloFirst'
    BY <2>2, CallInSession
  <2> QED BY <2>1, <2>2, SessionInSession, ThreadInSession, FirmwareInSession DEF LinkNext
<1> QED BY <1>1, <1>2 DEF OInv

\* If the sleep in open_conn is long enough for the first write, the hello of a
\* session, which resets the device, is before all its commands, although two
\* threads write to the port without a lock (comm.rs).
THEOREM LinkHelloFirst == ASSUME HelloInTime PROVE LinkSpec => []HelloFirst
<1>1. LinkInit => QueueIsOfSession /\ InSession /\ HelloFirst
  BY DEF LinkInit, QueueIsOfSession, InSession, HelloFirst, Idle
<1>2. LinkInit => OInv BY <1>1, InitInv DEF OInv
<1>3. OInv => HelloFirst BY DEF OInv
<1>4. OInv /\ [LinkNext]_linkVars => OInv' BY OStep
<1> QED BY <1>2, <1>3, <1>4, PTL DEF LinkSpec
-----------------------------------------------------------------------------
(* What is under way, in any set that has all that is sent *)

\* Only callers add to the queue.
LEMMA Queued ==
  ASSUME txQueue \in Seq(DownMsg), LinkNext, NEW m, txQueue' = Append(txQueue, m)
  PROVE  \E t \in Callers, b \in Bodies : \/ Send(t, b) /\ m = Cmd(call[t].id, call[t].serial, b)
                                          \/ Post(t, b) /\ m = Cmd(0, 0, b)
<1>1. /\ Len(txQueue) \in Nat /\ Len(txQueue') = Len(txQueue) + 1
      /\ \A n : Append(txQueue, m) = Append(txQueue, n) => m = n
  <2>1. Len(txQueue) \in Nat /\ Len(Append(txQueue, m)) = Len(txQueue) + 1
    OBVIOUS
  <2>2. \A n : Append(txQueue, n)[Len(txQueue) + 1] = n  OBVIOUS
  <2> QED BY <2>1, <2>2
<1>2. /\ txQueue' # txQueue /\ txQueue' # <<>>
      /\ ~(txQueue # <<>> /\ txQueue' = Tail(txQueue))
  <2>1. txQueue # <<>> => Len(Tail(txQueue)) = Len(txQueue) - 1  BY HeadTailProperties
  <2> QED BY <1>1, <2>1
<1>3. ~HostSession /\ ~HostThreads /\ ~Firmware
  BY <1>2 DEF HostSession, OpenStart, OpenDone, Close, HostThreads, ReaderHello, ReaderTake, ReaderExit,
              WriterCheck, WriterSend, WriterDrained, Firmware, FwStatus, FwRestart, FwCommand, FwHandle,
              FwCrash, FwEmit, Restart, hostVars
<1>4. PICK t \in Callers : HostCall(t)  BY <1>3 DEF LinkNext
<1>5. PICK b \in Bodies : Send(t, b) \/ Post(t, b)
  BY <1>2, <1>4 DEF HostCall, GetId, Receive, Timeout
<1>6. Send(t, b) => m = Cmd(call[t].id, call[t].serial, b)
  <2>1. Send(t, b) => txQueue' = Append(txQueue, Cmd(call[t].id, call[t].serial, b))
    BY <1>2 DEF Send
  <2> QED BY <1>1, <2>1
<1>7. Post(t, b) => m = Cmd(0, 0, b)
  <2>1. Post(t, b) => txQueue' = Append(txQueue, Cmd(0, 0, b))  BY <1>2 DEF Post
  <2> QED BY <1>1, <2>1
<1> QED BY <1>5, <1>6, <1>7

\* The bytes on their way down and the queue before them.
LEMMA DownKeeps ==
  ASSUME NEW S, down \in Seq(S), txQueue \in Seq(S), LinkNext,
         \A k \in {"hello", "goodbye"} : StatusMsg(k) \in S,
         \A m : txQueue' = Append(txQueue, m) => m \in S
  PROVE  down' \in Seq(S) /\ txQueue' \in Seq(S)
<1>1. /\ \A n \in 1 .. Len(down) + 1 : SubSeq(down, n, Len(down)) \in Seq(S)
      /\ \A n \in 0 .. Len(down) : SubSeq(down, 1, n) \in Seq(S)
      /\ \A e \in S : Append(down, e) \in Seq(S) /\ Append(txQueue, e) \in Seq(S)
      /\ down # <<>> => Tail(down) \in Seq(S)
      /\ txQueue # <<>> => Tail(txQueue) \in Seq(S) /\ Head(txQueue) \in S
  BY SeqFacts
<1>e. <<>> \in Seq(S)  OBVIOUS
<1>2. CASE HostSession
  <2>1. down' = down \/ \E n \in 0 .. Len(down) : down' = SubSeq(down, 1, n)
    BY <1>2 DEF HostSession, OpenStart, OpenDone, Close
  <2>2. txQueue' = txQueue \/ txQueue' = <<>>
    BY <1>2 DEF HostSession, OpenStart, OpenDone, Close
  <2> QED BY <1>1, <1>e, <2>1, <2>2
<1>3. CASE HostThreads
  <2>1. WriterSend => down' \in Seq(S) /\ txQueue' \in Seq(S)  BY <1>1 DEF WriterSend, Written
  <2>2. ReaderHello \/ ReaderExit => down' \in Seq(S) /\ txQueue' \in Seq(S)
    BY <1>1 DEF ReaderHello, ReaderExit, Written
  <2>3. ReaderTake \/ WriterCheck \/ WriterDrained => down' = down /\ txQueue' = txQueue
    BY DEF ReaderTake, WriterCheck, WriterDrained
  <2> QED BY <1>3, <2>1, <2>2, <2>3 DEF HostThreads
<1>4. ASSUME NEW t \in Callers, HostCall(t) PROVE down' \in Seq(S) /\ txQueue' \in Seq(S)
  <2>1. GetId(t) \/ Receive(t) \/ Timeout(t) => down' = down /\ txQueue' = txQueue
    BY DEF GetId, Receive, Timeout
  <2>2. ASSUME NEW b \in Bodies, Send(t, b) \/ Post(t, b)
        PROVE  down' \in Seq(S) /\ txQueue' \in Seq(S)
    <3>1. txQueue' = txQueue \/ \E m : txQueue' = Append(txQueue, m)  BY <2>2 DEF Send, Post
    <3>2. down' = down  BY <2>2 DEF Send, Post
    <3>3. \A m : txQueue' = Append(txQueue, m) => txQueue' \in Seq(S)  BY <1>1
    <3> QED BY <3>1, <3>2, <3>3
  <2> QED BY <1>4, <2>1, <2>2 DEF HostCall
<1>5. CASE Firmware
  <2>1. txQueue' = txQueue
    BY <1>5 DEF Firmware, FwStatus, FwRestart, FwCommand, FwHandle, FwCrash, FwEmit, Restart, hostVars
  <2>2. FwStatus \/ (\E b \in UpBodies : FwEmit(b)) => down' \in Seq(S)
    BY <1>1 DEF FwStatus, FwEmit
  <2>3. FwRestart => down' \in Seq(S)  BY <1>1 DEF FwRestart, Restart
  <2>4. ASSUME NEW outs, FwHandle(outs) \/ FwCrash(outs) PROVE down' \in Seq(S)
    <3>1. down # <<>>  BY <2>4 DEF FwHandle, FwCrash
    <3>2. \A n \in 1 .. Len(Tail(down)) + 1 : SubSeq(Tail(down), n, Len(Tail(down))) \in Seq(S)
      BY <3>1, <1>1, SeqFacts
    <3> QED BY <1>1, <2>4, <3>1, <3>2 DEF FwHandle, FwCrash, Restart
  <2> QED BY <1>5, <2>1, <2>2, <2>3, <2>4 DEF Firmware, FwCommand
<1> QED BY <1>2, <1>3, <1>4, <1>5 DEF LinkNext

\* What handlers send, one by one.
LEMMA SentIn ==
  ASSUME NEW R, NEW id, NEW n, NEW outs \in Seq(Outs),
         \A b \in UpBodies : [kind |-> "async", id |-> 0, serial |-> 0, body |-> b] \in R,
         \A b \in UpBodies : [kind |-> "reply", id |-> id, serial |-> n, body |-> b] \in R
  PROVE  Sent(id, n, outs) \in Seq(R)
<1>1. ASSUME NEW i \in 1 .. Len(outs)
      PROVE  (IF outs[i].kind = "reply"
                THEN [kind |-> "reply", id |-> id, serial |-> n, body |-> outs[i].body]
                ELSE [kind |-> "async", id |-> 0, serial |-> 0, body |-> outs[i].body]) \in R
  <2>1. outs[i] \in Outs OBVIOUS
  <2>2. outs[i].body \in UpBodies BY <2>1 DEF Outs
  <2> QED BY <2>2
<1>2. Len(outs) \in Nat OBVIOUS
<1> QED BY <1>1, <1>2 DEF Sent

\* The bytes on their way up and the receivers behind them.
LEMMA UpKeeps ==
  ASSUME NEW R, IInv, up \in Seq(R), \A i \in Ids : inbox[i] \in Seq(R), LinkNext,
         \A b \in UpBodies : [kind |-> "async", id |-> 0, serial |-> 0, body |-> b] \in R,
         FwCommand =>
           \A b \in UpBodies : [kind |-> "reply", id |-> IdAfter(Head(down)),
                                serial |-> SerialAfter(Head(down)), body |-> b] \in R
  PROVE  up' \in Seq(R) /\ \A i \in Ids : inbox'[i] \in Seq(R)
<1>i. inbox = [i \in Ids |-> inbox[i]]  BY DEF IInv, Scalars
<1>1. /\ \A n \in 1 .. Len(up) + 1 : SubSeq(up, n, Len(up)) \in Seq(R)
      /\ \A e \in R : Append(up, e) \in Seq(R)
      /\ up # <<>> => Tail(up) \in Seq(R) /\ Head(up) \in R
      /\ \A w \in Seq(R) : up \o w \in Seq(R)
  BY SeqFacts
<1>e. <<>> \in Seq(R)  OBVIOUS
<1>2. CASE HostSession
  <2>1. up' = up \/ \E n \in 1 .. Len(up) + 1 : up' = SubSeq(up, n, Len(up))
    BY <1>2 DEF HostSession, OpenStart, OpenDone, Close
  <2>2. inbox' = inbox \/ inbox' = [i \in Ids |-> <<>>]
    BY <1>2 DEF HostSession, OpenStart, OpenDone, Close
  <2>3. \A i \in Ids : inbox'[i] \in Seq(R)  BY <2>2, <1>e
  <2> QED BY <1>1, <2>1, <2>3
<1>3. CASE HostThreads
  <2>1. CASE ReaderTake
    <3> DEFINE m == Head(up)
    <3>1. up' \in Seq(R) /\ m \in R  BY <1>1, <2>1 DEF ReaderTake
    <3>2. \/ inbox' = inbox
          \/ m.id \in Ids /\ inbox' = [inbox EXCEPT ![m.id] = Append(@, m)]
      BY <2>1 DEF ReaderTake
    <3> HIDE DEF m
    <3>3. m.id \in Ids => Append(inbox[m.id], m) \in Seq(R)  BY <3>1, AppendProperties
    <3>4. \A i \in Ids : inbox'[i] \in Seq(R)
      <4> TAKE i \in Ids
      <4>1. CASE inbox' = inbox  BY <4>1
      <4>2. CASE m.id \in Ids /\ inbox' = [inbox EXCEPT ![m.id] = Append(@, m)]
        <5>1. CASE i = m.id  BY <5>1, <4>2, <1>i, <3>3
        <5>2. CASE i # m.id  BY <5>2, <4>2, <1>i
        <5> QED BY <5>1, <5>2
      <4> QED BY <3>2, <4>1, <4>2
    <3> QED BY <3>1, <3>4
  <2>2. ReaderHello \/ ReaderExit \/ WriterCheck \/ WriterSend \/ WriterDrained => up' = up /\ inbox' = inbox
    BY DEF ReaderHello, ReaderExit, WriterCheck, WriterSend, WriterDrained
  <2> QED BY <1>3, <2>1, <2>2 DEF HostThreads
<1>4. ASSUME NEW t \in Callers, HostCall(t) PROVE up' \in Seq(R) /\ \A i \in Ids : inbox'[i] \in Seq(R)
  <2>1. ASSUME Receive(t) PROVE up' = up /\ \A i \in Ids : inbox'[i] \in Seq(R)
    <3> DEFINE k == call[t].id
    <3>1. inbox[k] # <<>> /\ inbox' = [inbox EXCEPT ![k] = Tail(@)] /\ up' = up
      BY <2>1 DEF Receive
    <3> HIDE DEF k
    <3>2. k \in Ids => Tail(inbox[k]) \in Seq(R)  BY <3>1, HeadTailProperties
    <3>3. \A i \in Ids : inbox'[i] \in Seq(R)
      <4> TAKE i \in Ids
      <4>1. CASE i = k  BY <4>1, <3>1, <3>2, <1>i
      <4>2. CASE i # k  BY <4>2, <3>1, <1>i
      <4> QED BY <4>1, <4>2
    <3> QED BY <3>1, <3>3
  <2>2. GetId(t) \/ Timeout(t) \/ (\E b \in Bodies : Send(t, b) \/ Post(t, b)) =>
          up' = up /\ inbox' = inbox
    BY DEF GetId, Timeout, Send, Post
  <2> QED BY <1>4, <2>1, <2>2 DEF HostCall
<1>5. CASE Firmware
  <2>1. inbox' = inbox
    BY <1>5 DEF Firmware, FwStatus, FwRestart, FwCommand, FwHandle, FwCrash, FwEmit, Restart, hostVars
  <2>2. FwStatus \/ FwRestart \/ (\E b \in UpBodies : FwEmit(b)) => up' \in Seq(R)
    BY <1>1 DEF FwStatus, FwRestart, FwEmit
  <2>3. FwCommand => up' \in Seq(R)
    <3> SUFFICES ASSUME FwCommand PROVE up' \in Seq(R)  OBVIOUS
    <3>1. PICK outs \in HandlerOuts(Head(down)) : FwHandle(outs) \/ FwCrash(outs)
      BY DEF FwCommand
    <3>2. outs \in Seq(Outs)  BY HandlerOutsType
    <3>3. down # <<>> /\ Head(down).kind = "cmd"
          /\ up' = up \o Sent(IdAfter(Head(down)), SerialAfter(Head(down)), outs)
      BY <3>1 DEF FwHandle, FwCrash
    <3>4. Sent(IdAfter(Head(down)), SerialAfter(Head(down)), outs) \in Seq(R)
      BY <3>2, <3>3, SentIn
    <3> QED BY <3>3, <3>4, <1>1
  <2> QED BY <1>5, <2>1, <2>2, <2>3 DEF Firmware
<1> QED BY <1>2, <1>3, <1>4, <1>5 DEF LinkNext
-----------------------------------------------------------------------------
(* Numbers of calls *)

DownTo(n) == {m \in DownMsg : m.serial <= n}
UpTo(n)   == {m \in UpMsg : m.serial <= n}

\* Nothing under way carries the number of a call that was not made yet.
Numbered ==
  /\ txQueue \in Seq(DownTo(calls)) /\ down \in Seq(DownTo(calls))
  /\ up \in Seq(UpTo(calls)) /\ \A i \in Ids : inbox[i] \in Seq(UpTo(calls))
  /\ lastSerial <= calls /\ \A t \in Callers : call[t].serial <= calls

LEMMA InitNumbered == LinkInit => Numbered
BY DEF LinkInit, Numbered, Idle

LEMMA NumberedStep == IInv /\ Numbered /\ [LinkNext]_linkVars => Numbered'
<1> SUFFICES ASSUME IInv, Numbered, [LinkNext]_linkVars PROVE Numbered'  OBVIOUS
<1>1. CASE UNCHANGED linkVars
  BY <1>1 DEF linkVars, hostVars, devVars, Numbered
<1>2. CASE LinkNext
  <2>1. PICK n \in Nat : n = calls'
    <3>1. calls' \in Nat  BY <1>2, StepInv DEF IInv, Scalars
    <3> QED BY <3>1
  <2>2. calls \in Nat /\ (calls' = calls \/ calls' = calls + 1) /\ calls <= n
    <3>1. calls \in Nat  BY DEF IInv, Scalars
    <3>2. calls' = calls \/ calls' = calls + 1
      BY <1>2 DEF LinkNext, HostSession, HostThreads, HostCall, Firmware, OpenStart, OpenDone, Close,
                  ReaderHello, ReaderTake, ReaderExit, WriterCheck, WriterSend, WriterDrained,
                  GetId, Receive, Timeout, Send, Post, FwStatus, FwRestart, FwCommand, FwHandle,
                  FwCrash, FwEmit, Restart, hostVars
    <3> QED BY <3>1, <3>2, <2>1
  <2>3. /\ txQueue \in Seq(DownTo(n)) /\ down \in Seq(DownTo(n))
        /\ up \in Seq(UpTo(n)) /\ \A i \in Ids : inbox[i] \in Seq(UpTo(n))
    <3>1. DownTo(calls) \subseteq DownTo(n) /\ UpTo(calls) \subseteq UpTo(n)
      BY <2>2 DEF DownTo, UpTo, DownMsg, UpMsg
    <3>2. Seq(DownTo(calls)) \subseteq Seq(DownTo(n)) /\ Seq(UpTo(calls)) \subseteq Seq(UpTo(n))
      BY <3>1, SeqSubset
    <3> QED BY <3>2 DEF Numbered
  <2>4. \A t \in Callers : call[t] \in Call /\ call[t].serial \in Nat /\ call[t].serial <= n
                           /\ call[t].id \in Id0s
    <3>1. \A t \in Callers : call[t] \in Call  BY DEF IInv, Scalars
    <3> QED BY <3>1, <2>2 DEF Numbered, Call
  <2>5. epoch \in Nat /\ 0 \in Id0s /\ lastId \in Id0s /\ lastSerial \in Nat /\ lastSerial <= n
    <3>1. 0 \in Id0s  BY LinkAssumption DEF Id0s
    <3> QED BY <2>2, <3>1 DEF IInv, Scalars, Numbered
  <2>6. down' \in Seq(DownTo(n)) /\ txQueue' \in Seq(DownTo(n))
    <3>1. \A k \in {"hello", "goodbye"} : StatusMsg(k) \in DownTo(n)
      BY <2>1, <2>5 DEF StatusMsg, DownTo, DownMsg
    <3>2. \A b \in Bodies : Cmd(0, 0, b) \in DownTo(n)
      BY <2>1, <2>5 DEF Cmd, DownTo, DownMsg
    <3>3. \A t \in Callers, b \in Bodies : Cmd(call[t].id, call[t].serial, b) \in DownTo(n)
      BY <2>4, <2>5 DEF Cmd, DownTo, DownMsg
    <3>4. \A m : txQueue' = Append(txQueue, m) => m \in DownTo(n)
      <4> SUFFICES ASSUME NEW m, txQueue' = Append(txQueue, m) PROVE m \in DownTo(n)  OBVIOUS
      <4>1. txQueue \in Seq(DownMsg)  BY DownFacts
      <4>2. PICK t \in Callers, b \in Bodies : m = Cmd(call[t].id, call[t].serial, b) \/ m = Cmd(0, 0, b)
        BY <1>2, <4>1, Queued
      <4> QED BY <3>2, <3>3, <4>2
    <3> QED BY <1>2, <2>3, <3>1, <3>4, DownKeeps
  <2>7. down # <<>> => SerialAfter(Head(down)) \in Nat /\ SerialAfter(Head(down)) <= n
                       /\ IdAfter(Head(down)) \in Id0s
    <3> SUFFICES ASSUME down # <<>>
                 PROVE  SerialAfter(Head(down)) \in Nat /\ SerialAfter(Head(down)) <= n
                        /\ IdAfter(Head(down)) \in Id0s
      OBVIOUS
    <3>1. Head(down) \in DownTo(n)  BY <2>3, SeqFacts
    <3>2. Head(down).serial \in Nat /\ Head(down).serial <= n /\ Head(down).id \in Id0s
      BY <3>1, <2>5 DEF DownTo, DownMsg
    <3> QED BY <3>2, <2>5 DEF SerialAfter, IdAfter
  <2>8. up' \in Seq(UpTo(n)) /\ \A i \in Ids : inbox'[i] \in Seq(UpTo(n))
    <3>1. \A b \in UpBodies : [kind |-> "async", id |-> 0, serial |-> 0, body |-> b] \in UpTo(n)
      BY <2>1, <2>5 DEF UpTo, UpMsg
    <3>2. down # <<>> =>
            \A b \in UpBodies : [kind |-> "reply", id |-> IdAfter(Head(down)),
                                 serial |-> SerialAfter(Head(down)), body |-> b] \in UpTo(n)
      BY <2>7 DEF UpTo, UpMsg
    <3>3. FwCommand => down # <<>>  BY DEF FwCommand
    <3> QED BY <1>2, <2>3, <3>1, <3>2, <3>3, UpKeeps
  <2>9. lastSerial' <= n
    <3>1. \/ lastSerial' = lastSerial \/ lastSerial' = 0
          \/ down # <<>> /\ lastSerial' = SerialAfter(Head(down))
      BY <1>2 DEF LinkNext, HostSession, HostThreads, HostCall, Firmware, OpenStart, OpenDone, Close,
                  ReaderHello, ReaderTake, ReaderExit, WriterCheck, WriterSend, WriterDrained,
                  GetId, Receive, Timeout, Send, Post, FwStatus, FwRestart, FwCommand, FwHandle,
                  FwCrash, FwEmit, Restart, devVars
    <3> QED BY <3>1, <2>1, <2>5, <2>7
  <2>10. \A t \in Callers : call'[t].serial <= n
    <3>1. call' = call \/ \E t \in Callers : HostCall(t) /\ call' # call
      BY <1>2 DEF LinkNext, HostSession, HostThreads, Firmware, OpenStart, OpenDone, Close,
                  ReaderHello, ReaderTake, ReaderExit, WriterCheck, WriterSend, WriterDrained,
                  FwStatus, FwRestart, FwCommand, FwHandle, FwCrash, FwEmit, Restart, hostVars
    <3>2. call \in [Callers -> Call]  BY DEF IInv, Scalars
    <3>3. ASSUME NEW t \in Callers, HostCall(t), NEW u \in Callers
          PROVE  call'[u].serial <= n
      <4>1. CASE GetId(t)
        <5>1. call' = [call EXCEPT ![t] = [st |-> "ready", id |-> NextId(msgId), serial |-> calls + 1]]
              /\ n = calls + 1
          BY <4>1, <2>1 DEF GetId
        <5>2. CASE u = t
          <6>1. call'[u].serial = calls + 1  BY <5>1, <5>2, <3>2
          <6> QED BY <5>1, <6>1
        <5>3. CASE u # t  BY <5>1, <5>3, <2>4, <3>2
        <5> QED BY <5>2, <5>3
      <4>2. ASSUME NEW b \in Bodies, Send(t, b) PROVE call'[u].serial <= n
        <5>1. call' = [call EXCEPT ![t] = Idle] \/ call' = [call EXCEPT ![t].st = "waiting"]
          BY <4>2 DEF Send
        <5>2. Idle.serial = 0  BY DEF Idle
        <5>3. call'[u].serial = 0 \/ call'[u].serial = call[u].serial
          BY <5>1, <5>2, <3>2 DEF Call
        <5> QED BY <5>3, <2>1, <2>4
      <4>3. CASE Receive(t) \/ Timeout(t) \/ \E b \in Bodies : Post(t, b)
        <5>1. call' = call \/ call' = [call EXCEPT ![t] = Idle]  BY <4>3 DEF Receive, Timeout, Post
        <5>2. Idle.serial = 0  BY DEF Idle
        <5>3. call'[u].serial = 0 \/ call'[u].serial = call[u].serial  BY <5>1, <5>2, <3>2
        <5> QED BY <5>3, <2>1, <2>4
      <4> QED BY <3>3, <4>1, <4>2, <4>3 DEF HostCall
    <3> QED BY <3>1, <3>3, <2>4
  <2> QED BY <2>1, <2>6, <2>8, <2>9, <2>10 DEF Numbered
<1> QED BY <1>1, <1>2

\* In the first round of ids, whatever the handlers answer and however often calls
\* time out, a caller that takes an answer takes its own.
THEOREM LinkFirstRound == LinkSpec => [](calls < IdLimit - 1 => ReplyIsOwn)
<1>1. IInv /\ Numbered /\ ForeignReplyFar => (calls < IdLimit - 1 => ReplyIsOwn)
  <2> SUFFICES ASSUME IInv, Numbered, ForeignReplyFar, calls < IdLimit - 1, NEW t \in Callers,
                      call[t].st = "waiting", inbox[call[t].id] # <<>>
               PROVE  Head(inbox[call[t].id]).serial = call[t].serial
    BY DEF ReplyIsOwn
  <2>1. PICK k \in Ids : k = call[t].id
    <3>1. call[t].id # 0 /\ call[t].id \in Id0s  BY DEF IInv, IdsCarried, Scalars, Call
    <3> QED BY <3>1, LinkAssumption DEF Ids, Id0s
  <2>2. inbox[k] \in Seq(UpTo(calls)) /\ inbox[k] # <<>>  BY <2>1 DEF Numbered
  <2>3. 1 \in 1 .. Len(inbox[k]) /\ Head(inbox[k]) = inbox[k][1] /\ inbox[k][1] \in UpTo(calls)
    BY <2>2, HeadTailProperties
  <2> DEFINE s == inbox[k][1].serial
  <2>4. \/ s = call[t].serial
        \/ s - call[t].serial >= IdLimit - 1
        \/ call[t].serial - s >= IdLimit - 1
    BY <2>1, <2>3 DEF ForeignReplyFar
  <2>5. s \in Nat /\ s <= calls  BY <2>3 DEF UpTo, UpMsg
  <2>6. call[t].serial \in Nat /\ call[t].serial <= calls /\ calls \in Nat
    BY DEF IInv, Scalars, Call, Numbered
  <2> HIDE DEF s
  <2>7. s = call[t].serial  BY <2>4, <2>5, <2>6, LinkAssumption
  <2> QED BY <2>1, <2>3, <2>7 DEF s
<1>2. LinkSpec => []ForeignReplyFar  BY LinkForeignReplyFar
<1> QED BY <1>1, <1>2, InitInv, StepInv, InitNumbered, NumberedStep, PTL DEF LinkSpec
-----------------------------------------------------------------------------
(* Calls and sessions, however long the sleep in open_conn *)

\* No call is inside write_and_read but in a session.
BusyInSession == \A t \in Callers : call[t].st # "idle" => session = "up"

LEMMA BusyStep == IInv /\ BusyInSession /\ [LinkNext]_linkVars => BusyInSession'
<1> SUFFICES ASSUME IInv, BusyInSession, [LinkNext]_linkVars PROVE BusyInSession'  OBVIOUS
<1>1. call \in [Callers -> Call]  BY DEF IInv, Scalars
<1>2. CASE UNCHANGED linkVars  BY <1>2 DEF linkVars, hostVars, BusyInSession
<1>3. CASE HostSession  BY <1>3 DEF HostSession, OpenStart, OpenDone, Close, BusyInSession
<1>4. CASE HostThreads \/ Firmware
  BY <1>4 DEF HostThreads, ReaderHello, ReaderTake, ReaderExit, WriterCheck, WriterSend, WriterDrained,
              Firmware, FwStatus, FwRestart, FwCommand, FwHandle, FwCrash, FwEmit, Restart, hostVars,
              BusyInSession
<1>5. ASSUME NEW t \in Callers, HostCall(t) PROVE BusyInSession'
  <2>1. session' = session
    BY <1>5 DEF HostCall, GetId, Receive, Timeout, Send, Post
  <2>2. \A u \in Callers : call'[u].st # "idle" => call[u].st # "idle" \/ session = "up"
    <3>1. CASE GetId(t)  BY <3>1 DEF GetId
    <3>2. ASSUME NEW b \in Bodies, Send(t, b)
          PROVE  \A u \in Callers : call'[u].st # "idle" => call[u].st # "idle"
      BY <3>2, <1>1 DEF Send, Idle
    <3>3. CASE Receive(t) \/ Timeout(t) \/ \E b \in Bodies : Post(t, b)
      BY <3>3, <1>1 DEF Receive, Timeout, Post, Idle
    <3> QED BY <1>5, <3>1, <3>2, <3>3 DEF HostCall
  <2> QED BY <2>1, <2>2 DEF BusyInSession
<1> QED BY <1>2, <1>3, <1>4, <1>5 DEF LinkNext

-----------------------------------------------------------------------------
(* Ids of calls in the first round *)

\* All that was sent and that the device has not read yet, in its order.
Path == down \o txQueue

\* s is t with some messages left out.
Thinned(s, t) ==
  \E f \in [1 .. Len(s) -> 1 .. Len(t)] :
    /\ \A i, j \in 1 .. Len(s) : i < j => f[i] < f[j]
    /\ \A i \in 1 .. Len(s) : s[i] = t[f[i]]

LEMMA ConcatFacts ==
  ASSUME NEW S, NEW d \in Seq(S), NEW q \in Seq(S)
  PROVE  /\ d \o q \in Seq(S) /\ Len(d \o q) = Len(d) + Len(q) /\ Len(d) \in Nat /\ Len(q) \in Nat
         /\ \A i \in 1 .. Len(d) : (d \o q)[i] = d[i]
         /\ \A i \in Len(d) + 1 .. Len(d \o q) : (d \o q)[i] = q[i - Len(d)] /\ i - Len(d) \in 1 .. Len(q)
<1>1. d \o q \in Seq(S) /\ Len(d \o q) = Len(d) + Len(q) /\ Len(d) \in Nat /\ Len(q) \in Nat
  BY ConcatProperties
<1>2. \A i \in 1 .. Len(d) + Len(q) : (d \o q)[i] = IF i <= Len(d) THEN d[i] ELSE q[i - Len(d)]
  BY ConcatProperties
<1>3. \A i \in 1 .. Len(d) : (d \o q)[i] = d[i]  BY <1>1, <1>2
<1>4. \A i \in Len(d) + 1 .. Len(d \o q) : (d \o q)[i] = q[i - Len(d)] /\ i - Len(d) \in 1 .. Len(q)
  BY <1>1, <1>2
<1> QED BY <1>1, <1>3, <1>4

LEMMA ThinSame == ASSUME NEW S, NEW s \in Seq(S) PROVE Thinned(s, s)
<1> DEFINE f == [i \in 1 .. Len(s) |-> i]
<1>1. f \in [1 .. Len(s) -> 1 .. Len(s)]  OBVIOUS
<1>2. \A i \in 1 .. Len(s) : f[i] = i  OBVIOUS
<1> HIDE DEF f
<1> QED BY <1>1, <1>2 DEF Thinned

\* Leaving out of the first of two parts.
LEMMA ThinPart ==
  ASSUME NEW S, NEW d \in Seq(S), NEW e \in Seq(S), NEW q \in Seq(S), Part(e, d)
  PROVE  Thinned(e \o q, d \o q)
<1>1. PICK k \in Nat : \A i \in 1 .. Len(e) : i + k \in 1 .. Len(d) /\ e[i] = d[i + k]  BY DEF Part
<1> DEFINE D == Len(d)
           E == Len(e)
           f == [i \in 1 .. Len(e \o q) |-> IF i <= E THEN i + k ELSE i - E + D]
<1>2. /\ D \in Nat /\ E \in Nat /\ Len(q) \in Nat
      /\ Len(e \o q) = E + Len(q) /\ Len(d \o q) = D + Len(q)
      /\ \A i \in 1 .. E : (e \o q)[i] = e[i]
      /\ \A i \in 1 .. D : (d \o q)[i] = d[i]
      /\ \A i \in E + 1 .. E + Len(q) : (e \o q)[i] = q[i - E]
      /\ \A i \in D + 1 .. D + Len(q) : (d \o q)[i] = q[i - D]
  BY ConcatFacts
<1>3. \A i \in 1 .. Len(e \o q) : f[i] = IF i <= E THEN i + k ELSE i - E + D  OBVIOUS
<1>4. \A i \in 1 .. E : i + k \in 1 .. D /\ e[i] = d[i + k]  BY <1>1
<1>5. f \in [1 .. Len(e \o q) -> 1 .. Len(d \o q)]
  <2>1. \A i \in 1 .. Len(e \o q) :
          (IF i <= E THEN i + k ELSE i - E + D) \in 1 .. Len(d \o q)
    <3> HIDE DEF D, E
    <3> QED BY <1>2, <1>4
  <2> QED BY <2>1
<1> HIDE DEF f, D, E
<1>6. \A i, j \in 1 .. Len(e \o q) : i < j => f[i] < f[j]
  <2> SUFFICES ASSUME NEW i \in 1 .. Len(e \o q), NEW j \in 1 .. Len(e \o q), i < j PROVE f[i] < f[j]
    OBVIOUS
  <2>1. CASE j <= E  BY <1>2, <1>3, <2>1
  <2>2. CASE i <= E /\ ~(j <= E)
    <3>1. f[i] = i + k /\ f[j] = j - E + D  BY <1>3, <2>2
    <3>2. i + k <= D  BY <1>2, <1>4, <2>2
    <3> QED BY <1>2, <2>2, <3>1, <3>2
  <2>3. CASE ~(i <= E)
    <3>1. f[i] = i - E + D /\ f[j] = j - E + D  BY <1>2, <1>3, <2>3
    <3> QED BY <1>2, <2>3, <3>1
  <2> QED BY <1>2, <2>1, <2>2, <2>3
<1>7. \A i \in 1 .. Len(e \o q) : (e \o q)[i] = (d \o q)[f[i]]
  <2> TAKE i \in 1 .. Len(e \o q)
  <2>1. CASE i <= E
    <3>1. f[i] = i + k /\ i \in 1 .. E  BY <1>2, <1>3, <2>1
    <3>2. (e \o q)[i] = e[i] /\ i + k \in 1 .. D /\ e[i] = d[i + k]  BY <1>2, <1>4, <3>1
    <3>3. (d \o q)[i + k] = d[i + k]  BY <1>2, <3>2
    <3> QED BY <3>1, <3>2, <3>3
  <2>2. CASE ~(i <= E)
    <3>1. f[i] = i - E + D /\ i \in E + 1 .. E + Len(q) /\ f[i] \in D + 1 .. D + Len(q)
      BY <1>2, <1>3, <2>2
    <3>2. (e \o q)[i] = q[i - E] /\ (d \o q)[f[i]] = q[f[i] - D]  BY <1>2, <3>1
    <3>3. f[i] - D = i - E  BY <1>2, <3>1
    <3> QED BY <3>2, <3>3
  <2> QED BY <2>1, <2>2
<1> QED BY <1>5, <1>6, <1>7 DEF Thinned

\* Moving the first of the second part to the end of the first, or losing it.
LEMMA ThinMove ==
  ASSUME NEW S, NEW d \in Seq(S), NEW q \in Seq(S), q # <<>>
  PROVE  Append(d, Head(q)) \o Tail(q) = d \o q /\ Thinned(d \o Tail(q), d \o q)
<1>1. /\ Head(q) \in S /\ Tail(q) \in Seq(S) /\ Len(Tail(q)) = Len(q) - 1 /\ Head(q) = q[1]
      /\ \A i \in 1 .. Len(q) - 1 : Tail(q)[i] = q[i + 1]
  BY HeadTailProperties
<1>2. Append(d, Head(q)) = d \o <<Head(q)>> /\ q = <<Head(q)>> \o Tail(q)
  <2>1. Append(d, Head(q)) = d \o <<Head(q)>>  BY <1>1
  <2>2. q = <<Head(q)>> \o Tail(q)  OBVIOUS
  <2> QED BY <2>1, <2>2
<1>3. <<Head(q)>> \in Seq(S)  BY <1>1
<1>4. (d \o <<Head(q)>>) \o Tail(q) = d \o (<<Head(q)>> \o Tail(q))
  BY <1>1, <1>3, ConcatAssociative
<1>5. Thinned(d \o Tail(q), d \o q)
  <2> DEFINE D == Len(d)
             N == Len(d \o Tail(q))
             f == [i \in 1 .. N |-> IF i <= D THEN i ELSE i + 1]
  <2>1. /\ D \in Nat /\ Len(q) \in Nat /\ Len(q) >= 1
        /\ N = D + (Len(q) - 1) /\ Len(d \o q) = D + Len(q)
        /\ \A i \in 1 .. D : (d \o Tail(q))[i] = d[i] /\ (d \o q)[i] = d[i]
        /\ \A i \in D + 1 .. N : (d \o Tail(q))[i] = Tail(q)[i - D]
        /\ \A i \in D + 1 .. D + Len(q) : (d \o q)[i] = q[i - D]
    <3>1. Len(q) >= 1  OBVIOUS
    <3>2. /\ Len(d \o q) = D + Len(q) /\ D \in Nat /\ Len(q) \in Nat
          /\ \A i \in 1 .. D : (d \o q)[i] = d[i]
          /\ \A i \in D + 1 .. D + Len(q) : (d \o q)[i] = q[i - D]
      BY ConcatFacts
    <3>3. /\ Len(d \o Tail(q)) = D + Len(Tail(q))
          /\ \A i \in 1 .. D : (d \o Tail(q))[i] = d[i]
          /\ \A i \in D + 1 .. Len(d \o Tail(q)) : (d \o Tail(q))[i] = Tail(q)[i - D]
      BY <1>1, ConcatFacts
    <3> QED BY <1>1, <3>1, <3>2, <3>3
  <2>2. \A i \in 1 .. N : f[i] = IF i <= D THEN i ELSE i + 1  OBVIOUS
  <2>3. f \in [1 .. N -> 1 .. Len(d \o q)]
    <3>1. \A i \in 1 .. N : (IF i <= D THEN i ELSE i + 1) \in 1 .. Len(d \o q)
      <4> HIDE DEF N, D
      <4> QED BY <2>1
    <3> QED BY <3>1
  <2> HIDE DEF f, N, D
  <2>4. \A i, j \in 1 .. N : i < j => f[i] < f[j]  BY <2>1, <2>2
  <2>5. \A i \in 1 .. N : (d \o Tail(q))[i] = (d \o q)[f[i]]
    <3> TAKE i \in 1 .. N
    <3>1. CASE i <= D  BY <2>1, <2>2, <3>1
    <3>2. CASE ~(i <= D)
      <4>1. f[i] = i + 1 /\ i + 1 \in D + 1 .. D + Len(q) /\ i \in D + 1 .. N /\ i - D \in 1 .. Len(q) - 1
        BY <2>1, <2>2, <3>2
      <4>2. (d \o Tail(q))[i] = Tail(q)[i - D] /\ Tail(q)[i - D] = q[(i - D) + 1]  BY <1>1, <2>1, <4>1
      <4>3. (d \o q)[i + 1] = q[(i + 1) - D] /\ (i + 1) - D = (i - D) + 1  BY <2>1, <4>1
      <4> QED BY <4>1, <4>2, <4>3
    <3> QED BY <3>1, <3>2
  <2> QED BY <2>3, <2>4, <2>5 DEF Thinned, N
<1> QED BY <1>2, <1>4, <1>5

\* A session that is up has its reader thread in its loop, or about to enter it.
UpRunning == session = "up" => running

LEMMA UpRunningStep ==
  ASSUME HelloInTime, InSession, UpRunning, [LinkNext]_linkVars PROVE UpRunning'
<1>1. CASE UNCHANGED linkVars  BY <1>1 DEF linkVars, hostVars, UpRunning
<1>2. CASE HostSession
  <2>1. OpenStart => session' = "opening"  BY DEF OpenStart
  <2>2. Close => session' = "none"  BY DEF Close
  <2>3. OpenDone => (session' = IF running THEN "up" ELSE "none") /\ running' = running  BY DEF OpenDone
  <2> QED BY <1>2, <2>1, <2>2, <2>3 DEF HostSession, UpRunning
<1>3. CASE ReaderHello
  <2>1. session' = session /\ session = "opening"  BY <1>3 DEF ReaderHello, InSession
  <2> QED BY <2>1 DEF UpRunning
<1>4. CASE ReaderTake \/ ReaderExit \/ WriterCheck \/ WriterSend \/ WriterDrained
  BY <1>4 DEF ReaderTake, ReaderExit, WriterCheck, WriterSend, WriterDrained, UpRunning
<1>5. ASSUME NEW t \in Callers, HostCall(t) PROVE UpRunning'
  BY <1>5 DEF HostCall, GetId, Receive, Timeout, Send, Post, UpRunning
<1>6. CASE Firmware
  BY <1>6 DEF Firmware, FwStatus, FwRestart, FwCommand, FwHandle, FwCrash, FwEmit, Restart, hostVars,
              UpRunning
<1> QED BY <1>1, <1>2, <1>3, <1>4, <1>5, <1>6 DEF LinkNext, HostThreads

\* What a call puts on the queue.
Added(m) == txQueue' = Append(txQueue, m) /\ Path' = Append(Path, m)

LEMMA PathTyped == IInv => Path \in Seq(DownMsg) /\ Len(Path) \in Nat
BY DownFacts, ConcatFacts DEF Path

\* While a session is up commands are handled in the order in which they were
\* queued: what there is only loses messages, and a new one comes last.
LEMMA PathStep ==
  ASSUME OInv, UpRunning, LinkNext, session = "up", session' = "up"
  PROVE  \/ /\ Thinned(Path', Path)
            /\ FwStatus \/ FwCommand => Path # <<>> /\ Thinned(Path', Tail(Path))
         \/ ~(FwStatus \/ FwCommand) /\ \E m \in DownMsg : Added(m)
<1>1. /\ IInv /\ InSession /\ reader # "hello" /\ running
      /\ down \in Seq(DownMsg) /\ txQueue \in Seq(DownMsg) /\ Path \in Seq(DownMsg)
  <2>1. IInv /\ InSession  BY DEF OInv
  <2> QED BY <2>1, DownFacts, PathTyped DEF InSession, UpRunning
<1>2. Thinned(Path, Path)  BY <1>1, ThinSame
<1>3. CASE Firmware
  <2>1. txQueue' = txQueue /\ Part(down', down)
        /\ (FwStatus \/ FwCommand => down # <<>> /\ Part(down', Tail(down)))
    BY <1>1, <1>3, FirmwareTakes DEF hostVars
  <2>2. down' \in Seq(DownMsg)
    <3>1. IInv'  BY <1>1, StepInv
    <3> QED BY <3>1, IInvType DEF IInv, IdsCarried, TaggedDown
  <2>3. Thinned(Path', Path)  BY <1>1, <2>1, <2>2, ThinPart DEF Path
  <2>4. ASSUME FwStatus \/ FwCommand PROVE Path # <<>> /\ Thinned(Path', Tail(Path))
    <3>1. Tail(down) \in Seq(DownMsg) /\ down # <<>>  BY <1>1, <2>1, <2>4, HeadTailProperties
    <3>2. Tail(Path) = Tail(down) \o txQueue /\ Path # <<>>  BY <1>1, <3>1 DEF Path
    <3>3. Part(down', Tail(down))  BY <2>1, <2>4
    <3>4. Thinned(down' \o txQueue, Tail(down) \o txQueue)  BY <1>1, <2>2, <3>1, <3>3, ThinPart
    <3> QED BY <2>1, <3>2, <3>4 DEF Path
  <2> QED BY <2>3, <2>4
<1>4. ~Firmware => ~(FwStatus \/ FwCommand)  BY DEF Firmware
<1>5. CASE HostSession
  <2>1. FALSE
    <3>1. session' # "up" \/ session # "up"  BY <1>5 DEF HostSession, OpenStart, OpenDone, Close
    <3> QED BY <3>1
  <2> QED BY <2>1
<1>6. ASSUME NEW t \in Callers, HostCall(t), ~Firmware
      PROVE  Thinned(Path', Path) \/ \E m \in DownMsg : Added(m)
  <2>1. down' = down  BY <1>6 DEF HostCall, GetId, Receive, Timeout, Send, Post
  <2>2. CASE txQueue' = txQueue  BY <1>2, <2>1, <2>2 DEF Path
  <2>3. CASE txQueue' # txQueue
    <3>1. PICK b \in Bodies :
            \/ Send(t, b) /\ txQueue' = Append(txQueue, Cmd(call[t].id, call[t].serial, b))
            \/ Post(t, b) /\ txQueue' = Append(txQueue, Cmd(0, 0, b))
      BY <1>6, <2>3 DEF HostCall, GetId, Receive, Timeout, Send, Post
    <3>2. call[t].id \in Id0s /\ call[t].serial \in Nat /\ epoch \in Nat /\ 0 \in Id0s
      <4>1. call[t].id \in Id0s /\ call[t].serial \in Nat /\ epoch \in Nat
        BY <1>1 DEF IInv, Scalars, Call
      <4>2. 0 \in Id0s  BY LinkAssumption DEF Id0s
      <4> QED BY <4>1, <4>2
    <3>3. PICK m \in DownMsg :
            /\ txQueue' = Append(txQueue, m)
            /\ \/ Send(t, b) /\ m = Cmd(call[t].id, call[t].serial, b)
               \/ Post(t, b) /\ m = Cmd(0, 0, b)
      <4>1. Cmd(call[t].id, call[t].serial, b) \in DownMsg /\ Cmd(0, 0, b) \in DownMsg
        BY <3>2 DEF Cmd, DownMsg
      <4> QED BY <3>1, <4>1
    <3>4. Path' = Append(Path, m)
      <4>1. Append(txQueue, m) = txQueue \o <<m>> /\ Append(Path, m) = Path \o <<m>>
            /\ <<m>> \in Seq(DownMsg)
        BY <1>1
      <4>2. down \o (txQueue \o <<m>>) = (down \o txQueue) \o <<m>>
        BY <1>1, <4>1, ConcatAssociative
      <4> QED BY <2>1, <3>3, <4>1, <4>2 DEF Path
    <3> QED BY <3>3, <3>4 DEF Added
  <2> QED BY <2>2, <2>3
<1>7. CASE HostThreads /\ ~Firmware
  <2>1. CASE WriterSend
    <3>1. txQueue # <<>> /\ txQueue' = Tail(txQueue)
          /\ (down' = down \/ down' = Append(down, Head(txQueue)))
      BY <2>1 DEF WriterSend, Written
    <3>2. Append(down, Head(txQueue)) \o Tail(txQueue) = Path /\ Thinned(down \o Tail(txQueue), Path)
      BY <1>1, <3>1, ThinMove DEF Path
    <3>3. Path' = Path \/ Path' = down \o Tail(txQueue)  BY <3>1, <3>2 DEF Path
    <3> QED BY <1>2, <1>4, <1>7, <3>2, <3>3
  <2>2. CASE ReaderTake \/ WriterCheck \/ WriterDrained
    <3>1. Path' = Path  BY <2>2 DEF ReaderTake, WriterCheck, WriterDrained, Path
    <3> QED BY <1>2, <1>4, <1>7, <3>1
  <2>3. ~ReaderHello /\ ~ReaderExit  BY <1>1 DEF ReaderHello, ReaderExit
  <2> QED BY <1>7, <2>1, <2>2, <2>3 DEF HostThreads
<1> QED BY <1>3, <1>4, <1>5, <1>6, <1>7 DEF LinkNext

\* Nothing that answers or carries id k is on its way up, or would be sent as such.
NotUp(k) == (\A i \in 1 .. Len(up) : up[i].id # k) /\ inbox[k] = <<>> /\ lastId # k
NotIn(s, k) == \A i \in 1 .. Len(s) : s[i].id # k
OnceIn(s, k) == \A i, j \in 1 .. Len(s) : s[i].id = k /\ s[j].id = k => i = j

\* In the first round of ids a call's id is its own: a call that is about to send
\* finds it nowhere, and as long as its command was not handled nothing answers it.
IdsApart ==
  /\ \A t, u \in Callers :
       t # u /\ call[t].st # "idle" /\ call[u].st # "idle" => call[t].id # call[u].id
  /\ \A t \in Callers : call[t].st = "ready" => NotIn(Path, call[t].id) /\ NotUp(call[t].id)
  /\ \A t \in Callers : call[t].st = "waiting" =>
       OnceIn(Path, call[t].id) /\ (NotIn(Path, call[t].id) \/ NotUp(call[t].id))

LEMMA ThinIds ==
  ASSUME NEW S, NEW s \in Seq(S), NEW t \in Seq(S), Thinned(s, t), NEW k
  PROVE  /\ NotIn(t, k) => NotIn(s, k)
         /\ OnceIn(t, k) => OnceIn(s, k)
<1>1. PICK f \in [1 .. Len(s) -> 1 .. Len(t)] :
        /\ \A i, j \in 1 .. Len(s) : i < j => f[i] < f[j]
        /\ \A i \in 1 .. Len(s) : s[i] = t[f[i]]
  BY DEF Thinned
<1>2. \A i \in 1 .. Len(s) : f[i] \in 1 .. Len(t)  BY <1>1
<1>3. NotIn(t, k) => NotIn(s, k)  BY <1>1, <1>2 DEF NotIn
<1>4. OnceIn(t, k) => OnceIn(s, k)
  <2> SUFFICES ASSUME OnceIn(t, k), NEW i \in 1 .. Len(s), NEW j \in 1 .. Len(s), s[i].id = k, s[j].id = k
               PROVE  i = j
    BY DEF OnceIn
  <2>1. f[i] = f[j]
    <3>1. t[f[i]].id = k /\ t[f[j]].id = k  BY <1>1
    <3> QED BY <1>2, <3>1 DEF OnceIn
  <2>2. f[i] \in Int /\ f[j] \in Int  BY <1>2
  <2>3. ~(i < j) /\ ~(j < i)  BY <1>1, <2>1, <2>2
  <2> QED BY <2>3
<1> QED BY <1>3, <1>4

LEMMA AppendIds ==
  ASSUME NEW S, NEW s \in Seq(S), NEW m \in S, NEW k
  PROVE  /\ NotIn(s, k) /\ m.id # k => NotIn(Append(s, m), k)
         /\ OnceIn(s, k) /\ m.id # k => OnceIn(Append(s, m), k)
         /\ NotIn(s, k) => OnceIn(Append(s, m), k)
<1>1. /\ Len(Append(s, m)) = Len(s) + 1 /\ Append(s, m)[Len(s) + 1] = m /\ Len(s) \in Nat
      /\ \A i \in 1 .. Len(s) : Append(s, m)[i] = s[i]
  BY AppendProperties
<1>2. \A i \in 1 .. Len(Append(s, m)) : i \in 1 .. Len(s) \/ i = Len(s) + 1  BY <1>1
<1> QED BY <1>1, <1>2 DEF NotIn, OnceIn

\* Without a call of id k, and with none at the head, nothing comes to answer it.
LEMMA NotUpStep ==
  ASSUME IInv, LinkNext, NEW k \in Ids, NotUp(k), FwCommand => Head(down).id # k
  PROVE  NotUp(k)'
<1> DEFINE R == {m \in UpMsg : m.id # k}
<1>0. k # 0  BY DEF Ids
<1>1. up \in Seq(UpMsg) /\ down \in Seq(DownMsg) /\ inbox \in [Ids -> Seq(UpMsg)] /\ lastId \in Id0s
  BY IInvType DEF TypeOK
<1>2. up \in Seq(R)
  <2>1. \A i \in 1 .. Len(up) : up[i] \in R  BY <1>1 DEF NotUp
  <2> QED BY <1>1, <2>1
<1>3. \A i \in Ids : inbox[i] \in Seq(R)
  <2> TAKE i \in Ids
  <2>1. CASE i = k
    <3>1. inbox[i] = <<>>  BY <2>1 DEF NotUp
    <3>2. <<>> \in Seq(R)  OBVIOUS
    <3> QED BY <3>1, <3>2
  <2>2. CASE i # k
    <3>1. inbox[i] \in Seq({m \in TaggedUp : m.id = i})  BY DEF IInv, IdsCarried
    <3>2. {m \in TaggedUp : m.id = i} \subseteq R  BY <2>2 DEF TaggedUp
    <3> QED BY <3>1, <3>2, SeqSubset
  <2> QED BY <2>1, <2>2
<1>4. FwCommand => IdAfter(Head(down)) # k /\ IdAfter(Head(down)) \in Id0s /\ SerialAfter(Head(down)) \in Nat
  <2> SUFFICES ASSUME FwCommand
               PROVE  IdAfter(Head(down)) # k /\ IdAfter(Head(down)) \in Id0s /\ SerialAfter(Head(down)) \in Nat
    OBVIOUS
  <2>1. Head(down) \in DownMsg  BY <1>1, SeqFacts DEF FwCommand
  <2>2. Head(down).id \in Id0s /\ Head(down).serial \in Nat
    BY <2>1, LinkAssumption DEF DownMsg, Id0s
  <2>3. lastSerial \in Nat  BY DEF IInv, Scalars
  <2> QED BY <1>1, <2>2, <2>3 DEF IdAfter, SerialAfter, NotUp
<1>5. up' \in Seq(R) /\ \A i \in Ids : inbox'[i] \in Seq(R)
  <2>1. \A b \in UpBodies : [kind |-> "async", id |-> 0, serial |-> 0, body |-> b] \in R
    <3>1. 0 \in Id0s  BY LinkAssumption DEF Id0s
    <3> QED BY <1>0, <3>1 DEF UpMsg
  <2>2. FwCommand => \A b \in UpBodies : [kind |-> "reply", id |-> IdAfter(Head(down)),
                                          serial |-> SerialAfter(Head(down)), body |-> b] \in R
    BY <1>4 DEF UpMsg
  <2> HIDE DEF R
  <2> QED BY <1>2, <1>3, <2>1, <2>2, UpKeeps
<1>6. inbox'[k] = <<>>
  <2>1. IInv'  BY StepInv
  <2>2. inbox'[k] \in Seq({m \in TaggedUp : m.id = k})  BY <2>1 DEF IInv, IdsCarried
  <2>3. inbox'[k] \in Seq(R)  BY <1>5
  <2>4. inbox'[k] # <<>> => Head(inbox'[k]).id = k /\ Head(inbox'[k]).id # k
    <3>1. \A A, q : q \in Seq(A) /\ q # <<>> => Head(q) \in A  BY SeqFacts
    <3>2. inbox'[k] # <<>> => Head(inbox'[k]) \in {m \in TaggedUp : m.id = k} /\ Head(inbox'[k]) \in R
      BY <2>2, <2>3, <3>1
    <3> QED BY <3>2
  <2> QED BY <2>4
<1>7. \A i \in 1 .. Len(up') : up'[i].id # k
  <2>1. \A i \in 1 .. Len(up') : up'[i] \in R  BY <1>5
  <2> QED BY <2>1
<1>8. lastId' # k
  <2>1. \/ lastId' = lastId \/ lastId' = 0
        \/ FwCommand /\ lastId' = IdAfter(Head(down))
    BY DEF LinkNext, HostSession, HostThreads, HostCall, Firmware, OpenStart, OpenDone, Close,
           ReaderHello, ReaderTake, ReaderExit, WriterCheck, WriterSend, WriterDrained,
           GetId, Receive, Timeout, Send, Post, FwStatus, FwRestart, FwCommand, FwHandle,
           FwCrash, FwEmit, Restart, devVars
  <2> QED BY <1>0, <1>4, <2>1 DEF NotUp
<1> QED BY <1>6, <1>7, <1>8 DEF NotUp

\* The next id is nobody's: nothing carries it.
LEMMA NewId ==
  ASSUME IInv, InSession, Numbered, calls + 1 < IdLimit - 1, NEW k, k = NextId(msgId)
  PROVE  /\ k \in Ids /\ NotIn(Path, k) /\ NotUp(k)
         /\ \A t \in Callers : call[t].st # "idle" => call[t].id # k
<1>1. calls \in Nat /\ msgId = IdOf(calls)  BY DEF IInv, Scalars, IdsCarried
<1>2. k = IdOf(calls + 1) /\ k \in Ids
  <2>1. calls + 1 \in Nat  BY <1>1
  <2> QED BY <1>1, <2>1, IdOfNext
<1>3. ASSUME NEW n \in Nat, n <= calls PROVE IdOf(n) # k
  <2>1. PICK c \in Nat : c = calls + 1  BY <1>1
  <2>2. n # c /\ ~(c - n >= IdLimit - 1) /\ ~(n - c >= IdLimit - 1)
    BY <1>1, <1>3, <2>1, LinkAssumption
  <2>3. IdOf(n) # IdOf(c)  BY <2>2, SameIdFar
  <2> QED BY <1>2, <2>1, <2>3
<1>4. ASSUME NEW m, m.serial \in Nat, m.serial <= calls, Tagged(m) PROVE m.id # k
  BY <1>2, <1>3, <1>4 DEF Tagged, Ids
<1>5. ASSUME NEW q \in Seq(DownMsg), q \in Seq(TaggedDown), q \in Seq(DownTo(calls)), NEW i \in 1 .. Len(q)
      PROVE  q[i].id # k
  <2>1. q[i] \in TaggedDown /\ q[i] \in DownTo(calls)
    <3>1. q[i] \in TaggedDown  BY <1>5
    <3>2. q[i] \in DownTo(calls)  BY <1>5
    <3> QED BY <3>1, <3>2
  <2>2. q[i].serial \in Nat /\ q[i].serial <= calls /\ Tagged(q[i])
    BY <2>1 DEF TaggedDown, DownTo, DownMsg
  <2> QED BY <2>2, <1>4
<1>6. NotIn(Path, k)
  <2>1. /\ down \in Seq(DownMsg) /\ txQueue \in Seq(DownMsg)
        /\ \A i \in 1 .. Len(down) : down[i].id # k
        /\ \A i \in 1 .. Len(txQueue) : txQueue[i].id # k
    <3>1. down \in Seq(DownMsg) /\ txQueue \in Seq(DownMsg)  BY DownFacts
    <3>2. /\ down \in Seq(TaggedDown) /\ txQueue \in Seq(TaggedDown)
          /\ down \in Seq(DownTo(calls)) /\ txQueue \in Seq(DownTo(calls))
      BY DEF IInv, IdsCarried, Numbered
    <3> QED BY <3>1, <3>2, <1>5
  <2>2. /\ Len(Path) = Len(down) + Len(txQueue) /\ Len(down) \in Nat /\ Len(txQueue) \in Nat
        /\ \A i \in 1 .. Len(down) : Path[i] = down[i]
        /\ \A i \in Len(down) + 1 .. Len(Path) : Path[i] = txQueue[i - Len(down)] /\ i - Len(down) \in 1 .. Len(txQueue)
    BY <2>1, ConcatFacts DEF Path
  <2>3. \A i \in 1 .. Len(Path) : i \in 1 .. Len(down) \/ i \in Len(down) + 1 .. Len(Path)  BY <2>2
  <2> QED BY <2>1, <2>2, <2>3 DEF NotIn
<1>7. NotUp(k)
  <2>1. \A i \in 1 .. Len(up) : up[i].id # k
    <3> TAKE i \in 1 .. Len(up)
    <3>1. up[i] \in TaggedUp  BY DEF IInv, IdsCarried
    <3>2. up[i] \in UpTo(calls)  BY DEF Numbered
    <3>3. up[i].serial \in Nat /\ up[i].serial <= calls /\ Tagged(up[i])
      BY <3>1, <3>2 DEF TaggedUp, UpTo, UpMsg
    <3> QED BY <3>3, <1>4
  <2>2. inbox[k] = <<>>
    <3> SUFFICES ASSUME inbox[k] # <<>> PROVE FALSE  OBVIOUS
    <3>1. inbox[k] \in Seq({m \in TaggedUp : m.id = k})  BY <1>2 DEF IInv, IdsCarried
    <3>2. inbox[k] \in Seq(UpTo(calls))  BY <1>2 DEF Numbered
    <3>3. \A A, q : q \in Seq(A) /\ q # <<>> => Head(q) \in A  BY SeqFacts
    <3>4. Head(inbox[k]) \in {m \in TaggedUp : m.id = k} /\ Head(inbox[k]) \in UpTo(calls)
      BY <3>1, <3>2, <3>3
    <3>5. Head(inbox[k]).serial \in Nat /\ Head(inbox[k]).serial <= calls /\ Tagged(Head(inbox[k]))
          /\ Head(inbox[k]).id = k
      BY <3>4 DEF TaggedUp, UpTo, UpMsg
    <3> QED BY <3>5, <1>4
  <2>3. lastId # k
    <3> DEFINE m == [id |-> lastId, serial |-> lastSerial]
    <3>1. m.serial \in Nat /\ m.serial <= calls /\ Tagged(m) /\ m.id = lastId
      BY DEF IInv, IdsCarried, Scalars, Numbered
    <3> HIDE DEF m
    <3> QED BY <3>1, <1>4
  <2> QED BY <2>1, <2>2, <2>3 DEF NotUp
<1>8. \A t \in Callers : call[t].st # "idle" => call[t].id # k
  <2> TAKE t \in Callers
  <2>1. call[t].serial \in Nat /\ call[t].serial <= calls /\ Tagged(call[t])
    BY DEF IInv, IdsCarried, Scalars, Numbered, Call
  <2> QED BY <2>1, <1>4
<1> QED BY <1>2, <1>6, <1>7, <1>8

\* What a step does to the calls.
LEMMA CallChange ==
  ASSUME IInv, LinkNext
  PROVE  \/ call' = call
         \/ \E t \in Callers :
              /\ \A u \in Callers : u # t => call'[u] = call[u]
              /\ \/ call'[t] = Idle
                 \/ /\ GetId(t) /\ calls' = calls + 1
                    /\ call'[t] = [st |-> "ready", id |-> NextId(msgId), serial |-> calls + 1]
                 \/ /\ call[t].st = "ready" /\ \E b \in Bodies : Send(t, b) /\ writer # "off"
                    /\ call'[t].st = "waiting" /\ call'[t].id = call[t].id
<1>0. call \in [Callers -> Call]  BY DEF IInv, Scalars
<1>1. CASE HostSession \/ HostThreads \/ Firmware
  BY <1>1 DEF HostSession, OpenStart, OpenDone, Close, HostThreads, ReaderHello, ReaderTake, ReaderExit,
              WriterCheck, WriterSend, WriterDrained, Firmware, FwStatus, FwRestart, FwCommand, FwHandle,
              FwCrash, FwEmit, Restart, hostVars
<1>2. ASSUME NEW t \in Callers, HostCall(t)
      PROVE  \/ call' = call
             \/ /\ \A u \in Callers : u # t => call'[u] = call[u]
                /\ \/ call'[t] = Idle
                   \/ /\ GetId(t) /\ calls' = calls + 1
                      /\ call'[t] = [st |-> "ready", id |-> NextId(msgId), serial |-> calls + 1]
                   \/ /\ call[t].st = "ready" /\ \E b \in Bodies : Send(t, b) /\ writer # "off"
                      /\ call'[t].st = "waiting" /\ call'[t].id = call[t].id
  <2>1. CASE GetId(t)  BY <1>0, <2>1 DEF GetId
  <2>2. CASE Receive(t) \/ Timeout(t)  BY <1>0, <2>2 DEF Receive, Timeout
  <2>3. ASSUME NEW b \in Bodies, Send(t, b)
        PROVE  /\ \A u \in Callers : u # t => call'[u] = call[u]
               /\ \/ call'[t] = Idle
                  \/ /\ call[t].st = "ready" /\ Send(t, b) /\ writer # "off"
                     /\ call'[t].st = "waiting" /\ call'[t].id = call[t].id
    BY <1>0, <2>3 DEF Send, Call
  <2>4. CASE \E b \in Bodies : Post(t, b)  BY <2>4 DEF Post
  <2> QED BY <1>2, <2>1, <2>2, <2>3, <2>4 DEF HostCall
<1> QED BY <1>1, <1>2 DEF LinkNext

\* The command of a call that does not move.
LEMMA WaitingStep ==
  ASSUME OInv, UpRunning, IdsApart, LinkNext, NEW t \in Callers, call[t].st # "idle", call'[t] = call[t],
         session = "up", session' = "up"
  PROVE  /\ call[t].st = "ready" => NotIn(Path', call[t].id) /\ NotUp(call[t].id)'
         /\ call[t].st = "waiting" =>
              OnceIn(Path', call[t].id) /\ (NotIn(Path', call[t].id) \/ NotUp(call[t].id)')
<1>1. IInv  BY DEF OInv
<1>2. PICK k \in Ids : k = call[t].id
  BY <1>1 DEF IInv, Scalars, IdsCarried, Call, Ids, Id0s
<1>3. Path \in Seq(DownMsg) /\ Path' \in Seq(DownMsg) /\ k # 0
  <2>1. IInv'  BY <1>1, StepInv
  <2>2. (IInv => Path \in Seq(DownMsg))'  BY PathTyped, PTL
  <2> QED BY <1>1, <2>1, <2>2, PathTyped DEF Ids
<1>4. ASSUME NEW m, txQueue' = Append(txQueue, m) PROVE m.id # k
  <2>1. PICK u \in Callers, b \in Bodies : \/ Send(u, b) /\ m = Cmd(call[u].id, call[u].serial, b)
                                           \/ Post(u, b) /\ m = Cmd(0, 0, b)
    BY <1>1, <1>4, DownFacts, Queued
  <2>2. CASE Post(u, b) /\ m = Cmd(0, 0, b)  BY <1>3, <2>2 DEF Cmd
  <2>3. CASE Send(u, b) /\ m = Cmd(call[u].id, call[u].serial, b)
    <3>1. u # t
      <4>1. txQueue' # txQueue  BY <1>1, <1>4, DownFacts
      <4>2. call[u].st = "ready" /\ call'[u].st = "waiting"
        BY <1>1, <2>3, <4>1 DEF Send, IInv, Scalars, Call
      <4> QED BY <4>2
    <3>2. call[u].st # "idle"  BY <2>3 DEF Send
    <3>3. call[u].id # call[t].id  BY <3>1, <3>2 DEF IdsApart
    <3> QED BY <1>2, <2>3, <3>3 DEF Cmd
  <2> QED BY <2>1, <2>2, <2>3
<1>5. \/ /\ Thinned(Path', Path)
         /\ FwStatus \/ FwCommand => Path # <<>> /\ Thinned(Path', Tail(Path))
      \/ ~(FwStatus \/ FwCommand) /\ \E m \in DownMsg : Added(m)
  BY PathStep
<1>6. NotIn(Path, k) => NotIn(Path', k)
  <2>1. CASE Thinned(Path', Path)  BY <1>3, <2>1, ThinIds
  <2>2. ASSUME NEW m \in DownMsg, Added(m) PROVE NotIn(Path, k) => NotIn(Path', k)
    BY <1>3, <1>4, <2>2, AppendIds DEF Added
  <2> QED BY <1>5, <2>1, <2>2
<1>7. OnceIn(Path, k) => OnceIn(Path', k)
  <2>1. CASE Thinned(Path', Path)  BY <1>3, <2>1, ThinIds
  <2>2. ASSUME NEW m \in DownMsg, Added(m) PROVE OnceIn(Path, k) => OnceIn(Path', k)
    BY <1>3, <1>4, <2>2, AppendIds DEF Added
  <2> QED BY <1>5, <2>1, <2>2
<1>8. OnceIn(Path, k) /\ FwCommand /\ Head(down).id = k => NotIn(Path', k)
  <2> SUFFICES ASSUME OnceIn(Path, k), FwCommand, Head(down).id = k PROVE NotIn(Path', k)  OBVIOUS
  <2>1. Path # <<>> /\ Thinned(Path', Tail(Path))  BY <1>5
  <2>2. /\ Tail(Path) \in Seq(DownMsg) /\ Len(Tail(Path)) = Len(Path) - 1 /\ Len(Path) \in Nat /\ Len(Path) >= 1
        /\ \A i \in 1 .. Len(Path) - 1 : Tail(Path)[i] = Path[i + 1]
    BY <1>3, <2>1, HeadTailProperties
  <2>3. Path[1].id = k
    <3>1. down \in Seq(DownMsg) /\ down # <<>> /\ txQueue \in Seq(DownMsg)  BY <1>1, DownFacts DEF FwCommand
    <3>2. 1 \in 1 .. Len(down) /\ Head(down) = down[1]  BY <3>1, HeadTailProperties
    <3>3. Path[1] = down[1]  BY <3>1, <3>2, ConcatFacts DEF Path
    <3> QED BY <3>2, <3>3
  <2>4. NotIn(Tail(Path), k)
    <3> SUFFICES ASSUME NEW i \in 1 .. Len(Path) - 1, Tail(Path)[i].id = k PROVE FALSE
      BY <2>2 DEF NotIn
    <3>1. Path[i + 1].id = k /\ i + 1 \in 1 .. Len(Path) /\ 1 \in 1 .. Len(Path) /\ i + 1 # 1  BY <2>2
    <3> QED BY <2>3, <3>1 DEF OnceIn
  <2> QED BY <1>3, <2>1, <2>2, <2>4, ThinIds
<1>9. NotIn(Path, k) /\ FwCommand => Head(down).id # k
  <2> SUFFICES ASSUME NotIn(Path, k), FwCommand PROVE Head(down).id # k  OBVIOUS
  <2>1. down \in Seq(DownMsg) /\ down # <<>> /\ txQueue \in Seq(DownMsg)  BY <1>1, DownFacts DEF FwCommand
  <2>2. 1 \in 1 .. Len(down) /\ Head(down) = down[1]  BY <2>1, HeadTailProperties
  <2>3. Path[1] = down[1] /\ 1 \in 1 .. Len(Path)  BY <2>1, <2>2, ConcatFacts DEF Path
  <2> QED BY <2>2, <2>3 DEF NotIn
<1>10. CASE call[t].st = "ready"
  <2>1. NotIn(Path, k) /\ NotUp(k)  BY <1>2, <1>10 DEF IdsApart
  <2>2. NotUp(k)'  BY <1>1, <1>9, <2>1, NotUpStep
  <2>3. NotUp(k)' => NotUp(call[t].id)'  BY <1>2 DEF NotUp
  <2> QED BY <1>2, <1>6, <1>10, <2>1, <2>2, <2>3
<1>11. CASE call[t].st = "waiting"
  <2>1. OnceIn(Path, k) /\ (NotIn(Path, k) \/ NotUp(k))  BY <1>2, <1>11 DEF IdsApart
  <2>2. NotIn(Path', k) \/ NotUp(k)'
    <3>1. CASE NotIn(Path, k)  BY <1>6, <3>1
    <3>2. CASE NotUp(k)
      <4>1. CASE FwCommand /\ Head(down).id = k  BY <1>8, <2>1, <4>1
      <4>2. CASE ~(FwCommand /\ Head(down).id = k)  BY <1>1, <3>2, <4>2, NotUpStep
      <4> QED BY <4>1, <4>2
    <3> QED BY <2>1, <3>1, <3>2
  <2>3. NotUp(k)' => NotUp(call[t].id)'  BY <1>2 DEF NotUp
  <2> QED BY <1>2, <1>7, <1>11, <2>1, <2>2, <2>3
<1>12. call[t].st \in {"idle", "ready", "waiting"}  BY <1>1 DEF IInv, Scalars, Call
<1> QED BY <1>10, <1>11, <1>12

LEMMA IdsApartStep ==
  ASSUME HelloInTime, OInv, UpRunning, Numbered, IdsApart, [LinkNext]_linkVars, calls' < IdLimit - 1
  PROVE  IdsApart'
<1>1. CASE UNCHANGED linkVars
  BY <1>1 DEF linkVars, hostVars, devVars, IdsApart, NotUp, Path
<1>2. CASE LinkNext
  <2>0. IInv /\ InSession /\ OInv' /\ call \in [Callers -> Call]
    <3>1. IInv /\ InSession  BY DEF OInv
    <3>2. OInv'  BY OStep
    <3> QED BY <3>1, <3>2 DEF IInv, Scalars
  <2>1. \/ call' = call
        \/ \E t \in Callers :
              /\ \A u \in Callers : u # t => call'[u] = call[u]
              /\ \/ call'[t] = Idle
                 \/ /\ GetId(t) /\ calls' = calls + 1
                    /\ call'[t] = [st |-> "ready", id |-> NextId(msgId), serial |-> calls + 1]
                 \/ /\ call[t].st = "ready" /\ \E b \in Bodies : Send(t, b) /\ writer # "off"
                    /\ call'[t].st = "waiting" /\ call'[t].id = call[t].id
    BY <1>2, <2>0, CallChange
  <2>2. ASSUME NEW t \in Callers, call[t].st # "idle", call'[t].st # "idle"
        PROVE  session = "up" /\ session' = "up"
    BY <2>0, <2>2 DEF OInv, InSession
  <2>3. ASSUME NEW t \in Callers, call[t].st # "idle", call'[t] = call[t]
        PROVE  /\ call[t].st = "ready" => NotIn(Path', call[t].id) /\ NotUp(call[t].id)'
               /\ call[t].st = "waiting" =>
                    OnceIn(Path', call[t].id) /\ (NotIn(Path', call[t].id) \/ NotUp(call[t].id)')
    BY <1>2, <2>2, <2>3, WaitingStep
  <2>4. ASSUME NEW t \in Callers, GetId(t), calls' = calls + 1,
               call'[t] = [st |-> "ready", id |-> NextId(msgId), serial |-> calls + 1]
        PROVE  /\ NotIn(Path', call'[t].id) /\ NotUp(call[t].id)'
               /\ \A u \in Callers : call[u].st # "idle" => call[u].id # call'[t].id
    <3>1. PICK k : k = NextId(msgId)  OBVIOUS
    <3>2. calls + 1 < IdLimit - 1  BY <2>4
    <3>3. /\ k \in Ids /\ NotIn(Path, k) /\ NotUp(k)
          /\ \A u \in Callers : call[u].st # "idle" => call[u].id # k
      BY <2>0, <3>1, <3>2, NewId
    <3>4. Path' = Path /\ up' = up /\ inbox' = inbox /\ lastId' = lastId
      BY <2>4 DEF GetId, Path, devVars
    <3>5. call'[t].id = k  BY <2>4, <3>1
    <3> QED BY <3>3, <3>4, <3>5 DEF NotUp
  <2>5. ASSUME NEW t \in Callers, call[t].st = "ready", \E b \in Bodies : Send(t, b) /\ writer # "off",
               call'[t].st = "waiting", call'[t].id = call[t].id
        PROVE  OnceIn(Path', call'[t].id) /\ (NotIn(Path', call'[t].id) \/ NotUp(call[t].id)')
    <3>1. PICK b \in Bodies : Send(t, b) /\ writer # "off"  BY <2>5
    <3>2. PICK k : k = call[t].id  OBVIOUS
    <3>3. NotIn(Path, k) /\ NotUp(k)  BY <2>5, <3>2 DEF IdsApart
    <3>4. up' = up /\ inbox' = inbox /\ lastId' = lastId  BY <3>1 DEF Send, devVars
    <3>5. txQueue' = Append(txQueue, Cmd(call[t].id, call[t].serial, b)) /\ down' = down
      BY <3>1 DEF Send
    <3>6. PICK m \in DownMsg : m = Cmd(call[t].id, call[t].serial, b)
      <4>1. call[t].id \in Id0s /\ call[t].serial \in Nat /\ epoch \in Nat
        BY <2>0 DEF IInv, Scalars, Call
      <4> QED BY <4>1 DEF Cmd, DownMsg
    <3>7. OnceIn(Path', k)
      <4>1. /\ down \in Seq(DownMsg) /\ txQueue \in Seq(DownMsg) /\ Path \in Seq(DownMsg) /\ <<m>> \in Seq(DownMsg)
        BY <2>0, DownFacts, PathTyped
      <4>2. down \o (txQueue \o <<m>>) = (down \o txQueue) \o <<m>>  BY <4>1, ConcatAssociative
      <4>3. txQueue' = txQueue \o <<m>> /\ Path \o <<m>> = Append(Path, m)  BY <3>5, <3>6, <4>1
      <4>4. Path' = Append(Path, m)  BY <3>5, <4>2, <4>3 DEF Path
      <4> QED BY <3>3, <4>1, <4>4, AppendIds
    <3>8. NotUp(k)' => NotUp(call[t].id)'  BY <2>5, <3>2 DEF NotUp
    <3>9. NotUp(k)'  BY <3>3, <3>4 DEF NotUp
    <3> QED BY <2>5, <3>2, <3>7, <3>8, <3>9
  <2>6. Idle.st = "idle"  BY DEF Idle
  <2>7. ASSUME NEW t \in Callers
        PROVE  /\ call'[t].st = "ready" => NotIn(Path', call'[t].id) /\ NotUp(call[t].id)'
               /\ call'[t].st = "waiting" =>
                    OnceIn(Path', call'[t].id) /\ (NotIn(Path', call'[t].id) \/ NotUp(call[t].id)')
    <3>1. CASE call'[t] = call[t]  BY <2>3, <3>1
    <3>2. CASE call'[t] # call[t]
      <4>1. \/ call'[t] = Idle
            \/ /\ GetId(t) /\ calls' = calls + 1
               /\ call'[t] = [st |-> "ready", id |-> NextId(msgId), serial |-> calls + 1]
            \/ /\ call[t].st = "ready" /\ \E b \in Bodies : Send(t, b) /\ writer # "off"
               /\ call'[t].st = "waiting" /\ call'[t].id = call[t].id
        BY <2>1, <3>2
      <4> QED BY <2>4, <2>5, <2>6, <4>1
    <3> QED BY <3>1, <3>2
  <2>8. ASSUME NEW t \in Callers, NEW u \in Callers, t # u, call'[t].st # "idle", call'[u].st # "idle"
        PROVE  call'[t].id # call'[u].id
    <3>1. CASE call' = call  BY <3>1, <2>8 DEF IdsApart
    <3>2. ASSUME NEW v \in Callers, \A w \in Callers : w # v => call'[w] = call[w],
                 GetId(v), calls' = calls + 1,
                 call'[v] = [st |-> "ready", id |-> NextId(msgId), serial |-> calls + 1]
          PROVE  call'[t].id # call'[u].id
      <4>1. \A w \in Callers : call[w].st # "idle" => call[w].id # call'[v].id  BY <2>4, <3>2
      <4>2. CASE t = v
        <5>1. call'[u] = call[u]  BY <2>8, <3>2, <4>2
        <5>2. call[u].id # call'[v].id  BY <2>8, <4>1, <5>1
        <5> QED BY <4>2, <5>1, <5>2
      <4>3. CASE u = v
        <5>1. call'[t] = call[t]  BY <2>8, <3>2, <4>3
        <5>2. call[t].id # call'[v].id  BY <2>8, <4>1, <5>1
        <5> QED BY <4>3, <5>1, <5>2
      <4>4. CASE t # v /\ u # v  BY <2>8, <3>2, <4>4 DEF IdsApart
      <4> QED BY <4>2, <4>3, <4>4
    <3>3. ASSUME NEW v \in Callers, \A w \in Callers : w # v => call'[w] = call[w],
                 \/ call'[v] = Idle
                 \/ call[v].st = "ready" /\ call'[v].st = "waiting" /\ call'[v].id = call[v].id
          PROVE  call'[t].id # call'[u].id
      <4>1. \A w \in Callers : call'[w].st # "idle" => call[w].st # "idle" /\ call'[w].id = call[w].id
        BY <2>6, <3>3
      <4> QED BY <2>8, <4>1 DEF IdsApart
    <3> QED BY <2>1, <3>1, <3>2, <3>3
  <2> QED BY <2>7, <2>8 DEF IdsApart
<1> QED BY <1>1, <1>2
-----------------------------------------------------------------------------
(* The first answer to a call *)

FirstIn(s, k) == {i \in 1 .. Len(s) : s[i].id = k /\ \A j \in 1 .. i - 1 : s[j].id # k}

\* What the call with id k takes if it takes anything: the head of its receiver,
\* or else the first message of its id on the way up.
First(k) == IF inbox[k] # <<>> THEN {Head(inbox[k]).body} ELSE {up[i].body : i \in FirstIn(up, k)}
Some(k)  == inbox[k] # <<>> \/ \E i \in 1 .. Len(up) : up[i].id = k

\* What was not asked for carries no id.
Unasked == {m \in UpMsg : m.kind = "async" => m.id = 0}
UpPlain == up \in Seq(Unasked) /\ \A i \in Ids : inbox[i] \in Seq(Unasked)

LEMMA UpPlainStep == IInv /\ UpPlain /\ [LinkNext]_linkVars => UpPlain'
<1> SUFFICES ASSUME IInv, UpPlain, [LinkNext]_linkVars PROVE UpPlain'  OBVIOUS
<1>1. CASE UNCHANGED linkVars  BY <1>1 DEF linkVars, hostVars, UpPlain
<1>2. CASE LinkNext
  <2>1. \A b \in UpBodies : [kind |-> "async", id |-> 0, serial |-> 0, body |-> b] \in Unasked
    <3>1. 0 \in Id0s  BY LinkAssumption DEF Id0s
    <3> QED BY <3>1 DEF Unasked, UpMsg
  <2>2. FwCommand => \A b \in UpBodies : [kind |-> "reply", id |-> IdAfter(Head(down)),
                                          serial |-> SerialAfter(Head(down)), body |-> b] \in Unasked
    <3> SUFFICES ASSUME FwCommand
                 PROVE  \A b \in UpBodies : [kind |-> "reply", id |-> IdAfter(Head(down)),
                                             serial |-> SerialAfter(Head(down)), body |-> b] \in Unasked
      OBVIOUS
    <3>1. Head(down) \in DownMsg  BY DownFacts, SeqFacts DEF FwCommand
    <3>2. Head(down).id \in Id0s /\ Head(down).serial \in Nat
      BY <3>1, LinkAssumption DEF DownMsg, Id0s
    <3>3. IdAfter(Head(down)) \in Id0s /\ SerialAfter(Head(down)) \in Nat
      BY <3>2 DEF IdAfter, SerialAfter, IInv, Scalars
    <3> QED BY <3>3 DEF Unasked, UpMsg
  <2> QED BY <1>2, <2>1, <2>2, UpKeeps DEF UpPlain
<1> QED BY <1>1, <1>2

LEMMA FirstConcat ==
  ASSUME NEW S, NEW s \in Seq(S), NEW w \in Seq(S), NEW k, NEW i \in FirstIn(s \o w, k)
  PROVE  /\ \/ i \in FirstIn(s, k) /\ (s \o w)[i] = s[i]
            \/ NotIn(s, k)
         /\ NotIn(s, k) /\ w # <<>> /\ Head(w).id = k => (s \o w)[i] = Head(w)
<1>1. /\ Len(s \o w) = Len(s) + Len(w) /\ Len(s) \in Nat /\ Len(w) \in Nat
      /\ \A j \in 1 .. Len(s) : (s \o w)[j] = s[j]
      /\ \A j \in Len(s) + 1 .. Len(s \o w) : (s \o w)[j] = w[j - Len(s)] /\ j - Len(s) \in 1 .. Len(w)
  BY ConcatFacts
<1>2. i \in 1 .. Len(s \o w) /\ (s \o w)[i].id = k /\ \A j \in 1 .. i - 1 : (s \o w)[j].id # k
  BY DEF FirstIn
<1>3. CASE i <= Len(s)
  <2>1. i \in 1 .. Len(s) /\ (s \o w)[i] = s[i]  BY <1>1, <1>2, <1>3
  <2>2. \A j \in 1 .. i - 1 : s[j].id # k
    <3> TAKE j \in 1 .. i - 1
    <3>1. j \in 1 .. Len(s)  BY <1>1, <2>1
    <3>2. (s \o w)[j].id # k  BY <1>2
    <3> QED BY <1>1, <3>1, <3>2
  <2>3. ~NotIn(s, k)  BY <1>2, <2>1 DEF NotIn
  <2> QED BY <1>2, <2>1, <2>2, <2>3 DEF FirstIn
<1>4. CASE ~(i <= Len(s))
  <2>1. NotIn(s, k)
    <3> SUFFICES ASSUME NEW j \in 1 .. Len(s), s[j].id = k PROVE FALSE  BY DEF NotIn
    <3>1. j \in 1 .. i - 1  BY <1>1, <1>2, <1>4
    <3> QED BY <1>1, <1>2, <3>1
  <2>2. ASSUME w # <<>>, Head(w).id = k PROVE (s \o w)[i] = Head(w)
    <3>1. Head(w) = w[1] /\ 1 \in 1 .. Len(w)  BY <2>2, HeadTailProperties
    <3>2. Len(s) + 1 \in Len(s) + 1 .. Len(s \o w) /\ (Len(s) + 1) - Len(s) = 1  BY <1>1, <3>1
    <3>3. (s \o w)[Len(s) + 1] = w[1]  BY <1>1, <3>2
    <3>4. ~(Len(s) + 1 < i)
      <4>1. Len(s) + 1 < i => Len(s) + 1 \in 1 .. i - 1  BY <1>1, <1>2
      <4> QED BY <1>2, <2>2, <3>1, <3>3, <4>1
    <3>5. i = Len(s) + 1  BY <1>1, <1>2, <1>4, <3>4
    <3> QED BY <3>1, <3>3, <3>5
  <2> QED BY <2>1, <2>2
<1> QED BY <1>3, <1>4

LEMMA FirstTail ==
  ASSUME NEW S, NEW s \in Seq(S), s # <<>>, NEW k
  PROVE  /\ Head(s).id # k => \A i \in FirstIn(Tail(s), k) : i + 1 \in FirstIn(s, k) /\ Tail(s)[i] = s[i + 1]
         /\ Head(s).id # k /\ ~NotIn(s, k) => ~NotIn(Tail(s), k)
         /\ Head(s).id = k => 1 \in FirstIn(s, k) /\ s[1] = Head(s)
<1>1. /\ Head(s) = s[1] /\ Len(Tail(s)) = Len(s) - 1 /\ Len(s) \in Nat /\ 1 \in 1 .. Len(s)
      /\ \A i \in 1 .. Len(s) - 1 : Tail(s)[i] = s[i + 1]
  BY HeadTailProperties
<1>2. ASSUME Head(s).id # k, NEW i \in FirstIn(Tail(s), k)
      PROVE  i + 1 \in FirstIn(s, k) /\ Tail(s)[i] = s[i + 1]
  <2>1. i \in 1 .. Len(s) - 1 /\ Tail(s)[i].id = k /\ \A j \in 1 .. i - 1 : Tail(s)[j].id # k
    BY <1>1 DEF FirstIn
  <2>2. Tail(s)[i] = s[i + 1] /\ i + 1 \in 1 .. Len(s)  BY <1>1, <2>1
  <2>3. \A j \in 1 .. (i + 1) - 1 : s[j].id # k
    <3> TAKE j \in 1 .. (i + 1) - 1
    <3>1. CASE j = 1  BY <1>1, <1>2, <3>1
    <3>2. CASE j # 1
      <4>1. j - 1 \in 1 .. i - 1 /\ j - 1 \in 1 .. Len(s) - 1 /\ (j - 1) + 1 = j  BY <1>1, <2>1, <3>2
      <4>2. Tail(s)[j - 1].id # k /\ Tail(s)[j - 1] = s[(j - 1) + 1]  BY <1>1, <2>1, <4>1
      <4> QED BY <4>1, <4>2
    <3> QED BY <3>1, <3>2
  <2> QED BY <2>1, <2>2, <2>3 DEF FirstIn
<1>3. ASSUME Head(s).id # k, ~NotIn(s, k) PROVE ~NotIn(Tail(s), k)
  <2>1. PICK i \in 1 .. Len(s) : s[i].id = k  BY <1>3 DEF NotIn
  <2>2. i # 1  BY <1>1, <1>3, <2>1
  <2>3. i - 1 \in 1 .. Len(s) - 1 /\ (i - 1) + 1 = i  BY <1>1, <2>2
  <2>4. Tail(s)[i - 1] = s[i]  BY <1>1, <2>3
  <2> QED BY <1>1, <2>1, <2>3, <2>4 DEF NotIn
<1>4. Head(s).id = k => 1 \in FirstIn(s, k) /\ s[1] = Head(s)
  <2>1. \A j \in 1 .. 1 - 1 : FALSE  OBVIOUS
  <2> QED BY <1>1, <2>1 DEF FirstIn
<1> QED BY <1>2, <1>3, <1>4

\* What a step does to the receiver of id k and to the bytes on their way up, if
\* nobody takes from that receiver.
LEMMA UpChange ==
  ASSUME IInv, UpPlain, LinkNext, session = "up", session' = "up", NEW k \in Ids,
         \A t \in Callers : Receive(t) => call[t].id # k
  PROVE  \/ inbox'[k] = inbox[k] /\ \E w \in Seq(UpMsg) : up' = up \o w
         \/ inbox'[k] = inbox[k] /\ up # <<>> /\ Head(up).id # k /\ up' = Tail(up)
         \/ /\ up # <<>> /\ Head(up).id = k
            /\ inbox'[k] = Append(inbox[k], Head(up)) /\ up' = Tail(up)
<1>1. up \in Seq(UpMsg) /\ down \in Seq(DownMsg) /\ inbox \in [Ids -> Seq(UpMsg)] /\ lastId \in Id0s
  BY IInvType DEF TypeOK
<1>2. up' = up => \E w \in Seq(UpMsg) : up' = up \o w
  <2>1. up = up \o <<>> /\ <<>> \in Seq(UpMsg)  BY <1>1
  <2> QED BY <2>1
<1>3. CASE HostSession
  <2>1. ~OpenStart /\ ~Close  BY DEF OpenStart, Close
  <2>2. up' = up /\ inbox' = inbox  BY <1>3, <2>1 DEF HostSession, OpenDone
  <2> QED BY <1>2, <2>2
<1>4. CASE HostThreads /\ ~ReaderTake
  BY <1>2, <1>4 DEF HostThreads, ReaderHello, ReaderExit, WriterCheck, WriterSend, WriterDrained
<1>5. CASE ReaderTake
  <2> DEFINE m == Head(up)
  <2>1. up # <<>> /\ up' = Tail(up) /\ m \in Unasked
    BY <1>5, SeqFacts DEF ReaderTake, UpPlain
  <2>2. inbox' = IF m.kind = "reply" /\ m.id \in Ids THEN [inbox EXCEPT ![m.id] = Append(@, m)] ELSE inbox
    BY <1>5 DEF ReaderTake
  <2>3. m.id = k => m.kind = "reply"  BY <2>1 DEF Unasked, UpMsg, Ids
  <2> HIDE DEF m
  <2>4. CASE m.id = k
    <3>1. inbox'[k] = Append(inbox[k], m)  BY <1>1, <2>2, <2>3, <2>4
    <3> QED BY <2>1, <2>4, <3>1 DEF m
  <2>5. CASE m.id # k
    <3>1. inbox'[k] = inbox[k]  BY <1>1, <2>2, <2>5
    <3> QED BY <2>1, <2>5, <3>1 DEF m
  <2> QED BY <2>4, <2>5
<1>6. ASSUME NEW t \in Callers, HostCall(t)
      PROVE  up' = up /\ inbox'[k] = inbox[k]
  <2>1. CASE Receive(t)
    <3>1. call[t].id # k /\ up' = up /\ inbox' = [inbox EXCEPT ![call[t].id] = Tail(@)]
      BY <2>1 DEF Receive
    <3> QED BY <1>1, <3>1
  <2>2. CASE ~Receive(t)
    BY <1>6, <2>2 DEF HostCall, GetId, Timeout, Send, Post
  <2> QED BY <2>1, <2>2
<1>7. CASE Firmware
  <2>1. inbox' = inbox
    BY <1>7 DEF Firmware, FwStatus, FwRestart, FwCommand, FwHandle, FwCrash, FwEmit, Restart, hostVars
  <2>2. FwStatus \/ FwRestart => up' = up  BY DEF FwStatus, FwRestart
  <2>3. ASSUME NEW b \in UpBodies, FwEmit(b) PROVE \E w \in Seq(UpMsg) : up' = up \o w
    <3>1. PICK m : m = [kind |-> "async", id |-> 0, serial |-> 0, body |-> b]  OBVIOUS
    <3>2. m \in UpMsg
      <4>1. 0 \in Id0s  BY LinkAssumption DEF Id0s
      <4> QED BY <3>1, <4>1 DEF UpMsg
    <3>3. up' = Append(up, m)  BY <2>3, <3>1 DEF FwEmit
    <3>4. Append(up, m) = up \o <<m>> /\ <<m>> \in Seq(UpMsg)  BY <1>1, <3>2
    <3> QED BY <3>3, <3>4
  <2>4. ASSUME FwCommand PROVE \E w \in Seq(UpMsg) : up' = up \o w
    <3>1. PICK outs \in HandlerOuts(Head(down)) : FwHandle(outs) \/ FwCrash(outs)  BY <2>4 DEF FwCommand
    <3>2. PICK id, n : id = IdAfter(Head(down)) /\ n = SerialAfter(Head(down))  OBVIOUS
    <3>3. up' = up \o Sent(id, n, outs)  BY <3>1, <3>2 DEF FwHandle, FwCrash
    <3>4. id \in Id0s /\ n \in Nat
      <4>1. Head(down) \in DownMsg  BY <1>1, <2>4, SeqFacts DEF FwCommand
      <4>2. Head(down).id \in Id0s /\ Head(down).serial \in Nat  BY <4>1, LinkAssumption DEF DownMsg, Id0s
      <4>3. lastSerial \in Nat  BY DEF IInv, Scalars
      <4> QED BY <1>1, <3>2, <4>2, <4>3 DEF IdAfter, SerialAfter
    <3>5. 0 \in Id0s  BY LinkAssumption DEF Id0s
    <3>6. Sent(id, n, outs) \in Seq(UpMsg)
      <4>1. outs \in Seq(Outs)  BY HandlerOutsType
      <4>2. \A b \in UpBodies : [kind |-> "async", id |-> 0, serial |-> 0, body |-> b] \in UpMsg
        BY <3>5 DEF UpMsg
      <4>3. \A b \in UpBodies : [kind |-> "reply", id |-> id, serial |-> n, body |-> b] \in UpMsg
        BY <3>4 DEF UpMsg
      <4> QED BY <4>1, <4>2, <4>3, SentIn
    <3> QED BY <3>3, <3>6
  <2> QED BY <1>2, <1>7, <2>1, <2>2, <2>3, <2>4 DEF Firmware
<1> QED BY <1>2, <1>3, <1>4, <1>5, <1>6, <1>7 DEF LinkNext, HostThreads

\* The first answer of a call stays the first until it is taken.
LEMMA FirstKeeps ==
  ASSUME IInv, UpPlain, LinkNext, session = "up", session' = "up", NEW k \in Ids,
         \A t \in Callers : Receive(t) => call[t].id # k, Some(k)
  PROVE  Some(k)' /\ First(k)' \subseteq First(k)
<1>1. up \in Seq(UpMsg) /\ inbox[k] \in Seq(UpMsg)
  BY IInvType DEF TypeOK
<1>2. ASSUME NEW w \in Seq(UpMsg), up' = up \o w, inbox'[k] = inbox[k]
      PROVE  Some(k)' /\ First(k)' \subseteq First(k)
  <2>1. CASE inbox[k] # <<>>  BY <1>2, <2>1 DEF Some, First
  <2>2. CASE inbox[k] = <<>>
    <3>1. ~NotIn(up, k)  BY <2>2 DEF Some, NotIn
    <3>2. \A i \in FirstIn(up \o w, k) : i \in FirstIn(up, k) /\ (up \o w)[i] = up[i]
      BY <1>1, <1>2, <3>1, FirstConcat
    <3>3. First(k) = {up[i].body : i \in FirstIn(up, k)}
          /\ First(k)' = {(up \o w)[i].body : i \in FirstIn(up \o w, k)}
      BY <1>2, <2>2 DEF First
    <3>4. First(k)' \subseteq First(k)  BY <3>2, <3>3
    <3>5. \E i \in 1 .. Len(up \o w) : (up \o w)[i].id = k
      <4>1. PICK i \in 1 .. Len(up) : up[i].id = k  BY <3>1 DEF NotIn
      <4>2. (up \o w)[i] = up[i] /\ i \in 1 .. Len(up \o w)  BY <1>1, <1>2, ConcatFacts
      <4> QED BY <4>1, <4>2
    <3> QED BY <1>2, <3>4, <3>5 DEF Some
  <2> QED BY <2>1, <2>2
<1>3. ASSUME up # <<>>, Head(up).id # k, up' = Tail(up), inbox'[k] = inbox[k]
      PROVE  Some(k)' /\ First(k)' \subseteq First(k)
  <2>1. CASE inbox[k] # <<>>  BY <1>3, <2>1 DEF Some, First
  <2>2. CASE inbox[k] = <<>>
    <3>1. ~NotIn(up, k)  BY <2>2 DEF Some, NotIn
    <3>2. /\ \A i \in FirstIn(Tail(up), k) : i + 1 \in FirstIn(up, k) /\ Tail(up)[i] = up[i + 1]
          /\ ~NotIn(Tail(up), k)
      BY <1>1, <1>3, <3>1, FirstTail
    <3>3. First(k) = {up[i].body : i \in FirstIn(up, k)}
          /\ First(k)' = {Tail(up)[i].body : i \in FirstIn(Tail(up), k)}
      BY <1>3, <2>2 DEF First
    <3> QED BY <1>3, <3>2, <3>3, ZenonT(30) DEF Some, NotIn
  <2> QED BY <2>1, <2>2
<1>4. ASSUME up # <<>>, Head(up).id = k, inbox'[k] = Append(inbox[k], Head(up))
      PROVE  Some(k)' /\ First(k)' \subseteq First(k)
  <2>0. Head(up) \in UpMsg  BY <1>1, <1>4, SeqFacts
  <2>1. inbox'[k] # <<>> /\ Head(inbox'[k]) = IF inbox[k] = <<>> THEN Head(up) ELSE Head(inbox[k])
    <3>1. /\ Len(inbox'[k]) = Len(inbox[k]) + 1 /\ inbox'[k] \in Seq(UpMsg) /\ Len(inbox[k]) \in Nat
          /\ inbox'[k][Len(inbox[k]) + 1] = Head(up)
          /\ \A i \in 1 .. Len(inbox[k]) : inbox'[k][i] = inbox[k][i]
      BY <1>1, <1>4, <2>0, AppendProperties
    <3>2. inbox'[k] # <<>> /\ Head(inbox'[k]) = inbox'[k][1]  BY <3>1
    <3>3. inbox[k] = <<>> => Len(inbox[k]) = 0  OBVIOUS
    <3>4. inbox[k] # <<>> => 1 \in 1 .. Len(inbox[k]) /\ Head(inbox[k]) = inbox[k][1]
      BY <1>1, HeadTailProperties
    <3> QED BY <3>1, <3>2, <3>3, <3>4
  <2>2. First(k)' = {Head(inbox'[k]).body}  BY <2>1 DEF First
  <2>3. inbox[k] = <<>> => Head(up).body \in First(k)
    <3>1. 1 \in FirstIn(up, k) /\ up[1] = Head(up)  BY <1>1, <1>4, FirstTail
    <3> QED BY <3>1 DEF First
  <2>4. inbox[k] # <<>> => Head(inbox[k]).body \in First(k)  BY DEF First
  <2> QED BY <2>1, <2>2, <2>3, <2>4 DEF Some
<1> QED BY <1>2, <1>3, <1>4, UpChange

\* With nothing of its id under way the first message of the handler is the answer.
LEMMA FirstAnswer ==
  ASSUME IInv, NEW k \in Ids, NotUp(k), NEW outs \in Seq(Outs), FwHandle(outs) \/ FwCrash(outs),
         Head(down).id = k, outs # <<>>, outs[1].kind = "reply"
  PROVE  Some(k)' /\ First(k)' \subseteq {outs[1].body}
<1>1. up \in Seq(UpMsg) /\ down \in Seq(DownMsg)  BY IInvType DEF TypeOK
<1>2. PICK id, n : id = IdAfter(Head(down)) /\ n = SerialAfter(Head(down))  OBVIOUS
<1>3. id = k /\ n \in Nat
  <2>1. k # 0  BY DEF Ids
  <2>2. Head(down) \in DownMsg  BY <1>1, SeqFacts DEF FwHandle, FwCrash
  <2>3. Head(down).serial \in Nat  BY <2>2 DEF DownMsg
  <2> QED BY <1>2, <2>1, <2>3 DEF IdAfter, SerialAfter
<1>4. PICK w : w = Sent(id, n, outs)  OBVIOUS
<1>5. w \in Seq(UpMsg)
  <2>0. 0 \in Id0s /\ id \in Id0s  BY <1>3, LinkAssumption DEF Id0s, Ids
  <2>1. \A b \in UpBodies : [kind |-> "async", id |-> 0, serial |-> 0, body |-> b] \in UpMsg
    BY <2>0 DEF UpMsg
  <2>2. \A b \in UpBodies : [kind |-> "reply", id |-> id, serial |-> n, body |-> b] \in UpMsg
    BY <1>3, <2>0 DEF UpMsg
  <2> QED BY <1>4, <2>1, <2>2, SentIn
<1>6. w # <<>> /\ Head(w).id = k /\ Head(w).body = outs[1].body
  <2>1. Len(outs) \in Nat /\ 1 \in 1 .. Len(outs)  OBVIOUS
  <2>2. w[1] = [kind |-> "reply", id |-> id, serial |-> n, body |-> outs[1].body] /\ Len(w) = Len(outs)
    BY <1>4, <2>1 DEF Sent
  <2>3. w # <<>> /\ Head(w) = w[1]  BY <1>5, <2>1, <2>2
  <2> QED BY <1>3, <2>2, <2>3
<1>7. up' = up \o w /\ inbox' = inbox
  BY <1>2, <1>4 DEF FwHandle, FwCrash, Restart, hostVars
<1>8. NotIn(up, k) /\ inbox[k] = <<>>  BY DEF NotUp, NotIn
<1>9. \A i \in FirstIn(up \o w, k) : (up \o w)[i] = Head(w)
  BY <1>1, <1>5, <1>6, <1>8, FirstConcat
<1>10. First(k)' \subseteq {outs[1].body}
  <2>1. First(k)' = {(up \o w)[i].body : i \in FirstIn(up \o w, k)}  BY <1>7, <1>8 DEF First
  <2> QED BY <1>6, <1>9, <2>1
<1>11. Some(k)'
  <2>1. /\ Len(up \o w) = Len(up) + Len(w) /\ Len(up) \in Nat /\ Len(w) \in Nat
        /\ \A j \in Len(up) + 1 .. Len(up \o w) : (up \o w)[j] = w[j - Len(up)]
    BY <1>1, <1>5, ConcatFacts
  <2>2. w[1] = Head(w) /\ 1 \in 1 .. Len(w)  BY <1>5, <1>6
  <2>3. Len(up) + 1 \in Len(up) + 1 .. Len(up \o w) /\ (Len(up) + 1) - Len(up) = 1  BY <2>1, <2>2
  <2>4. (up \o w)[Len(up) + 1].id = k  BY <1>6, <2>1, <2>2, <2>3
  <2>5. Len(up) + 1 \in 1 .. Len(up \o w)  BY <2>1, <2>3
  <2> QED BY <1>7, <2>4, <2>5 DEF Some
<1> QED BY <1>10, <1>11

\* What there is of answers with id k, whoever else is answered.
LEMMA FirstStep ==
  ASSUME IInv, UpPlain, LinkNext, session = "up", session' = "up", NEW k \in Ids,
         \A t \in Callers : Receive(t) => call[t].id # k,
         lastId = k => Some(k), FwCommand => Head(down).id # k
  PROVE  First(k)' \subseteq First(k) /\ (Some(k) => Some(k)') /\ (lastId' = k => Some(k)')
<1>1. CASE Some(k)  BY <1>1, FirstKeeps
<1>2. CASE ~Some(k)
  <2>1. NotUp(k)  BY <1>2 DEF Some, NotUp
  <2>2. NotUp(k)'  BY <2>1, NotUpStep
  <2>3. First(k)' = {}  BY <2>2 DEF NotUp, First, FirstIn
  <2> QED BY <1>2, <2>2, <2>3 DEF NotUp
<1> QED BY <1>1, <1>2
-----------------------------------------------------------------------------
(* What there is on the way down, and in which order *)

\* s has nothing of B; in s everything of B comes before anything of A.
Free(s, B)      == \A i \in 1 .. Len(s) : s[i] \notin B
Behind(s, A, B) == \A i, j \in 1 .. Len(s) : s[i] \in A /\ s[j] \in B => j < i

LEMMA ThinOrder ==
  ASSUME NEW S, NEW s \in Seq(S), NEW t \in Seq(S), Thinned(s, t), NEW A, NEW B
  PROVE  (Free(t, B) => Free(s, B)) /\ (Behind(t, A, B) => Behind(s, A, B))
<1>1. PICK f \in [1 .. Len(s) -> 1 .. Len(t)] :
        /\ \A i, j \in 1 .. Len(s) : i < j => f[i] < f[j]
        /\ \A i \in 1 .. Len(s) : s[i] = t[f[i]]
  BY DEF Thinned
<1>2. \A i \in 1 .. Len(s) : f[i] \in 1 .. Len(t) /\ f[i] \in Int  BY <1>1
<1>3. Free(t, B) => Free(s, B)  BY <1>1, <1>2 DEF Free
<1>4. Behind(t, A, B) => Behind(s, A, B)
  <2> SUFFICES ASSUME Behind(t, A, B), NEW i \in 1 .. Len(s), NEW j \in 1 .. Len(s), s[i] \in A, s[j] \in B
               PROVE  j < i
    BY DEF Behind
  <2>1. f[j] < f[i]
    <3>1. t[f[i]] \in A /\ t[f[j]] \in B  BY <1>1
    <3> QED BY <1>2, <3>1 DEF Behind
  <2>2. i # j  BY <1>2, <2>1
  <2>3. ~(i < j)
    <3>1. i < j => f[i] < f[j]  BY <1>1
    <3> QED BY <1>2, <2>1, <3>1
  <2> QED BY <2>2, <2>3
<1> QED BY <1>3, <1>4

LEMMA AppendOrder ==
  ASSUME NEW S, NEW s \in Seq(S), NEW m \in S, NEW A, NEW B, m \notin B
  PROVE  /\ Free(s, B) => Free(Append(s, m), B)
         /\ Behind(s, A, B) => Behind(Append(s, m), A, B)
<1>1. /\ Len(Append(s, m)) = Len(s) + 1 /\ Append(s, m)[Len(s) + 1] = m /\ Len(s) \in Nat
      /\ \A i \in 1 .. Len(s) : Append(s, m)[i] = s[i]
  BY AppendProperties
<1>2. \A i \in 1 .. Len(Append(s, m)) : i \in 1 .. Len(s) \/ i = Len(s) + 1  BY <1>1
<1>3. Free(s, B) => Free(Append(s, m), B)  BY <1>1, <1>2 DEF Free
<1>4. Behind(s, A, B) => Behind(Append(s, m), A, B)
  <2> SUFFICES ASSUME Behind(s, A, B), NEW i \in 1 .. Len(Append(s, m)), NEW j \in 1 .. Len(Append(s, m)),
                      Append(s, m)[i] \in A, Append(s, m)[j] \in B
               PROVE  j < i
    BY DEF Behind
  <2>1. j \in 1 .. Len(s)  BY <1>1, <1>2
  <2>2. CASE i \in 1 .. Len(s)
    <3>1. s[i] \in A /\ s[j] \in B  BY <1>1, <2>1, <2>2
    <3> QED BY <2>1, <2>2, <3>1 DEF Behind
  <2>3. CASE i = Len(s) + 1  BY <1>1, <2>1, <2>3
  <2> QED BY <1>2, <2>2, <2>3
<1> QED BY <1>3, <1>4

\* What comes last is behind everything.
LEMMA LastOrder ==
  ASSUME NEW S, NEW s \in Seq(S), NEW m \in S, NEW A, NEW B, m \notin B, Free(s, A)
  PROVE  Behind(Append(s, m), A, B)
<1>1. Behind(s, A, B)  BY DEF Free, Behind
<1> QED BY <1>1, AppendOrder

\* What is behind the first is behind nothing.
LEMMA HeadOrder ==
  ASSUME NEW S, NEW s \in Seq(S), s # <<>>, NEW A, NEW B
  PROVE  /\ Free(s, B) => Head(s) \notin B /\ Free(Tail(s), B)
         /\ Behind(s, A, B) /\ Head(s) \in A => Free(s, B)
<1>1. /\ Head(s) = s[1] /\ Len(Tail(s)) = Len(s) - 1 /\ Len(s) \in Nat /\ 1 \in 1 .. Len(s)
      /\ \A i \in 1 .. Len(s) - 1 : Tail(s)[i] = s[i + 1] /\ i + 1 \in 1 .. Len(s)
  BY HeadTailProperties
<1>2. Free(s, B) => Head(s) \notin B /\ Free(Tail(s), B)  BY <1>1 DEF Free
<1>3. ASSUME Behind(s, A, B), Head(s) \in A PROVE Free(s, B)
  <2> SUFFICES ASSUME NEW j \in 1 .. Len(s), s[j] \in B PROVE FALSE  BY DEF Free
  <2>1. j < 1  BY <1>1, <1>3 DEF Behind
  <2> QED BY <2>1
<1> QED BY <1>2, <1>3

\* The head of the wire is the head of what is on the way down.
LEMMA PathHead == ASSUME IInv, down # <<>> PROVE Path # <<>> /\ Head(Path) = Head(down)
<1>1. down \in Seq(DownMsg) /\ txQueue \in Seq(DownMsg) /\ Path \in Seq(DownMsg)  BY DownFacts, PathTyped
<1>2. 1 \in 1 .. Len(down) /\ Head(down) = down[1]  BY <1>1, HeadTailProperties
<1>3. Path[1] = down[1] /\ Len(Path) = Len(down) + Len(txQueue) /\ Len(txQueue) \in Nat /\ Len(down) \in Nat
  BY <1>1, <1>2, ConcatFacts DEF Path
<1>4. Path # <<>>  BY <1>1, <1>2, <1>3
<1> QED BY <1>1, <1>2, <1>3, <1>4, HeadTailProperties

\* A message put on the queue comes last.
LEMMA QueuedAdds ==
  ASSUME IInv, NEW m \in DownMsg, txQueue' = Append(txQueue, m), down' = down
  PROVE  Added(m)
<1>1. down \in Seq(DownMsg) /\ txQueue \in Seq(DownMsg) /\ Path \in Seq(DownMsg) /\ <<m>> \in Seq(DownMsg)
  BY DownFacts, PathTyped
<1>2. down \o (txQueue \o <<m>>) = (down \o txQueue) \o <<m>>  BY <1>1, ConcatAssociative
<1>3. txQueue' = txQueue \o <<m>> /\ Path \o <<m>> = Append(Path, m)
  <2>1. \A q \in Seq(DownMsg) : q \o <<m>> = Append(q, m)  OBVIOUS
  <2> QED BY <1>1, <2>1
<1> QED BY <1>2, <1>3 DEF Added, Path

\* The messages of callers.
LEMMA CmdTyped ==
  ASSUME IInv, NEW b \in Bodies
  PROVE  /\ Cmd(0, 0, b) \in DownMsg
         /\ \A t \in Callers : Cmd(call[t].id, call[t].serial, b) \in DownMsg
<1>1. \A t \in Callers : call[t].id \in Id0s /\ call[t].serial \in Nat
  BY DEF IInv, Scalars, Call
<1>2. epoch \in Nat /\ 0 \in Id0s  BY LinkAssumption DEF IInv, Scalars, Id0s
<1> QED BY <1>1, <1>2 DEF Cmd, DownMsg
=============================================================================
