--------------------------- MODULE ApiLocksProofs ---------------------------
(***************************************************************************)
(* What the locks of the driver guarantee for any number of threads,       *)
(* channels, calls and sessions: a channel in the table belongs to the     *)
(* session that is open, and no two threads open the device.               *)
(*                                                                         *)
(* A connect stores its channel after it has released M2, so neither lock  *)
(* alone protects it.  The invariant says how the two do it together:      *)
(* while a thread is in passthru_close, a connect that the device has      *)
(* accepted holds the lock of a channel the closing thread has not come to *)
(* (Connected), and the closing thread leaves only empty channels behind   *)
(* (Closing).                                                              *)
(***************************************************************************)
EXTENDS ApiLocks, TLAPS

Busy(t) == pc[t].op \notin {"none", "panicked"}

Named == \A t \in Callers : Busy(t) => pc[t].ch \in Chans

Closing ==
  \A t \in Callers : pc[t].at = "kill" =>
    /\ Busy(t) /\ m2.w = {t} /\ m2.r = {} /\ device
    /\ \A c \in Chans : c < pc[t].n => chan[c] = 0

Exchanging ==
  /\ \A t \in Callers : pc[t].at = "io" => t \in m2.r
  /\ m2.r # {} => device

Connecting ==
  \A t \in Callers : pc[t].op = "connect" /\ pc[t].at \in {"m2", "io", "ok", "leave"} =>
    lk[pc[t].ch].w = {t} /\ chan[pc[t].ch] = 0

Connected ==
  \A t \in Callers : At(t, "connect", "ok") =>
    /\ device /\ pc[t].n = epoch
    /\ \A u \in Callers : pc[u].at = "kill" => pc[u].n <= pc[t].ch

Opening ==
  /\ device => port = "open"
  /\ \A t, u \in Callers : At(t, "open", "store") /\ At(u, "open", "store") => t = u

LocksInv ==
  /\ LocksTypeOK /\ Named /\ Closing /\ Exchanging /\ Connecting /\ Connected
  /\ Opening /\ OneDevice /\ ChannelOfSession

-----------------------------------------------------------------------------
CallState == [op : AllOps \cup {"none", "panicked"}, ch : Nat, at : Places, n : Nat]

\* What the helpers do to the calls and the locks.
LEMMA CallMoves ==
  ASSUME pc \in [Callers -> CallState], NEW t \in Callers
  PROVE  /\ \A a \in Places : Goto(t, a) =>
              /\ pc' \in [Callers -> CallState] /\ \A u \in Callers \ {t} : pc'[u] = pc[u]
              /\ pc'[t] = [op |-> pc[t].op, ch |-> pc[t].ch, at |-> a, n |-> pc[t].n]
         /\ Return(t) =>
              /\ pc' \in [Callers -> CallState] /\ pc'[t] = Idle
              /\ \A u \in Callers \ {t} : pc'[u] = pc[u]
         /\ Panic(t) =>
              /\ pc' \in [Callers -> CallState] /\ pc'[t] = Dead
              /\ \A u \in Callers \ {t} : pc'[u] = pc[u]
<1>1. Idle \in CallState /\ Dead \in CallState BY DEF Idle, Dead, CallState, Places
<1>2. \A a : [pc[t] EXCEPT !.at = a] = [op |-> pc[t].op, ch |-> pc[t].ch, at |-> a, n |-> pc[t].n]
  BY DEF CallState
<1>3. \A a \in Places : [op |-> pc[t].op, ch |-> pc[t].ch, at |-> a, n |-> pc[t].n] \in CallState
  BY DEF CallState
<1>4. ASSUME NEW a \in Places, Goto(t, a)
      PROVE  /\ pc' \in [Callers -> CallState] /\ \A u \in Callers \ {t} : pc'[u] = pc[u]
             /\ pc'[t] = [op |-> pc[t].op, ch |-> pc[t].ch, at |-> a, n |-> pc[t].n]
  <2>1. pc' = [pc EXCEPT ![t] = [pc[t] EXCEPT !.at = a]] BY <1>4 DEF Goto
  <2> HIDE DEF CallState
  <2> QED BY <2>1, <1>2, <1>3
<1> HIDE DEF CallState, Idle, Dead
<1>5. ASSUME Return(t)
      PROVE  /\ pc' \in [Callers -> CallState] /\ pc'[t] = Idle
             /\ \A u \in Callers \ {t} : pc'[u] = pc[u]
  BY <1>1, <1>5 DEF Return
<1>6. ASSUME Panic(t)
      PROVE  /\ pc' \in [Callers -> CallState] /\ pc'[t] = Dead
             /\ \A u \in Callers \ {t} : pc'[u] = pc[u]
  BY <1>1, <1>6 DEF Panic
<1> QED BY <1>4, <1>5, <1>6

\* Locks stay locks.
LEMMA LockMoves ==
  ASSUME NEW l \in Lock
  PROVE  /\ \A R \in SUBSET Callers : Readers(l, R) \in Lock /\ Readers(l, R).r = R /\ Readers(l, R).w = l.w
         /\ \A W \in SUBSET Callers : Writers(l, W) \in Lock /\ Writers(l, W).w = W /\ Writers(l, W).r = l.r
         /\ Poisoned(l) \in Lock /\ Poisoned(l).w = {} /\ Poisoned(l).r = {}
BY DEF Lock, Readers, Writers, Poisoned

\* At the start nobody is inside a call, and every lock is free.
LEMMA LocksInitInv == LocksInit => LocksInv
<1> SUFFICES ASSUME LocksInit PROVE LocksInv OBVIOUS
<1> USE LocksAssumption DEF LocksInit
<1>1. Unlocked \in Lock BY DEF Unlocked, Lock
<1>2. Idle \in [op : AllOps \cup {"none", "panicked"}, ch : Nat, at : Places, n : Nat]
  BY DEF Idle, Places
<1>3. LocksTypeOK
  <2>1. lk \in [Chans -> Lock] /\ m2 \in Lock BY <1>1
  <2>2. chan \in [Chans -> Nat] OBVIOUS
  <2>3. rx \in [Chans -> 0 .. MaxQueue] OBVIOUS
  <2>4. pc \in [Callers -> [op : AllOps \cup {"none", "panicked"}, ch : Nat, at : Places, n : Nat]] BY <1>2
  <2>5. /\ device \in BOOLEAN /\ epoch \in Nat /\ port \in {"free", "open", "closing"} /\ calls \in Nat
        /\ app \in Apps
    OBVIOUS
  <2> QED BY <2>1, <2>2, <2>3, <2>4, <2>5 DEF LocksTypeOK
<1>4. Named /\ Closing /\ Exchanging /\ Connecting /\ Connected /\ Opening /\ OneDevice
  BY DEF Named, Closing, Exchanging, Connecting, Connected, Opening, OneDevice, Busy, At, Idle, Unlocked
<1>5. ChannelOfSession BY DEF ChannelOfSession
<1> QED BY <1>3, <1>4, <1>5 DEF LocksInv

\* Every step keeps the types.
LEMMA LocksTypeStep == LocksInv /\ [LocksNext]_lvars => LocksTypeOK'
<1> SUFFICES ASSUME LocksInv, [LocksNext]_lvars PROVE LocksTypeOK' OBVIOUS
<1> DEFINE PcOK == pc \in [Callers -> CallState]
<1>pc. PcOK BY DEF LocksInv, LocksTypeOK, CallState
<1>ty. (/\ device \in BOOLEAN /\ epoch \in Nat /\ port \in {"free", "open", "closing"}
        /\ chan \in [Chans -> Nat] /\ rx \in [Chans -> 0 .. MaxQueue]
        /\ m2 \in Lock /\ lk \in [Chans -> Lock] /\ PcOK /\ calls \in Nat)
  BY <1>pc DEF LocksInv, LocksTypeOK
<1>app. app \in Apps /\ app' = app BY DEF LocksInv, LocksTypeOK, LocksNext, Keeps, lvars
<1>q. ASSUME (/\ device \in BOOLEAN /\ epoch \in Nat /\ port \in {"free", "open", "closing"}
              /\ chan \in [Chans -> Nat] /\ rx \in [Chans -> 0 .. MaxQueue]
              /\ m2 \in Lock /\ lk \in [Chans -> Lock] /\ PcOK /\ calls \in Nat)'
      PROVE  LocksTypeOK'
  BY <1>q, <1>app DEF LocksTypeOK, CallState
<1>ch. \A t \in Callers : Busy(t) => pc[t].ch \in Chans BY DEF LocksInv, Named
<1>r. \A t \in Callers : /\ m2.r \cup {t} \in SUBSET Callers /\ m2.r \ {t} \in SUBSET Callers
                         /\ {t} \in SUBSET Callers /\ {} \in SUBSET Callers
                         /\ \A c \in Chans : /\ lk[c].r \cup {t} \in SUBSET Callers
                                             /\ lk[c].r \ {t} \in SUBSET Callers
                                             /\ lk[c].w \ {t} \in SUBSET Callers
  BY <1>ty DEF Lock
<1>a. {"begin", "port", "store", "kill", "m2", "io", "ok", "leave", "pop"} = Places BY DEF Places
<1>x. 0 \in 0 .. MaxQueue /\ \A n \in 0 .. MaxQueue : /\ n # 0 => n - 1 \in 0 .. MaxQueue
                                                      /\ n < MaxQueue => n + 1 \in 0 .. MaxQueue
  BY LocksAssumption
<1> USE DEF tables
<1> HIDE DEF PcOK
<1>m. ASSUME NEW t \in Callers
      PROVE  (Return(t) => PcOK') /\ (Panic(t) => PcOK') /\ (\A a \in Places : Goto(t, a) => PcOK')
  BY <1>pc, CallMoves DEF PcOK
<1>0. CASE UNCHANGED lvars BY <1>0, <1>ty, <1>q DEF lvars, PcOK
<1>1. ASSUME NEW t \in Callers, Start(t) PROVE LocksTypeOK'
  <2>1. \A o \in app, c \in Chans : [op |-> o, ch |-> c, at |-> "begin", n |-> 0] \in CallState
    BY <1>app, LocksAssumption DEF CallState, Places, Chans
  <2>2. PcOK' BY <1>1, <1>pc, <2>1 DEF Start, PcOK
  <2> QED BY <1>1, <1>q, <1>ty, <2>2 DEF Start
<1>2. ASSUME NEW t \in Callers, OpenCheck(t) PROVE LocksTypeOK'
  BY <1>2, <1>q, <1>ty, <1>m, <1>a DEF OpenCheck
<1>3. ASSUME NEW t \in Callers, OpenPort(t) PROVE LocksTypeOK'
  BY <1>3, <1>q, <1>ty, <1>m, <1>a DEF OpenPort
<1>4. ASSUME NEW t \in Callers, OpenStore(t) PROVE LocksTypeOK'
  <2>1. PcOK' BY <1>4, <1>m DEF OpenStore
  <2>2. device' \in BOOLEAN /\ epoch' \in Nat
    <3>1. CASE UNCHANGED <<device, epoch>> BY <3>1, <1>ty
    <3>2. CASE device' = TRUE /\ epoch' = epoch + 1 BY <3>2, <1>ty
    <3> QED BY <1>4, <3>1, <3>2 DEF OpenStore
  <2> QED BY <1>4, <1>q, <1>ty, <2>1, <2>2 DEF OpenStore
<1>5. ASSUME NEW t \in Callers, CloseBegin(t) PROVE LocksTypeOK'
  <2>1. PcOK'
    <3>1. CASE Return(t) BY <3>1, <1>m
    <3>2. CASE pc' = [pc EXCEPT ![t] = [pc[t] EXCEPT !.at = "kill", !.n = 0]]
      BY <3>2, <1>pc DEF PcOK, CallState, Places
    <3> QED BY <1>5, <3>1, <3>2 DEF CloseBegin
  <2>2. m2' \in Lock
    <3>1. Writers(m2, {t}) \in Lock BY <1>ty, <1>r, LockMoves
    <3> QED BY <1>5, <1>ty, <3>1 DEF CloseBegin
  <2> QED BY <1>5, <1>q, <1>ty, <2>1, <2>2 DEF CloseBegin
<1>6. ASSUME NEW t \in Callers, CloseKill(t) PROVE LocksTypeOK'
  <2>1. PcOK'
    <3>1. CASE Panic(t) BY <3>1, <1>m
    <3>2. CASE pc' = [pc EXCEPT ![t] = [pc[t] EXCEPT !.n = pc[t].n + 1]]
      BY <3>2, <1>pc DEF PcOK, CallState
    <3> QED BY <1>6, <3>1, <3>2 DEF CloseKill
  <2>2. m2' \in Lock BY <1>6, <1>ty, LockMoves DEF CloseKill
  <2>3. chan' \in [Chans -> Nat] /\ rx' \in [Chans -> 0 .. MaxQueue] BY <1>6, <1>ty, <1>x DEF CloseKill
  <2> QED BY <1>6, <1>q, <1>ty, <2>1, <2>2, <2>3 DEF CloseKill
<1>7. ASSUME NEW t \in Callers, CloseEnd(t) PROVE LocksTypeOK'
  <2>1. Writers(m2, {}) \in Lock BY <1>ty, <1>r, LockMoves
  <2>2. m2' \in Lock BY <1>7, <2>1 DEF CloseEnd
  <2> QED BY <1>7, <1>q, <1>ty, <1>m, <2>2 DEF CloseEnd
<1>8. ASSUME NEW t \in Callers, LockChannel(t) PROVE LocksTypeOK'
  <2>1. PcOK' BY <1>8, <1>m, <1>a DEF LockChannel
  <2>2. lk' \in [Chans -> Lock]
    <3>1. \A c \in Chans : /\ Readers(lk[c], lk[c].r \cup {t}) \in Lock /\ Writers(lk[c], {t}) \in Lock
      BY <1>ty, <1>r, LockMoves
    <3>2. CASE UNCHANGED lk BY <3>2, <1>ty
    <3>3. CASE lk' = [lk EXCEPT ![pc[t].ch] = IF pc[t].op = "write" THEN Readers(@, @.r \cup {t})
                                                                    ELSE Writers(@, {t})]
      BY <3>3, <3>1, <1>ty
    <3> QED BY <1>8, <3>2, <3>3 DEF LockChannel
  <2>3. chan' \in [Chans -> Nat] /\ rx' \in [Chans -> 0 .. MaxQueue] BY <1>8, <1>ty, <1>x DEF LockChannel
  <2> QED BY <1>8, <1>q, <1>ty, <2>1, <2>2, <2>3 DEF LockChannel
<1>9. ASSUME NEW t \in Callers, EnterM2(t) PROVE LocksTypeOK'
  <2>1. m2' \in Lock
    <3>1. Readers(m2, m2.r \cup {t}) \in Lock BY <1>ty, <1>r, LockMoves
    <3> QED BY <1>9, <1>ty, <3>1 DEF EnterM2
  <2> QED BY <1>9, <1>q, <1>ty, <1>m, <1>a, <2>1 DEF EnterM2
<1>10. ASSUME NEW t \in Callers, Exchange(t) PROVE LocksTypeOK'
  <2>1. Readers(m2, m2.r \ {t}) \in Lock BY <1>ty, <1>r, LockMoves
  <2>3. m2' \in Lock BY <1>10, <2>1 DEF Exchange
  <2>2. PcOK'
    <3>1. ASSUME NEW a \in {"ok", "m2"}, NEW n \in Nat,
                 pc' = [pc EXCEPT ![t] = [pc[t] EXCEPT !.at = a, !.n = n]]
          PROVE  PcOK'
      BY <3>1, <1>pc DEF PcOK, CallState, Places
    <3>2. pc[t].n \in Nat /\ pc[t].n + 1 \in Nat BY <1>pc DEF PcOK, CallState
    <3>3. CASE Goto(t, "leave") BY <3>3, <1>m, <1>a
    <3>4. CASE pc' = [pc EXCEPT ![t] = [pc[t] EXCEPT !.at = "ok", !.n = Result(t)]]
      <4>1. Result(t) \in Nat BY <3>2, <1>ty DEF Result
      <4> QED BY <3>4, <4>1, <3>1
    <3>5. CASE pc' = [pc EXCEPT ![t] = [pc[t] EXCEPT !.at = "m2", !.n = pc[t].n + 1]]
      BY <3>5, <3>1, <3>2
    <3> QED BY <1>10, <3>3, <3>4, <3>5 DEF Exchange
  <2> QED BY <1>10, <1>q, <1>ty, <2>3, <2>2 DEF Exchange
<1>11. ASSUME NEW t \in Callers, Leave(t) PROVE LocksTypeOK'
  <2>1. lk' \in [Chans -> Lock]
    <3>1. \A l \in Lock : Released(l, t) \in Lock BY DEF Lock, Released
    <3>2. CASE lk' = lk BY <3>2, <1>ty
    <3>3. CASE lk' = [lk EXCEPT ![pc[t].ch] = Released(@, t)]
      BY <3>3, <3>1, <1>ty
    <3> QED BY <1>11, <3>2, <3>3 DEF Leave
  <2>2. chan' \in [Chans -> Nat] /\ rx' \in [Chans -> 0 .. MaxQueue]
    BY <1>11, <1>ty, <1>x DEF Leave, PcOK, CallState
  <2> QED BY <1>11, <1>q, <1>ty, <1>m, <2>1, <2>2 DEF Leave
<1>12. ASSUME NEW t \in Callers, ReadCheck(t) PROVE LocksTypeOK'
  BY <1>12, <1>q, <1>ty, <1>m, <1>a DEF ReadCheck
<1>13. ASSUME NEW t \in Callers, ReadPop(t) PROVE LocksTypeOK'
  <2>1. lk' \in [Chans -> Lock] BY <1>13, <1>ty, LockMoves DEF ReadPop
  <2>2. rx' \in [Chans -> 0 .. MaxQueue] BY <1>13, <1>ty, <1>x DEF ReadPop
  <2> QED BY <1>13, <1>q, <1>ty, <1>m, <2>1, <2>2 DEF ReadPop
<1>14. ASSUME NEW t \in Callers, ClearRx(t) PROVE LocksTypeOK'
  <2>1. rx' \in [Chans -> 0 .. MaxQueue] BY <1>14, <1>ty, <1>x DEF ClearRx
  <2> QED BY <1>14, <1>q, <1>ty, <1>m, <2>1 DEF ClearRx
<1>15. ASSUME NEW t \in Callers, BadFilterId(t) PROVE LocksTypeOK'
  <2>1. lk' \in [Chans -> Lock] BY <1>15, <1>ty, LockMoves DEF BadFilterId
  <2> QED BY <1>15, <1>q, <1>ty, <1>m, <2>1 DEF BadFilterId
<1>16. CASE PortFreed BY <1>16, <1>q, <1>ty DEF PortFreed, PcOK
<1>17. ASSUME NEW c \in Chans, Push(c) PROVE LocksTypeOK'
  <2>1. rx' \in [Chans -> 0 .. MaxQueue] BY <1>17, <1>ty, <1>x DEF Push
  <2> QED BY <1>17, <1>q, <1>ty, <2>1 DEF Push, PcOK
<1> QED BY <1>0, <1>1, <1>2, <1>3, <1>4, <1>5, <1>6, <1>7, <1>8, <1>9, <1>10, <1>11, <1>12, <1>13,
          <1>14, <1>15, <1>16, <1>17 DEF LocksNext, Step, Keeps
-----------------------------------------------------------------------------
\* A call in this state holds none of what the invariant speaks of.
Calm(p) ==
  /\ p.at \notin {"kill", "io"} /\ (p.op = "connect" => p.at = "begin")
  /\ ~(p.op = "open" /\ p.at = "store")
  /\ p.op \notin {"none", "panicked"} => p.ch \in Chans

\* The step is none of those that take a lock for long, store a channel or a device,
\* or close: calls stay, become calm, or fail on their way out.
Quiet ==
  /\ UNCHANGED <<device, epoch>> /\ (port = "open" => port' = "open")
  /\ \A c \in Chans : chan'[c] \in {chan[c], 0}
  /\ m2'.w = m2.w /\ m2'.r \subseteq m2.r
  /\ \A u \in m2.r \ m2'.r : pc'[u].at # "io"
  /\ \A u \in Callers :
       \/ Calm(pc'[u])
       \/ /\ \/ pc'[u] = pc[u]
             \/ /\ pc[u].at \in {"m2", "io"} /\ pc'[u].at \in {"m2", "leave"}
                /\ pc'[u].op = pc[u].op /\ pc'[u].ch = pc[u].ch
          /\ \A c \in Chans : lk[c].w = {u} => lk'[c].w = {u}

\* A quiet step keeps the invariant.
LEMMA QuietStep == LocksInv /\ LocksTypeOK' /\ Quiet => LocksInv'
<1> SUFFICES ASSUME LocksInv, LocksTypeOK', Quiet PROVE LocksInv' OBVIOUS
<1>1. Named' BY DEF LocksInv, Named, Busy, Quiet, Calm
<1>2. Closing'
  <2> SUFFICES ASSUME NEW t \in Callers, pc'[t].at = "kill"
               PROVE  /\ Busy(t)' /\ m2'.w = {t} /\ m2'.r = {} /\ device'
                      /\ \A c \in Chans : c < pc'[t].n => chan'[c] = 0
    BY DEF Closing
  <2>1. pc'[t] = pc[t] BY DEF Quiet, Calm
  <2>2. /\ Busy(t) /\ m2.w = {t} /\ m2.r = {} /\ device
        /\ \A c \in Chans : c < pc[t].n => chan[c] = 0
    BY <2>1 DEF LocksInv, Closing
  <2> QED BY <2>1, <2>2 DEF Quiet, Busy
<1>3. Exchanging' BY DEF LocksInv, Exchanging, Quiet, Calm
<1>4. Connecting'
  <2> SUFFICES ASSUME NEW t \in Callers, pc'[t].op = "connect", pc'[t].at \in {"m2", "io", "ok", "leave"}
               PROVE  lk'[pc'[t].ch].w = {t} /\ chan'[pc'[t].ch] = 0
    BY DEF Connecting
  <2>1. /\ pc[t].op = "connect" /\ pc[t].at \in {"m2", "io", "ok", "leave"} /\ pc'[t].ch = pc[t].ch
        /\ \A c \in Chans : lk[c].w = {t} => lk'[c].w = {t}
    BY DEF Quiet, Calm
  <2>2. lk[pc[t].ch].w = {t} /\ chan[pc[t].ch] = 0 /\ pc[t].ch \in Chans
    BY <2>1 DEF LocksInv, Connecting, Named, Busy
  <2> QED BY <2>1, <2>2 DEF Quiet
<1>5. Connected'
  <2> SUFFICES ASSUME NEW t \in Callers, At(t, "connect", "ok")'
               PROVE  /\ device' /\ pc'[t].n = epoch'
                      /\ \A u \in Callers : pc'[u].at = "kill" => pc'[u].n <= pc'[t].ch
    BY DEF Connected
  <2>1. pc'[t] = pc[t] BY DEF Quiet, Calm, At
  <2>2. /\ device /\ pc[t].n = epoch
        /\ \A u \in Callers : pc[u].at = "kill" => pc[u].n <= pc[t].ch
    BY <2>1 DEF LocksInv, Connected, At
  <2>3. \A u \in Callers : pc'[u].at = "kill" => pc'[u] = pc[u] BY DEF Quiet, Calm
  <2> QED BY <2>1, <2>2, <2>3 DEF Quiet
<1>6. \A u \in Callers : At(u, "open", "store")' => At(u, "open", "store") BY DEF Quiet, Calm, At
<1>7. Opening' /\ OneDevice' BY <1>6 DEF LocksInv, Opening, OneDevice, Quiet
<1>8. ChannelOfSession' BY DEF LocksInv, ChannelOfSession, Quiet
<1> QED BY <1>1, <1>2, <1>3, <1>4, <1>5, <1>7, <1>8 DEF LocksInv

\* The quiet steps of one thread.
LEMMA OneMoves ==
  ASSUME NEW t \in Callers, UNCHANGED <<device, epoch, m2>>, port = "open" => port' = "open",
         \A c \in Chans : chan'[c] \in {chan[c], 0},
         \A u \in Callers \ {t} : pc'[u] = pc[u], Calm(pc'[t]),
         \A c \in Chans : lk[c].w = {} \/ lk'[c].w \in {lk[c].w, lk[c].w \ {t}}
  PROVE  Quiet
<1>1. \A u \in Callers \ {t}, c \in Chans : lk[c].w = {u} => lk'[c].w = {u} OBVIOUS
<1> QED BY <1>1 DEF Quiet

\* The types the invariant implies, by the names the proofs use.
LEMMA LocksTyped ==
  LocksInv => /\ pc \in [Callers -> CallState] /\ m2 \in Lock /\ lk \in [Chans -> Lock]
              /\ chan \in [Chans -> Nat] /\ epoch \in Nat /\ device \in BOOLEAN
BY DEF LocksInv, LocksTypeOK, CallState

\* A thread that goes to a step stays in its call.
LEMMA GotoMoves ==
  ASSUME LocksInv, NEW t \in Callers, NEW a \in Places, Goto(t, a)
  PROVE  /\ \A u \in Callers \ {t} : pc'[u] = pc[u]
         /\ pc'[t].op = pc[t].op /\ pc'[t].ch = pc[t].ch /\ pc'[t].at = a /\ pc'[t].n = pc[t].n
<1>1. /\ \A u \in Callers \ {t} : pc'[u] = pc[u]
      /\ pc'[t] = [op |-> pc[t].op, ch |-> pc[t].ch, at |-> a, n |-> pc[t].n]
  BY LocksTyped, CallMoves
<1> QED BY <1>1

\* A thread that returned or panicked is calm.
LEMMA CalmEnds == Calm(Idle) /\ Calm(Dead)
BY DEF Calm, Idle, Dead

\* Calls of one thread that end, or go on to a step which holds nothing.
LEMMA QuietCalls ==
  ASSUME LocksInv, NEW t \in Callers,
         \/ Start(t) \/ OpenCheck(t) \/ ReadCheck(t) \/ ReadPop(t) \/ ClearRx(t) \/ BadFilterId(t)
  PROVE  Quiet
<1> USE LocksTyped, CallMoves, CalmEnds
<1>0. UNCHANGED <<device, epoch, port, chan, m2>>
  BY DEF Start, OpenCheck, ReadCheck, ReadPop, ClearRx, BadFilterId, tables
<1>1. (\A u \in Callers \ {t} : pc'[u] = pc[u]) /\ Calm(pc'[t])
  <2>1. CASE Start(t)
    <3>1. PICK o \in app, c \in Chans : pc' = [pc EXCEPT ![t] = [op |-> o, ch |-> c, at |-> "begin", n |-> 0]]
      BY <2>1 DEF Start
    <3> QED BY <3>1 DEF Calm
  <2>2. CASE OpenCheck(t)
    <3>1. CASE Goto(t, "port")
      <4>1. pc[t].op = "open" /\ pc[t].ch \in Chans BY <2>2 DEF OpenCheck, At, LocksInv, Named, Busy
      <4>2. /\ \A u \in Callers \ {t} : pc'[u] = pc[u]
            /\ pc'[t].op = "open" /\ pc'[t].ch \in Chans /\ pc'[t].at = "port"
        BY <3>1, <4>1, GotoMoves DEF Places
      <4> QED BY <4>2 DEF Calm
    <3> QED BY <2>2, <3>1 DEF OpenCheck
  <2>3. CASE ReadCheck(t)
    <3>1. CASE Goto(t, "pop")
      <4>1. pc[t].op = "read" /\ pc[t].ch \in Chans BY <2>3 DEF ReadCheck, At, LocksInv, Named, Busy
      <4>2. /\ \A u \in Callers \ {t} : pc'[u] = pc[u]
            /\ pc'[t].op = "read" /\ pc'[t].ch \in Chans /\ pc'[t].at = "pop"
        BY <3>1, <4>1, GotoMoves DEF Places
      <4> QED BY <4>2 DEF Calm
    <3> QED BY <2>3, <3>1 DEF ReadCheck
  <2>4. CASE ReadPop(t) BY <2>4 DEF ReadPop
  <2>5. CASE ClearRx(t) BY <2>5 DEF ClearRx
  <2>6. CASE BadFilterId(t) BY <2>6 DEF BadFilterId
  <2> QED BY <2>1, <2>2, <2>3, <2>4, <2>5, <2>6
<1>2. \A c \in Chans : lk[c].w = {} \/ lk'[c].w = lk[c].w
  <2>1. CASE UNCHANGED lk BY <2>1
  <2>2. CASE CanWrite(lk[pc[t].ch]) /\ lk' = [lk EXCEPT ![pc[t].ch] = Poisoned(@)]
    BY <2>2 DEF CanWrite
  <2> QED BY <2>1, <2>2 DEF Start, OpenCheck, ReadCheck, ReadPop, ClearRx, BadFilterId
<1> QED BY <1>0, <1>1, <1>2, OneMoves

\* Steps of opening and closing that come to nothing.
LEMMA QuietOpenClose ==
  ASSUME LocksInv, NEW t \in Callers, Return(t), UNCHANGED <<device, epoch, port, chan, m2, lk>>
  PROVE  Quiet
<1>1. (\A u \in Callers \ {t} : pc'[u] = pc[u]) /\ Calm(pc'[t]) BY LocksTyped, CallMoves, CalmEnds
<1> QED BY <1>1, OneMoves

\* A channel operation that does not take the lock to connect.
LEMMA QuietLockChannel ==
  ASSUME LocksInv, NEW t \in Callers, LockChannel(t), pc'[t].at # "m2" \/ pc[t].op # "connect"
  PROVE  Quiet
<1> DEFINE c == pc[t].ch
<1>1. /\ pc[t].op \in DeviceOps /\ c \in Chans /\ UNCHANGED <<device, epoch, port, m2>>
  BY DEF LockChannel, LocksInv, Named, Busy, DeviceOps
<1>2. \A d \in Chans : chan'[d] \in {chan[d], 0}
  BY <1>1, LocksTyped DEF LockChannel
<1>3. \A d \in Chans : lk[d].w = {} \/ lk'[d].w = lk[d].w
  BY <1>1, LocksTyped DEF LockChannel, CanRead, CanWrite
<1>4. (\A u \in Callers \ {t} : pc'[u] = pc[u]) /\ Calm(pc'[t])
  <2>1. CASE Return(t) \/ Panic(t) BY <2>1, LocksTyped, CallMoves, CalmEnds
  <2>2. CASE Goto(t, "m2")
    <3>1. /\ \A u \in Callers \ {t} : pc'[u] = pc[u]
          /\ pc'[t].op = pc[t].op /\ pc'[t].ch = c /\ pc'[t].at = "m2"
      BY <2>2, GotoMoves DEF Places
    <3> QED BY <3>1, <1>1 DEF Calm
  <2> QED BY <2>1, <2>2 DEF LockChannel
<1> QED BY <1>1, <1>2, <1>3, <1>4, OneMoves

\* A thread that reaches M2 and finds no device.
LEMMA QuietEnterM2 ==
  ASSUME LocksInv, NEW t \in Callers, EnterM2(t), UNCHANGED m2, Goto(t, "leave")
  PROVE  Quiet
<1>1. UNCHANGED <<device, epoch, port, chan, lk>> BY DEF EnterM2, tables
<1>2. /\ \A u \in Callers \ {t} : pc'[u] = pc[u]
      /\ pc'[t].op = pc[t].op /\ pc'[t].ch = pc[t].ch /\ pc'[t].at = "leave"
  BY GotoMoves DEF Places
<1>3. CASE pc[t].at = "m2" BY <1>1, <1>2, <1>3 DEF Quiet
<1>4. CASE At(t, "query", "begin")
  <2>1. pc[t].op = "query" /\ pc[t].ch \in Chans BY <1>4 DEF At, LocksInv, Named, Busy
  <2>2. Calm(pc'[t]) BY <1>2, <2>1 DEF Calm
  <2> QED BY <1>1, <1>2, <2>2 DEF Quiet
<1> QED BY <1>3, <1>4 DEF EnterM2

\* An exchange that does not accept a connect.
LEMMA QuietExchange ==
  ASSUME LocksInv, NEW t \in Callers, Exchange(t), pc'[t].at # "ok" \/ pc[t].op # "connect"
  PROVE  Quiet
<1>1. /\ UNCHANGED <<device, epoch, port, chan, lk>> /\ pc[t].at = "io"
      /\ m2' = Readers(m2, m2.r \ {t})
  BY DEF Exchange, tables
<1>2. m2'.w = m2.w /\ m2'.r = m2.r \ {t}
  BY <1>1, LocksTyped DEF Lock, Readers
<1>3. /\ \A u \in Callers \ {t} : pc'[u] = pc[u]
      /\ pc'[t].op = pc[t].op /\ pc'[t].ch = pc[t].ch
      /\ \/ pc'[t].at \in {"m2", "leave"}
         \/ pc'[t].at = "ok" /\ pc[t].op # "connect"
  <2>1. CASE Goto(t, "leave") BY <2>1, GotoMoves DEF Places
  <2>2. ASSUME NEW a \in {"ok", "m2"}, NEW n, pc' = [pc EXCEPT ![t] = [pc[t] EXCEPT !.at = a, !.n = n]]
        PROVE  /\ \A u \in Callers \ {t} : pc'[u] = pc[u]
               /\ pc'[t].op = pc[t].op /\ pc'[t].ch = pc[t].ch /\ pc'[t].at = a
    BY <2>2, LocksTyped DEF CallState
  <2> QED BY <2>1, <2>2 DEF Exchange
<1>4. CASE pc'[t].at \in {"m2", "leave"} BY <1>1, <1>2, <1>3, <1>4 DEF Quiet
<1>5. CASE pc'[t].at = "ok" /\ pc[t].op # "connect"
  <2>2. pc[t].op \notin {"none", "panicked"} => pc[t].ch \in Chans BY DEF LocksInv, Named, Busy
  <2>3. Calm(pc'[t]) BY <1>3, <1>5, <2>2 DEF Calm
  <2> QED BY <1>1, <1>2, <1>3, <2>3 DEF Quiet
<1> QED BY <1>3, <1>4, <1>5

\* A call that leaves and stores no channel.
LEMMA QuietLeave ==
  ASSUME LocksInv, NEW t \in Callers, Leave(t), ~At(t, "connect", "ok")
  PROVE  Quiet
<1>1. UNCHANGED <<device, epoch, port, chan, m2>> BY DEF Leave, At
<1>2. (\A u \in Callers \ {t} : pc'[u] = pc[u]) /\ Calm(pc'[t])
  BY LocksTyped, CallMoves, CalmEnds DEF Leave
<1>3. \A c \in Chans : lk'[c].w \in {lk[c].w, lk[c].w \ {t}}
  BY LocksTyped DEF Leave, Released, Lock
<1> QED BY <1>1, <1>2, <1>3, OneMoves
-----------------------------------------------------------------------------
(* The steps that are not quiet.  Each lemma shows the parts of the invariant *)
(* the step can disturb; the types are LocksTypeStep's.                       *)

\* The port is opened: it was free, so there is no device and no other opener.
LEMMA OpenPortStep ==
  ASSUME LocksInv, LocksTypeOK', NEW t \in Callers, At(t, "open", "port"),
         port = "free", port' = "open", Goto(t, "store"),
         UNCHANGED <<device, epoch, chan, m2, lk>>
  PROVE  LocksInv'
<1>1. /\ \A u \in Callers \ {t} : pc'[u] = pc[u]
      /\ pc'[t].op = "open" /\ pc'[t].ch = pc[t].ch /\ pc'[t].at = "store"
  BY GotoMoves DEF Places, At
<1>2. device = FALSE /\ \A u \in Callers : ~At(u, "open", "store")
  BY LocksTyped DEF LocksInv, Opening, OneDevice
<1>3. Opening' /\ OneDevice' BY <1>1, <1>2 DEF Opening, OneDevice, At
<1>4. pc[t].ch \in Chans BY DEF LocksInv, Named, Busy, At
<1>5. Named' BY <1>1, <1>4 DEF LocksInv, Named, Busy
<1>6. Closing' BY <1>1 DEF LocksInv, Closing, Busy
<1>7. Exchanging' BY <1>1 DEF LocksInv, Exchanging
<1>8. Connecting' BY <1>1 DEF LocksInv, Connecting
<1>9. Connected' BY <1>1 DEF LocksInv, Connected, At
<1>10. ChannelOfSession' BY DEF LocksInv, ChannelOfSession
<1> QED BY <1>3, <1>5, <1>6, <1>7, <1>8, <1>9, <1>10 DEF LocksInv

\* The device is stored: there was none, so no channel is in the table, no connect
\* is accepted, and nobody is closing.
LEMMA OpenStoreStep ==
  ASSUME LocksInv, LocksTypeOK', NEW t \in Callers, At(t, "open", "store"),
         device' = TRUE, epoch' = epoch + 1, Return(t), UNCHANGED <<port, chan, m2, lk>>
  PROVE  LocksInv'
<1>1. /\ \A u \in Callers \ {t} : pc'[u] = pc[u]
      /\ pc'[t].op = "none" /\ pc'[t].at = "begin"
  BY LocksTyped, CallMoves DEF Idle
<1>2. /\ ~device /\ port = "open"
      /\ \A u \in Callers \ {t} : ~At(u, "open", "store")
  BY DEF LocksInv, Opening, OneDevice
<1>3. \A c \in Chans : chan[c] = 0 BY <1>2 DEF LocksInv, ChannelOfSession
<1>4. \A u \in Callers : pc[u].at # "kill" /\ ~At(u, "connect", "ok") /\ m2.r = {}
  BY <1>2 DEF LocksInv, Closing, Connected, Exchanging
<1>5. Opening' /\ OneDevice' BY <1>1, <1>2 DEF Opening, OneDevice, At
<1>6. Named' BY <1>1 DEF LocksInv, Named, Busy
<1>7. Closing' BY <1>1, <1>4 DEF Closing
<1>8. Exchanging' BY <1>1, <1>4 DEF LocksInv, Exchanging
<1>9. Connecting' BY <1>1 DEF LocksInv, Connecting
<1>10. Connected' BY <1>1, <1>4 DEF Connected, At
<1>11. ChannelOfSession' BY <1>3 DEF ChannelOfSession
<1> QED BY <1>5, <1>6, <1>7, <1>8, <1>9, <1>10, <1>11 DEF LocksInv

\* A close takes M2: nobody else closes, and nobody is in an exchange.
LEMMA CloseBeginStep ==
  ASSUME LocksInv, LocksTypeOK', NEW t \in Callers, At(t, "close", "begin"), CanWrite(m2), device,
         m2' = Writers(m2, {t}), pc' = [pc EXCEPT ![t] = [pc[t] EXCEPT !.at = "kill", !.n = 0]],
         UNCHANGED <<device, epoch, port, chan, lk>>
  PROVE  LocksInv'
<1>1. /\ \A u \in Callers \ {t} : pc'[u] = pc[u]
      /\ pc'[t].op = "close" /\ pc'[t].ch = pc[t].ch /\ pc'[t].at = "kill" /\ pc'[t].n = 0
  BY LocksTyped DEF CallState, At
<1>2. m2.r = {} /\ m2'.r = {} /\ m2'.w = {t}
  BY LocksTyped DEF CanWrite, Lock, Writers
<1>3. \A u \in Callers : pc[u].at # "kill" BY DEF LocksInv, Closing, CanWrite
<1>4. pc[t].ch \in Chans BY DEF LocksInv, Named, Busy, At
<1>5. Named' BY <1>1, <1>4 DEF LocksInv, Named, Busy
<1>6. Closing'
  <2>1. \A u \in Callers : pc'[u].at = "kill" => u = t BY <1>1, <1>3
  <2>2. \A c \in Chans : ~(c < 0) BY LocksAssumption DEF Chans
  <2> QED BY <1>1, <1>2, <2>1, <2>2 DEF Closing, Busy
<1>7. Exchanging' BY <1>1, <1>2 DEF LocksInv, Exchanging
<1>8. Connecting' BY <1>1 DEF LocksInv, Connecting
<1>9. Connected'
  <2> SUFFICES ASSUME NEW u \in Callers, At(u, "connect", "ok")'
               PROVE  /\ device /\ pc'[u].n = epoch
                      /\ \A v \in Callers : pc'[v].at = "kill" => pc'[v].n <= pc'[u].ch
    BY DEF Connected
  <2>1. u # t /\ pc'[u] = pc[u] /\ At(u, "connect", "ok") BY <1>1 DEF At
  <2>2. pc[u].ch \in Chans BY <2>1 DEF LocksInv, Named, Busy, At
  <2>3. \A v \in Callers : pc'[v].at = "kill" => pc'[v].n = 0 BY <1>1, <1>3
  <2> QED BY <2>1, <2>2, <2>3 DEF LocksInv, Connected, Chans
<1>10. Opening' /\ OneDevice' BY <1>1 DEF LocksInv, Opening, OneDevice, At
<1>11. ChannelOfSession' BY DEF LocksInv, ChannelOfSession
<1> QED BY <1>5, <1>6, <1>7, <1>8, <1>9, <1>10, <1>11 DEF LocksInv

\* A close empties the next channel, whose lock is free, so that no connect holds it.
LEMMA CloseKillStep ==
  ASSUME LocksInv, LocksTypeOK', NEW t \in Callers, CloseKill(t)
  PROVE  LocksInv'
<1> DEFINE k == pc[t].n
<1>1. /\ pc[t].op = "close" /\ pc[t].at = "kill" /\ k \in Chans /\ CanWrite(lk[k])
      /\ UNCHANGED <<device, epoch, port, lk>>
  BY LocksTyped, LocksAssumption DEF CloseKill, At, Chans, CallState
<1>2. /\ m2.w = {t} /\ m2.r = {} /\ device /\ \A c \in Chans : c < k => chan[c] = 0
      /\ pc[t].ch \in Chans
  BY <1>1 DEF LocksInv, Closing, Named, Busy
<1>3. \A u \in Callers \ {t} : pc[u].at # "kill" /\ pc[u].at # "io"
  BY <1>2 DEF LocksInv, Closing, Exchanging
<1>4. CASE Panic(t) /\ m2' = Poisoned(m2) /\ UNCHANGED <<chan, rx>>
  <2>1. (\A u \in Callers \ {t} : pc'[u] = pc[u]) /\ Calm(pc'[t])
    BY <1>4, LocksTyped, CallMoves, CalmEnds
  <2>2. m2'.r = {} BY <1>4 DEF Poisoned
  <2>3. pc'[t].op = "panicked" BY <1>4, LocksTyped, CallMoves DEF Dead
  <2>4. Named' BY <2>1 DEF LocksInv, Named, Busy, Calm
  <2>5. Closing' BY <2>1, <1>3 DEF Closing, Calm
  <2>6. Exchanging' BY <2>1, <2>2, <1>3 DEF Exchanging, Calm
  <2>7. Connecting' BY <2>1, <2>3, <1>1, <1>4 DEF LocksInv, Connecting
  <2>8. Connected' BY <2>1, <2>3, <1>1, <1>3 DEF LocksInv, Connected, At, Calm
  <2>9. Opening' /\ OneDevice' BY <2>1, <2>3, <1>1 DEF LocksInv, Opening, OneDevice, At
  <2>10. ChannelOfSession' BY <1>1, <1>4 DEF LocksInv, ChannelOfSession
  <2> QED BY <2>4, <2>5, <2>6, <2>7, <2>8, <2>9, <2>10 DEF LocksInv
<1>5. CASE /\ chan' = [chan EXCEPT ![k] = 0] /\ pc' = [pc EXCEPT ![t] = [pc[t] EXCEPT !.n = k + 1]]
           /\ UNCHANGED m2
  <2>1. /\ \A u \in Callers \ {t} : pc'[u] = pc[u]
        /\ pc'[t].op = "close" /\ pc'[t].ch = pc[t].ch /\ pc'[t].at = "kill" /\ pc'[t].n = k + 1
    BY <1>1, <1>5, LocksTyped DEF CallState
  <2>2. \A c \in Chans : chan'[c] = IF c = k THEN 0 ELSE chan[c] BY <1>1, <1>5, LocksTyped
  <2>3. \A c \in Chans : c < k + 1 => c < k \/ c = k BY <1>1, LocksAssumption DEF Chans
  <2>4. Named' BY <2>1, <1>2 DEF LocksInv, Named, Busy
  <2>5. Closing'
    <3>1. \A u \in Callers : pc'[u].at = "kill" => u = t BY <2>1, <1>3
    <3>2. \A c \in Chans : c < pc'[t].n => chan'[c] = 0 BY <2>1, <2>2, <2>3, <1>2
    <3> QED BY <3>1, <3>2, <2>1, <1>1, <1>2, <1>5 DEF Closing, Busy
  <2>6. Exchanging' BY <2>1, <1>1, <1>5 DEF LocksInv, Exchanging
  <2>7. Connecting'
    <3> SUFFICES ASSUME NEW u \in Callers, pc'[u].op = "connect", pc'[u].at \in {"m2", "io", "ok", "leave"}
                 PROVE  lk'[pc'[u].ch].w = {u} /\ chan'[pc'[u].ch] = 0
      BY DEF Connecting
    <3>1. pc'[u] = pc[u] BY <2>1
    <3>2. lk[pc[u].ch].w = {u} /\ chan[pc[u].ch] = 0 /\ pc[u].ch \in Chans
      BY <3>1 DEF LocksInv, Connecting, Named, Busy
    <3> QED BY <3>1, <3>2, <2>2, <1>1
  <2>8. Connected'
    <3> SUFFICES ASSUME NEW u \in Callers, At(u, "connect", "ok")'
                 PROVE  /\ device' /\ pc'[u].n = epoch'
                        /\ \A v \in Callers : pc'[v].at = "kill" => pc'[v].n <= pc'[u].ch
      BY DEF Connected
    <3>1. pc'[u] = pc[u] /\ At(u, "connect", "ok") BY <2>1 DEF At
    <3>2. lk[pc[u].ch].w = {u} /\ pc[u].ch \in Chans
      BY <3>1 DEF LocksInv, Connecting, Named, Busy, At
    <3>3. pc[u].n = epoch /\ k <= pc[u].ch BY <3>1, <1>1 DEF LocksInv, Connected
    <3>4. pc[u].ch # k BY <3>2, <1>1 DEF CanWrite
    <3>5. k + 1 <= pc[u].ch BY <3>2, <3>3, <3>4, <1>1, LocksAssumption DEF Chans
    <3>6. \A v \in Callers : pc'[v].at = "kill" => v = t BY <2>1, <1>3
    <3> QED BY <3>1, <3>3, <3>5, <3>6, <2>1, <1>1, <1>2
  <2>9. Opening' /\ OneDevice' BY <2>1, <1>1 DEF LocksInv, Opening, OneDevice, At
  <2>10. ChannelOfSession' BY <2>2, <1>1 DEF LocksInv, ChannelOfSession
  <2> QED BY <2>4, <2>5, <2>6, <2>7, <2>8, <2>9, <2>10 DEF LocksInv
<1> QED BY <1>4, <1>5 DEF CloseKill

\* A close ends: every channel is empty, so no connect is accepted any more.
LEMMA CloseEndStep ==
  ASSUME LocksInv, LocksTypeOK', NEW t \in Callers, CloseEnd(t)
  PROVE  LocksInv'
<1>1. /\ pc[t].at = "kill" /\ pc[t].n = NumChans /\ device' = FALSE /\ m2' = Writers(m2, {})
      /\ UNCHANGED <<epoch, chan, lk>>
  BY DEF CloseEnd, At
<1>2. /\ \A u \in Callers \ {t} : pc'[u] = pc[u]
      /\ pc'[t].op = "none" /\ pc'[t].at = "begin"
  BY LocksTyped, CallMoves DEF CloseEnd, Idle
<1>3. /\ m2.w = {t} /\ m2.r = {} /\ device
      /\ \A c \in Chans : c < pc[t].n => chan[c] = 0
  BY <1>1 DEF LocksInv, Closing
<1>4. \A c \in Chans : chan[c] = 0
  <2>1. \A c \in Chans : c < NumChans BY LocksAssumption DEF Chans
  <2> QED BY <2>1, <1>1, <1>3
<1>5. m2'.r = {} BY <1>1, <1>3, LocksTyped DEF Lock, Writers
<1>6. \A u \in Callers \ {t} : pc[u].at # "kill" /\ pc[u].at # "io"
  BY <1>3 DEF LocksInv, Closing, Exchanging
<1>7. \A u \in Callers : ~At(u, "connect", "ok")
  <2> SUFFICES ASSUME NEW u \in Callers, At(u, "connect", "ok") PROVE FALSE OBVIOUS
  <2>1. pc[u].ch \in Chans /\ NumChans <= pc[u].ch
    BY <1>1 DEF LocksInv, Connected, Named, Busy, At
  <2> QED BY <2>1, LocksAssumption DEF Chans
<1>8. Named' BY <1>2 DEF LocksInv, Named, Busy
<1>9. Closing' BY <1>2, <1>6 DEF Closing
<1>10. Exchanging' BY <1>2, <1>5, <1>6 DEF Exchanging
<1>11. Connecting' BY <1>1, <1>2 DEF LocksInv, Connecting
<1>12. Connected' BY <1>2, <1>7 DEF Connected, At
<1>13. Opening' /\ OneDevice' BY <1>1, <1>2, <1>3 DEF LocksInv, Opening, OneDevice, At
<1>14. ChannelOfSession' BY <1>1, <1>4 DEF ChannelOfSession
<1> QED BY <1>8, <1>9, <1>10, <1>11, <1>12, <1>13, <1>14 DEF LocksInv

\* A connect takes the lock of a channel that is not there.
LEMMA LockToConnect ==
  ASSUME LocksInv, LocksTypeOK', NEW t \in Callers, LockChannel(t),
         pc'[t].at = "m2", pc[t].op = "connect"
  PROVE  LocksInv'
<1> DEFINE c == pc[t].ch
<1>1. c \in Chans /\ UNCHANGED <<device, epoch, port, m2>>
  BY DEF LockChannel, LocksInv, Named, Busy
<1>2. Goto(t, "m2")
  <2>1. ~Return(t) /\ ~Panic(t) BY LocksTyped, CallMoves DEF Idle, Dead
  <2> QED BY <2>1 DEF LockChannel
<1>3. /\ \A u \in Callers \ {t} : pc'[u] = pc[u]
      /\ pc'[t].op = "connect" /\ pc'[t].ch = c /\ pc'[t].at = "m2"
  BY <1>2, GotoMoves DEF Places
<1>4. ~Return(t) /\ ~Panic(t) BY <1>3, LocksTyped, CallMoves DEF Idle, Dead
<1>5. /\ CanWrite(lk[c]) /\ chan[c] = 0 /\ chan' = chan
      /\ lk' = [lk EXCEPT ![c] = Writers(@, {t})]
  BY <1>4 DEF LockChannel
<1>6. lk'[c].w = {t} /\ \A d \in Chans : d # c => lk'[d] = lk[d]
  BY <1>1, <1>5, LocksTyped DEF Lock, Writers
<1>7. Named' BY <1>1, <1>3 DEF LocksInv, Named, Busy
<1>8. Closing' BY <1>1, <1>3, <1>5 DEF LocksInv, Closing, Busy
<1>9. Exchanging' BY <1>1, <1>3 DEF LocksInv, Exchanging
<1>10. Connecting'
  <2> SUFFICES ASSUME NEW u \in Callers, pc'[u].op = "connect", pc'[u].at \in {"m2", "io", "ok", "leave"}
               PROVE  lk'[pc'[u].ch].w = {u} /\ chan'[pc'[u].ch] = 0
    BY DEF Connecting
  <2>1. CASE u = t BY <2>1, <1>3, <1>5, <1>6
  <2>2. CASE u # t
    <3>1. lk[pc[u].ch].w = {u} /\ chan[pc[u].ch] = 0 /\ pc[u].ch \in Chans /\ pc'[u] = pc[u]
      BY <2>2, <1>3 DEF LocksInv, Connecting, Named, Busy
    <3>2. pc[u].ch # c BY <3>1, <1>5 DEF CanWrite
    <3> QED BY <3>1, <3>2, <1>5, <1>6
  <2> QED BY <2>1, <2>2
<1>11. Connected' BY <1>1, <1>3 DEF LocksInv, Connected, At
<1>12. Opening' /\ OneDevice' BY <1>1, <1>3 DEF LocksInv, Opening, OneDevice, At
<1>13. ChannelOfSession' BY <1>1, <1>5 DEF LocksInv, ChannelOfSession
<1> QED BY <1>7, <1>8, <1>9, <1>10, <1>11, <1>12, <1>13 DEF LocksInv

\* A thread enters M2, which nobody is closing.
LEMMA EnterStep ==
  ASSUME LocksInv, LocksTypeOK', NEW t \in Callers, EnterM2(t), device, Goto(t, "io"),
         m2' = Readers(m2, m2.r \cup {t})
  PROVE  LocksInv'
<1>1. CanRead(m2) /\ UNCHANGED <<device, epoch, port, chan, lk>> BY DEF EnterM2, tables
<1>2. /\ \A u \in Callers \ {t} : pc'[u] = pc[u]
      /\ pc'[t].op = pc[t].op /\ pc'[t].ch = pc[t].ch /\ pc'[t].at = "io"
  BY GotoMoves DEF Places
<1>3. m2'.r = m2.r \cup {t} BY LocksTyped DEF Lock, Readers
<1>4. \A u \in Callers : pc[u].at # "kill" BY <1>1 DEF LocksInv, Closing, CanRead
<1>5. pc[t].at = "m2" \/ pc[t].op = "query" BY DEF EnterM2, At
<1>6. Named' BY <1>2 DEF LocksInv, Named, Busy
<1>7. Closing' BY <1>2, <1>4 DEF Closing
<1>8. Exchanging' BY <1>1, <1>2, <1>3 DEF LocksInv, Exchanging
<1>9. Connecting' BY <1>1, <1>2, <1>5 DEF LocksInv, Connecting
<1>10. Connected' BY <1>1, <1>2, <1>4 DEF LocksInv, Connected, At
<1>11. Opening' /\ OneDevice' BY <1>1, <1>2 DEF LocksInv, Opening, OneDevice, At
<1>12. ChannelOfSession' BY <1>1 DEF LocksInv, ChannelOfSession
<1> QED BY <1>6, <1>7, <1>8, <1>9, <1>10, <1>11, <1>12 DEF LocksInv

\* The device accepts a connect: it is there, and nobody is closing, as the thread
\* was reading M2.
LEMMA AcceptStep ==
  ASSUME LocksInv, LocksTypeOK', NEW t \in Callers, Exchange(t), pc'[t].at = "ok", pc[t].op = "connect"
  PROVE  LocksInv'
<1>1. /\ UNCHANGED <<device, epoch, port, chan, lk>> /\ pc[t].at = "io"
      /\ m2' = Readers(m2, m2.r \ {t})
  BY DEF Exchange, tables
<1>2. m2'.w = m2.w /\ m2'.r = m2.r \ {t} BY <1>1, LocksTyped DEF Lock, Readers
<1>3. /\ \A u \in Callers \ {t} : pc'[u] = pc[u]
      /\ pc'[t].op = "connect" /\ pc'[t].ch = pc[t].ch /\ pc'[t].n = epoch
  <2>1. CASE Goto(t, "leave") BY <2>1, GotoMoves DEF Places
  <2>2. CASE pc' = [pc EXCEPT ![t] = [pc[t] EXCEPT !.at = "ok", !.n = Result(t)]]
    BY <2>2, LocksTyped DEF CallState, Result
  <2> QED BY <2>1, <2>2 DEF Exchange
<1>4. device /\ \A u \in Callers : pc[u].at # "kill"
  BY <1>1 DEF LocksInv, Exchanging, Closing
<1>5. Named' BY <1>3 DEF LocksInv, Named, Busy
<1>6. Closing' BY <1>3, <1>4 DEF Closing
<1>7. Exchanging' BY <1>1, <1>2, <1>3 DEF LocksInv, Exchanging
<1>8. Connecting' BY <1>1, <1>3 DEF LocksInv, Connecting
<1>9. Connected' BY <1>1, <1>3, <1>4 DEF LocksInv, Connected, At
<1>10. Opening' /\ OneDevice' BY <1>1, <1>3 DEF LocksInv, Opening, OneDevice, At
<1>11. ChannelOfSession' BY <1>1 DEF LocksInv, ChannelOfSession
<1> QED BY <1>5, <1>6, <1>7, <1>8, <1>9, <1>10, <1>11 DEF LocksInv

\* A connect stores its channel.  A thread in the middle of a close has still to come
\* to it, and no other connect has its lock.
LEMMA StoreChannelStep ==
  ASSUME LocksInv, LocksTypeOK', NEW t \in Callers, Leave(t), At(t, "connect", "ok")
  PROVE  LocksInv'
<1> DEFINE c == pc[t].ch
<1>1. /\ c \in Chans /\ UNCHANGED <<device, epoch, port, m2>>
      /\ chan' = [chan EXCEPT ![c] = pc[t].n] /\ lk' = [lk EXCEPT ![c] = Released(@, t)]
  BY DEF Leave, LocksInv, Named, Busy, At
<1>2. /\ device /\ pc[t].n = epoch /\ lk[c].w = {t}
      /\ \A u \in Callers : pc[u].at = "kill" => pc[u].n <= c
  BY DEF LocksInv, Connected, Connecting, At
<1>3. /\ \A u \in Callers \ {t} : pc'[u] = pc[u]
      /\ pc'[t].op = "none" /\ pc'[t].at = "begin"
  BY LocksTyped, CallMoves DEF Leave, Idle
<1>4. \A d \in Chans : /\ chan'[d] = IF d = c THEN epoch ELSE chan[d]
                       /\ d # c => lk'[d] = lk[d]
  BY <1>1, <1>2, LocksTyped
<1>5. Named' BY <1>3 DEF LocksInv, Named, Busy
<1>6. Closing'
  <2> SUFFICES ASSUME NEW u \in Callers, pc'[u].at = "kill"
               PROVE  /\ Busy(u)' /\ m2'.w = {u} /\ m2'.r = {} /\ device'
                      /\ \A d \in Chans : d < pc'[u].n => chan'[d] = 0
    BY DEF Closing
  <2>1. pc'[u] = pc[u] BY <1>3
  <2>2. /\ Busy(u) /\ m2.w = {u} /\ m2.r = {} /\ pc[u].n <= c
        /\ \A d \in Chans : d < pc[u].n => chan[d] = 0
    BY <2>1, <1>2 DEF LocksInv, Closing
  <2>3. pc[u].n \in Nat BY LocksTyped DEF CallState
  <2>4. \A d \in Chans : d < pc[u].n => d # c BY <2>2, <2>3, <1>1, LocksAssumption DEF Chans
  <2> QED BY <2>1, <2>2, <2>4, <1>1, <1>2, <1>4 DEF Busy
<1>7. Exchanging' BY <1>1, <1>3 DEF LocksInv, Exchanging
<1>8. Connecting'
  <2> SUFFICES ASSUME NEW u \in Callers, pc'[u].op = "connect", pc'[u].at \in {"m2", "io", "ok", "leave"}
               PROVE  lk'[pc'[u].ch].w = {u} /\ chan'[pc'[u].ch] = 0
    BY DEF Connecting
  <2>1. lk[pc[u].ch].w = {u} /\ chan[pc[u].ch] = 0 /\ pc[u].ch \in Chans /\ pc'[u] = pc[u] /\ u # t
    BY <1>3 DEF LocksInv, Connecting, Named, Busy
  <2>2. pc[u].ch # c BY <2>1, <1>2
  <2> QED BY <2>1, <2>2, <1>4
<1>9. Connected' BY <1>1, <1>3 DEF LocksInv, Connected, At
<1>10. Opening' /\ OneDevice' BY <1>1, <1>3 DEF LocksInv, Opening, OneDevice, At
<1>11. ChannelOfSession' BY <1>1, <1>2, <1>4 DEF LocksInv, ChannelOfSession
<1> QED BY <1>5, <1>6, <1>7, <1>8, <1>9, <1>10, <1>11 DEF LocksInv
-----------------------------------------------------------------------------
\* Every step keeps the invariant.
LEMMA LocksStep == LocksInv /\ [LocksNext]_lvars => LocksInv'
<1> SUFFICES ASSUME LocksInv, [LocksNext]_lvars PROVE LocksInv' OBVIOUS
<1>ty. LocksTypeOK' BY LocksTypeStep
<1>q. Quiet => LocksInv' BY <1>ty, QuietStep
<1>0. CASE UNCHANGED lvars BY <1>0, <1>q DEF lvars, tables, Quiet
<1>1. ASSUME NEW t \in Callers,
             \/ Start(t) \/ OpenCheck(t) \/ ReadCheck(t) \/ ReadPop(t) \/ ClearRx(t) \/ BadFilterId(t)
      PROVE  LocksInv'
  BY <1>1, <1>q, QuietCalls
<1>2. ASSUME NEW t \in Callers, OpenPort(t) PROVE LocksInv'
  <2>1. CASE Return(t) /\ UNCHANGED port BY <2>1, <1>2, <1>q, QuietOpenClose DEF OpenPort
  <2>2. CASE ~(Return(t) /\ UNCHANGED port) BY <2>2, <1>2, <1>ty, OpenPortStep DEF OpenPort
  <2> QED BY <2>1, <2>2
<1>3. ASSUME NEW t \in Callers, OpenStore(t) PROVE LocksInv'
  <2>1. CASE UNCHANGED <<device, epoch>> BY <2>1, <1>3, <1>q, QuietOpenClose DEF OpenStore
  <2>2. CASE device' = TRUE /\ epoch' = epoch + 1 BY <2>2, <1>3, <1>ty, OpenStoreStep DEF OpenStore
  <2> QED BY <1>3, <2>1, <2>2 DEF OpenStore
<1>4. ASSUME NEW t \in Callers, CloseBegin(t) PROVE LocksInv'
  <2>1. CASE Return(t) /\ UNCHANGED m2 BY <2>1, <1>4, <1>q, QuietOpenClose DEF CloseBegin, tables
  <2>2. CASE ~(Return(t) /\ UNCHANGED m2) BY <2>2, <1>4, <1>ty, CloseBeginStep DEF CloseBegin, tables
  <2> QED BY <2>1, <2>2
<1>5. ASSUME NEW t \in Callers, CloseKill(t) \/ CloseEnd(t) PROVE LocksInv'
  BY <1>5, <1>ty, CloseKillStep, CloseEndStep
<1>6. ASSUME NEW t \in Callers, LockChannel(t) PROVE LocksInv'
  BY <1>6, <1>ty, <1>q, QuietLockChannel, LockToConnect
<1>7. ASSUME NEW t \in Callers, EnterM2(t) PROVE LocksInv'
  <2>1. CASE Goto(t, "leave") /\ UNCHANGED m2 BY <2>1, <1>7, <1>q, QuietEnterM2
  <2>2. CASE ~(Goto(t, "leave") /\ UNCHANGED m2) BY <2>2, <1>7, <1>ty, EnterStep DEF EnterM2
  <2> QED BY <2>1, <2>2
<1>8. ASSUME NEW t \in Callers, Exchange(t) PROVE LocksInv'
  BY <1>8, <1>ty, <1>q, QuietExchange, AcceptStep
<1>9. ASSUME NEW t \in Callers, Leave(t) PROVE LocksInv'
  BY <1>9, <1>ty, <1>q, QuietLeave, StoreChannelStep
<1>10. CASE PortFreed BY <1>10, <1>q DEF PortFreed, Quiet
<1>11. ASSUME NEW c \in Chans, Push(c) PROVE LocksInv'
  BY <1>11, <1>q DEF Push, Quiet
<1> QED BY <1>0, <1>1, <1>2, <1>3, <1>4, <1>5, <1>6, <1>7, <1>8, <1>9, <1>10, <1>11
        DEF LocksNext, Step, Keeps

\* The invariant holds in every reachable state.
LEMMA LocksAlways == LocksSpec => []LocksInv
BY LocksInitInv, LocksStep, PTL DEF LocksSpec

\* Types: no receive queue grows past its bound or below zero, although the threads
\* that take from it looked at it earlier.
THEOREM LocksTypes == LocksSpec => []LocksTypeOK
<1>1. LocksInv => LocksTypeOK BY DEF LocksInv
<1> QED BY <1>1, LocksAlways, PTL

\* A channel in the table belongs to the session that is open, whatever the threads
\* do, and whether or not a lock is poisoned.
THEOREM LocksChannelOfSession == LocksSpec => []ChannelOfSession
<1>1. LocksInv => ChannelOfSession BY DEF LocksInv
<1> QED BY <1>1, LocksAlways, PTL

\* A thread that has the port open finds no device to replace.
THEOREM LocksOneDevice == LocksSpec => []OneDevice
<1>1. LocksInv => OneDevice BY DEF LocksInv
<1> QED BY <1>1, LocksAlways, PTL
-----------------------------------------------------------------------------
(* No call panics *)

Tame == app \cap {"close", "disconnect", "badId"} = {}

\* The application makes only calls of its own; no lock is poisoned; the channel
\* a thread has looked at is there, and stays: what is stored is no empty channel.
Safely ==
  /\ \A t \in Callers : pc[t].op \in app \cup {"none"}
  /\ ~m2.bad /\ \A c \in Chans : ~lk[c].bad
  /\ \A t \in Callers : At(t, "read", "pop") => chan[pc[t].ch] # 0
  /\ device => epoch # 0

\* Locks are poisoned by a panic only.
LEMMA LockBad ==
  ASSUME NEW l \in Lock, NEW t
  PROVE  /\ \A R : Readers(l, R).bad = l.bad /\ Writers(l, R).bad = l.bad
         /\ Released(l, t).bad = l.bad
BY DEF Lock, Readers, Writers, Released

\* What a step changes is one thread's call, which neither panics nor becomes one
\* the application does not make; no lock is poisoned, no channel is taken away.
LEMMA SafelyKept ==
  ASSUME LocksInv, Safely, NEW t \in Callers, app' = app,
         \A u \in Callers \ {t} : pc'[u] = pc[u],
         pc'[t].op \in {pc[t].op, "none"}, pc'[t].ch = pc[t].ch \/ pc'[t].op = "none",
         At(t, "read", "pop")' => At(t, "read", "pop") \/ chan[pc[t].ch] # 0,
         ~m2'.bad, \A c \in Chans : ~lk'[c].bad,
         \A c \in Chans : chan[c] # 0 => chan'[c] # 0,
         device' => epoch' # 0
  PROVE  Safely'
<1>1. \A u \in Callers : pc'[u].op \in app' \cup {"none"}
  BY DEF Safely
<1>2. ASSUME NEW u \in Callers, At(u, "read", "pop")' PROVE chan'[pc'[u].ch] # 0
  <2>1. CASE u # t
    <3>1. pc'[u] = pc[u] BY <2>1
    <3>2. At(u, "read", "pop") BY <1>2, <3>1 DEF At
    <3>3. chan[pc[u].ch] # 0 BY <3>2 DEF Safely
    <3>4. pc[u].ch \in Chans BY <3>2 DEF At, LocksInv, Named, Busy
    <3> QED BY <3>1, <3>3, <3>4
  <2>2. CASE u = t
    <3>1. pc'[t].op = "read" BY <1>2, <2>2 DEF At
    <3>2. pc'[t].ch = pc[t].ch /\ pc[t].op = "read" BY <3>1
    <3>3. pc[t].ch \in Chans BY <3>2 DEF LocksInv, Named, Busy
    <3>4. chan[pc[t].ch] # 0 BY <1>2, <2>2 DEF Safely
    <3> QED BY <2>2, <3>2, <3>3, <3>4
  <2> QED BY <2>1, <2>2
<1> QED BY <1>1, <1>2 DEF Safely

LEMMA SafelyStep == LocksInv /\ Tame /\ Safely /\ [LocksNext]_lvars => Safely'
<1> SUFFICES ASSUME LocksInv, Tame, Safely, [LocksNext]_lvars PROVE Safely' OBVIOUS
<1>app. app' = app BY DEF LocksNext, Keeps, lvars
<1>ty. /\ pc \in [Callers -> CallState] /\ m2 \in Lock /\ lk \in [Chans -> Lock]
       /\ chan \in [Chans -> Nat] /\ epoch \in Nat /\ device \in BOOLEAN
  BY LocksTyped
<1>op. \A t \in Callers : pc[t].op \notin {"close", "disconnect", "badId", "panicked"}
  <2>1. app \subseteq AllOps BY LocksAssumption DEF LocksInv, LocksTypeOK, LocksAssumption
  <2>2. "panicked" \notin AllOps BY DEF AllOps, DeviceOps
  <2> QED BY <2>1, <2>2 DEF Safely, Tame
<1>ok. ~m2.bad /\ (\A c \in Chans : ~lk[c].bad) /\ (device => epoch # 0) BY DEF Safely
<1>ch. \A t \in Callers : Busy(t) => pc[t].ch \in Chans BY DEF LocksInv, Named
<1>bad. \A t \in Callers :
          /\ ~Readers(m2, m2.r \cup {t}).bad /\ ~Readers(m2, m2.r \ {t}).bad
          /\ \A c \in Chans : /\ ~Readers(lk[c], lk[c].r \cup {t}).bad /\ ~Writers(lk[c], {t}).bad
                              /\ ~Released(lk[c], t).bad
  BY <1>ty, <1>ok, LockBad
<1>ret. ASSUME NEW t \in Callers, Return(t)
        PROVE  /\ \A u \in Callers \ {t} : pc'[u] = pc[u]
               /\ pc'[t].op = "none" /\ ~At(t, "read", "pop")'
  <2>1. pc'[t] = Idle /\ \A u \in Callers \ {t} : pc'[u] = pc[u] BY <1>ret, <1>ty, CallMoves
  <2> QED BY <2>1 DEF Idle, At
<1> USE DEF tables
<1>0. CASE UNCHANGED lvars BY <1>0 DEF lvars, Safely, At
<1>1. ASSUME NEW t \in Callers, Start(t) PROVE Safely'
  <2>1. PICK op \in app, c \in Chans :
          pc' = [pc EXCEPT ![t] = [op |-> op, ch |-> c, at |-> "begin", n |-> 0]]
    BY <1>1 DEF Start
  <2>2. \A u \in Callers \ {t} : pc'[u] = pc[u] BY <2>1, <1>ty
  <2>3. pc'[t] = [op |-> op, ch |-> c, at |-> "begin", n |-> 0] BY <2>1, <1>ty
  <2>4. \A u \in Callers : pc'[u].op \in app' \cup {"none"} BY <2>2, <2>3, <1>app DEF Safely
  <2>5. \A u \in Callers : At(u, "read", "pop")' => At(u, "read", "pop") /\ pc'[u] = pc[u]
    BY <2>2, <2>3 DEF At
  <2> QED BY <1>1, <2>4, <2>5 DEF Start, Safely
<1>2. ASSUME NEW t \in Callers, OpenCheck(t) PROVE Safely'
  <2>1. CASE Return(t) BY <1>2, <2>1, <1>app, <1>ok, <1>ret, SafelyKept DEF OpenCheck
  <2>2. CASE Goto(t, "port")
    <3>1. /\ \A u \in Callers \ {t} : pc'[u] = pc[u]
          /\ pc'[t].op = pc[t].op /\ pc'[t].ch = pc[t].ch /\ pc'[t].at = "port"
      BY <2>2, GotoMoves DEF Places
    <3> QED BY <1>2, <3>1, <1>app, <1>ok, SafelyKept DEF OpenCheck, At
  <2> QED BY <1>2, <2>1, <2>2, <1>ok DEF OpenCheck
<1>3. ASSUME NEW t \in Callers, OpenPort(t) PROVE Safely'
  <2>1. CASE Return(t) BY <1>3, <2>1, <1>app, <1>ok, <1>ret, SafelyKept DEF OpenPort
  <2>2. CASE Goto(t, "store")
    <3>1. /\ \A u \in Callers \ {t} : pc'[u] = pc[u]
          /\ pc'[t].op = pc[t].op /\ pc'[t].ch = pc[t].ch /\ pc'[t].at = "store"
      BY <2>2, GotoMoves DEF Places
    <3> QED BY <1>3, <3>1, <1>app, <1>ok, SafelyKept DEF OpenPort, At
  <2> QED BY <1>3, <2>1, <2>2 DEF OpenPort
<1>4. ASSUME NEW t \in Callers, OpenStore(t) PROVE Safely'
  <2>1. device' => epoch' # 0
    BY <1>4, <1>ok, <1>ty DEF OpenStore
  <2> QED BY <1>4, <2>1, <1>app, <1>ok, <1>ret, SafelyKept DEF OpenStore
<1>5. ASSUME NEW t \in Callers, CloseBegin(t) \/ CloseKill(t) \/ CloseEnd(t) \/ BadFilterId(t) PROVE Safely'
  BY <1>5, <1>op DEF CloseBegin, CloseKill, CloseEnd, BadFilterId, At
<1>6. ASSUME NEW t \in Callers, LockChannel(t) PROVE Safely'
  <2>1. Busy(t) /\ pc[t].ch \in Chans /\ pc[t].op # "disconnect"
    BY <1>6, <1>op, <1>ch DEF LockChannel, DeviceOps, Busy
  <2>2. ~lk[pc[t].ch].bad BY <2>1, <1>ok
  <2>3. CASE Return(t) /\ UNCHANGED <<chan, rx, lk>>
    BY <1>6, <2>3, <1>app, <1>ok, <1>ret, SafelyKept DEF LockChannel
  <2>4. CASE ~(Return(t) /\ UNCHANGED <<chan, rx, lk>>)
    <3>1. /\ Goto(t, "m2") /\ chan' = chan
          /\ lk' = [lk EXCEPT ![pc[t].ch] = IF pc[t].op = "write" THEN Readers(@, @.r \cup {t})
                                                                  ELSE Writers(@, {t})]
      BY <1>6, <2>1, <2>2, <2>4 DEF LockChannel
    <3>2. \A c \in Chans : ~lk'[c].bad BY <3>1, <1>ty, <1>ok, <1>bad
    <3>3. /\ \A u \in Callers \ {t} : pc'[u] = pc[u]
          /\ pc'[t].op = pc[t].op /\ pc'[t].ch = pc[t].ch /\ pc'[t].at = "m2"
      BY <3>1, GotoMoves DEF Places
    <3> QED BY <1>6, <3>1, <3>2, <3>3, <1>app, <1>ok, SafelyKept DEF LockChannel, At
  <2> QED BY <2>3, <2>4
<1>7. ASSUME NEW t \in Callers, EnterM2(t) PROVE Safely'
  <2>1. PICK a \in {"leave", "io"} : Goto(t, a) BY <1>7 DEF EnterM2
  <2>2. /\ \A u \in Callers \ {t} : pc'[u] = pc[u]
        /\ pc'[t].op = pc[t].op /\ pc'[t].ch = pc[t].ch /\ pc'[t].at = a
    BY <2>1, GotoMoves DEF Places
  <2>3. ~m2'.bad BY <1>7, <1>ok, <1>bad DEF EnterM2
  <2> QED BY <1>7, <2>2, <2>3, <1>app, <1>ok, SafelyKept DEF EnterM2, At
<1>8. ASSUME NEW t \in Callers, Exchange(t) PROVE Safely'
  <2>1. PICK a \in {"ok", "leave", "m2"} :
          /\ \A u \in Callers \ {t} : pc'[u] = pc[u]
          /\ pc'[t].op = pc[t].op /\ pc'[t].ch = pc[t].ch /\ pc'[t].at = a
    <3>1. ASSUME NEW a \in {"ok", "m2"}, NEW n, pc' = [pc EXCEPT ![t] = [pc[t] EXCEPT !.at = a, !.n = n]]
          PROVE  /\ \A u \in Callers \ {t} : pc'[u] = pc[u]
                 /\ pc'[t].op = pc[t].op /\ pc'[t].ch = pc[t].ch /\ pc'[t].at = a
      <4>1. pc'[t] = [pc[t] EXCEPT !.at = a, !.n = n] /\ pc[t] \in CallState BY <3>1, <1>ty
      <4>2. \A u \in Callers \ {t} : pc'[u] = pc[u] BY <3>1, <1>ty
      <4> QED BY <4>1, <4>2 DEF CallState
    <3>2. CASE Goto(t, "leave") BY <3>2, GotoMoves DEF Places
    <3> QED BY <1>8, <3>1, <3>2 DEF Exchange
  <2>2. ~m2'.bad BY <1>8, <1>bad DEF Exchange
  <2> QED BY <1>8, <2>1, <2>2, <1>app, <1>ok, SafelyKept DEF Exchange, At
<1>9. ASSUME NEW t \in Callers, Leave(t) PROVE Safely'
  <2>1. \A c \in Chans : ~lk'[c].bad BY <1>9, <1>ty, <1>ok, <1>bad DEF Leave
  <2>2. \A c \in Chans : chan[c] # 0 => chan'[c] # 0
    <3>1. CASE At(t, "connect", "ok")
      <4>1. device /\ pc[t].n = epoch BY <3>1 DEF LocksInv, Connected
      <4>2. chan' = [chan EXCEPT ![pc[t].ch] = pc[t].n] BY <1>9, <3>1 DEF Leave, At
      <4> QED BY <4>1, <4>2, <1>ok, <1>ty
    <3>2. CASE ~At(t, "connect", "ok") BY <1>9, <3>2 DEF Leave, At
    <3> QED BY <3>1, <3>2
  <2> QED BY <1>9, <2>1, <2>2, <1>app, <1>ok, <1>ret, SafelyKept DEF Leave
<1>10. ASSUME NEW t \in Callers, ReadCheck(t) PROVE Safely'
  <2>1. ~lk[pc[t].ch].bad BY <1>10, <1>ch, <1>ok DEF ReadCheck, At, Busy
  <2>2. CASE Return(t) BY <1>10, <2>2, <1>app, <1>ok, <1>ret, SafelyKept DEF ReadCheck
  <2>3. CASE ~Return(t)
    <3>1. Goto(t, "pop") /\ chan[pc[t].ch] # 0 BY <1>10, <2>1, <2>3 DEF ReadCheck
    <3>2. /\ \A u \in Callers \ {t} : pc'[u] = pc[u]
          /\ pc'[t].op = pc[t].op /\ pc'[t].ch = pc[t].ch
      BY <3>1, GotoMoves DEF Places
    <3> QED BY <1>10, <3>1, <3>2, <1>app, <1>ok, SafelyKept DEF ReadCheck
  <2> QED BY <2>2, <2>3
<1>11. ASSUME NEW t \in Callers, ReadPop(t) PROVE Safely'
  <2>1. chan[pc[t].ch] # 0 BY <1>11 DEF ReadPop, Safely
  <2>2. Return(t) /\ UNCHANGED lk BY <1>11, <2>1 DEF ReadPop
  <2> QED BY <1>11, <2>2, <1>app, <1>ok, <1>ret, SafelyKept DEF ReadPop
<1>12. ASSUME NEW t \in Callers, ClearRx(t) PROVE Safely'
  <2>1. ~lk[pc[t].ch].bad BY <1>12, <1>ch, <1>ok DEF ClearRx, At, Busy
  <2>2. Return(t) BY <1>12, <2>1 DEF ClearRx
  <2> QED BY <1>12, <2>2, <1>app, <1>ok, <1>ret, SafelyKept DEF ClearRx
<1>13. CASE PortFreed BY <1>13, <1>app DEF PortFreed, Safely, At
<1>14. ASSUME NEW c \in Chans, Push(c) PROVE Safely'
  BY <1>14, <1>app DEF Push, Safely, At
<1> QED BY <1>0, <1>1, <1>2, <1>3, <1>4, <1>5, <1>6, <1>7, <1>8, <1>9, <1>10, <1>11, <1>12, <1>13,
          <1>14 DEF LocksNext, Step, Keeps

\* An application that closes nothing and names its filters right never meets a
\* panic, of an unwrapped lock or of a channel that is gone, on any of its threads.
THEOREM LocksNoPanic == LocksSpec => []NoPanic
<1>1. LocksInit => (Tame => Safely)
  <2> SUFFICES ASSUME LocksInit PROVE Safely OBVIOUS
  <2>1. \A t \in Callers : pc[t].op = "none" BY DEF LocksInit, Idle
  <2>2. ~m2.bad /\ \A c \in Chans : ~lk[c].bad BY DEF LocksInit, Unlocked
  <2> QED BY <2>1, <2>2 DEF LocksInit, Safely, At
<1>2. LocksInv /\ (Tame => Safely) /\ [LocksNext]_lvars => (Tame => Safely)'
  <2>1. [LocksNext]_lvars => app' = app BY DEF LocksNext, Keeps, lvars
  <2>2. app' = app => (Tame' <=> Tame) BY DEF Tame
  <2> QED BY <2>1, <2>2, SafelyStep
<1>3. LocksInv /\ (Tame => Safely) => NoPanic
  <2> SUFFICES ASSUME LocksInv, Tame, Safely, NEW t \in Callers PROVE pc[t].op # "panicked"
    BY DEF NoPanic, Tame
  <2>1. app \subseteq AllOps BY LocksAssumption DEF LocksInv, LocksTypeOK, LocksAssumption
  <2> QED BY <2>1 DEF Safely, AllOps, DeviceOps
<1> QED BY <1>1, <1>2, <1>3, LocksAlways, PTL DEF LocksSpec
=============================================================================
