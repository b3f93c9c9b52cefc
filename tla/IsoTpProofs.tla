---------------------------- MODULE IsoTpProofs ----------------------------
(***************************************************************************)
(* For any lengths the protocol can announce, any number of mailboxes, any *)
(* rings and any bounds: the types of IsoTp, and that no frame is copied   *)
(* past the end of a message in either direction.                          *)
(*                                                                         *)
(* Both need that the size that is reserved for a first frame holds what   *)
(* the frame brings, also where its length is computed with a carry that   *)
(* is lost (FirstFits), and that the count of frames is below RxBlock      *)
(* whenever a message is being received.                                   *)
(***************************************************************************)
EXTENDS IsoTp, SequenceTheorems, TLAPS

Payload == [box : Box, size : Nat, pos : Nat, parts : Seq(Frames)]

\* The invariant, by the groups of variables that actions leave alone.
RxGood ==
  /\ isReceiving \in BOOLEAN /\ rx \in Payload /\ rxCount \in 0 .. RxBlock
  /\ isReceiving => rxCount < RxBlock /\ rx.pos < rx.size

TxGood ==
  /\ isSending \in BOOLEAN /\ clear \in BOOLEAN /\ due \in BOOLEAN
  /\ tx \in [box : Box, size : Nat, pos : Nat] /\ sn \in 0 .. SnMod - 1
  /\ txBlock \in Nat /\ txFrames \in Nat
  /\ tx.pos <= tx.size

CfgGood  == /\ used \in [Box -> BOOLEAN] /\ flow \in [Box -> {0, 1}]
            /\ blockSize \in AppBlocks \cup {0} /\ sets \in 0 .. MaxSets
EnvGood  == msgs \in 0 .. MaxMsgs /\ strays \in 0 .. MaxStrays
LogGood  == accepted \in 0 .. MaxSends /\ confirmed \in Nat /\ received \in Nat
RingGood == ring \in [Box -> Seq(Frames)]
AtGood   == at \in 0 .. Boxes
ToldGood == told \in Payload
EcuGood  == ecu \in [Box -> EcuStates]
FaultsGood == faults \subseteq {"carry", "lost", "removed", "astray", "block", "flooded", "stray"}

IInv == /\ RxGood /\ TxGood /\ CfgGood /\ EnvGood /\ LogGood /\ RingGood /\ AtGood
        /\ ToldGood /\ EcuGood /\ FaultsGood

LEMMA IInvTypes == IInv => IsoTypeOK /\ NoOverrun
<1>1. IInv => IsoTypeOK
  BY DEF IInv, IsoTypeOK, RxGood, TxGood, CfgGood, EnvGood, LogGood, RingGood, AtGood,
         ToldGood, EcuGood, FaultsGood, Payload
<1>2. IInv => NoOverrun  BY DEF IInv, NoOverrun, RxGood, TxGood
<1> QED  BY <1>1, <1>2

LEMMA KeptRx == ASSUME RxGood, UNCHANGED rxVars PROVE RxGood'
  BY DEF RxGood, rxVars
LEMMA KeptTx == ASSUME TxGood, UNCHANGED txVars PROVE TxGood'
  BY DEF TxGood, txVars
LEMMA KeptCfg == ASSUME CfgGood, UNCHANGED cfgVars PROVE CfgGood'
  BY DEF CfgGood, cfgVars
LEMMA KeptEnv == ASSUME EnvGood, UNCHANGED envVars PROVE EnvGood'
  BY DEF EnvGood, envVars
LEMMA KeptLog == ASSUME LogGood, UNCHANGED logVars PROVE LogGood'
  BY DEF LogGood, logVars
-----------------------------------------------------------------------------
(* Data *)

LEMMA IsoConstants ==
  /\ Boxes \in Nat /\ Boxes > 0 /\ RxBlock \in Nat /\ RxBlock > 0 /\ SnMod \in Nat /\ SnMod > 0
  /\ Radix \in Nat /\ Radix > 10 /\ IdBytes = 4 /\ FfBytes = 6 /\ CfBytes = 7
  /\ MaxMsgs \in Nat /\ MaxSends \in Nat /\ MaxSets \in Nat /\ MaxStrays \in Nat
  /\ 0 \in Box /\ Box \subseteq 0 .. Boxes
  BY IsoAssumption DEF IsoAssumption, IdBytes, FfBytes, CfBytes, Box

LEMMA LensNat == /\ \A n \in Lens \cup SendLens : n \in Nat /\ n >= 8
  BY IsoAssumption DEF IsoAssumption

LEMMA CfsNat == ASSUME NEW n \in Nat PROVE Cfs(n) \in Nat
  BY DEF Cfs, CfBytes

LEMMA AtMostNat == ASSUME NEW a \in Nat, NEW b \in Nat
                   PROVE  AtMost(a, b) \in Nat /\ AtMost(a, b) <= a /\ AtMost(a, b) <= b
  BY DEF AtMost

LEMMA ByteNat == ASSUME NEW n \in Nat PROVE Byte(n) \in Nat
  BY IsoConstants DEF Byte

LEMMA NoRxPayload == NoRx \in Payload
<1>1. <<>> \in Seq(Frames)  OBVIOUS
<1> QED  BY <1>1, IsoConstants DEF NoRx, Payload

LEMMA ToldNothing == ASSUME told' = NoRx PROVE ToldGood'
  BY NoRxPayload DEF ToldGood

\* The size reserved for a first frame is more than what the frame brings.
LEMMA FirstFits ==
  ASSUME NEW n \in Nat, n >= 8 PROVE FfSize(n) \in Nat /\ FfSize(n) > IdBytes + FfBytes
<1> DEFINE hi == n \div Radix
           lo == n % Radix
           p  == hi * Radix
<1>1. hi \in Nat /\ lo \in 0 .. Radix - 1 /\ n = p + lo /\ p \in Nat
  BY IsoConstants
<1>2. hi # 0 => p >= Radix
  <2>1. \A h \in Nat, r \in Nat : h # 0 => h * r >= r
    OBVIOUS
  <2> QED  BY <1>1, <2>1, IsoConstants
<1>3. FfSize(n) = p + (IF lo + 4 >= Radix /\ hi % 2 = 1 THEN lo + 4 - Radix ELSE lo + 4)
  BY IsoConstants DEF FfSize
<1>4. hi % 2 = 1 => hi # 0  BY <1>1
<1> HIDE DEF hi, lo, p
<1>5. CASE lo + 4 >= Radix /\ hi % 2 = 1
  <2>1. FfSize(n) = p + (lo + 4 - Radix) /\ p >= Radix  BY <1>5, <1>2, <1>3, <1>4
  <2> QED  BY <2>1, <1>1, <1>5, IsoConstants
<1>6. CASE ~(lo + 4 >= Radix /\ hi % 2 = 1)
  <2>1. FfSize(n) = p + (lo + 4)  BY <1>6, <1>3
  <2> QED  BY <2>1, <1>1, IsoConstants
<1> QED  BY <1>5, <1>6
LEMMA ModNat == ASSUME NEW n \in Nat, NEW m \in Nat, m > 0 PROVE n % m \in 0 .. m - 1
  OBVIOUS

LEMMA SnNext == ASSUME NEW n \in Nat PROVE n % SnMod \in 0 .. SnMod - 1
  BY IsoConstants, ModNat

LEMMA EcuParts ==
  ASSUME EcuGood, NEW i \in Box
  PROVE  /\ ecu[i] \in EcuStates /\ ecu[i].msg \in 0 .. MaxMsgs /\ ecu[i].len \in Lens \cup {0}
         /\ ecu[i].len \in Nat /\ ecu[i].next \in Nat /\ ecu[i].credit \in Nat
         /\ ecu[i].want \in Nat /\ ecu[i].sn \in 0 .. SnMod - 1 /\ ecu[i].sn \in Nat
         /\ ecu[i].owes \in BOOLEAN /\ ecu[i].grant \in Nat
<1>1. ecu[i] \in EcuStates  BY DEF EcuGood
<1>2. ecu[i].len \in Lens \cup {0} /\ ecu[i].sn \in 0 .. SnMod - 1  BY <1>1 DEF EcuStates
<1>3. ecu[i].len \in Nat  BY <1>2, LensNat
<1>4. ecu[i].sn \in Nat  BY <1>2, IsoConstants
<1> QED  BY <1>1, <1>2, <1>3, <1>4 DEF EcuStates

LEMMA EcuFlowGood ==
  ASSUME EcuGood, NEW i \in Box, NEW b \in Nat, EcuTakesFlow(i, b) PROVE EcuGood'
<1>1. Cfs(ecu[i].len) \in Nat  BY EcuParts, CfsNat
<1>2. AtMost(b, Cfs(ecu[i].len)) \in Nat  BY <1>1, AtMostNat
<1>3. CASE ~Waits(i)  BY <1>3 DEF EcuTakesFlow, EcuGood
<1>4. CASE Waits(i)
  <2>1. PICK c \in Nat : ecu' = [ecu EXCEPT ![i].credit = c]
    BY <1>1, <1>2, <1>4 DEF EcuTakesFlow
  <2> QED  BY <2>1 DEF EcuGood, EcuStates
<1> QED  BY <1>3, <1>4

LEMMA EcuFirstGood ==
  ASSUME EcuGood, NEW i \in Box, NEW n \in Nat, n >= 8, EcuTakesFirst(i, n) PROVE EcuGood'
<1>1. n - FfBytes \in Nat  BY IsoConstants
<1>2. 1 % SnMod \in 0 .. SnMod - 1  BY SnNext
<1> DEFINE e == [ecu[i] EXCEPT !.want = n - FfBytes, !.sn = 1 % SnMod, !.owes = TRUE, !.grant = 0]
<1>3. e \in EcuStates  BY <1>1, <1>2, EcuParts DEF EcuStates
<1>4. ecu' = [ecu EXCEPT ![i] = e]  BY DEF EcuTakesFirst, EcuGood
<1> HIDE DEF e
<1> QED  BY <1>3, <1>4 DEF EcuGood

LEMMA EcuNextGood ==
  ASSUME EcuGood, LogGood, FaultsGood, NEW i \in Box, NEW s, EcuTakesNext(i, s)
  PROVE  EcuGood' /\ received' \in Nat /\ FaultsGood'
<1> DEFINE e    == ecu[i]
           good == s = e.sn /\ e.grant > 0
           left == IF good THEN e.want - AtMost(CfBytes, e.want) ELSE 0
           done == [e EXCEPT !.want = 0, !.sn = 1 % SnMod, !.grant = 0, !.owes = FALSE]
           more == [e EXCEPT !.want = left, !.sn = (@ + 1) % SnMod, !.grant = @ - 1, !.owes = e.grant = 1]
           new  == IF e.want = 0 THEN e ELSE IF left = 0 THEN done ELSE more
<1>1. /\ ecu' = [ecu EXCEPT ![i] = new]
      /\ received' = received + 1 \/ received' = received
      /\ faults' = faults \/ faults' = faults \cup {"flooded"}
  BY DEF EcuTakesNext
<1>2. CfBytes \in Nat  BY IsoConstants
<1>3. left \in Nat
  <2>1. AtMost(CfBytes, e.want) \in Nat /\ AtMost(CfBytes, e.want) <= e.want /\ e.want \in Nat
    BY <1>2, EcuParts, AtMostNat
  <2> QED  BY <2>1
<1>4. done \in EcuStates  BY EcuParts, SnNext DEF EcuStates
<1>5. left # 0 => more \in EcuStates
  <2>1. left # 0 => e.grant > 0  OBVIOUS
  <2>2. left # 0 => e.grant - 1 \in Nat  BY <2>1, EcuParts
  <2>3. (e.sn + 1) % SnMod \in 0 .. SnMod - 1  BY EcuParts, SnNext
  <2> HIDE DEF left
  <2> QED  BY <1>3, <2>2, <2>3, EcuParts DEF EcuStates
<1>6. new \in EcuStates  BY <1>4, <1>5, EcuParts
<1> HIDE DEF new
<1>7. EcuGood'  BY <1>1, <1>6 DEF EcuGood
<1>8. received' \in Nat  BY <1>1 DEF LogGood
<1>9. FaultsGood'  BY <1>1 DEF FaultsGood
<1> QED  BY <1>7, <1>8, <1>9
-----------------------------------------------------------------------------
(* The turn of the loop *)

\* The frame that is taken.
LEMMA TakeGood ==
  ASSUME RingGood, NEW i \in Box, NEW type, Take(i, type)
  PROVE  /\ RingGood' /\ AtGood'
         /\ Head(ring[i]) \in Frames /\ Head(ring[i]).n \in Nat /\ Head(ring[i]).type = type
         /\ Head(ring[i]).msg \in 0 .. MaxMsgs
         /\ type = "first" => Head(ring[i]).n >= 8
<1>1. ring[i] \in Seq(Frames) /\ ring[i] # <<>>  BY DEF Take, Empty, RingGood
<1>2. Head(ring[i]) \in Frames /\ Tail(ring[i]) \in Seq(Frames)  BY <1>1, HeadTailProperties
<1>3. RingGood'
  <2>1. ring' = [ring EXCEPT ![i] = Tail(ring[i])]  BY DEF Take, RingGood
  <2> QED  BY <1>2, <2>1 DEF RingGood
<1>4. AtGood'
  <2>1. i + 1 \in 0 .. Boxes  BY IsoConstants DEF Box
  <2> QED  BY <2>1 DEF Take, AtGood
<1>5. Head(ring[i]).msg \in 0 .. MaxMsgs  BY <1>2 DEF Frames
<1>6. Head(ring[i]).type = type  BY DEF Take
<1>7. Head(ring[i]).n \in Nat /\ (type = "first" => Head(ring[i]).n \in Lens)
  <2>1. CASE Head(ring[i]).type = "first"
    <3>1. Head(ring[i]).n \in Lens  BY <1>2, <2>1 DEF Frames
    <3> QED  BY <3>1, LensNat
  <2>2. CASE Head(ring[i]).type # "first"  BY <1>2, <1>6, <2>2 DEF Frames
  <2> QED  BY <2>1, <2>2
<1>8. type = "first" => Head(ring[i]).n >= 8  BY <1>7, LensNat
<1> QED  BY <1>2, <1>3, <1>4, <1>5, <1>6, <1>7, <1>8

LEMMA SingleGood == ASSUME IInv, NEW i \in Box, RxSingleFrame(i) PROVE IInv'
<1>1. RxGood' /\ TxGood' /\ CfgGood' /\ EnvGood' /\ LogGood'
  BY KeptRx, KeptTx, KeptCfg, KeptEnv, KeptLog DEF RxSingleFrame, IInv
<1>2. EcuGood' /\ FaultsGood'  BY DEF RxSingleFrame, IInv, EcuGood, FaultsGood
<1>3. Take(i, "single")  BY DEF RxSingleFrame
<1>4. RingGood' /\ AtGood' /\ Head(ring[i]) \in Frames /\ Head(ring[i]).n \in Nat
  BY <1>3, TakeGood DEF IInv
<1>5. <<Head(ring[i])>> \in Seq(Frames)  BY <1>4
<1>6. Head(ring[i]).n + IdBytes \in Nat  BY <1>4, IsoConstants
<1>7. ToldGood'  BY <1>5, <1>6 DEF RxSingleFrame, ToldGood, Payload
<1> QED  BY <1>1, <1>2, <1>4, <1>7 DEF IInv

LEMMA IgnoreFcGood == ASSUME IInv, NEW i \in Box, IgnoreFc(i) PROVE IInv'
<1>1. RxGood' /\ TxGood' /\ CfgGood' /\ EnvGood' /\ LogGood'
  BY KeptRx, KeptTx, KeptCfg, KeptEnv, KeptLog DEF IgnoreFc, IInv
<1>2. EcuGood' /\ FaultsGood'  BY DEF IgnoreFc, IInv, EcuGood, FaultsGood
<1>3. Take(i, "wait") /\ told' = NoRx  BY DEF IgnoreFc
<1> QED  BY <1>1, <1>2, <1>3, TakeGood, ToldNothing DEF IInv

LEMMA FlowBlockNat == ASSUME NEW b \in Nat PROVE FlowBlock(b) \in Nat
<1>1. Radix * Radix \in Nat /\ Radix * Radix >= 1
  <2>1. \A r \in Nat : r > 10 => r * r >= 1  OBVIOUS
  <2> QED  BY <2>1, IsoConstants
<1> QED  BY <1>1, IsoConstants DEF FlowBlock, All

LEMMA HandleFcGood == ASSUME IInv, NEW i \in Box, HandleFc(i) PROVE IInv'
<1>1. RxGood' /\ CfgGood' /\ EnvGood' /\ LogGood'
  BY KeptRx, KeptCfg, KeptEnv, KeptLog DEF HandleFc, IInv
<1>2. EcuGood' /\ FaultsGood'  BY DEF HandleFc, IInv, EcuGood, FaultsGood
<1>3. Take(i, "flow") /\ told' = NoRx  BY DEF HandleFc
<1>4. Head(ring[i]).n \in Nat  BY <1>3, TakeGood DEF IInv
<1>5. txBlock' \in Nat  BY <1>4, FlowBlockNat DEF HandleFc
<1>6. TxGood'  BY <1>5 DEF HandleFc, TxGood, IInv
<1> QED  BY <1>1, <1>2, <1>3, <1>6, TakeGood, ToldNothing DEF IInv
LEMMA FirstFrameGood == ASSUME IInv, NEW i \in Box, SendFfIndication(i) PROVE IInv'
<1> DEFINE f == Head(ring[i])
           b == Byte(blockSize)
<1>0. FirstFrame(i, flow[i] = 0 \/ isReceiving)  BY DEF SendFfIndication
<1>1. TxGood' /\ CfgGood' /\ EnvGood' /\ LogGood'
  BY <1>0, KeptTx, KeptCfg, KeptEnv, KeptLog DEF FirstFrame, IInv
<1>2. Take(i, "first") /\ told' = NoRx  BY <1>0 DEF FirstFrame
<1>3. RingGood' /\ AtGood' /\ f \in Frames /\ f.n \in Nat /\ f.n >= 8  BY <1>2, TakeGood DEF IInv
<1>4. ToldGood'  BY <1>2, ToldNothing
<1>5. CASE rxVars' = rxVars /\ ecu' = ecu /\ faults' = faults
  <2>1. RxGood'  BY <1>5, KeptRx DEF IInv
  <2>2. EcuGood' /\ FaultsGood'  BY <1>5 DEF IInv, EcuGood, FaultsGood
  <2> QED  BY <1>1, <1>3, <1>4, <2>1, <2>2 DEF IInv
<1>6. CASE /\ isReceiving' = TRUE /\ rxCount' = 0 /\ EcuTakesFlow(i, b)
           /\ rx' = [box |-> i, size |-> FfSize(f.n), pos |-> IdBytes + FfBytes, parts |-> <<f>>]
           /\ faults' = faults \cup (IF Carries(f.n) THEN {"carry"} ELSE {})
                               \cup (IF b % RxBlock # 0 THEN {"block"} ELSE {})
  <2>1. FfSize(f.n) \in Nat /\ FfSize(f.n) > IdBytes + FfBytes  BY <1>3, <1>6, FirstFits
  <2>2. <<f>> \in Seq(Frames) /\ IdBytes + FfBytes \in Nat  BY <1>3, IsoConstants
  <2> DEFINE m == [box |-> i, size |-> FfSize(f.n), pos |-> IdBytes + FfBytes, parts |-> <<f>>]
  <2>3. m \in Payload /\ m.pos < m.size  BY <2>1, <2>2, IsoConstants DEF Payload
  <2>4. rx' = m  BY <1>6
  <2> HIDE DEF m
  <2>5. RxGood'  BY <1>6, <2>3, <2>4, IsoConstants DEF RxGood
  <2>6. b \in Nat
    <3>1. blockSize \in Nat  BY IsoAssumption DEF IsoAssumption, IInv, CfgGood
    <3> QED  BY <3>1, ByteNat
  <2>7. EcuGood'  BY <1>6, <2>6, EcuFlowGood DEF IInv
  <2>8. FaultsGood'  BY <1>6 DEF IInv, FaultsGood
  <2> QED  BY <1>1, <1>3, <1>4, <2>5, <2>7, <2>8 DEF IInv
<1> QED  BY <1>0, <1>5, <1>6 DEF FirstFrame
LEMMA CopyLenFits ==
  ASSUME NEW n \in Nat PROVE CopyLen(n) \in Nat /\ CopyLen(n) <= n
  BY IsoConstants DEF CopyLen

LEMMA RxMultiGood == ASSUME IInv, NEW i \in Box, RxMultiFrame(i) PROVE IInv'
<1> DEFINE more  == [rx EXCEPT !.pos = @ + CopyLen(rx.size - rx.pos), !.parts = Append(@, Head(ring[i]))]
           full  == more.pos >= rx.size
           count == rxCount + 1
           b     == Byte(txBlock)
<1>1. TxGood' /\ CfgGood' /\ EnvGood' /\ LogGood'
  BY KeptTx, KeptCfg, KeptEnv, KeptLog DEF RxMultiFrame, IInv
<1>2. Take(i, "next")  BY DEF RxMultiFrame
<1>3. RingGood' /\ AtGood' /\ Head(ring[i]) \in Frames  BY <1>2, TakeGood DEF IInv
<1>4. CASE ~isReceiving /\ told' = NoRx /\ UNCHANGED <<rxVars, ecu, faults>>
  <2>1. RxGood' /\ ToldGood'  BY <1>4, KeptRx, ToldNothing DEF IInv
  <2>2. EcuGood' /\ FaultsGood'  BY <1>4 DEF IInv, EcuGood, FaultsGood
  <2> QED  BY <1>1, <1>3, <2>1, <2>2 DEF IInv
<1>5. CASE isReceiving
  <2>1. /\ rx \in Payload /\ rx.pos \in Nat /\ rx.size \in Nat /\ rx.parts \in Seq(Frames)
        /\ rx.pos < rx.size /\ rxCount \in Nat /\ rxCount < RxBlock
    BY <1>5, IsoConstants DEF IInv, RxGood, Payload
  <2>2. rx.size - rx.pos \in Nat  BY <2>1
  <2>3. CopyLen(rx.size - rx.pos) \in Nat /\ CopyLen(rx.size - rx.pos) <= rx.size - rx.pos
    BY <2>2, CopyLenFits
  <2>4. rx.pos + CopyLen(rx.size - rx.pos) \in Nat  BY <2>1, <2>3
  <2>5. Append(rx.parts, Head(ring[i])) \in Seq(Frames)  BY <1>3, <2>1
  <2>6. more \in Payload /\ more.size = rx.size /\ more.pos \in Nat  BY <2>1, <2>4, <2>5 DEF Payload
  <2>7. count \in 0 .. RxBlock  BY <2>1, IsoConstants
  <2> HIDE DEF more, count, b
  <2>8. CASE /\ full /\ told' = more /\ isReceiving' = FALSE /\ rx' = NoRx /\ rxCount' = count
             /\ UNCHANGED <<ecu, faults>>
    <3>1. RxGood'  BY <2>7, <2>8, NoRxPayload DEF RxGood
    <3>2. ToldGood'  BY <2>6, <2>8 DEF ToldGood
    <3>3. EcuGood' /\ FaultsGood'  BY <2>8 DEF IInv, EcuGood, FaultsGood
    <3> QED  BY <1>1, <1>3, <3>1, <3>2, <3>3 DEF IInv
  <2>9. CASE /\ ~full /\ ~BlockDone(count) /\ rx' = more /\ rxCount' = count /\ told' = NoRx
             /\ UNCHANGED <<isReceiving, ecu, faults>>
    <3>1. count < RxBlock  BY <2>9, <2>7, IsoConstants DEF BlockDone
    <3>2. more.pos < more.size  BY <2>9, <2>6, <2>1
    <3>3. RxGood'  BY <1>5, <2>6, <2>7, <2>9, <3>1, <3>2 DEF RxGood
    <3>4. ToldGood'  BY <2>9, ToldNothing
    <3>5. EcuGood' /\ FaultsGood'  BY <2>9 DEF IInv, EcuGood, FaultsGood
    <3> QED  BY <1>1, <1>3, <3>3, <3>4, <3>5 DEF IInv
  <2>10. CASE /\ ~full /\ rx' = more /\ rxCount' = 0 /\ told' = NoRx /\ EcuTakesFlow(i, b)
              /\ faults' = faults \cup (IF WaitsForNext(i) THEN {"astray"} ELSE {})
                                  \cup (IF b % RxBlock # 0 THEN {"block"} ELSE {})
              /\ UNCHANGED isReceiving
    <3>1. more.pos < more.size  BY <2>10, <2>6, <2>1
    <3>2. RxGood'  BY <1>5, <2>6, <2>10, <3>1, IsoConstants DEF RxGood
    <3>3. ToldGood'  BY <2>10, ToldNothing
    <3>4. b \in Nat  BY ByteNat DEF b, IInv, TxGood
    <3>5. EcuGood'  BY <2>10, <3>4, EcuFlowGood DEF IInv
    <3>6. FaultsGood'  BY <2>10 DEF IInv, FaultsGood
    <3> QED  BY <1>1, <1>3, <3>2, <3>3, <3>5, <3>6 DEF IInv
  <2> QED  BY <1>5, <2>8, <2>9, <2>10 DEF RxMultiFrame, more, count, b
<1> QED  BY <1>4, <1>5 DEF RxMultiFrame

LEMMA TxMultiGood == ASSUME IInv, TxMultiFrame PROVE IInv'
<1>1. NextFrame(TxPos, SnMod, TxPos >= tx.size, txFrames + 1 >= txBlock)  BY DEF TxMultiFrame
<1>2. /\ tx \in [box : Box, size : Nat, pos : Nat] /\ tx.pos \in Nat /\ tx.size \in Nat
      /\ tx.box \in Box /\ tx.pos <= tx.size /\ txFrames \in Nat /\ sn \in Nat
  BY IsoConstants DEF IInv, TxGood
<1>3. tx.size - tx.pos \in Nat  BY <1>2
<1>4. CopyLen(tx.size - tx.pos) \in Nat /\ CopyLen(tx.size - tx.pos) <= tx.size - tx.pos
  BY <1>3, CopyLenFits
<1>5. TxPos \in Nat /\ TxPos <= tx.size  BY <1>2, <1>4 DEF TxPos
<1>6. (sn + 1) % SnMod \in 0 .. SnMod - 1  BY <1>2, SnNext
<1>7. /\ tx' = [tx EXCEPT !.pos = TxPos] /\ sn' = (sn + 1) % SnMod /\ txFrames' = txFrames + 1
      /\ txBlock' = txBlock
  BY <1>1 DEF NextFrame
<1>8. isSending' \in BOOLEAN /\ clear' \in BOOLEAN /\ due' \in BOOLEAN
  BY <1>1 DEF NextFrame, IInv, TxGood
<1>9. TxGood'
  <2>1. tx' \in [box : Box, size : Nat, pos : Nat] /\ tx'.pos <= tx'.size  BY <1>2, <1>5, <1>7
  <2>2. sn' \in 0 .. SnMod - 1 /\ txFrames' \in Nat /\ txBlock' \in Nat
    BY <1>2, <1>6, <1>7 DEF IInv, TxGood
  <2> QED  BY <2>1, <2>2, <1>8 DEF TxGood
<1>10. RxGood' /\ CfgGood' /\ EnvGood'
  BY <1>1, KeptRx, KeptCfg, KeptEnv DEF NextFrame, IInv
<1>11. EcuTakesNext(tx.box, sn)  BY <1>1 DEF NextFrame
<1>12. EcuGood' /\ received' \in Nat /\ FaultsGood'
  BY <1>2, <1>11, EcuNextGood DEF IInv
<1>13. LogGood'
  <2>1. accepted' = accepted /\ (confirmed' = confirmed + 1 \/ confirmed' = confirmed)
    BY <1>1 DEF NextFrame
  <2> QED  BY <2>1, <1>12 DEF IInv, LogGood
<1>14. RingGood' /\ AtGood' /\ ToldGood'
  BY <1>1, ToldNothing, IsoConstants DEF NextFrame, IInv, RingGood, AtGood
<1> QED  BY <1>9, <1>10, <1>12, <1>13, <1>14 DEF IInv

LEMMA QuietTurnGood == ASSUME IInv, EndTurn \/ Tick PROVE IInv'
<1>1. RxGood' /\ CfgGood' /\ EnvGood' /\ LogGood'
  BY KeptRx, KeptCfg, KeptEnv, KeptLog DEF EndTurn, Tick, IInv
<1>2. TxGood'
  <2>1. CASE EndTurn  BY <2>1, KeptTx DEF EndTurn, IInv
  <2>2. CASE Tick  BY <2>2 DEF Tick, IInv, TxGood
  <2> QED  BY <2>1, <2>2
<1>3. EcuGood' /\ FaultsGood' /\ RingGood' /\ AtGood'
  BY IsoConstants DEF EndTurn, Tick, IInv, EcuGood, FaultsGood, RingGood, AtGood
<1>4. ToldGood'  BY ToldNothing DEF EndTurn, Tick
<1> QED  BY <1>1, <1>2, <1>3, <1>4 DEF IInv

LEMMA TurnGood == ASSUME IInv, Turn PROVE IInv'
<1>1. ASSUME NEW i \in Box, Handle(i) PROVE IInv'
  BY <1>1, SingleGood, FirstFrameGood, RxMultiGood, HandleFcGood, IgnoreFcGood DEF Handle
<1> QED  BY <1>1, TxMultiGood, QuietTurnGood DEF Turn
-----------------------------------------------------------------------------
(* Commands *)

LEMMA EmptyRing == <<>> \in Seq(Frames)
  OBVIOUS

LEMMA FilterGood == ASSUME IInv, NEW i \in Box, AddFilter(i) \/ RemoveFilter(i) PROVE IInv'
<1>1. EnvGood' /\ LogGood'
  BY KeptEnv, KeptLog DEF AddFilter, RemoveFilter, IInv
<1>2. AtGood' /\ EcuGood' /\ ToldGood'
  BY ToldNothing DEF AddFilter, RemoveFilter, IInv, AtGood, EcuGood
<1>3. RingGood'
  <2>1. ring' = [ring EXCEPT ![i] = <<>>]  BY DEF AddFilter, RemoveFilter
  <2> QED  BY <2>1, EmptyRing DEF IInv, RingGood
<1>4. CASE AddFilter(i)
  <2>1. RxGood' /\ TxGood'  BY <1>4, KeptRx, KeptTx DEF AddFilter, IInv
  <2>2. FaultsGood'  BY <1>4 DEF AddFilter, IInv, FaultsGood
  <2>3. PICK x \in FlowIds : flow' = [flow EXCEPT ![i] = x]  BY <1>4 DEF AddFilter
  <2>4. x \in {0, 1}  BY IsoAssumption DEF IsoAssumption
  <2>5. flow' \in [Box -> {0, 1}]  BY <2>3, <2>4 DEF IInv, CfgGood
  <2>6. sets' \in 0 .. MaxSets  BY <1>4, IsoConstants DEF AddFilter, IInv, CfgGood
  <2>7. used' \in [Box -> BOOLEAN] /\ blockSize' = blockSize
    BY <1>4 DEF AddFilter, IInv, CfgGood
  <2>8. CfgGood'  BY <2>5, <2>6, <2>7 DEF IInv, CfgGood
  <2> QED  BY <1>1, <1>2, <1>3, <2>1, <2>2, <2>8 DEF IInv
<1>5. CASE RemoveFilter(i)
  <2>1. CfgGood'  BY <1>5 DEF RemoveFilter, IInv, CfgGood
  <2>2. RxGood'  BY <1>5, NoRxPayload DEF RemoveFilter, IInv, RxGood
  <2>3. TxGood'  BY <1>5 DEF RemoveFilter, IInv, TxGood
  <2>4. FaultsGood'  BY <1>5 DEF RemoveFilter, IInv, FaultsGood
  <2> QED  BY <1>1, <1>2, <1>3, <2>1, <2>2, <2>3, <2>4 DEF IInv
<1> QED  BY <1>4, <1>5

LEMMA IoctlSetGood == ASSUME IInv, NEW b \in AppBlocks, IoctlSet(b) PROVE IInv'
<1>1. RxGood' /\ TxGood' /\ EnvGood' /\ LogGood'
  BY KeptRx, KeptTx, KeptEnv, KeptLog DEF IoctlSet, IInv
<1>2. AtGood' /\ EcuGood' /\ RingGood' /\ FaultsGood' /\ ToldGood'
  BY ToldNothing DEF IoctlSet, IInv, AtGood, EcuGood, RingGood, FaultsGood
<1>3. sets' \in 0 .. MaxSets  BY IsoConstants DEF IoctlSet, IInv, CfgGood
<1>4. CfgGood'  BY <1>3 DEF IoctlSet, IInv, CfgGood
<1> QED  BY <1>1, <1>2, <1>4 DEF IInv

LEMMA SendMsgGood == ASSUME IInv, NEW i \in Box, NEW n \in SendLens, SendMsg(i, n) PROVE IInv'
<1>1. RxGood' /\ CfgGood' /\ EnvGood'  BY KeptRx, KeptCfg, KeptEnv DEF SendMsg, IInv
<1>2. AtGood' /\ RingGood' /\ FaultsGood' /\ ToldGood'
  BY ToldNothing DEF SendMsg, IInv, AtGood, RingGood, FaultsGood
<1>3. n \in Nat /\ n >= 8  BY LensNat
<1>4. EcuGood'  BY <1>3, EcuFirstGood DEF SendMsg, IInv
<1>5. LogGood'
  <2>1. accepted' = accepted + 1 /\ accepted < MaxSends /\ confirmed' = confirmed /\ received' = received
    BY DEF SendMsg
  <2> QED  BY <2>1, IsoConstants DEF IInv, LogGood
<1>6. TxGood'
  <2>1. n + IdBytes \in Nat /\ IdBytes + FfBytes \in Nat /\ IdBytes + FfBytes <= n + IdBytes
    BY <1>3, IsoConstants
  <2>2. 1 % SnMod \in 0 .. SnMod - 1  BY SnNext
  <2> DEFINE m == [box |-> i, size |-> n + IdBytes, pos |-> IdBytes + FfBytes]
  <2>3. m \in [box : Box, size : Nat, pos : Nat] /\ m.pos <= m.size  BY <2>1
  <2>4. tx' = m /\ sn' = 1 % SnMod /\ isSending' = TRUE /\ clear' = FALSE
        /\ UNCHANGED <<due, txBlock, txFrames>>
    BY DEF SendMsg
  <2> HIDE DEF m
  <2> QED  BY <2>2, <2>3, <2>4 DEF IInv, TxGood
<1> QED  BY <1>1, <1>2, <1>4, <1>5, <1>6 DEF IInv
-----------------------------------------------------------------------------
(* ECUs *)

LEMMA PutGood ==
  ASSUME IInv, NEW i \in Box, NEW f \in Frames, Put(i, f) PROVE RingGood' /\ FaultsGood'
<1>1. FaultsGood'  BY DEF Put, IInv, FaultsGood
<1>2. CASE UNCHANGED ring  BY <1>1, <1>2 DEF IInv, RingGood
<1>3. CASE ring' = [ring EXCEPT ![i] = Append(@, f)]
  <2>1. Append(ring[i], f) \in Seq(Frames)  BY DEF IInv, RingGood
  <2> QED  BY <1>1, <1>3, <2>1 DEF IInv, RingGood
<1> QED  BY <1>2, <1>3 DEF Put

\* What ECUs do leaves the device alone.
LEMMA DeviceGood ==
  ASSUME IInv, UNCHANGED Device, told' = NoRx
  PROVE  RxGood' /\ TxGood' /\ CfgGood' /\ LogGood' /\ AtGood' /\ ToldGood'
<1>1. RxGood' /\ TxGood' /\ CfgGood' /\ LogGood'
  BY KeptRx, KeptTx, KeptCfg, KeptLog DEF Device, IInv
<1> QED  BY <1>1, ToldNothing DEF Device, IInv, AtGood

LEMMA EcuSingleGood == ASSUME IInv, NEW i \in Box, EcuSingle(i) PROVE IInv'
<1> DEFINE f == Frame("single", msgs + 1, CfBytes, 0)
<1>1. UNCHANGED Device /\ told' = NoRx /\ Put(i, f) /\ ecu' = ecu  BY DEF EcuSingle
<1>2. f \in Frames  BY IsoConstants DEF EcuSingle, IInv, EnvGood, Frame, Frames
<1> HIDE DEF f
<1>3. RingGood' /\ FaultsGood'  BY <1>1, <1>2, PutGood
<1>4. EnvGood' /\ EcuGood'  BY <1>1, IsoConstants DEF EcuSingle, IInv, EnvGood, EcuGood
<1> QED  BY <1>1, <1>3, <1>4, DeviceGood DEF IInv

LEMMA EcuOneGood ==
  ASSUME EcuGood, NEW i \in Box, NEW e \in EcuStates, ecu' = [ecu EXCEPT ![i] = e] PROVE EcuGood'
  BY DEF EcuGood

LEMMA EcuFirstSendGood == ASSUME IInv, NEW i \in Box, NEW n \in Lens, EcuFirst(i, n) PROVE IInv'
<1> DEFINE f == Frame("first", msgs + 1, n, 0)
           e == [ecu[i] EXCEPT !.msg = msgs + 1, !.len = n, !.next = 1, !.credit = 0]
<1>1. UNCHANGED Device /\ told' = NoRx /\ Put(i, f) /\ ecu' = [ecu EXCEPT ![i] = e]
  BY DEF EcuFirst, IInv, EcuGood
<1>2. msgs + 1 \in 0 .. MaxMsgs  BY IsoConstants DEF EcuFirst, IInv, EnvGood
<1>3. f \in Frames  BY <1>2 DEF Frame, Frames
<1>4. e \in EcuStates  BY <1>2, EcuParts DEF IInv, EcuStates
<1> HIDE DEF f, e
<1>5. RingGood' /\ FaultsGood'  BY <1>1, <1>3, PutGood
<1>6. EcuGood'  BY <1>1, <1>4, EcuOneGood DEF IInv
<1>7. EnvGood'  BY <1>2 DEF EcuFirst, IInv, EnvGood
<1> QED  BY <1>1, <1>5, <1>6, <1>7, DeviceGood DEF IInv

LEMMA EcuNextSendGood == ASSUME IInv, NEW i \in Box, EcuNext(i) PROVE IInv'
<1> DEFINE e    == ecu[i]
           f    == Frame("next", e.msg, 0, e.next)
           done == [e EXCEPT !.msg = 0, !.len = 0, !.next = 1, !.credit = 0]
           more == [e EXCEPT !.next = @ + 1, !.credit = @ - 1]
<1>1. /\ UNCHANGED Device /\ told' = NoRx /\ Put(i, f) /\ UNCHANGED envVars
      /\ ecu' = [ecu EXCEPT ![i] = done] \/ ecu' = [ecu EXCEPT ![i] = more]
      /\ e.credit > 0
  BY DEF EcuNext
<1>2. f \in Frames  BY EcuParts DEF IInv, Frame, Frames
<1>3. done \in EcuStates
  <2>1. e \in EcuStates /\ 0 \in 0 .. MaxMsgs  BY EcuParts, IsoConstants DEF IInv
  <2> QED  BY <2>1 DEF EcuStates
<1>4. more \in EcuStates
  <2>1. e.credit - 1 \in Nat /\ e.next + 1 \in Nat  BY <1>1, EcuParts DEF IInv
  <2> QED  BY <2>1, EcuParts DEF IInv, EcuStates
<1> HIDE DEF f, done, more
<1>5. RingGood' /\ FaultsGood'  BY <1>1, <1>2, PutGood
<1>6. EcuGood'  BY <1>1, <1>3, <1>4, EcuOneGood DEF IInv
<1>7. EnvGood'  BY <1>1, KeptEnv DEF IInv
<1> QED  BY <1>1, <1>5, <1>6, <1>7, DeviceGood DEF IInv

LEMMA BlocksNat == EcuBlocks \subseteq Nat
  BY IsoAssumption, IsoConstants DEF IsoAssumption

LEMMA EcuFlowSendGood == ASSUME IInv, NEW i \in Box, NEW b \in EcuBlocks, EcuFlow(i, b) PROVE IInv'
<1> DEFINE f == Frame("flow", 0, b, 0)
           g == IF b = 0 THEN Cfs(ecu[i].want + CfBytes) ELSE b
           e == [ecu[i] EXCEPT !.owes = FALSE, !.grant = g]
<1>1. UNCHANGED Device /\ told' = NoRx /\ Put(i, f) /\ UNCHANGED envVars /\ ecu' = [ecu EXCEPT ![i] = e]
  BY DEF EcuFlow, IInv, EcuGood
<1>2. b \in Nat  BY BlocksNat
<1>3. f \in Frames  BY <1>2, IsoConstants DEF Frame, Frames
<1>4. g \in Nat
  <2>1. ecu[i].want + CfBytes \in Nat  BY EcuParts, IsoConstants DEF IInv
  <2> QED  BY <2>1, <1>2, CfsNat
<1> HIDE DEF g
<1>5. e \in EcuStates  BY <1>4, EcuParts DEF IInv, EcuStates
<1> HIDE DEF f, e
<1>6. RingGood' /\ FaultsGood'  BY <1>1, <1>3, PutGood
<1>7. EcuGood'  BY <1>1, <1>5, EcuOneGood DEF IInv
<1>8. EnvGood'  BY <1>1, KeptEnv DEF IInv
<1> QED  BY <1>1, <1>6, <1>7, <1>8, DeviceGood DEF IInv

LEMMA EcuStrayGood ==
  ASSUME IInv, NEW i \in Box, NEW type \in {"flow", "wait"}, NEW b \in EcuBlocks, EcuStray(i, type, b)
  PROVE  IInv'
<1> DEFINE f == Frame(type, 0, b, 0)
<1>1. UNCHANGED Device /\ told' = NoRx /\ ring' = [ring EXCEPT ![i] = Append(@, f)] /\ ecu' = ecu
  BY DEF EcuStray
<1>2. f \in Frames  BY BlocksNat, IsoConstants DEF Frame, Frames
<1> HIDE DEF f
<1>3. Append(ring[i], f) \in Seq(Frames)  BY <1>2 DEF IInv, RingGood
<1>4. RingGood'  BY <1>1, <1>3 DEF IInv, RingGood
<1>5. EcuGood' /\ FaultsGood'  BY <1>1 DEF EcuStray, IInv, EcuGood, FaultsGood
<1>6. EnvGood'  BY IsoConstants DEF EcuStray, IInv, EnvGood
<1> QED  BY <1>1, <1>4, <1>5, <1>6, DeviceGood DEF IInv

LEMMA EcuGivesUpGood == ASSUME IInv, NEW i \in Box, EcuGivesUp(i) PROVE IInv'
<1> DEFINE e == [ecu[i] EXCEPT !.msg = 0, !.len = 0, !.next = 1]
<1>1. /\ UNCHANGED Device /\ told' = NoRx /\ UNCHANGED envVars /\ UNCHANGED <<ring, faults>>
      /\ ecu' = [ecu EXCEPT ![i] = e]
  BY DEF EcuGivesUp, IInv, EcuGood
<1>2. e \in EcuStates
  <2>1. ecu[i] \in EcuStates /\ 0 \in 0 .. MaxMsgs  BY EcuParts, IsoConstants DEF IInv
  <2> QED  BY <2>1 DEF EcuStates
<1> HIDE DEF e
<1>3. EcuGood'  BY <1>1, <1>2, EcuOneGood DEF IInv
<1>4. RingGood' /\ FaultsGood' /\ EnvGood'
  BY <1>1, KeptEnv DEF IInv, RingGood, FaultsGood
<1> QED  BY <1>1, <1>3, <1>4, DeviceGood DEF IInv
-----------------------------------------------------------------------------
(* The theorems *)

LEMMA InitIInv == IsoInit => IInv
<1> SUFFICES ASSUME IsoInit PROVE IInv
  OBVIOUS
<1>1. RxGood
  <2>1. isReceiving = FALSE /\ rx = NoRx /\ rxCount = 0  BY DEF IsoInit
  <2>2. 0 \in 0 .. RxBlock  BY IsoConstants
  <2> QED  BY <2>1, <2>2, NoRxPayload DEF RxGood
<1>2. TxGood  BY IsoConstants DEF IsoInit, TxGood, NoTx
<1>3. CfgGood /\ EnvGood /\ LogGood  BY IsoConstants DEF IsoInit, CfgGood, EnvGood, LogGood
<1>4. RingGood  BY EmptyRing DEF IsoInit, RingGood
<1>5. AtGood /\ ToldGood /\ FaultsGood
  BY NoRxPayload, IsoConstants DEF IsoInit, AtGood, ToldGood, FaultsGood
<1>6. EcuGood  BY IsoConstants DEF IsoInit, EcuGood, EcuStates, Quiet
<1> QED  BY <1>1, <1>2, <1>3, <1>4, <1>5, <1>6 DEF IInv

LEMMA NextIInv == IInv /\ [IsoNext]_vars => IInv'
<1> SUFFICES ASSUME IInv, [IsoNext]_vars PROVE IInv'
  OBVIOUS
<1>1. CASE UNCHANGED vars
  <2>1. RxGood' /\ TxGood' /\ CfgGood' /\ EnvGood' /\ LogGood'
    BY <1>1, KeptRx, KeptTx, KeptCfg, KeptEnv, KeptLog DEF IInv, vars
  <2> QED  BY <1>1, <2>1 DEF IInv, vars, RingGood, AtGood, ToldGood, EcuGood, FaultsGood
<1>2. ASSUME NEW i \in Box,
             \/ AddFilter(i) \/ RemoveFilter(i) \/ \E n \in SendLens : SendMsg(i, n)
             \/ EcuSends(i) \/ EcuSingle(i) \/ EcuGivesUp(i) \/ \E n \in Lens : EcuFirst(i, n)
             \/ \E type \in {"flow", "wait"}, b \in EcuBlocks : EcuStray(i, type, b)
      PROVE  IInv'
  <2>1. EcuSends(i) => IInv'  BY EcuNextSendGood, EcuFlowSendGood DEF EcuSends
  <2> QED
    BY <1>2, <2>1, FilterGood, SendMsgGood, EcuSingleGood, EcuGivesUpGood, EcuFirstSendGood,
       EcuStrayGood
<1>3. ASSUME NEW b \in AppBlocks, IoctlSet(b) PROVE IInv'
  BY <1>3, IoctlSetGood
<1>4. CASE Tick  BY <1>4, QuietTurnGood
<1> QED  BY <1>1, <1>2, <1>3, <1>4, TurnGood DEF IsoNext

LEMMA IInvInvariant == IsoSpec => []IInv
<1> QED  BY InitIInv, NextIInv, PTL DEF IsoSpec

\* Sequence numbers stay below the rollover, the count of frames within its
\* block and the loop within its mailboxes, whatever ECUs send and in whatever
\* order frames of several messages come.
THEOREM IsoTypes == IsoSpec => []IsoTypeOK
<1> QED  BY IInvInvariant, IInvTypes, PTL

\* rx_multi_frame and tx_multi_frame (comm_channel_iso15765.cpp) never copy past
\* the end of a message: neither for a length whose size was computed too
\* small, nor when frames of another message are taken for this one's.
THEOREM IsoNoOverrun == IsoSpec => []NoOverrun
<1> QED  BY IInvInvariant, IInvTypes, PTL
-----------------------------------------------------------------------------
(***************************************************************************)
(* For any number of ECUs and messages: what the ISO 15765 channel hands   *)
(* to the driver is one message, whole.                                    *)
(*                                                                         *)
(* The channel looks neither at who sent a consecutive frame nor at its    *)
(* number.  It can do without as long as, in every ring, the frames that   *)
(* wait are those the message being received still lacks, in order         *)
(* (BoxOK): an ECU sends them only after flow control, which it gets only  *)
(* for the message that is received.                                       *)
(***************************************************************************)

\* s has the consecutive frames of message m from number p to before q, in order.
InOrder(s, m, p, q) ==
  /\ \A x \in 1 .. Len(s) : s[x].type = "next" =>
       s[x] = Frame("next", m, 0, s[x].k) /\ p <= s[x].k /\ s[x].k < q
  /\ \A x, y \in 1 .. Len(s) : s[x].type = "next" /\ s[y].type = "next" /\ x < y => s[x].k < s[y].k
  /\ \A k \in p .. q - 1 : \E x \in 1 .. Len(s) : s[x].type = "next" /\ s[x].k = k

NoCf(s) == \A x \in 1 .. Len(s) : s[x].type # "next"
NoFf(s) == \A x \in 1 .. Len(s) : s[x].type # "first"

\* s has at most one first frame, of message m, of n bytes.
OneFf(s, m, n) ==
  /\ \A x \in 1 .. Len(s) : s[x].type = "first" => s[x].msg = m /\ s[x].n = n
  /\ \A x, y \in 1 .. Len(s) : s[x].type = "first" /\ s[y].type = "first" => x = y

\* A message of mailbox i is being received; it is the one its ECU is sending.
Cur(i)   == isReceiving /\ rx.box = i
Grant(i) == Cur(i) /\ rx.parts[1].msg = ecu[i].msg

BoxOK(i) ==
  /\ ~Cur(i) => NoCf(ring[i])
  /\ ~Grant(i) => ecu[i].credit = 0 /\ ecu[i].next = 1
  /\ OneFf(ring[i], ecu[i].msg, ecu[i].len)
  /\ ~NoFf(ring[i]) => ~Grant(i) /\ ecu[i].msg # 0
  /\ ~used[i] => ring[i] = <<>>
  /\ ecu[i].msg <= msgs
  /\ Cur(i) => \E q \in Nat :
       /\ Len(rx.parts) <= q /\ q <= Cfs(rx.parts[1].n) + 1
       /\ InOrder(ring[i], rx.parts[1].msg, Len(rx.parts), q)
       /\ Grant(i) => ecu[i].next = q /\ ecu[i].len = rx.parts[1].n /\ q <= Cfs(rx.parts[1].n)

\* What has come of a message.
RxOK ==
  isReceiving =>
    /\ Len(rx.parts) > 0 /\ rx.parts[1].type = "first"
    /\ rx.parts[1].msg # 0 /\ rx.parts[1].msg <= msgs
    /\ rx.size = rx.parts[1].n + IdBytes
    /\ rx.pos = IdBytes + FfBytes + CfBytes * (Len(rx.parts) - 1)
    /\ \A k \in 1 .. Len(rx.parts) - 1 : rx.parts[k + 1] = Frame("next", rx.parts[1].msg, 0, k)

WInv == RxOK /\ \A i \in Box : BoxOK(i)

Unmixed == faults \cap Mixing = {}
-----------------------------------------------------------------------------
(* Sequences of frames *)

LEMMA InTail ==
  ASSUME NEW s \in Seq(Frames), s # <<>>
  PROVE  /\ Tail(s) \in Seq(Frames) /\ Len(s) \in Nat /\ Len(s) > 0
         /\ Len(Tail(s)) = Len(s) - 1 /\ Head(s) = s[1]
         /\ \A x \in 1 .. Len(Tail(s)) : x + 1 \in 1 .. Len(s) /\ Tail(s)[x] = s[x + 1]
         /\ \A x \in 1 .. Len(s) : x # 1 => x - 1 \in 1 .. Len(Tail(s)) /\ Tail(s)[x - 1] = s[x]
<1>1. /\ Tail(s) \in Seq(Frames) /\ Len(Tail(s)) = Len(s) - 1 /\ Head(s) = s[1]
      /\ \A x \in 1 .. Len(Tail(s)) : Tail(s)[x] = s[x + 1]
  BY HeadTailProperties
<1>2. Len(s) \in Nat /\ Len(s) > 0  BY EmptySeq
<1> QED  BY <1>1, <1>2

LEMMA InAppend ==
  ASSUME NEW s \in Seq(Frames), NEW f \in Frames
  PROVE  /\ Append(s, f) \in Seq(Frames) /\ Len(s) \in Nat /\ Len(Append(s, f)) = Len(s) + 1
         /\ \A x \in 1 .. Len(s) : x \in 1 .. Len(Append(s, f)) /\ Append(s, f)[x] = s[x]
         /\ Append(s, f)[Len(s) + 1] = f /\ Len(s) + 1 \in 1 .. Len(Append(s, f))
         /\ \A x \in 1 .. Len(Append(s, f)) : x \in 1 .. Len(s) \/ x = Len(s) + 1
  BY AppendProperties

LEMMA KNat == ASSUME NEW s \in Seq(Frames), NEW x \in 1 .. Len(s)
              PROVE  s[x] \in Frames /\ s[x].k \in Nat
<1>1. s[x] \in Frames  BY ElementOfSeq
<1> QED  BY <1>1 DEF Frames

\* Taking a frame that is no consecutive frame.
LEMMA TailOther ==
  ASSUME NEW s \in Seq(Frames), s # <<>>, Head(s).type # "next",
         NEW m, NEW p \in Nat, NEW q \in Nat, InOrder(s, m, p, q)
  PROVE  InOrder(Tail(s), m, p, q)
<1> DEFINE t == Tail(s)
<1>1. /\ \A x \in 1 .. Len(t) : x + 1 \in 1 .. Len(s) /\ t[x] = s[x + 1]
      /\ \A x \in 1 .. Len(s) : x # 1 => x - 1 \in 1 .. Len(t) /\ t[x - 1] = s[x]
      /\ Head(s) = s[1]
  BY InTail
<1> HIDE DEF t
<1>2. \A x \in 1 .. Len(t) : t[x].type = "next" =>
        t[x] = Frame("next", m, 0, t[x].k) /\ p <= t[x].k /\ t[x].k < q
  BY <1>1 DEF InOrder
<1>3. ASSUME NEW x \in 1 .. Len(t), NEW y \in 1 .. Len(t), t[x].type = "next", t[y].type = "next", x < y
      PROVE  t[x].k < t[y].k
  <2>1. x + 1 < y + 1  BY <1>3
  <2> QED  BY <1>1, <1>3, <2>1, SMTT(30) DEF InOrder
<1>4. ASSUME NEW k \in p .. q - 1 PROVE \E x \in 1 .. Len(t) : t[x].type = "next" /\ t[x].k = k
  <2>1. PICK x \in 1 .. Len(s) : s[x].type = "next" /\ s[x].k = k  BY DEF InOrder
  <2>2. x # 1  BY <1>1, <2>1
  <2> QED  BY <1>1, <2>1, <2>2
<1>5. InOrder(t, m, p, q)  BY <1>2, <1>3, <1>4 DEF InOrder
<1> QED  BY <1>5 DEF t

\* Taking a consecutive frame: it is the first.
LEMMA TailCf ==
  ASSUME NEW s \in Seq(Frames), s # <<>>, Head(s).type = "next",
         NEW m, NEW p \in Nat, NEW q \in Nat, InOrder(s, m, p, q)
  PROVE  /\ Head(s) = Frame("next", m, 0, p) /\ p < q
         /\ InOrder(Tail(s), m, p + 1, q)
<1> DEFINE t == Tail(s)
<1>1. /\ \A x \in 1 .. Len(t) : x + 1 \in 1 .. Len(s) /\ t[x] = s[x + 1]
      /\ \A x \in 1 .. Len(s) : x # 1 => x - 1 \in 1 .. Len(t) /\ t[x - 1] = s[x]
      /\ Head(s) = s[1] /\ 1 \in 1 .. Len(s)
  BY InTail
<1> HIDE DEF t
<1>2. \A x \in 1 .. Len(s) : s[x].k \in Nat  BY KNat
<1>3. s[1] = Frame("next", m, 0, s[1].k) /\ p <= s[1].k /\ s[1].k < q  BY <1>1 DEF InOrder
<1>4. \A x \in 1 .. Len(s) : x # 1 /\ s[x].type = "next" => s[1].k < s[x].k
  <2>1. \A x \in 1 .. Len(s) : x # 1 => 1 < x  BY InTail
  <2> QED  BY <1>1, <2>1 DEF InOrder
<1>5. s[1].k = p
  <2>1. p \in p .. q - 1  BY <1>2, <1>1, <1>3
  <2>2. PICK x \in 1 .. Len(s) : s[x].type = "next" /\ s[x].k = p  BY <2>1 DEF InOrder
  <2> QED  BY <1>1, <1>2, <1>3, <1>4, <2>2
<1>6. ASSUME NEW x \in 1 .. Len(t), t[x].type = "next"
      PROVE  t[x] = Frame("next", m, 0, t[x].k) /\ p + 1 <= t[x].k /\ t[x].k < q
  <2>1. x + 1 \in 1 .. Len(s) /\ t[x] = s[x + 1] /\ x + 1 # 1  BY <1>1
  <2>2. s[x + 1] = Frame("next", m, 0, s[x + 1].k) /\ s[x + 1].k < q  BY <1>6, <2>1 DEF InOrder
  <2>3. p < s[x + 1].k /\ s[x + 1].k \in Nat  BY <1>2, <1>4, <1>5, <1>6, <2>1
  <2> QED  BY <2>1, <2>2, <2>3
<1>7. ASSUME NEW x \in 1 .. Len(t), NEW y \in 1 .. Len(t), t[x].type = "next", t[y].type = "next", x < y
      PROVE  t[x].k < t[y].k
  <2>1. x + 1 < y + 1  BY <1>7
  <2>2. x + 1 \in 1 .. Len(s) /\ y + 1 \in 1 .. Len(s) /\ t[x] = s[x + 1] /\ t[y] = s[y + 1]  BY <1>1
  <2>3. s[x + 1].k < s[y + 1].k  BY <1>7, <2>1, <2>2 DEF InOrder
  <2> QED  BY <2>2, <2>3
<1>8. ASSUME NEW k \in p + 1 .. q - 1 PROVE \E x \in 1 .. Len(t) : t[x].type = "next" /\ t[x].k = k
  <2>1. k \in p .. q - 1 /\ k # p  OBVIOUS
  <2>2. PICK x \in 1 .. Len(s) : s[x].type = "next" /\ s[x].k = k  BY <2>1 DEF InOrder
  <2>3. x # 1  BY <1>5, <2>1, <2>2
  <2> QED  BY <1>1, <2>2, <2>3
<1>9. InOrder(t, m, p + 1, q)  BY <1>6, <1>7, <1>8 DEF InOrder
<1> QED  BY <1>1, <1>3, <1>5, <1>9 DEF t

LEMMA AppendOther ==
  ASSUME NEW s \in Seq(Frames), NEW f \in Frames, f.type # "next",
         NEW m, NEW p \in Nat, NEW q \in Nat, InOrder(s, m, p, q)
  PROVE  InOrder(Append(s, f), m, p, q)
<1> DEFINE t == Append(s, f)
<1>1. /\ \A x \in 1 .. Len(s) : x \in 1 .. Len(t) /\ t[x] = s[x]
      /\ \A x \in 1 .. Len(t) : x \in 1 .. Len(s) \/ t[x] = f
  BY InAppend
<1> HIDE DEF t
<1>2. \A x \in 1 .. Len(t) : t[x].type = "next" => x \in 1 .. Len(s) /\ t[x] = s[x]  BY <1>1
<1>3. InOrder(t, m, p, q)  BY <1>1, <1>2 DEF InOrder
<1> QED  BY <1>3 DEF t

LEMMA AppendCf ==
  ASSUME NEW s \in Seq(Frames), NEW m, NEW p \in Nat, NEW q \in Nat, p <= q,
         InOrder(s, m, p, q), Frame("next", m, 0, q) \in Frames
  PROVE  InOrder(Append(s, Frame("next", m, 0, q)), m, p, q + 1)
<1> DEFINE f == Frame("next", m, 0, q)
           t == Append(s, f)
<1>1. /\ \A x \in 1 .. Len(s) : x \in 1 .. Len(t) /\ t[x] = s[x]
      /\ \A x \in 1 .. Len(t) : x \in 1 .. Len(s) \/ x = Len(s) + 1
      /\ t[Len(s) + 1] = f /\ Len(s) + 1 \in 1 .. Len(t) /\ Len(s) \in Nat
  BY InAppend
<1>f. f.type = "next" /\ f.k = q /\ f = Frame("next", m, 0, f.k)  BY DEF Frame
<1>k. \A x \in 1 .. Len(s) : s[x].k \in Nat  BY KNat
<1> HIDE DEF t, f
<1>2. ASSUME NEW x \in 1 .. Len(t), t[x].type = "next"
      PROVE  t[x] = Frame("next", m, 0, t[x].k) /\ p <= t[x].k /\ t[x].k < q + 1
  <2>1. CASE x = Len(s) + 1  BY <1>1, <1>f, <2>1
  <2>2. CASE x \in 1 .. Len(s)  BY <1>1, <1>2, <1>k, <2>2 DEF InOrder
  <2> QED  BY <1>1, <2>1, <2>2
<1>3. ASSUME NEW x \in 1 .. Len(t), NEW y \in 1 .. Len(t), t[x].type = "next", t[y].type = "next", x < y
      PROVE  t[x].k < t[y].k
  <2>1. x \in 1 .. Len(s)  BY <1>1, <1>3
  <2>2. CASE y \in 1 .. Len(s)  BY <1>1, <1>3, <2>1, <2>2 DEF InOrder
  <2>3. CASE y = Len(s) + 1  BY <1>1, <1>3, <1>f, <2>1, <2>3 DEF InOrder
  <2> QED  BY <1>1, <2>2, <2>3
<1>4. ASSUME NEW k \in p .. (q + 1) - 1 PROVE \E x \in 1 .. Len(t) : t[x].type = "next" /\ t[x].k = k
  <2>1. CASE k = q  BY <1>1, <1>f, <2>1
  <2>2. CASE k # q
    <3>1. k \in p .. q - 1  BY <2>2
    <3>2. PICK x \in 1 .. Len(s) : s[x].type = "next" /\ s[x].k = k  BY <3>1 DEF InOrder
    <3> QED  BY <1>1, <3>2
  <2> QED  BY <2>1, <2>2
<1>5. InOrder(t, m, p, q + 1)  BY <1>2, <1>3, <1>4 DEF InOrder
<1> QED  BY <1>5 DEF t, f

\* First frames, and rings without consecutive frames.
LEMMA TailFf ==
  ASSUME NEW s \in Seq(Frames), s # <<>>
  PROVE  /\ NoCf(s) => NoCf(Tail(s))
         /\ NoFf(s) => NoFf(Tail(s))
         /\ \A m, n : OneFf(s, m, n) =>
              /\ OneFf(Tail(s), m, n)
              /\ Head(s).type = "first" => Head(s).msg = m /\ Head(s).n = n /\ NoFf(Tail(s)) /\ ~NoFf(s)
         /\ Head(s).type = "next" => ~NoCf(s)
<1> DEFINE t == Tail(s)
<1>1. /\ \A x \in 1 .. Len(t) : x + 1 \in 1 .. Len(s) /\ t[x] = s[x + 1] /\ x + 1 # 1
      /\ Head(s) = s[1] /\ 1 \in 1 .. Len(s)
  BY InTail
<1> HIDE DEF t
<1>2. (NoCf(s) => NoCf(t)) /\ (NoFf(s) => NoFf(t))  BY <1>1 DEF NoCf, NoFf
<1>3. ASSUME NEW m, NEW n, OneFf(s, m, n)
      PROVE  /\ OneFf(t, m, n)
             /\ Head(s).type = "first" => Head(s).msg = m /\ Head(s).n = n /\ NoFf(t) /\ ~NoFf(s)
  <2>1. ASSUME NEW x \in 1 .. Len(t), NEW y \in 1 .. Len(t), t[x].type = "first", t[y].type = "first"
        PROVE  x = y
    <3>1. x + 1 = y + 1  BY <1>1, <1>3, <2>1 DEF OneFf
    <3> QED  BY <3>1
  <2>2. OneFf(t, m, n)  BY <1>1, <1>3, <2>1 DEF OneFf
  <2>3. Head(s).type = "first" => Head(s).msg = m /\ Head(s).n = n /\ ~NoFf(s)
    BY <1>1, <1>3 DEF OneFf, NoFf
  <2>4. Head(s).type = "first" => NoFf(t)
    BY <1>1, <1>3 DEF OneFf, NoFf
  <2> QED  BY <2>2, <2>3, <2>4
<1>4. Head(s).type = "next" => ~NoCf(s)  BY <1>1 DEF NoCf
<1> QED  BY <1>2, <1>3, <1>4 DEF t

LEMMA AppendFf ==
  ASSUME NEW s \in Seq(Frames), NEW f \in Frames
  PROVE  /\ NoCf(s) /\ f.type # "next" => NoCf(Append(s, f))
         /\ f.type # "first" => (NoFf(s) => NoFf(Append(s, f)))
         /\ f.type # "first" => \A m, n : OneFf(s, m, n) => OneFf(Append(s, f), m, n)
         /\ NoFf(s) => OneFf(Append(s, f), f.msg, f.n)
<1> DEFINE t == Append(s, f)
<1>1. /\ \A x \in 1 .. Len(s) : x \in 1 .. Len(t) /\ t[x] = s[x]
      /\ \A x \in 1 .. Len(t) : x \in 1 .. Len(s) \/ (x = Len(s) + 1 /\ t[x] = f)
  BY InAppend
<1> HIDE DEF t
<1>2. NoCf(s) /\ f.type # "next" => NoCf(t)  BY <1>1 DEF NoCf
<1>3. f.type # "first" => (NoFf(s) => NoFf(t))  BY <1>1 DEF NoFf
<1>4. f.type # "first" => \A m, n : OneFf(s, m, n) => OneFf(t, m, n)  BY <1>1 DEF OneFf
<1>5. NoFf(s) => OneFf(t, f.msg, f.n)  BY <1>1 DEF NoFf, OneFf
<1> QED  BY <1>2, <1>3, <1>4, <1>5 DEF t

\* Without first frames, whatever message the frames were of.
LEMMA NoFfAny == ASSUME NEW s, NoFf(s) PROVE \A m, n : OneFf(s, m, n)
  BY DEF NoFf, OneFf

LEMMA NoneLeft ==
  ASSUME NEW s \in Seq(Frames), NEW m, NEW p \in Nat, NEW q \in Nat, q <= p, InOrder(s, m, p, q)
  PROVE  NoCf(s)
<1> SUFFICES ASSUME NEW x \in 1 .. Len(s), s[x].type = "next" PROVE FALSE  BY DEF NoCf
<1>1. s[x].k \in Nat /\ p <= s[x].k /\ s[x].k < q  BY KNat DEF InOrder
<1> QED  BY <1>1

LEMMA EmptyOrder ==
  /\ NoCf(<<>>) /\ NoFf(<<>>)
  /\ \A s, m, p : NoCf(s) /\ p \in Nat => InOrder(s, m, p, p)
<1>1. NoCf(<<>>) /\ NoFf(<<>>)  BY DEF NoCf, NoFf
<1>2. ASSUME NEW s, NEW m, NEW p \in Nat, NoCf(s) PROVE InOrder(s, m, p, p)
  <2>1. p .. p - 1 = {}  OBVIOUS
  <2> QED  BY <1>2, <2>1 DEF NoCf, InOrder
<1> QED  BY <1>1, <1>2
-----------------------------------------------------------------------------
(* A mailbox of which nothing changes that matters *)

EcuSame(i) ==
  /\ ecu'[i].msg = ecu[i].msg /\ ecu'[i].len = ecu[i].len
  /\ ecu'[i].next = ecu[i].next /\ ecu'[i].credit = ecu[i].credit

\* Of the ring of mailbox i, what is said of its frames stays true.
RingLike(i) ==
  /\ NoCf(ring[i]) => NoCf(ring'[i])
  /\ NoFf(ring[i]) => NoFf(ring'[i])
  /\ \A m, n : OneFf(ring[i], m, n) => OneFf(ring'[i], m, n)
  /\ \A m : \A p, q \in Nat : InOrder(ring[i], m, p, q) => InOrder(ring'[i], m, p, q)

LEMMA MsgsUp == ASSUME IInv, msgs' \in {msgs, msgs + 1}, NEW m \in Nat, m <= msgs PROVE m <= msgs'
<1>1. msgs \in Nat  BY IsoConstants DEF IInv, EnvGood
<1> QED  BY <1>1

LEMMA EcuMsg == ASSUME IInv, NEW i \in Box
                PROVE  /\ ecu[i].msg \in Nat /\ ecu[i].len \in Nat /\ ecu[i].next \in Nat
                       /\ ecu[i].credit \in Nat /\ msgs \in Nat
<1>1. ecu[i].msg \in 0 .. MaxMsgs /\ ecu[i].len \in Nat /\ ecu[i].next \in Nat /\ ecu[i].credit \in Nat
  BY EcuParts DEF IInv
<1>2. msgs \in 0 .. MaxMsgs  BY DEF IInv, EnvGood
<1> QED  BY <1>1, <1>2, IsoConstants

LEMMA RingSame == ASSUME NEW i, ring'[i] = ring[i] PROVE RingLike(i)
  BY DEF RingLike

LEMMA RingTail ==
  ASSUME IInv, NEW i \in Box, ring[i] # <<>>, Head(ring[i]).type # "next", ring'[i] = Tail(ring[i])
  PROVE  RingLike(i)
<1>1. ring[i] \in Seq(Frames)  BY DEF IInv, RingGood
<1>2. \A m : \A p, q \in Nat : InOrder(ring[i], m, p, q) => InOrder(ring'[i], m, p, q)
  BY <1>1, TailOther
<1> QED  BY <1>1, <1>2, TailFf DEF RingLike

LEMMA RingAppend ==
  ASSUME IInv, NEW i \in Box, NEW f \in Frames, f.type \notin {"next", "first"},
         ring'[i] = Append(ring[i], f)
  PROVE  RingLike(i)
<1>1. ring[i] \in Seq(Frames)  BY DEF IInv, RingGood
<1>2. \A m : \A p, q \in Nat : InOrder(ring[i], m, p, q) => InOrder(ring'[i], m, p, q)
  BY <1>1, AppendOther
<1> QED  BY <1>1, <1>2, AppendFf DEF RingLike

\* The message that is received.
LEMMA RxTyped == ASSUME IInv PROVE /\ rx.parts \in Seq(Frames) /\ Len(rx.parts) \in Nat
                                   /\ isReceiving \in BOOLEAN /\ rx.box \in Box
                                   /\ rx.pos \in Nat /\ rx.size \in Nat
                                   /\ Len(rx.parts) > 0 => rx.parts[1] \in Frames /\ rx.parts[1].msg \in Nat
<1>1. rx \in Payload /\ isReceiving \in BOOLEAN  BY DEF IInv, RxGood
<1>2. rx.parts \in Seq(Frames)  BY <1>1 DEF Payload
<1>3. Len(rx.parts) > 0 => rx.parts[1] \in Frames  BY <1>2, ElementOfSeq, LenProperties
<1>4. Len(rx.parts) > 0 => rx.parts[1].msg \in Nat  BY <1>3, IsoConstants DEF Frames
<1> QED  BY <1>1, <1>2, <1>3, <1>4, LenProperties DEF Payload

LEMMA BoxKept ==
  ASSUME IInv, NEW i \in Box, BoxOK(i), EcuSame(i), RingLike(i), ~used'[i] => ring'[i] = <<>>,
         msgs' \in {msgs, msgs + 1},
         UNCHANGED <<isReceiving, rx>> \/ (~Cur(i) /\ ~Cur(i)')
  PROVE  BoxOK(i)'
<1>1. (Cur(i)' <=> Cur(i)) /\ (Grant(i)' <=> Grant(i)) /\ (Cur(i) => rx' = rx)
  BY DEF Cur, Grant, EcuSame
<1>2. ~Cur(i)' => NoCf(ring[i])'  BY <1>1 DEF BoxOK, RingLike
<1>3. ~Grant(i)' => ecu'[i].credit = 0 /\ ecu'[i].next = 1  BY <1>1 DEF BoxOK, EcuSame
<1>4. OneFf(ring[i], ecu[i].msg, ecu[i].len)'  BY DEF BoxOK, EcuSame, RingLike
<1>5. ~NoFf(ring[i])' => ~Grant(i)' /\ ecu'[i].msg # 0  BY <1>1 DEF BoxOK, EcuSame, RingLike
<1>6. ecu'[i].msg <= msgs'
  <2>1. ecu[i].msg \in Nat /\ ecu[i].msg <= msgs  BY EcuMsg DEF BoxOK
  <2> QED  BY <2>1, MsgsUp DEF EcuSame
<1>7. ASSUME Cur(i)'
      PROVE  \E q \in Nat :
               /\ Len(rx'.parts) <= q /\ q <= Cfs(rx'.parts[1].n) + 1
               /\ InOrder(ring'[i], rx'.parts[1].msg, Len(rx'.parts), q)
               /\ Grant(i)' => ecu'[i].next = q /\ ecu'[i].len = rx'.parts[1].n /\ q <= Cfs(rx'.parts[1].n)
  <2>1. Cur(i) /\ rx' = rx  BY <1>1, <1>7
  <2>2. PICK q \in Nat :
          /\ Len(rx.parts) <= q /\ q <= Cfs(rx.parts[1].n) + 1
          /\ InOrder(ring[i], rx.parts[1].msg, Len(rx.parts), q)
          /\ Grant(i) => ecu[i].next = q /\ ecu[i].len = rx.parts[1].n /\ q <= Cfs(rx.parts[1].n)
    BY <2>1 DEF BoxOK
  <2>3. InOrder(ring'[i], rx.parts[1].msg, Len(rx.parts), q)  BY <2>2, RxTyped DEF RingLike
  <2> QED  BY <1>1, <2>1, <2>2, <2>3 DEF EcuSame
<1> QED  BY <1>2, <1>3, <1>4, <1>5, <1>6, <1>7 DEF BoxOK

LEMMA RxKept ==
  ASSUME IInv, RxOK, msgs' \in {msgs, msgs + 1}, UNCHANGED <<isReceiving, rx>> PROVE RxOK'
<1> SUFFICES ASSUME isReceiving PROVE RxOK'  BY DEF RxOK
<1>1. rx.parts[1].msg \in Nat /\ rx.parts[1].msg <= msgs  BY RxTyped DEF RxOK
<1>2. rx.parts[1].msg <= msgs'  BY <1>1, MsgsUp
<1> QED  BY <1>2 DEF RxOK

\* Nothing is received, no ring changes: whatever else happens.
LEMMA NothingWhole == WholeMessage(NoRx)
  BY DEF WholeMessage, NoRx

LEMMA FaultsGrow == ASSUME IInv, [IsoNext]_vars PROVE faults \subseteq faults'
<1>1. CASE UNCHANGED vars  BY <1>1 DEF vars
<1>2. ASSUME NEW i \in Box, Handle(i) PROVE faults \subseteq faults'
  BY <1>2 DEF Handle, RxSingleFrame, SendFfIndication, FirstFrame, RxMultiFrame, HandleFc, IgnoreFc
<1>3. CASE TxMultiFrame \/ EndTurn \/ Tick
  BY <1>3 DEF TxMultiFrame, NextFrame, EcuTakesNext, EndTurn, Tick
<1>4. ASSUME NEW i \in Box, AddFilter(i) \/ RemoveFilter(i) \/ \E n \in SendLens : SendMsg(i, n)
      PROVE  faults \subseteq faults'
  BY <1>4 DEF AddFilter, RemoveFilter, SendMsg
<1>5. ASSUME NEW i \in Box, EcuSends(i) \/ EcuSingle(i) \/ \E n \in Lens : EcuFirst(i, n)
      PROVE  faults \subseteq faults'
  BY <1>5 DEF EcuSends, EcuNext, EcuFlow, EcuSingle, EcuFirst, Put
<1>6. ASSUME NEW i \in Box,
             \/ EcuGivesUp(i)
             \/ \E type \in {"flow", "wait"}, b \in EcuBlocks : EcuStray(i, type, b)
      PROVE  faults \subseteq faults'
  BY <1>6 DEF EcuGivesUp, EcuStray
<1>7. ASSUME NEW b \in AppBlocks, IoctlSet(b) PROVE faults \subseteq faults'
  BY <1>7 DEF IoctlSet
<1> QED  BY <1>1, <1>2, <1>3, <1>4, <1>5, <1>6, <1>7 DEF IsoNext, Turn
-----------------------------------------------------------------------------
(* The turn of the loop *)

LEMMA TakeWhole ==
  ASSUME IInv, NEW i \in Box, NEW type, Take(i, type)
  PROVE  /\ ring[i] \in Seq(Frames) /\ ring[i] # <<>> /\ Head(ring[i]).type = type
         /\ Head(ring[i]) \in Frames /\ ring'[i] = Tail(ring[i]) /\ used[i]
         /\ \A j \in Box \ {i} : ring'[j] = ring[j]
<1>1. ring \in [Box -> Seq(Frames)] /\ ring' = [ring EXCEPT ![i] = Tail(ring[i])]
  BY DEF IInv, RingGood, Take
<1>2. ring[i] # <<>> /\ Head(ring[i]).type = type /\ used[i]  BY DEF Take, Empty
<1>3. Head(ring[i]) \in Frames  BY <1>1, <1>2, HeadTailProperties
<1> QED  BY <1>1, <1>2, <1>3

\* A frame is taken that changes neither what is received nor an ECU.
LEMMA TakenWhole ==
  ASSUME IInv, WInv, NEW i \in Box, NEW type, type # "next", Take(i, type),
         UNCHANGED <<isReceiving, rx, ecu, used, msgs>>
  PROVE  WInv'
<1>1. RxOK'  BY RxKept DEF WInv
<1>2. ASSUME NEW j \in Box PROVE BoxOK(j)'
  <2>1. RingLike(j)
    <3>1. CASE j = i  BY <3>1, TakeWhole, RingTail
    <3>2. CASE j # i  BY <3>2, TakeWhole, RingSame
    <3> QED  BY <3>1, <3>2
  <2>2. ~used'[j] => ring'[j] = <<>>
    <3>1. ~used[j] => j # i /\ ring[j] = <<>>  BY TakeWhole DEF WInv, BoxOK
    <3> QED  BY <3>1, TakeWhole
  <2>3. EcuSame(j)  BY DEF EcuSame
  <2> QED  BY <2>1, <2>2, <2>3, BoxKept DEF WInv
<1> QED  BY <1>1, <1>2 DEF WInv

LEMMA SingleWhole ==
  ASSUME IInv, WInv, NEW i \in Box, RxSingleFrame(i) PROVE WInv' /\ WholeMessage(told')
<1>1. Take(i, "single") /\ UNCHANGED <<isReceiving, rx, ecu, used, msgs>>
  BY DEF RxSingleFrame, rxVars, cfgVars, envVars
<1>2. WInv'  BY <1>1, TakenWhole
<1>3. told'.parts = <<Head(ring[i])>> /\ Head(ring[i]).type = "single"
  BY <1>1, TakeWhole DEF RxSingleFrame
<1>4. told'.parts[1].type = "single"  BY <1>3
<1>5. WholeMessage(told')  BY <1>4 DEF WholeMessage
<1> QED  BY <1>2, <1>5

LEMMA FlowWhole ==
  ASSUME IInv, WInv, NEW i \in Box, HandleFc(i) \/ IgnoreFc(i) PROVE WInv' /\ WholeMessage(told')
<1>1. PICK type \in {"flow", "wait"} : Take(i, type)  BY DEF HandleFc, IgnoreFc
<1>2. UNCHANGED <<isReceiving, rx, ecu, used, msgs>> /\ told' = NoRx
  BY DEF HandleFc, IgnoreFc, rxVars, cfgVars, envVars
<1> QED  BY <1>1, <1>2, TakenWhole, NothingWhole

\* Flow control gives credit to an ECU that waits.
LEMMA FlowSame ==
  ASSUME IInv, NEW i \in Box, NEW b, EcuTakesFlow(i, b)
  PROVE  /\ \A j \in Box \ {i} : EcuSame(j)
         /\ ecu'[i].msg = ecu[i].msg /\ ecu'[i].len = ecu[i].len /\ ecu'[i].next = ecu[i].next
         /\ ~Waits(i) => EcuSame(i)
<1>1. ecu \in [Box -> EcuStates]  BY DEF IInv, EcuGood
<1>2. CASE ~Waits(i)  BY <1>2 DEF EcuTakesFlow, EcuSame
<1>3. CASE Waits(i)
  <2>1. PICK c : ecu' = [ecu EXCEPT ![i].credit = c]  BY <1>3 DEF EcuTakesFlow
  <2> QED  BY <1>1, <1>3, <2>1 DEF EcuSame, EcuStates
<1> QED  BY <1>2, <1>3

LEMMA CfsOne == ASSUME NEW n \in Nat, n >= 8 PROVE Cfs(n) >= 1 /\ Cfs(n) \in Nat
  BY DEF Cfs, CfBytes

\* A first frame is taken up: its ECU, and no other, may go on.
LEMMA FirstWhole ==
  ASSUME IInv, WInv, NEW i \in Box, SendFfIndication(i), Unmixed'
  PROVE  WInv' /\ WholeMessage(told')
<1> DEFINE f == Head(ring[i])
           b == Byte(blockSize)
<1>0. FirstFrame(i, flow[i] = 0 \/ isReceiving)  BY DEF SendFfIndication
<1>1. Take(i, "first") /\ told' = NoRx /\ UNCHANGED <<used, msgs>>
  BY <1>0 DEF FirstFrame, cfgVars, envVars
<1>2. /\ ring[i] \in Seq(Frames) /\ ring[i] # <<>> /\ f.type = "first" /\ f \in Frames
      /\ ring'[i] = Tail(ring[i]) /\ used[i] /\ \A j \in Box \ {i} : ring'[j] = ring[j]
  BY <1>1, TakeWhole
<1>t. WholeMessage(told')  BY <1>1, NothingWhole
<1>3. CASE UNCHANGED <<rxVars, ecu>>
  <2>1. UNCHANGED <<isReceiving, rx>>  BY <1>3 DEF rxVars
  <2> QED  BY <1>1, <1>3, <1>t, <2>1, TakenWhole
<1>4. CASE ~UNCHANGED <<rxVars, ecu>>
  <2>1. /\ ~isReceiving /\ isReceiving' = TRUE /\ EcuTakesFlow(i, b)
        /\ rx' = [box |-> i, size |-> FfSize(f.n), pos |-> IdBytes + FfBytes, parts |-> <<f>>]
        /\ faults' = faults \cup (IF Carries(f.n) THEN {"carry"} ELSE {})
                            \cup (IF b % RxBlock # 0 THEN {"block"} ELSE {})
    BY <1>0, <1>4 DEF FirstFrame
  <2>2. rx'.box = i /\ rx'.size = FfSize(f.n) /\ rx'.pos = 10 /\ Len(rx'.parts) = 1 /\ rx'.parts[1] = f
    BY <2>1, IsoConstants
  <2>3. /\ f.msg = ecu[i].msg /\ f.n = ecu[i].len /\ NoFf(Tail(ring[i])) /\ ~NoFf(ring[i])
    BY <1>2, TailFf DEF WInv, BoxOK
  <2>4. ecu[i].msg # 0 /\ ecu[i].msg <= msgs /\ ~Cur(i) /\ ~Grant(i) /\ ecu[i].credit = 0 /\ ecu[i].next = 1
    BY <2>1, <2>3 DEF WInv, BoxOK, Cur, Grant
  <2>5. NoCf(Tail(ring[i]))  BY <1>2, <2>4, TailFf DEF WInv, BoxOK
  <2>6. ~Carries(f.n)  BY <2>1 DEF Unmixed, Mixing
  <2>7. f.n \in Nat /\ f.n >= 8
    <3>1. f.n \in Lens  BY <1>2 DEF Frames
    <3> QED  BY <3>1, LensNat
  <2>8. RxOK'
    <3>1. rx'.size = f.n + IdBytes  BY <2>2, <2>6 DEF Carries
    <3>2. rx'.pos = IdBytes + FfBytes + CfBytes * (1 - 1)  BY <2>2, IsoConstants
    <3>3. \A k \in 1 .. 1 - 1 : FALSE  OBVIOUS
    <3>4. f.msg # 0 /\ f.msg <= msgs'  BY <1>1, <2>3, <2>4
    <3> QED  BY <1>2, <2>2, <3>1, <3>2, <3>3, <3>4 DEF RxOK
  <2>9. ASSUME NEW j \in Box, j # i PROVE BoxOK(j)'
    <3>1. EcuSame(j)  BY <2>1, <2>9, FlowSame
    <3>2. RingLike(j)  BY <1>2, <2>9, RingSame
    <3>3. ~Cur(j) /\ ~Cur(j)'  BY <2>1, <2>2, <2>9 DEF Cur
    <3>4. ~used'[j] => ring'[j] = <<>>  BY <1>1, <1>2, <2>9 DEF WInv, BoxOK
    <3> QED  BY <1>1, <3>1, <3>2, <3>3, <3>4, BoxKept DEF WInv
  <2>10. BoxOK(i)'
    <3>1. ecu'[i].msg = ecu[i].msg /\ ecu'[i].len = ecu[i].len /\ ecu'[i].next = ecu[i].next
      BY <2>1, FlowSame
    <3>2. Cur(i)' /\ Grant(i)'  BY <2>1, <2>2, <2>3, <3>1 DEF Cur, Grant
    <3>3. NoFf(ring'[i]) /\ OneFf(ring'[i], ecu'[i].msg, ecu'[i].len)  BY <1>2, <2>3, NoFfAny
    <3>4. InOrder(ring'[i], f.msg, 1, 1)  BY <1>2, <2>5, EmptyOrder
    <3>5. 1 <= Cfs(f.n) /\ 1 <= Cfs(f.n) + 1 /\ 1 \in Nat  BY <2>7, CfsOne
    <3>6. \E q \in Nat :
            /\ Len(rx'.parts) <= q /\ q <= Cfs(rx'.parts[1].n) + 1
            /\ InOrder(ring'[i], rx'.parts[1].msg, Len(rx'.parts), q)
            /\ Grant(i)' => ecu'[i].next = q /\ ecu'[i].len = rx'.parts[1].n /\ q <= Cfs(rx'.parts[1].n)
      BY <2>2, <2>3, <2>4, <3>1, <3>4, <3>5
    <3>7. used'[i] /\ ecu'[i].msg <= msgs'  BY <1>1, <1>2, <2>4, <3>1
    <3> QED  BY <3>2, <3>3, <3>6, <3>7 DEF BoxOK
  <2> QED  BY <1>t, <2>8, <2>9, <2>10 DEF WInv
<1> QED  BY <1>3, <1>4
\* With x bytes left of a message of n bytes, p of whose frames came.
LEMMA Counts ==
  ASSUME NEW n \in Nat, NEW p \in Nat, NEW x \in Int, x = n + 1 - 7 * p, x > 0
  PROVE  /\ CopyLen(x) = (IF x < 7 THEN x ELSE 7)
         /\ x <= 7 => p = Cfs(n)
         /\ x > 7 => p + 1 <= Cfs(n)
<1>1. CfBytes = 7  BY DEF CfBytes
<1>2. CopyLen(x) = (IF x < 7 THEN x ELSE 7)  BY <1>1 DEF CopyLen
<1>3. x <= 7 => p = n \div 7  OBVIOUS
<1>4. x > 7 => p + 1 <= n \div 7  OBVIOUS
<1> QED  BY <1>1, <1>2, <1>3, <1>4 DEF Cfs

\* A consecutive frame is the next of the message that is received.
LEMMA RxMultiWhole ==
  ASSUME IInv, WInv, NEW i \in Box, RxMultiFrame(i), Unmixed'
  PROVE  WInv' /\ WholeMessage(told')
<1> DEFINE f     == Head(ring[i])
           first == rx.parts[1]
           p     == Len(rx.parts)
           x     == rx.size - rx.pos
           more  == [rx EXCEPT !.pos = @ + CopyLen(rx.size - rx.pos), !.parts = Append(@, Head(ring[i]))]
           b     == Byte(txBlock)
<1>1. Take(i, "next") /\ UNCHANGED <<used, msgs>>  BY DEF RxMultiFrame, cfgVars, envVars
<1>2. /\ ring[i] \in Seq(Frames) /\ ring[i] # <<>> /\ f.type = "next" /\ f \in Frames
      /\ ring'[i] = Tail(ring[i]) /\ used[i] /\ \A j \in Box \ {i} : ring'[j] = ring[j]
  BY <1>1, TakeWhole
<1>3. Cur(i) /\ isReceiving /\ rx.box = i  BY <1>2, TailFf DEF WInv, BoxOK, Cur
<1>4. /\ p \in Nat /\ p > 0 /\ first \in Frames /\ first.type = "first" /\ first.msg # 0
      /\ first.msg <= msgs /\ rx.size = first.n + 4 /\ rx.pos = 10 + 7 * (p - 1)
      /\ \A k \in 1 .. p - 1 : rx.parts[k + 1] = Frame("next", first.msg, 0, k)
      /\ rx.parts \in Seq(Frames) /\ rx.pos \in Nat /\ rx.size \in Nat
  BY <1>3, RxTyped, IsoConstants DEF WInv, RxOK
<1>5. first.n \in Nat /\ first.n >= 8
  <2>1. first.n \in Lens  BY <1>4 DEF Frames
  <2> QED  BY <2>1, LensNat
<1>6. PICK q \in Nat :
        /\ p <= q /\ q <= Cfs(first.n) + 1 /\ InOrder(ring[i], first.msg, p, q)
        /\ Grant(i) => ecu[i].next = q /\ ecu[i].len = first.n /\ q <= Cfs(first.n)
  BY <1>3 DEF WInv, BoxOK
<1>7. f = Frame("next", first.msg, 0, p) /\ p < q /\ InOrder(ring'[i], first.msg, p + 1, q)
  BY <1>2, <1>4, <1>6, TailCf
<1>8. /\ more.box = i /\ more.size = rx.size /\ more.pos = rx.pos + CopyLen(x)
      /\ more.parts = Append(rx.parts, f)
  <2>1. rx \in Payload  BY DEF IInv, RxGood
  <2> QED  BY <1>3, <2>1 DEF Payload
<1>9. /\ Len(more.parts) = p + 1 /\ more.parts[p + 1] = f
      /\ \A k \in 1 .. p : more.parts[k] = rx.parts[k]
  BY <1>2, <1>4, <1>8, InAppend
<1>10. /\ more.parts[1] = first /\ more.parts # <<>>
       /\ \A k \in 1 .. p : more.parts[k + 1] = Frame("next", first.msg, 0, k)
  <2>1. more.parts[1] = first  BY <1>4, <1>9
  <2>2. ASSUME NEW k \in 1 .. p PROVE more.parts[k + 1] = Frame("next", first.msg, 0, k)
    <3>1. CASE k = p  BY <1>7, <1>9, <3>1
    <3>2. CASE k # p
      <4>1. k \in 1 .. p - 1 /\ k + 1 \in 1 .. p  BY <1>4, <3>2
      <4> QED  BY <1>4, <1>9, <4>1
    <3> QED  BY <3>1, <3>2
  <2>3. Len(more.parts) # 0  BY <1>4, <1>9
  <2> QED  BY <2>1, <2>2, <2>3
<1>11. /\ x \in Int /\ x = first.n + 1 - 7 * p /\ x > 0
  <2>1. rx.pos < rx.size  BY <1>3 DEF IInv, RxGood
  <2> QED  BY <1>4, <1>5, <2>1
<1>12. /\ CopyLen(x) = (IF x < 7 THEN x ELSE 7)
       /\ x <= 7 => p = Cfs(first.n)
       /\ x > 7 => p + 1 <= Cfs(first.n)
  BY <1>4, <1>5, <1>11, Counts
<1>13. more.pos >= rx.size <=> x <= 7
  <2>1. x = rx.size - rx.pos  OBVIOUS
  <2> HIDE DEF x
  <2> QED  BY <1>4, <1>8, <1>11, <1>12, <2>1
<1>o. OneFf(ring'[i], ecu[i].msg, ecu[i].len) /\ (~NoFf(ring'[i]) => ~Grant(i) /\ ecu[i].msg # 0)
  BY <1>2, TailFf DEF WInv, BoxOK
<1>m. ecu[i].msg <= msgs  BY DEF WInv, BoxOK
<1>j. ASSUME NEW j \in Box, j # i, EcuSame(j), ~Cur(j)' PROVE BoxOK(j)'
  <2>1. RingLike(j)  BY <1>2, <1>j, RingSame
  <2>2. ~Cur(j)  BY <1>3, <1>j DEF Cur
  <2>3. ~used'[j] => ring'[j] = <<>>  BY <1>1, <1>2, <1>j DEF WInv, BoxOK
  <2> QED  BY <1>1, <1>j, <2>1, <2>2, <2>3, BoxKept DEF WInv
<1> HIDE DEF more, p, first, x, b, f
<1>14. CASE x <= 7
  <2>1. told' = more /\ isReceiving' = FALSE /\ ecu' = ecu
    BY <1>3, <1>13, <1>14 DEF RxMultiFrame, more, b
  <2>2. p = Cfs(first.n)  BY <1>12, <1>14
  <2>3. WholeMessage(told')
    <3>1. more.size = first.n + IdBytes  BY <1>4, <1>8, IsoConstants
    <3> QED  BY <1>4, <1>9, <1>10, <2>1, <2>2, <3>1 DEF WholeMessage
  <2>4. ~Grant(i)  BY <1>4, <1>6, <1>7, <2>2
  <2>5. NoCf(ring'[i])
    <3>1. q <= p + 1 /\ p + 1 \in Nat  BY <1>4, <1>6, <2>2
    <3>2. ring'[i] \in Seq(Frames)  BY <1>2, InTail
    <3> QED  BY <1>7, <3>1, <3>2, NoneLeft
  <2>6. ~Cur(i)' /\ ~Grant(i)' /\ \A j \in Box : ~Cur(j)'  BY <2>1 DEF Cur, Grant
  <2>7. BoxOK(i)'
    <3>1. ecu[i].credit = 0 /\ ecu[i].next = 1  BY <2>4 DEF WInv, BoxOK
    <3> QED  BY <1>1, <1>2, <1>o, <1>m, <2>1, <2>5, <2>6, <3>1 DEF BoxOK
  <2>8. \A j \in Box : EcuSame(j)  BY <2>1 DEF EcuSame
  <2>9. RxOK'  BY <2>1 DEF RxOK
  <2> QED  BY <1>j, <2>3, <2>6, <2>7, <2>8, <2>9 DEF WInv
<1>15. CASE x > 7
  <2>1. /\ rx' = more /\ isReceiving' = isReceiving /\ told' = NoRx
        /\ \/ ecu' = ecu
           \/ EcuTakesFlow(i, b) /\ (WaitsForNext(i) => "astray" \in faults')
    <3>1. ~(more.pos >= rx.size)  BY <1>11, <1>13, <1>15
    <3> QED  BY <1>3, <3>1 DEF RxMultiFrame, more, b, rxVars
  <2>2. p + 1 <= Cfs(first.n)  BY <1>12, <1>15
  <2>3. \A j \in Box \ {i} : EcuSame(j)
    <3>1. CASE ecu' = ecu  BY <3>1 DEF EcuSame
    <3>2. CASE EcuTakesFlow(i, b)  BY <3>2, FlowSame
    <3> QED  BY <2>1, <3>1, <3>2
  <2>4. /\ ecu'[i].msg = ecu[i].msg /\ ecu'[i].len = ecu[i].len /\ ecu'[i].next = ecu[i].next
        /\ ~Grant(i) => ecu'[i].credit = ecu[i].credit
    <3>1. CASE ecu' = ecu  BY <3>1
    <3>2. CASE EcuTakesFlow(i, b)
      <4>1. "astray" \notin faults'  BY DEF Unmixed, Mixing
      <4>2. ~Grant(i) /\ ecu' # ecu => ~Waits(i)
        BY <1>3, <2>1, <4>1 DEF WaitsForNext, Grant
      <4> QED  BY <3>2, <4>2, FlowSame DEF EcuSame
    <3> QED  BY <2>1, <3>1, <3>2
  <2>5. Cur(i)' /\ rx'.parts[1] = first /\ Len(rx'.parts) = p + 1 /\ (Grant(i)' <=> Grant(i))
    BY <1>3, <1>8, <1>9, <1>10, <2>1, <2>4 DEF Cur, Grant, first
  <2>6. RxOK'
    <3>1. rx'.pos = IdBytes + FfBytes + CfBytes * ((p + 1) - 1)
      <4>1. ~(x < 7)  BY <1>11, <1>15
      <4>2. rx'.pos = rx.pos + 7  BY <1>8, <1>12, <2>1, <4>1
      <4> QED  BY <1>4, <4>2, IsoConstants
    <3>2. \A k \in 1 .. (p + 1) - 1 : more.parts[k + 1] = Frame("next", first.msg, 0, k)
      BY <1>4, <1>10
    <3>3. rx'.size = first.n + IdBytes  BY <1>4, <1>8, <2>1, IsoConstants
    <3> QED  BY <1>1, <1>4, <2>1, <2>5, <3>1, <3>2, <3>3 DEF RxOK
  <2>7. BoxOK(i)'
    <3>1. ~Grant(i)' => ecu'[i].credit = 0 /\ ecu'[i].next = 1  BY <2>4, <2>5 DEF WInv, BoxOK
    <3>2. OneFf(ring'[i], ecu'[i].msg, ecu'[i].len)
          /\ (~NoFf(ring'[i]) => ~Grant(i)' /\ ecu'[i].msg # 0)
      BY <1>o, <2>4, <2>5
    <3>3. p + 1 <= q  BY <1>4, <1>7
    <3>4. \E r \in Nat :
            /\ Len(rx'.parts) <= r /\ r <= Cfs(rx'.parts[1].n) + 1
            /\ InOrder(ring'[i], rx'.parts[1].msg, Len(rx'.parts), r)
            /\ Grant(i)' => ecu'[i].next = r /\ ecu'[i].len = rx'.parts[1].n /\ r <= Cfs(rx'.parts[1].n)
      BY <1>6, <1>7, <2>4, <2>5, <3>3
    <3>5. used'[i] /\ ecu'[i].msg <= msgs'  BY <1>1, <1>2, <1>m, <2>4
    <3> QED  BY <2>5, <3>1, <3>2, <3>4, <3>5 DEF BoxOK
  <2>8. \A j \in Box \ {i} : ~Cur(j)'  BY <2>5 DEF Cur
  <2> QED  BY <1>j, <2>1, <2>3, <2>6, <2>7, <2>8, NothingWhole DEF WInv
<1> QED  BY <1>11, <1>14, <1>15
-----------------------------------------------------------------------------
(* Everything else *)

\* Steps that touch no ring and nothing that is received.
LEMMA QuietWhole ==
  ASSUME IInv, WInv, UNCHANGED <<isReceiving, rx, ring, used, msgs>>, \A j \in Box : EcuSame(j)
  PROVE  WInv'
<1>1. RxOK'  BY RxKept DEF WInv
<1>2. ASSUME NEW j \in Box PROVE BoxOK(j)'
  <2>1. RingLike(j)  BY RingSame
  <2>2. ~used'[j] => ring'[j] = <<>>  BY DEF WInv, BoxOK
  <2> QED  BY <2>1, <2>2, BoxKept DEF WInv
<1> QED  BY <1>1, <1>2 DEF WInv

\* What an ECU hears of the device's message says nothing of its own.
LEMMA HeardSame ==
  ASSUME IInv, NEW i \in Box,
         (\E n : EcuTakesFirst(i, n)) \/ (\E s : EcuTakesNext(i, s)) \/ ecu' = ecu
  PROVE  \A j \in Box : EcuSame(j)
<1>1. ecu \in [Box -> EcuStates] /\ ecu[i] \in EcuStates  BY DEF IInv, EcuGood
<1>2. CASE ecu' = ecu  BY <1>2 DEF EcuSame
<1>3. ASSUME NEW n, EcuTakesFirst(i, n) PROVE \A j \in Box : EcuSame(j)
  BY <1>1, <1>3 DEF EcuTakesFirst, EcuSame, EcuStates
<1>4. ASSUME NEW s, EcuTakesNext(i, s) PROVE \A j \in Box : EcuSame(j)
  <2> DEFINE old  == ecu[i]
             left == IF s = old.sn /\ old.grant > 0 THEN old.want - AtMost(CfBytes, old.want) ELSE 0
             done == [old EXCEPT !.want = 0, !.sn = 1 % SnMod, !.grant = 0, !.owes = FALSE]
             more == [old EXCEPT !.want = left, !.sn = (@ + 1) % SnMod, !.grant = @ - 1,
                                 !.owes = old.grant = 1]
             e    == IF old.want = 0 THEN old ELSE IF left = 0 THEN done ELSE more
  <2>1. ecu' = [ecu EXCEPT ![i] = e]  BY <1>4 DEF EcuTakesNext
  <2>2. /\ e.msg = ecu[i].msg /\ e.len = ecu[i].len /\ e.next = ecu[i].next
        /\ e.credit = ecu[i].credit
    <3> HIDE DEF left
    <3> QED  BY <1>1 DEF EcuStates
  <2> HIDE DEF e
  <2> QED  BY <1>1, <2>1, <2>2 DEF EcuSame
<1> QED  BY <1>2, <1>3, <1>4

LEMMA TxWhole ==
  ASSUME IInv, WInv,
         \/ TxMultiFrame \/ EndTurn \/ Tick \/ \E b \in AppBlocks : IoctlSet(b)
         \/ \E i \in Box, n \in SendLens : SendMsg(i, n)
  PROVE  WInv' /\ WholeMessage(told')
<1>1. UNCHANGED <<isReceiving, rx, ring, used, msgs>> /\ told' = NoRx
  BY DEF TxMultiFrame, NextFrame, EndTurn, Tick, IoctlSet, SendMsg, rxVars, cfgVars, envVars
<1>2. \A j \in Box : EcuSame(j)
  <2>1. CASE TxMultiFrame
    <3>1. tx.box \in Box  BY DEF IInv, TxGood
    <3>2. EcuTakesNext(tx.box, sn)  BY <2>1 DEF TxMultiFrame, NextFrame
    <3> QED  BY <3>1, <3>2, HeardSame
  <2>2. CASE EndTurn \/ Tick \/ \E b \in AppBlocks : IoctlSet(b)
    BY <2>2 DEF EndTurn, Tick, IoctlSet, EcuSame
  <2>3. ASSUME NEW i \in Box, NEW n \in SendLens, SendMsg(i, n) PROVE \A j \in Box : EcuSame(j)
    BY <2>3, HeardSame DEF SendMsg
  <2> QED  BY <2>1, <2>2, <2>3
<1> QED  BY <1>1, <1>2, QuietWhole, NothingWhole

LEMMA FilterWhole ==
  ASSUME IInv, WInv, NEW i \in Box, AddFilter(i) \/ RemoveFilter(i), Unmixed'
  PROVE  WInv' /\ WholeMessage(told')
<1>1. /\ told' = NoRx /\ msgs' = msgs /\ ecu' = ecu /\ ring'[i] = <<>>
      /\ \A j \in Box \ {i} : ring'[j] = ring[j] /\ used'[j] = used[j]
  BY DEF AddFilter, RemoveFilter, envVars, IInv, RingGood, CfgGood
<1>2. UNCHANGED <<isReceiving, rx>> \/ (~isReceiving /\ ~isReceiving')
  BY DEF AddFilter, RemoveFilter, rxVars, Unmixed, Mixing
<1>3. RxOK'
  <2>1. CASE UNCHANGED <<isReceiving, rx>>  BY <1>1, <2>1, RxKept DEF WInv
  <2>2. CASE ~isReceiving'  BY <2>2 DEF RxOK
  <2> QED  BY <1>2, <2>1, <2>2
<1>4. UNCHANGED <<isReceiving, rx>> \/ \A j \in Box : ~Cur(j) /\ ~Cur(j)'  BY <1>2 DEF Cur
<1>5. ASSUME NEW j \in Box, j # i PROVE BoxOK(j)'
  <2>1. RingLike(j) /\ EcuSame(j)  BY <1>1, <1>5, RingSame DEF EcuSame
  <2>2. ~used'[j] => ring'[j] = <<>>  BY <1>1, <1>5 DEF WInv, BoxOK
  <2> QED  BY <1>1, <1>4, <2>1, <2>2, BoxKept DEF WInv
<1>6. BoxOK(i)'
  <2>1. CASE AddFilter(i)
    <3>1. ring[i] = <<>>  BY <2>1 DEF AddFilter, WInv, BoxOK
    <3>2. RingLike(i) /\ EcuSame(i)  BY <1>1, <3>1, RingSame DEF EcuSame
    <3> QED  BY <1>1, <1>4, <3>2, BoxKept DEF WInv
  <2>2. CASE RemoveFilter(i)
    <3>1. ~isReceiving /\ ~isReceiving'  BY <2>2 DEF RemoveFilter, Unmixed, Mixing
    <3>2. ~Cur(i)' /\ ~Grant(i)' /\ ~Grant(i)  BY <3>1 DEF Cur, Grant
    <3>3. NoCf(ring'[i]) /\ NoFf(ring'[i])  BY <1>1, EmptyOrder
    <3>4. OneFf(ring'[i], ecu'[i].msg, ecu'[i].len)  BY <3>3, NoFfAny
    <3>5. ecu'[i].credit = 0 /\ ecu'[i].next = 1 /\ ecu'[i].msg <= msgs'
      BY <1>1, <3>2 DEF WInv, BoxOK
    <3> QED  BY <1>1, <3>2, <3>3, <3>4, <3>5 DEF BoxOK
  <2> QED  BY <2>1, <2>2
<1> QED  BY <1>1, <1>3, <1>5, <1>6, NothingWhole DEF WInv

\* A step of the ECU of one mailbox.
LEMMA OthersWhole ==
  ASSUME IInv, WInv, NEW i \in Box, UNCHANGED <<isReceiving, rx, used>>, msgs' \in {msgs, msgs + 1},
         \A j \in Box \ {i} : ring'[j] = ring[j] /\ EcuSame(j), BoxOK(i)'
  PROVE  WInv'
<1>1. RxOK'  BY RxKept DEF WInv
<1>2. ASSUME NEW j \in Box, j # i PROVE BoxOK(j)'
  <2>1. RingLike(j) /\ EcuSame(j)  BY <1>2, RingSame
  <2>2. ~used'[j] => ring'[j] = <<>>  BY <1>2 DEF WInv, BoxOK
  <2> QED  BY <2>1, <2>2, BoxKept DEF WInv
<1> QED  BY <1>1, <1>2 DEF WInv

LEMMA PutRing ==
  ASSUME IInv, WInv, NEW i \in Box, NEW f \in Frames, Put(i, f), used' = used
  PROVE  /\ \A j \in Box \ {i} : ring'[j] = ring[j]
         /\ ring[i] \in Seq(Frames)
         /\ ring'[i] = ring[i] \/ ring'[i] = Append(ring[i], f)
         /\ ~used'[i] => ring'[i] = <<>>
         /\ f.type = "next" /\ Unmixed' => ring'[i] = Append(ring[i], f)
<1>1. ring \in [Box -> Seq(Frames)]  BY DEF IInv, RingGood
<1>2. CASE Arrives(i) /\ ring' = [ring EXCEPT ![i] = Append(@, f)]
  BY <1>1, <1>2 DEF Arrives
<1>3. CASE /\ ring' = ring
           /\ faults' = IF f.type \in {"next", "flow"} THEN faults \cup {"lost"} ELSE faults
  BY <1>1, <1>3 DEF WInv, BoxOK, Unmixed, Mixing
<1> QED  BY <1>2, <1>3 DEF Put

LEMMA PutWhole ==
  ASSUME IInv, WInv, NEW i \in Box, NEW f \in Frames, f.type \notin {"next", "first"},
         Put(i, f) \/ (Arrives(i) /\ ring' = [ring EXCEPT ![i] = Append(@, f)]),
         UNCHANGED <<isReceiving, rx, used>>, msgs' \in {msgs, msgs + 1}, \A j \in Box : EcuSame(j)
  PROVE  WInv'
<1>1. /\ \A j \in Box \ {i} : ring'[j] = ring[j]
      /\ ring'[i] = ring[i] \/ ring'[i] = Append(ring[i], f)
      /\ ~used'[i] => ring'[i] = <<>>
  <2>1. CASE Put(i, f)  BY <2>1, PutRing
  <2>2. CASE Arrives(i) /\ ring' = [ring EXCEPT ![i] = Append(@, f)]
    BY <2>2 DEF Arrives, IInv, RingGood
  <2> QED  BY <2>1, <2>2
<1>2. RingLike(i)  BY <1>1, RingSame, RingAppend
<1>3. BoxOK(i)'  BY <1>1, <1>2, BoxKept DEF WInv
<1> QED  BY <1>1, <1>3, OthersWhole
LEMMA EcuOtherWhole ==
  ASSUME IInv, WInv, NEW i \in Box,
         \/ EcuSingle(i) \/ \E b \in EcuBlocks : EcuFlow(i, b)
         \/ \E type \in {"flow", "wait"}, b \in EcuBlocks : EcuStray(i, type, b)
  PROVE  WInv' /\ WholeMessage(told')
<1>1. UNCHANGED <<isReceiving, rx, used>> /\ told' = NoRx /\ msgs' \in {msgs, msgs + 1}
  BY DEF EcuSingle, EcuFlow, EcuStray, Device, rxVars, cfgVars, envVars
<1>2. \A j \in Box : EcuSame(j)
  <2>1. CASE ecu' = ecu  BY <2>1 DEF EcuSame
  <2>2. ASSUME NEW b \in EcuBlocks, EcuFlow(i, b) PROVE \A j \in Box : EcuSame(j)
    <3>1. PICK g : ecu' = [ecu EXCEPT ![i] = [@ EXCEPT !.owes = FALSE, !.grant = g]]
      BY <2>2 DEF EcuFlow
    <3> QED  BY <3>1 DEF EcuSame, IInv, EcuGood, EcuStates
  <2> QED  BY <2>1, <2>2 DEF EcuSingle, EcuStray
<1>3. CASE EcuSingle(i)
  <2>1. Frame("single", msgs + 1, CfBytes, 0) \in Frames
    BY <1>3, IsoConstants DEF EcuSingle, IInv, EnvGood, Frame, Frames
  <2>2. Frame("single", msgs + 1, CfBytes, 0).type = "single"  BY DEF Frame
  <2>3. Put(i, Frame("single", msgs + 1, CfBytes, 0))  BY <1>3 DEF EcuSingle
  <2> QED  BY <1>1, <1>2, <2>1, <2>2, <2>3, PutWhole, NothingWhole
<1>4. ASSUME NEW type \in {"flow", "wait"}, NEW b \in EcuBlocks,
             \/ Put(i, Frame(type, 0, b, 0))
             \/ Arrives(i) /\ ring' = [ring EXCEPT ![i] = Append(@, Frame(type, 0, b, 0))]
      PROVE  WInv'
  <2>1. Frame(type, 0, b, 0) \in Frames  BY BlocksNat, IsoConstants DEF Frame, Frames
  <2>2. Frame(type, 0, b, 0).type = type  BY DEF Frame
  <2> QED  BY <1>1, <1>2, <1>4, <2>1, <2>2, PutWhole
<1> QED  BY <1>1, <1>3, <1>4, NothingWhole DEF EcuFlow, EcuStray

\* An ECU begins a message: it is another than the one being received.
LEMMA EcuFirstWhole ==
  ASSUME IInv, WInv, NEW i \in Box, NEW n \in Lens, EcuFirst(i, n)
  PROVE  WInv' /\ WholeMessage(told')
<1> DEFINE f == Frame("first", msgs + 1, n, 0)
<1>1. /\ UNCHANGED <<isReceiving, rx, used>> /\ told' = NoRx /\ msgs' = msgs + 1 /\ Put(i, f)
      /\ ecu[i].msg = 0
  BY DEF EcuFirst, Device, rxVars, cfgVars
<1>2. /\ \A j \in Box \ {i} : EcuSame(j)
      /\ ecu'[i].msg = msgs + 1 /\ ecu'[i].len = n /\ ecu'[i].next = 1 /\ ecu'[i].credit = 0
  BY DEF EcuFirst, EcuSame, IInv, EcuGood, EcuStates
<1>3. f \in Frames /\ f.type = "first" /\ f.msg = msgs + 1 /\ f.n = n
  BY IsoConstants DEF EcuFirst, IInv, EnvGood, Frame, Frames
<1> HIDE DEF f
<1>4. /\ \A j \in Box \ {i} : ring'[j] = ring[j]
      /\ ring[i] \in Seq(Frames)
      /\ ring'[i] = ring[i] \/ ring'[i] = Append(ring[i], f)
      /\ ~used'[i] => ring'[i] = <<>>
  BY <1>1, <1>3, PutRing
<1>5. NoFf(ring[i])  BY <1>1 DEF WInv, BoxOK
<1>6. Cur(i)' <=> Cur(i)  BY <1>1 DEF Cur
<1>7. ~Grant(i) /\ ~Grant(i)'
  <2>1. Cur(i) => rx.parts[1].msg \in Nat /\ rx.parts[1].msg # 0 /\ rx.parts[1].msg <= msgs
    BY RxTyped DEF WInv, RxOK, Cur
  <2>2. Cur(i) => rx.parts[1].msg # msgs + 1  BY <2>1, EcuMsg
  <2> QED  BY <1>1, <1>2, <1>6, <2>1, <2>2 DEF Grant
<1>8. BoxOK(i)'
  <2>1. ~Cur(i)' => NoCf(ring'[i])  BY <1>3, <1>4, <1>6, AppendFf DEF WInv, BoxOK
  <2>2. OneFf(ring'[i], msgs + 1, n)
    <3>1. CASE ring'[i] = ring[i]  BY <1>5, <3>1, NoFfAny
    <3>2. CASE ring'[i] = Append(ring[i], f)  BY <1>3, <1>4, <1>5, <3>2, AppendFf
    <3> QED  BY <1>4, <3>1, <3>2
  <2>3. ecu'[i].msg # 0 /\ ecu'[i].msg <= msgs'  BY <1>1, <1>2, EcuMsg
  <2>4. ASSUME Cur(i)'
        PROVE  \E q \in Nat :
                 /\ Len(rx'.parts) <= q /\ q <= Cfs(rx'.parts[1].n) + 1
                 /\ InOrder(ring'[i], rx'.parts[1].msg, Len(rx'.parts), q)
    <3>1. PICK q \in Nat :
            /\ Len(rx.parts) <= q /\ q <= Cfs(rx.parts[1].n) + 1
            /\ InOrder(ring[i], rx.parts[1].msg, Len(rx.parts), q)
      BY <1>6, <2>4 DEF WInv, BoxOK
    <3>2. InOrder(ring'[i], rx.parts[1].msg, Len(rx.parts), q)
      BY <1>3, <1>4, <3>1, RxTyped, AppendOther
    <3> QED  BY <1>1, <3>1, <3>2
  <2> QED  BY <1>2, <1>4, <1>7, <2>1, <2>2, <2>3, <2>4 DEF BoxOK
<1> QED  BY <1>1, <1>2, <1>4, <1>8, OthersWhole, NothingWhole

\* An ECU sends the next frame of the message that is received.
LEMMA EcuNextWhole ==
  ASSUME IInv, WInv, NEW i \in Box, EcuNext(i), Unmixed'
  PROVE  WInv' /\ WholeMessage(told')
<1> DEFINE e == ecu[i]
           f == Frame("next", e.msg, 0, e.next)
           first == rx.parts[1]
<1>1. /\ UNCHANGED <<isReceiving, rx, used, msgs>> /\ told' = NoRx /\ Put(i, f)
      /\ e.msg # 0 /\ e.credit > 0
  BY DEF EcuNext, Device, rxVars, cfgVars, envVars
<1>2. f \in Frames /\ f.type = "next"  BY EcuParts DEF IInv, Frame, Frames
<1>3. /\ \A j \in Box \ {i} : ring'[j] = ring[j]
      /\ ring[i] \in Seq(Frames) /\ ring'[i] = Append(ring[i], f)
      /\ ~used'[i] => ring'[i] = <<>>
  <2> HIDE DEF f
  <2> QED  BY <1>1, <1>2, PutRing
<1>4. Grant(i) /\ Cur(i) /\ first.msg = e.msg
  BY <1>1 DEF WInv, BoxOK, Grant
<1>5. PICK q \in Nat :
        /\ Len(rx.parts) <= q /\ q <= Cfs(first.n) + 1
        /\ InOrder(ring[i], first.msg, Len(rx.parts), q)
        /\ e.next = q /\ e.len = first.n /\ q <= Cfs(first.n)
  BY <1>4 DEF WInv, BoxOK
<1>6. InOrder(ring'[i], first.msg, Len(rx.parts), q + 1)
  BY <1>2, <1>3, <1>4, <1>5, RxTyped, AppendCf
<1>7. NoFf(ring'[i])
  <2>1. NoFf(ring[i])  BY <1>4 DEF WInv, BoxOK
  <2> HIDE DEF f
  <2> QED  BY <1>2, <1>3, <2>1, AppendFf
<1>8. \A j \in Box \ {i} : EcuSame(j)
  BY DEF EcuNext, EcuSame, IInv, EcuGood
<1>9. /\ e.next = Cfs(e.len) => ecu'[i].msg = 0 /\ ecu'[i].next = 1 /\ ecu'[i].credit = 0
      /\ e.next # Cfs(e.len) => ecu'[i].msg = e.msg /\ ecu'[i].len = e.len /\ ecu'[i].next = e.next + 1
  BY DEF EcuNext, IInv, EcuGood, EcuStates
<1> HIDE DEF e, f
<1>10. Cfs(first.n) \in Nat
  <2>1. isReceiving  BY <1>4 DEF Cur
  <2>2. first \in Frames /\ first.type = "first"  BY <2>1, RxTyped DEF WInv, RxOK
  <2>3. first.n \in Lens  BY <2>2 DEF Frames
  <2> QED  BY <2>3, LensNat, CfsNat
<1> HIDE DEF first
<1>11. Cur(i)' /\ rx' = rx  BY <1>1, <1>4 DEF Cur
<1>12. Grant(i)' <=> e.next # Cfs(e.len)
  BY <1>1, <1>4, <1>9, <1>11 DEF Grant, first
<1>13. ecu'[i].msg <= msgs'
  <2>1. e.msg <= msgs /\ msgs \in Nat  BY EcuMsg DEF WInv, BoxOK, e
  <2> QED  BY <1>1, <1>9, <2>1
<1>14. q + 1 <= Cfs(first.n) + 1 /\ Len(rx.parts) <= q + 1
  BY <1>5, <1>10, RxTyped
<1>15. Grant(i)' => ecu'[i].next = q + 1 /\ ecu'[i].len = first.n /\ q + 1 <= Cfs(first.n)
  BY <1>5, <1>9, <1>10, <1>12
<1>16. BoxOK(i)'
  <2>1. OneFf(ring'[i], ecu'[i].msg, ecu'[i].len)  BY <1>7, NoFfAny
  <2>2. ~Grant(i)' => ecu'[i].credit = 0 /\ ecu'[i].next = 1  BY <1>9, <1>12
  <2>3. q + 1 \in Nat  OBVIOUS
  <2>4. \E r \in Nat :
          /\ Len(rx'.parts) <= r /\ r <= Cfs(rx'.parts[1].n) + 1
          /\ InOrder(ring'[i], rx'.parts[1].msg, Len(rx'.parts), r)
          /\ Grant(i)' => ecu'[i].next = r /\ ecu'[i].len = rx'.parts[1].n /\ r <= Cfs(rx'.parts[1].n)
    BY <1>6, <1>11, <1>14, <1>15, <2>3 DEF first
  <2> QED  BY <1>3, <1>7, <1>11, <1>13, <2>1, <2>2, <2>4 DEF BoxOK
<1> QED  BY <1>1, <1>3, <1>8, <1>16, OthersWhole, NothingWhole

\* An ECU gives its message up: nothing of it waits any more.
LEMMA EcuGivesUpWhole ==
  ASSUME IInv, WInv, NEW i \in Box, EcuGivesUp(i)
  PROVE  WInv' /\ WholeMessage(told')
<1>1. /\ UNCHANGED <<isReceiving, rx, used, msgs, ring>> /\ told' = NoRx /\ Waits(i) /\ Settled
  BY DEF EcuGivesUp, Device, rxVars, cfgVars, envVars
<1>2. ring[i] = <<>>  BY <1>1 DEF Settled, Empty, WInv, BoxOK
<1>3. /\ \A j \in Box \ {i} : EcuSame(j)
      /\ ecu'[i].msg = 0 /\ ecu'[i].next = 1 /\ ecu'[i].credit = 0
  BY <1>1 DEF EcuGivesUp, EcuSame, IInv, EcuGood, EcuStates, Waits
<1>4. NoCf(ring'[i]) /\ NoFf(ring'[i])  BY <1>1, <1>2, EmptyOrder
<1>5. ~Grant(i)' /\ (Cur(i)' => Cur(i))
  BY <1>1, <1>3 DEF Grant, Cur, WInv, RxOK
<1>6. BoxOK(i)'
  <2>1. OneFf(ring'[i], ecu'[i].msg, ecu'[i].len)  BY <1>4, NoFfAny
  <2>2. ecu'[i].msg <= msgs'  BY <1>1, <1>3, EcuMsg
  <2>3. Cur(i)' => \E q \in Nat :
          /\ Len(rx'.parts) <= q /\ q <= Cfs(rx'.parts[1].n) + 1
          /\ InOrder(ring'[i], rx'.parts[1].msg, Len(rx'.parts), q)
    BY <1>1, <1>5 DEF WInv, BoxOK
  <2> QED  BY <1>1, <1>2, <1>3, <1>4, <1>5, <2>1, <2>2, <2>3 DEF BoxOK
<1> QED  BY <1>1, <1>3, <1>6, OthersWhole, NothingWhole
-----------------------------------------------------------------------------
(* The theorem *)

Delivered == Unmixed => WInv /\ WholeMessage(told)

LEMMA InitWhole == IsoInit => Delivered
<1> SUFFICES ASSUME IsoInit PROVE WInv /\ WholeMessage(told)  BY DEF Delivered
<1>1. RxOK  BY DEF IsoInit, RxOK
<1>2. ASSUME NEW i \in Box PROVE BoxOK(i)
  <2>1. ~Cur(i) /\ ~Grant(i)  BY DEF IsoInit, Cur, Grant
  <2>2. ring[i] = <<>> /\ ecu[i] = Quiet /\ msgs = 0  BY DEF IsoInit
  <2>3. OneFf(<<>>, ecu[i].msg, ecu[i].len)  BY EmptyOrder, NoFfAny
  <2> QED  BY <2>1, <2>2, <2>3, EmptyOrder DEF BoxOK, Quiet
<1>3. WholeMessage(told)  BY NothingWhole DEF IsoInit
<1> QED  BY <1>1, <1>2, <1>3 DEF WInv

LEMMA NextWhole == IInv /\ Delivered /\ [IsoNext]_vars => Delivered'
<1> SUFFICES ASSUME IInv, Delivered, [IsoNext]_vars, Unmixed' PROVE WInv' /\ WholeMessage(told')
  BY DEF Delivered
<1>1. WInv /\ WholeMessage(told)
  <2>1. Unmixed  BY FaultsGrow DEF Unmixed
  <2> QED  BY <2>1 DEF Delivered
<1>2. CASE UNCHANGED vars
  <2>1. UNCHANGED <<isReceiving, rx, ring, used, msgs, ecu, told>>
    BY <1>2 DEF vars, rxVars, cfgVars, envVars
  <2>2. WInv'  BY <1>1, <2>1, QuietWhole DEF EcuSame
  <2>3. WholeMessage(told')  BY <1>1, <2>1 DEF WholeMessage
  <2> QED  BY <2>2, <2>3
<1>3. ASSUME NEW i \in Box, Handle(i) PROVE WInv' /\ WholeMessage(told')
  BY <1>1, <1>3, SingleWhole, FirstWhole, RxMultiWhole, FlowWhole DEF Handle
<1>4. CASE \/ TxMultiFrame \/ EndTurn \/ Tick \/ \E b \in AppBlocks : IoctlSet(b)
           \/ \E i \in Box, n \in SendLens : SendMsg(i, n)
  BY <1>1, <1>4, TxWhole
<1>5. ASSUME NEW i \in Box,
             \/ AddFilter(i) \/ RemoveFilter(i)
             \/ EcuSends(i) \/ EcuSingle(i) \/ EcuGivesUp(i) \/ \E n \in Lens : EcuFirst(i, n)
             \/ \E type \in {"flow", "wait"}, b \in EcuBlocks : EcuStray(i, type, b)
      PROVE  WInv' /\ WholeMessage(told')
  BY <1>1, <1>5, FilterWhole, EcuOtherWhole, EcuFirstWhole, EcuNextWhole, EcuGivesUpWhole
     DEF EcuSends
<1> QED  BY <1>2, <1>3, <1>4, <1>5 DEF IsoNext, Turn

\* "Got all our data!" (comm_channel_iso15765.cpp:216): what the channel hands
\* to the driver is one message, whole and in order, for any number of ECUs,
\* messages and filters, lengths and block sizes - as long as no frame was
\* lost, no filter removed in the middle of a message, no length miscounted and
\* no flow control sent for a message that is not the one being received.
THEOREM IsoDeliveredWhole == IsoSpec => []DeliveredWhole
<1>1. Delivered => DeliveredWhole  BY DEF Delivered, Unmixed, DeliveredWhole
<1>2. IsoInit => Delivered  BY InitWhole
<1>3. IInv /\ Delivered /\ [IsoNext]_vars => Delivered'  BY NextWhole
<1> QED  BY <1>1, <1>2, <1>3, IInvInvariant, PTL DEF IsoSpec
-----------------------------------------------------------------------------
(***************************************************************************)
(* For any number of ECUs and messages: flow control of ISO 15765, in both *)
(* directions.                                                             *)
(*                                                                         *)
(* Receiving, the device counts frames and never tells the ECU what it     *)
(* counts to.  The ECU is not kept waiting as long as what it was told is  *)
(* a multiple of the count (Granted).  Sending, the device believes every  *)
(* flow control; it may as long as the one that is under way is of the ECU *)
(* its message goes to, and says what that ECU is ready for (Sending).     *)
(***************************************************************************)

-----------------------------------------------------------------------------
(* Receiving *)

\* Frames of the message that the ECU may still send, or that wait.
Left(i) == ecu[i].next - Len(rx.parts) + ecu[i].credit

\* They are what is left of blocks, or of the message.
BlockLeft(i) ==
  /\ Left(i) > 0
  /\ \/ \E c \in Nat : rxCount + Left(i) = c * RxBlock
     \/ ecu[i].next + ecu[i].credit > Cfs(ecu[i].len)

Granted == \A i \in Box : Grant(i) => BlockLeft(i)

Blocked == faults \cap (Mixing \cup {"block"}) # {}

\* Multiples of RxBlock.
LEMMA Multiples ==
  /\ \A c \in Nat : c * RxBlock \in Nat
  /\ \A c, d \in Nat : c * RxBlock + d * RxBlock = (c + d) * RxBlock
  /\ \A c \in Nat : c # 0 => c - 1 \in Nat /\ c * RxBlock - RxBlock = (c - 1) * RxBlock
                            /\ c * RxBlock >= RxBlock
  /\ 0 * RxBlock = 0
  /\ \A n \in Nat : n % RxBlock = 0 => \E c \in Nat : n = c * RxBlock
<1> DEFINE r == RxBlock
<1>1. r \in Nat /\ r > 0  BY IsoConstants
<1> HIDE DEF r
<1>2. \A c \in Nat : c * r \in Nat  BY <1>1
<1>3. \A c, d \in Nat : c * r + d * r = (c + d) * r  BY <1>1
<1>4. ASSUME NEW c \in Nat, c # 0 PROVE c - 1 \in Nat /\ c * r - r = (c - 1) * r
  <2>1. c - 1 \in Nat  BY <1>4
  <2>2. (c - 1) * r + 1 * r = ((c - 1) + 1) * r  BY <1>3, <2>1
  <2>3. (c - 1) + 1 = c /\ 1 * r = r /\ (c - 1) * r \in Nat /\ c * r \in Nat
    BY <1>1, <1>2, <2>1
  <2> QED  BY <1>1, <2>1, <2>2, <2>3
<1>5. ASSUME NEW c \in Nat, c # 0 PROVE c * r >= r
  <2> DEFINE x == (c - 1) * r
             y == c * r
  <2>1. x \in Nat /\ y \in Nat /\ y - r = x  BY <1>2, <1>4, <1>5
  <2> HIDE DEF x, y
  <2>2. y >= r  BY <1>1, <2>1
  <2> QED  BY <2>2 DEF y
<1>6. 0 * r = 0  BY <1>1
<1>7. ASSUME NEW n \in Nat, n % r = 0 PROVE \E c \in Nat : n = c * r
  <2>1. n = ((n \div r) * r) + (n % r) /\ n \div r \in Nat  BY <1>1
  <2>2. n = (n \div r) * r  BY <1>1, <1>7, <2>1
  <2> QED  BY <2>1, <2>2
<1> QED  BY <1>2, <1>3, <1>4, <1>5, <1>6, <1>7 DEF r

\* Steps that leave the ECU and what is received of it alone.
LEMMA GrantedKept ==
  ASSUME Granted, NEW i \in Box, EcuSame(i), UNCHANGED <<isReceiving, rx, rxCount>>, Grant(i)'
  PROVE  BlockLeft(i)'
<1>1. Grant(i)  BY DEF Grant, Cur, EcuSame
<1>2. BlockLeft(i)  BY <1>1 DEF Granted
<1> QED  BY <1>2 DEF BlockLeft, Left, EcuSame

\* What flow control of b frames, or of no limit, gives to an ECU that waits.
LEMMA Credited ==
  ASSUME IInv, NEW i \in Box, NEW b \in Nat, EcuTakesFlow(i, b), Waits(i), b % RxBlock = 0,
         ecu[i].len >= 8
  PROVE  /\ ecu'[i].credit \in Nat /\ ecu'[i].credit > 0
         /\ \/ \E c \in Nat : ecu'[i].credit = c * RxBlock
            \/ ecu'[i].credit = Cfs(ecu[i].len)
<1> DEFINE n == Cfs(ecu[i].len)
<1>1. n \in Nat /\ n >= 1  BY EcuMsg, CfsOne
<1>2. ecu \in [Box -> EcuStates] /\ ecu[i] \in EcuStates  BY DEF IInv, EcuGood
<1>3. ecu'[i].credit = IF b = 0 THEN n ELSE AtMost(b, n)
  BY <1>2 DEF EcuTakesFlow, EcuStates
<1> HIDE DEF n
<1>4. CASE b = 0  BY <1>1, <1>3, <1>4 DEF n
<1>5. CASE b # 0
  <2>1. PICK c \in Nat : b = c * RxBlock  BY Multiples
  <2>2. ecu'[i].credit = b \/ ecu'[i].credit = n  BY <1>3, <1>5 DEF AtMost
  <2> QED  BY <1>1, <1>5, <2>1, <2>2 DEF n
<1> QED  BY <1>4, <1>5

\* A first frame is taken up.
LEMMA FirstGranted ==
  ASSUME IInv, WInv, NEW i \in Box, SendFfIndication(i), ~Blocked', Granted
  PROVE  Granted'
<1> DEFINE f == Head(ring[i])
           b == Byte(blockSize)
<1>0. FirstFrame(i, flow[i] = 0 \/ isReceiving)  BY DEF SendFfIndication
<1>1. CASE UNCHANGED <<rxVars, ecu>>
  <2>1. UNCHANGED <<isReceiving, rx, rxCount>> /\ \A j \in Box : EcuSame(j)
    BY <1>1 DEF rxVars, EcuSame
  <2> QED  BY <2>1, GrantedKept DEF Granted
<1>2. CASE ~UNCHANGED <<rxVars, ecu>>
  <2>1. /\ ~isReceiving /\ rxCount' = 0 /\ EcuTakesFlow(i, b)
        /\ rx' = [box |-> i, size |-> FfSize(f.n), pos |-> IdBytes + FfBytes, parts |-> <<f>>]
        /\ faults' = faults \cup (IF Carries(f.n) THEN {"carry"} ELSE {})
                            \cup (IF b % RxBlock # 0 THEN {"block"} ELSE {})
    BY <1>0, <1>2 DEF FirstFrame
  <2>2. rx'.box = i /\ Len(rx'.parts) = 1 /\ rx'.parts[1] = f  BY <2>1
  <2>3. b % RxBlock = 0  BY <2>1 DEF Blocked
  <2>4. ~Grant(i)  BY <2>1 DEF Grant, Cur
  <2>5. Take(i, "first")  BY <1>0 DEF FirstFrame
  <2>6. ring[i] \in Seq(Frames) /\ ring[i] # <<>> /\ f.type = "first" /\ f \in Frames
    BY <2>5, TakeWhole
  <2>7. f.msg = ecu[i].msg /\ f.n = ecu[i].len /\ ~NoFf(ring[i])
    BY <2>6, TailFf DEF WInv, BoxOK
  <2>8. ecu[i].msg # 0 /\ ecu[i].credit = 0 /\ ecu[i].next = 1  BY <2>4, <2>7 DEF WInv, BoxOK
  <2>9. f.n >= 8
    <3>1. f.n \in Lens  BY <2>6 DEF Frames
    <3> QED  BY <3>1, LensNat
  <2>10. b \in Nat
    <3>1. blockSize \in Nat  BY IsoAssumption DEF IsoAssumption, IInv, CfgGood
    <3> QED  BY <3>1, ByteNat
  <2>11. Waits(i)  BY <2>8 DEF Waits
  <2>12. /\ ecu'[i].credit \in Nat /\ ecu'[i].credit > 0
         /\ \/ \E c \in Nat : ecu'[i].credit = c * RxBlock
            \/ ecu'[i].credit = Cfs(ecu[i].len)
    <3> HIDE DEF b
    <3> QED  BY <2>1, <2>3, <2>7, <2>9, <2>10, <2>11, Credited
  <2>13. ecu'[i].next = 1 /\ ecu'[i].len = ecu[i].len  BY <2>1, <2>8, FlowSame
  <2>14. Left(i)' = ecu'[i].credit  BY <2>2, <2>12, <2>13 DEF Left
  <2>15. Cfs(ecu[i].len) \in Nat  BY EcuMsg, CfsNat
  <2>16. BlockLeft(i)'
    <3>1. rxCount' + Left(i)' = ecu'[i].credit  BY <2>1, <2>12, <2>14
    <3>2. ecu'[i].credit = Cfs(ecu[i].len) => ecu'[i].next + ecu'[i].credit > Cfs(ecu'[i].len)
      BY <2>13, <2>15
    <3> QED  BY <2>12, <2>14, <3>1, <3>2 DEF BlockLeft
  <2>17. \A j \in Box : Grant(j)' => j = i  BY <2>2 DEF Grant, Cur
  <2> QED  BY <2>16, <2>17 DEF Granted
<1> QED  BY <1>1, <1>2

\* A frame of what is left: one less, or a block more.
LEMMA CountDown ==
  ASSUME NEW c \in Nat, NEW n \in Nat, NEW l \in Nat, l > 0, n < RxBlock, n + l = c * RxBlock
  PROVE  /\ (n + 1) + (l - 1) = c * RxBlock
         /\ l = 1 => n + 1 = RxBlock
         /\ n + 1 = RxBlock => \E d \in Nat : l - 1 = d * RxBlock
<1>1. c # 0  BY Multiples
<1>2. /\ c - 1 \in Nat /\ c * RxBlock - RxBlock = (c - 1) * RxBlock /\ c * RxBlock >= RxBlock
      /\ c * RxBlock \in Nat /\ RxBlock \in Nat
  BY <1>1, Multiples, IsoConstants
<1> DEFINE x == c * RxBlock
           y == (c - 1) * RxBlock
<1>3. x \in Nat /\ x >= RxBlock /\ x - RxBlock = y /\ n + l = x  BY <1>2
<1> HIDE DEF x, y
<1>4. (n + 1) + (l - 1) = x /\ (l = 1 => n + 1 = RxBlock) /\ (n + 1 = RxBlock => l - 1 = y)
  BY <1>2, <1>3
<1> QED  BY <1>2, <1>4 DEF x, y

\* A consecutive frame is taken.
LEMMA RxMultiGranted ==
  ASSUME IInv, WInv, NEW i \in Box, RxMultiFrame(i), ~Blocked', Granted, WInv'
  PROVE  Granted'
<1> DEFINE more  == [rx EXCEPT !.pos = @ + CopyLen(rx.size - rx.pos), !.parts = Append(@, Head(ring[i]))]
           full  == more.pos >= rx.size
           count == rxCount + 1
           b     == Byte(txBlock)
           p     == Len(rx.parts)
<1>1. CASE UNCHANGED <<rxVars, ecu>>
  <2>1. UNCHANGED <<isReceiving, rx, rxCount>> /\ \A j \in Box : EcuSame(j)
    BY <1>1 DEF rxVars, EcuSame
  <2> QED  BY <2>1, GrantedKept DEF Granted
<1>2. CASE ~isReceiving'  BY <1>2 DEF Granted, Grant, Cur
<1>3. CASE ~UNCHANGED <<rxVars, ecu>> /\ isReceiving'
  <2>1. isReceiving /\ rx' = more /\ told' = NoRx
        /\ \/ ~BlockDone(count) /\ rxCount' = count /\ ecu' = ecu
           \/ /\ BlockDone(count) /\ rxCount' = 0 /\ EcuTakesFlow(i, b)
              /\ faults' = faults \cup (IF WaitsForNext(i) THEN {"astray"} ELSE {})
                                  \cup (IF b % RxBlock # 0 THEN {"block"} ELSE {})
    BY <1>3 DEF RxMultiFrame
  <2>2. rx \in Payload /\ p \in Nat /\ p > 0 /\ rx.parts \in Seq(Frames)
    BY <2>1, RxTyped DEF IInv, RxGood, WInv, RxOK
  <2>3. Take(i, "next")  BY DEF RxMultiFrame
  <2>4. Head(ring[i]) \in Frames /\ ring[i] \in Seq(Frames) /\ ring[i] # <<>>
        /\ Head(ring[i]).type = "next"
    BY <2>3, TakeWhole
  <2>5. Cur(i)  BY <2>4, TailFf DEF WInv, BoxOK
  <2>6. rx'.box = rx.box /\ Len(rx'.parts) = p + 1 /\ rx'.parts[1] = rx.parts[1]
    BY <2>1, <2>2, <2>4, InAppend DEF Payload
  <2> SUFFICES ASSUME NEW j \in Box, Grant(j)' PROVE BlockLeft(j)'
    BY DEF Granted
  <2>7. j = i  BY <2>5, <2>6 DEF Grant, Cur
  <2>8. ecu'[i].msg = ecu[i].msg /\ ecu'[i].len = ecu[i].len /\ ecu'[i].next = ecu[i].next
    BY <2>1, FlowSame
  <2>9. Grant(i) /\ BlockLeft(i)  BY <2>5, <2>6, <2>7, <2>8 DEF Grant, Cur, Granted
  <2>10. /\ ecu[i].msg \in Nat /\ ecu[i].len \in Nat /\ ecu[i].next \in Nat /\ ecu[i].credit \in Nat
         /\ rxCount \in Nat /\ rxCount < RxBlock /\ RxBlock \in Nat /\ ecu[i].msg # 0
    <3>1. ecu[i].msg \in Nat /\ ecu[i].len \in Nat /\ ecu[i].next \in Nat /\ ecu[i].credit \in Nat
      BY EcuMsg
    <3>2. rxCount \in 0 .. RxBlock /\ rxCount < RxBlock  BY <2>1 DEF IInv, RxGood
    <3>3. ecu[i].msg # 0  BY <2>1, <2>9 DEF WInv, RxOK, Grant
    <3> QED  BY <3>1, <3>2, <3>3, IsoConstants
  <2>11. Left(i) \in Nat /\ Left(i) > 0 /\ Left(i) = ecu[i].next - p + ecu[i].credit
    BY <2>2, <2>9, <2>10 DEF BlockLeft, Left
  \* What follows is not the last frame: the ECU has one to send.
  <2>12. p + 1 <= ecu[i].next /\ ecu[i].next <= Cfs(ecu[i].len)
    <3>1. Cur(i)' /\ Grant(i)' /\ BoxOK(i)'  BY <2>7 DEF WInv, Grant
    <3>2. /\ Len(rx'.parts) <= ecu'[i].next /\ ecu'[i].len = rx'.parts[1].n
          /\ ecu'[i].next <= Cfs(rx'.parts[1].n)
      BY <3>1 DEF BoxOK
    <3> QED  BY <2>6, <2>8, <3>2
  <2>13. Cfs(ecu[i].len) \in Nat  BY <2>10, CfsNat
  <2>14. Left(i)' = ecu[i].next - (p + 1) + ecu'[i].credit  BY <2>6, <2>8 DEF Left
  <2> HIDE DEF p, more, count
  <2>15. CASE ~BlockDone(count) /\ rxCount' = count /\ ecu' = ecu
    <3>1. rxCount' = rxCount + 1 /\ rxCount + 1 < RxBlock  BY <2>10, <2>15 DEF BlockDone, count
    <3>2. Left(i)' = Left(i) - 1
      <4> DEFINE n == ecu[i].next
                 l == ecu[i].credit
      <4>1. Left(i)' = n - (p + 1) + l /\ Left(i) = n - p + l  BY <2>11, <2>14, <2>15
      <4>2. n \in Nat /\ l \in Nat /\ p \in Nat  BY <2>2, <2>10 DEF p
      <4> HIDE DEF n, l
      <4>3. n - (p + 1) + l = (n - p + l) - 1  BY <4>2
      <4> QED  BY <4>1, <4>3
    <3>3. CASE ecu[i].next + ecu[i].credit > Cfs(ecu[i].len)
      <4>1. Left(i)' > 0
        <5>1. p \in Nat  BY <2>2
        <5>2. ecu[i].credit > 0  BY <2>10, <2>12, <2>13, <3>3
        <5>3. Left(i)' = ecu[i].next - (p + 1) + ecu[i].credit  BY <2>14, <2>15
        <5> QED  BY <2>10, <2>12, <5>1, <5>2, <5>3
      <4> QED  BY <2>7, <2>15, <3>3, <4>1 DEF BlockLeft
    <3>4. ASSUME NEW c \in Nat, rxCount + Left(i) = c * RxBlock PROVE BlockLeft(i)'
      <4>1. (rxCount + 1) + (Left(i) - 1) = c * RxBlock /\ (Left(i) = 1 => rxCount + 1 = RxBlock)
        BY <2>10, <2>11, <3>4, CountDown
      <4>2. Left(i) # 1  BY <2>10, <3>1, <4>1
      <4>3. Left(i)' > 0  BY <2>11, <3>2, <4>2
      <4>4. rxCount' + Left(i)' = c * RxBlock  BY <3>1, <3>2, <4>1
      <4> QED  BY <4>3, <4>4 DEF BlockLeft
    <3> QED  BY <2>7, <2>9, <3>3, <3>4 DEF BlockLeft
  <2>16. CASE /\ BlockDone(count) /\ rxCount' = 0 /\ EcuTakesFlow(i, b)
              /\ faults' = faults \cup (IF WaitsForNext(i) THEN {"astray"} ELSE {})
                                  \cup (IF b % RxBlock # 0 THEN {"block"} ELSE {})
    <3>1. rxCount + 1 = RxBlock  BY <2>10, <2>16 DEF BlockDone, count
    <3>2. b \in Nat /\ b % RxBlock = 0
      <4>1. txBlock \in Nat  BY DEF IInv, TxGood
      <4> QED  BY <2>16, <4>1, ByteNat DEF Blocked
    <3>3. ecu[i].len >= 8
      <4>1. ecu[i].len = rx.parts[1].n /\ rx.parts[1].type = "first"
        BY <2>1, <2>9 DEF WInv, BoxOK, RxOK, Grant
      <4>2. rx.parts[1] \in Frames  BY <2>2, RxTyped DEF p
      <4>3. rx.parts[1].n \in Lens  BY <4>1, <4>2 DEF Frames
      <4> QED  BY <4>1, <4>3, LensNat
    <3>p. p \in Nat  BY <2>2
    \* Of the blocks before, what is left is whole blocks.
    <3>4. \/ \E d \in Nat : Left(i) - 1 = d * RxBlock
          \/ ecu[i].next + ecu[i].credit > Cfs(ecu[i].len)
      <4>1. ASSUME NEW c \in Nat, rxCount + Left(i) = c * RxBlock
            PROVE  \E d \in Nat : Left(i) - 1 = d * RxBlock
        <5> DEFINE l == Left(i)
        <5>1. l \in Nat /\ l > 0 /\ rxCount + l = c * RxBlock  BY <2>11, <4>1
        <5> HIDE DEF l
        <5>2. c # 0  BY <2>10, <5>1, Multiples
        <5>3. c - 1 \in Nat /\ c * RxBlock - RxBlock = (c - 1) * RxBlock /\ c * RxBlock \in Nat
          BY <5>2, Multiples
        <5> DEFINE x == c * RxBlock
                   y == (c - 1) * RxBlock
        <5>4. x \in Nat /\ x - RxBlock = y /\ rxCount + l = x  BY <5>1, <5>3
        <5> HIDE DEF x, y
        <5>5. l - 1 = y  BY <2>10, <3>1, <5>1, <5>4
        <5> QED  BY <5>3, <5>5 DEF l, y
      <4> QED  BY <2>9, <4>1 DEF BlockLeft
    <3>5. CASE ~Waits(i)
      <4>1. ecu'[i].credit = ecu[i].credit /\ ecu[i].credit > 0
        BY <2>10, <2>16, <3>5, FlowSame DEF Waits, EcuSame
      <4>2. Left(i)' = Left(i) - 1 /\ Left(i)' > 0
        BY <2>10, <2>11, <2>12, <2>14, <4>1, <3>p
      <4>3. rxCount' + Left(i)' = Left(i) - 1  BY <2>11, <2>16, <4>2
      <4> QED  BY <2>7, <2>8, <3>4, <4>1, <4>2, <4>3 DEF BlockLeft
    <3>6. CASE Waits(i)
      <4>1. ecu[i].credit = 0  BY <3>6 DEF Waits
      <4>2. PICK d \in Nat : Left(i) - 1 = d * RxBlock  BY <2>10, <2>12, <2>13, <3>4, <4>1
      <4>3. /\ ecu'[i].credit \in Nat /\ ecu'[i].credit > 0
            /\ \/ \E c \in Nat : ecu'[i].credit = c * RxBlock
               \/ ecu'[i].credit = Cfs(ecu[i].len)
        <5> HIDE DEF b
        <5> QED  BY <2>16, <3>2, <3>3, <3>6, Credited
      <4>4. Left(i)' = (Left(i) - 1) + ecu'[i].credit /\ Left(i)' > 0
        BY <2>10, <2>11, <2>12, <2>14, <4>1, <4>3, <3>p
      <4>5. CASE ecu'[i].credit = Cfs(ecu[i].len)
        <5>1. ecu'[i].next + ecu'[i].credit > Cfs(ecu'[i].len)
          BY <2>8, <2>10, <2>12, <2>13, <4>5, <3>p
        <5> QED  BY <2>7, <4>4, <5>1 DEF BlockLeft
      <4>6. ASSUME NEW c \in Nat, ecu'[i].credit = c * RxBlock PROVE BlockLeft(i)'
        <5>1. d * RxBlock + c * RxBlock = (d + c) * RxBlock /\ d + c \in Nat  BY Multiples
        <5>2. Left(i)' = (d + c) * RxBlock  BY <4>2, <4>4, <4>6, <5>1
        <5>3. rxCount' + Left(i)' = (d + c) * RxBlock
          <6>1. Left(i)' \in Int  BY <2>11, <4>3, <4>4
          <6> QED  BY <2>16, <5>2, <6>1
        <5> QED  BY <4>4, <5>1, <5>3 DEF BlockLeft
      <4> QED  BY <2>7, <4>3, <4>5, <4>6
    <3> QED  BY <3>5, <3>6
  <2> QED  BY <2>1, <2>15, <2>16
<1> QED  BY <1>1, <1>2, <1>3
-----------------------------------------------------------------------------
(* Every other step *)

\* The ECU sends a frame: it waits instead.
LEMMA EcuNextGranted ==
  ASSUME IInv, WInv, NEW i \in Box, EcuNext(i), Granted
  PROVE  Granted'
<1>1. UNCHANGED <<isReceiving, rx, rxCount>> /\ ecu[i].msg # 0 /\ ecu[i].credit > 0
  BY DEF EcuNext, Device, rxVars
<1>2. \A j \in Box \ {i} : EcuSame(j)  BY DEF EcuNext, EcuSame, IInv, EcuGood
<1>3. /\ ecu[i].next = Cfs(ecu[i].len) => ecu'[i].msg = 0
      /\ ecu[i].next # Cfs(ecu[i].len) =>
           /\ ecu'[i].msg = ecu[i].msg /\ ecu'[i].len = ecu[i].len
           /\ ecu'[i].next = ecu[i].next + 1 /\ ecu'[i].credit = ecu[i].credit - 1
  BY DEF EcuNext, IInv, EcuGood, EcuStates
<1>4. Grant(i) /\ BlockLeft(i)  BY <1>1 DEF WInv, BoxOK, Granted
<1>5. ASSUME Grant(i)' PROVE BlockLeft(i)'
  <2>1. rx.parts[1].msg # 0  BY <1>4 DEF WInv, RxOK, Grant, Cur
  <2>2. ecu'[i].msg # 0  BY <1>1, <1>5, <2>1 DEF Grant
  <2>3. /\ ecu'[i].len = ecu[i].len /\ ecu'[i].next = ecu[i].next + 1
        /\ ecu'[i].credit = ecu[i].credit - 1
    BY <1>3, <2>2
  <2>4. ecu'[i].next + ecu'[i].credit = ecu[i].next + ecu[i].credit
    BY <2>3, EcuMsg
  <2>5. Left(i)' = Left(i)
    <3> DEFINE l == Len(rx.parts)
               n == ecu[i].next
               c == ecu[i].credit
    <3>1. l \in Nat /\ rx' = rx  BY <1>1, RxTyped
    <3>2. n \in Nat /\ c \in Nat  BY EcuMsg
    <3>3. Left(i)' = (n + 1) - l + (c - 1)  BY <2>3, <3>1 DEF Left
    <3>4. Left(i) = n - l + c  BY DEF Left
    <3> HIDE DEF l, n, c
    <3>5. (n + 1) - l + (c - 1) = n - l + c  BY <3>1, <3>2
    <3> QED  BY <3>3, <3>4, <3>5
  <2>6. ecu[i].next + ecu[i].credit > Cfs(ecu[i].len) =>
          ecu'[i].next + ecu'[i].credit > Cfs(ecu'[i].len)
    BY <2>3, <2>4
  <2>7. rxCount' + Left(i)' = rxCount + Left(i)  BY <1>1, <2>5
  <2>8. Left(i)' > 0  BY <1>4, <2>5 DEF BlockLeft
  <2> QED  BY <1>4, <2>6, <2>7, <2>8, Zenon DEF BlockLeft
<1> QED  BY <1>1, <1>2, <1>5, GrantedKept DEF Granted

\* The ECU begins another message, or gives one up.
LEMMA EcuTurnsGranted ==
  ASSUME IInv, WInv, NEW i \in Box, EcuGivesUp(i) \/ \E n \in Lens : EcuFirst(i, n), Granted
  PROVE  Granted'
<1>1. UNCHANGED <<isReceiving, rx, rxCount>>  BY DEF EcuGivesUp, EcuFirst, Device, rxVars
<1>2. /\ \A j \in Box \ {i} : EcuSame(j)
      /\ ecu'[i].msg = 0 \/ ecu'[i].msg = msgs + 1
  <2>1. ecu \in [Box -> EcuStates] /\ ecu[i] \in EcuStates  BY DEF IInv, EcuGood
  <2>2. CASE EcuGivesUp(i)  BY <2>1, <2>2 DEF EcuGivesUp, EcuSame, EcuStates
  <2>3. ASSUME NEW n \in Lens, EcuFirst(i, n)
        PROVE  /\ \A j \in Box \ {i} : EcuSame(j)
               /\ ecu'[i].msg = 0 \/ ecu'[i].msg = msgs + 1
    BY <2>1, <2>3 DEF EcuFirst, EcuSame, EcuStates
  <2> QED  BY <2>2, <2>3
<1>3. ~Grant(i)'
  <2>1. Cur(i) => rx.parts[1].msg \in Nat /\ rx.parts[1].msg # 0 /\ rx.parts[1].msg <= msgs
    BY RxTyped DEF WInv, RxOK, Cur
  <2>2. Cur(i) => rx.parts[1].msg # msgs + 1  BY <2>1, EcuMsg
  <2> QED  BY <1>1, <1>2, <2>1, <2>2 DEF Grant, Cur
<1> QED  BY <1>1, <1>2, <1>3, GrantedKept DEF Granted

\* The ECU says something else, or hears of the device's message.
LEMMA HeardGranted ==
  ASSUME IInv, Granted, UNCHANGED <<isReceiving, rx, rxCount>>, \A j \in Box : EcuSame(j)
  PROVE  Granted'
BY GrantedKept DEF Granted

LEMMA OtherGranted ==
  ASSUME IInv, Granted,
         \/ TxMultiFrame \/ EndTurn \/ Tick \/ \E b \in AppBlocks : IoctlSet(b)
         \/ \E i \in Box, n \in SendLens : SendMsg(i, n)
         \/ \E i \in Box : \/ RxSingleFrame(i) \/ HandleFc(i) \/ IgnoreFc(i) \/ AddFilter(i)
                           \/ EcuSingle(i) \/ \E b \in EcuBlocks : EcuFlow(i, b)
                           \/ \E type \in {"flow", "wait"}, b \in EcuBlocks : EcuStray(i, type, b)
  PROVE  Granted'
<1>1. UNCHANGED <<isReceiving, rx, rxCount>>
  BY DEF TxMultiFrame, NextFrame, EndTurn, Tick, IoctlSet, SendMsg, RxSingleFrame, HandleFc,
         IgnoreFc, AddFilter, EcuSingle, EcuFlow, EcuStray, Device, rxVars
<1>2. \A j \in Box : EcuSame(j)
  <2>1. CASE TxMultiFrame
    <3>1. tx.box \in Box  BY DEF IInv, TxGood
    <3>2. EcuTakesNext(tx.box, sn)  BY <2>1 DEF TxMultiFrame, NextFrame
    <3> QED  BY <3>1, <3>2, HeardSame
  <2>2. ASSUME NEW i \in Box, NEW n \in SendLens, SendMsg(i, n) PROVE \A j \in Box : EcuSame(j)
    BY <2>2, HeardSame DEF SendMsg
  <2>3. ASSUME NEW i \in Box, NEW b \in EcuBlocks, EcuFlow(i, b) PROVE \A j \in Box : EcuSame(j)
    <3>1. PICK g : ecu' = [ecu EXCEPT ![i] = [@ EXCEPT !.owes = FALSE, !.grant = g]]
      BY <2>3 DEF EcuFlow
    <3> QED  BY <3>1 DEF EcuSame, IInv, EcuGood, EcuStates
  <2>4. CASE ecu' = ecu  BY <2>4 DEF EcuSame
  <2> QED  BY <2>1, <2>2, <2>3, <2>4
           DEF EndTurn, Tick, IoctlSet, RxSingleFrame, HandleFc, IgnoreFc, AddFilter, EcuSingle,
               EcuStray
<1> QED  BY <1>1, <1>2, HeardGranted

\* Removing a filter when nothing is received changes nothing that is.
LEMMA RemoveGranted ==
  ASSUME NEW i \in Box, RemoveFilter(i)
  PROVE  Granted'
BY DEF RemoveFilter, Granted, Grant, Cur
-----------------------------------------------------------------------------
(* The theorem *)

Answering == ~Blocked => Granted

LEMMA NextAnswering == IInv /\ Delivered /\ Delivered' /\ Answering /\ [IsoNext]_vars => Answering'
<1> SUFFICES ASSUME IInv, Delivered, Delivered', Answering, [IsoNext]_vars, ~Blocked' PROVE Granted'
  BY DEF Answering
<1>1. WInv /\ WInv' /\ Granted
  <2>1. ~Blocked  BY FaultsGrow DEF Blocked
  <2>2. Unmixed /\ Unmixed'  BY <2>1 DEF Blocked, Unmixed
  <2> QED  BY <2>1, <2>2 DEF Delivered, Answering
<1>2. CASE UNCHANGED vars
  <2>1. UNCHANGED <<isReceiving, rx, rxCount, ecu>>  BY <1>2 DEF vars, rxVars
  <2> QED  BY <1>1, <2>1, HeardGranted DEF EcuSame
<1>3. ASSUME NEW i \in Box, Handle(i) PROVE Granted'
  BY <1>1, <1>3, FirstGranted, RxMultiGranted, OtherGranted DEF Handle
<1>4. CASE \/ TxMultiFrame \/ EndTurn \/ Tick \/ \E b \in AppBlocks : IoctlSet(b)
           \/ \E i \in Box, n \in SendLens : SendMsg(i, n)
  BY <1>1, <1>4, OtherGranted
<1>5. ASSUME NEW i \in Box,
             \/ AddFilter(i) \/ RemoveFilter(i)
             \/ EcuSends(i) \/ EcuSingle(i) \/ EcuGivesUp(i) \/ \E n \in Lens : EcuFirst(i, n)
             \/ \E type \in {"flow", "wait"}, b \in EcuBlocks : EcuStray(i, type, b)
      PROVE  Granted'
  BY <1>1, <1>5, OtherGranted, RemoveGranted, EcuNextGranted, EcuTurnsGranted DEF EcuSends
<1> QED  BY <1>2, <1>3, <1>4, <1>5 DEF IsoNext, Turn

\* With nothing in the ring, what is left is what the ECU may send.
LEMMA NotStarved == ASSUME IInv, WInv, Granted, NEW i \in Box PROVE ~Starved(i)
<1> SUFFICES ASSUME Starved(i) PROVE FALSE  OBVIOUS
<1> DEFINE p == Len(rx.parts)
<1>1. Waits(i) /\ Settled /\ Grant(i)  BY DEF Starved, Grant, Cur
<1>2. ecu[i].credit = 0 /\ ring[i] = <<>>  BY <1>1 DEF Waits, Settled, Empty, WInv, BoxOK
<1>3. PICK q \in Nat : p <= q /\ InOrder(<<>>, rx.parts[1].msg, p, q) /\ ecu[i].next = q
  BY <1>1, <1>2 DEF WInv, BoxOK, Grant
<1>4. p \in Nat  BY RxTyped
<1>5. Left(i) > 0 /\ Left(i) = q - p  BY <1>1, <1>2, <1>3, <1>4 DEF Granted, BlockLeft, Left
<1> HIDE DEF p
<1>6. p \in p .. q - 1  BY <1>3, <1>4, <1>5
<1>7. \E x \in 1 .. Len(<<>>) : TRUE  BY <1>3, <1>6 DEF InOrder
<1> QED  BY <1>7

\* "ECU hit block limit. Send flow control again!" (comm_channel_iso15765.cpp
\* :222): an ECU that keeps to the protocol is never left in the middle of its
\* message without flow control, for any number of ECUs and any lengths - as
\* long as every block size it was told is a multiple of the count the device
\* sends flow control after.
THEOREM IsoBlockAnswered == IsoSpec => []BlockAnswered
<1>1. IInv /\ Delivered /\ Answering => BlockAnswered
  <2> SUFFICES ASSUME IInv, Delivered, Answering, ~Blocked, NEW i \in Box PROVE ~Starved(i)
    BY DEF BlockAnswered, Blocked
  <2>1. WInv /\ Granted  BY DEF Delivered, Answering, Unmixed, Blocked
  <2> QED  BY <2>1, NotStarved
<1>2. IsoInit => Answering  BY DEF IsoInit, Answering, Granted, Grant, Cur
<1>3. IInv /\ Delivered /\ Delivered' /\ Answering /\ [IsoNext]_vars => Answering'  BY NextAnswering
<1>4. IsoSpec => []Delivered  BY InitWhole, NextWhole, IInvInvariant, PTL DEF IsoSpec
<1> QED  BY <1>1, <1>2, <1>3, <1>4, IInvInvariant, PTL DEF IsoSpec
-----------------------------------------------------------------------------
(* Sending *)

NoFlow(s) == \A x \in 1 .. Len(s) : s[x].type # "flow"

\* Flow control of n frames lets pass what an ECU that is ready for g frames,
\* and waits for w bytes, is ready for.
Grants(n, g, w) == IF n = 0 THEN CfBytes * g >= w ELSE g = n

\* s has at most one flow control frame, of what the ECU is ready for.
OneFlow(s, g, w) ==
  /\ \A x \in 1 .. Len(s) : s[x].type = "flow" => Grants(s[x].n, g, w)
  /\ \A x, y \in 1 .. Len(s) : s[x].type = "flow" /\ s[y].type = "flow" => x = y

\* The ECU of mailbox i waits for nothing.
Idle(i) == ecu[i].want = 0 /\ ~ecu[i].owes /\ NoFlow(ring[i])

\* What the device may still send before flow control is what the ECU of
\* mailbox i is ready for, or ends the message.
Ready(i) ==
  \/ txFrames < txBlock /\ ecu[i].grant = txBlock - txFrames
  \/ CfBytes * ecu[i].grant >= ecu[i].want

\* The ECU of mailbox i waits for the rest of the message.  Whose turn it is,
\* the device's or the ECU's, or flow control is under way.
Awaits(i) ==
  /\ tx.pos < tx.size /\ ecu[i].want = tx.size - tx.pos /\ ecu[i].sn = sn
  /\ OneFlow(ring[i], ecu[i].grant, ecu[i].want)
  /\ clear => ~ecu[i].owes /\ NoFlow(ring[i]) /\ Ready(i)
  /\ ecu[i].owes => NoFlow(ring[i])

SInv ==
  /\ confirmed = received /\ accepted = received + (IF isSending THEN 1 ELSE 0)
  /\ \A i \in Box : IF isSending /\ i = tx.box THEN Awaits(i) ELSE Idle(i)
  /\ ~isSending => ~clear
  /\ "flooded" \notin faults

Sending == "stray" \notin faults => SInv
-----------------------------------------------------------------------------
(* Flow control frames in a ring *)

LEMMA TailFlow ==
  ASSUME NEW s \in Seq(Frames), s # <<>>
  PROVE  /\ NoFlow(s) => NoFlow(Tail(s))
         /\ \A g, w : OneFlow(s, g, w) => OneFlow(Tail(s), g, w)
         /\ Head(s).type = "flow" =>
              ~NoFlow(s) /\ \A g, w : OneFlow(s, g, w) => Grants(Head(s).n, g, w) /\ NoFlow(Tail(s))
<1> DEFINE t == Tail(s)
<1>1. /\ \A x \in 1 .. Len(t) : x + 1 \in 1 .. Len(s) /\ t[x] = s[x + 1] /\ x + 1 # 1
      /\ Head(s) = s[1] /\ 1 \in 1 .. Len(s)
  BY InTail
<1> HIDE DEF t
<1>2. NoFlow(s) => NoFlow(t)  BY <1>1 DEF NoFlow
<1>3. ASSUME NEW g, NEW w, OneFlow(s, g, w)
      PROVE  /\ OneFlow(t, g, w)
             /\ Head(s).type = "flow" => Grants(Head(s).n, g, w) /\ NoFlow(t)
  <2>1. ASSUME NEW x \in 1 .. Len(t), NEW y \in 1 .. Len(t), t[x].type = "flow", t[y].type = "flow"
        PROVE  x = y
    <3>1. x + 1 = y + 1  BY <1>1, <1>3, <2>1 DEF OneFlow
    <3> QED  BY <3>1
  <2>2. \A x \in 1 .. Len(t) : t[x].type = "flow" => Grants(t[x].n, g, w)  BY <1>1, <1>3 DEF OneFlow
  <2>3. OneFlow(t, g, w)  BY <2>1, <2>2 DEF OneFlow
  <2>4. Head(s).type = "flow" => Grants(Head(s).n, g, w)  BY <1>1, <1>3 DEF OneFlow
  <2>5. Head(s).type = "flow" => NoFlow(t)  BY <1>1, <1>3 DEF OneFlow, NoFlow
  <2> QED  BY <2>3, <2>4, <2>5
<1>4. Head(s).type = "flow" => ~NoFlow(s)  BY <1>1 DEF NoFlow
<1> QED  BY <1>2, <1>3, <1>4 DEF t

LEMMA AppendFlow ==
  ASSUME NEW s \in Seq(Frames), NEW f \in Frames
  PROVE  /\ f.type # "flow" /\ NoFlow(s) => NoFlow(Append(s, f))
         /\ f.type # "flow" => \A g, w : OneFlow(s, g, w) => OneFlow(Append(s, f), g, w)
         /\ NoFlow(s) => \A g, w : Grants(f.n, g, w) => OneFlow(Append(s, f), g, w)
<1> DEFINE t == Append(s, f)
<1>1. /\ \A x \in 1 .. Len(s) : x \in 1 .. Len(t) /\ t[x] = s[x]
      /\ \A x \in 1 .. Len(t) : x \in 1 .. Len(s) \/ (x = Len(s) + 1 /\ t[x] = f)
  BY InAppend
<1> HIDE DEF t
<1>2. f.type # "flow" /\ NoFlow(s) => NoFlow(t)  BY <1>1 DEF NoFlow
<1>3. f.type # "flow" => \A g, w : OneFlow(s, g, w) => OneFlow(t, g, w)
  <2> SUFFICES ASSUME f.type # "flow", NEW g, NEW w, OneFlow(s, g, w) PROVE OneFlow(t, g, w)
    OBVIOUS
  <2>1. \A x \in 1 .. Len(t) : t[x].type = "flow" => x \in 1 .. Len(s) /\ t[x] = s[x]  BY <1>1
  <2> QED  BY <2>1 DEF OneFlow
<1>4. NoFlow(s) => \A g, w : Grants(f.n, g, w) => OneFlow(t, g, w)
  <2> SUFFICES ASSUME NoFlow(s), NEW g, NEW w, Grants(f.n, g, w) PROVE OneFlow(t, g, w)
    OBVIOUS
  <2>1. \A x \in 1 .. Len(t) : t[x].type = "flow" => x = Len(s) + 1 /\ t[x] = f
    BY <1>1 DEF NoFlow
  <2> QED  BY <2>1 DEF OneFlow
<1> QED  BY <1>2, <1>3, <1>4 DEF t

LEMMA NoFlowOne == ASSUME NEW s, NoFlow(s) PROVE \A g, w : OneFlow(s, g, w)
  BY DEF NoFlow, OneFlow

LEMMA NoFlowEmpty == NoFlow(<<>>)
  BY DEF NoFlow

\* The ring of mailbox i has the flow control it had, or less.
FlowLike(i) ==
  /\ NoFlow(ring[i]) => NoFlow(ring'[i])
  /\ \A g, w : OneFlow(ring[i], g, w) => OneFlow(ring'[i], g, w)

LEMMA LikeSame == ASSUME NEW i, ring'[i] = ring[i] PROVE FlowLike(i)
  BY DEF FlowLike

LEMMA LikeEmpty == ASSUME NEW i, ring'[i] = <<>> PROVE FlowLike(i)
  BY NoFlowEmpty, NoFlowOne DEF FlowLike

\* A frame is taken.
LEMMA LikeTake ==
  ASSUME IInv, NEW i \in Box, NEW type, Take(i, type) PROVE \A j \in Box : FlowLike(j)
<1>1. ring[i] \in Seq(Frames) /\ ring[i] # <<>> /\ ring'[i] = Tail(ring[i])
      /\ \A j \in Box \ {i} : ring'[j] = ring[j]
  BY TakeWhole
<1>2. FlowLike(i)  BY <1>1, TailFlow DEF FlowLike
<1> QED  BY <1>1, <1>2, LikeSame

\* A frame comes in that is no flow control.
LEMMA LikePut ==
  ASSUME IInv, NEW i \in Box, NEW f \in Frames, f.type # "flow",
         UNCHANGED ring \/ ring' = [ring EXCEPT ![i] = Append(@, f)]
  PROVE  \A j \in Box : FlowLike(j)
<1>1. ring \in [Box -> Seq(Frames)]  BY DEF IInv, RingGood
<1>2. CASE UNCHANGED ring  BY <1>2, LikeSame
<1>3. CASE ring' = [ring EXCEPT ![i] = Append(@, f)]
  <2>1. ring'[i] = Append(ring[i], f) /\ \A j \in Box \ {i} : ring'[j] = ring[j]  BY <1>1, <1>3
  <2>2. FlowLike(i)  BY <1>1, <2>1, AppendFlow DEF FlowLike
  <2> QED  BY <2>1, <2>2, LikeSame
<1> QED  BY <1>2, <1>3
-----------------------------------------------------------------------------
(* Steps that send nothing *)

\* What the ECU of mailbox i makes of the device's message.
WantSame(i) ==
  /\ ecu'[i].want = ecu[i].want /\ ecu'[i].sn = ecu[i].sn
  /\ ecu'[i].owes = ecu[i].owes /\ ecu'[i].grant = ecu[i].grant

LEMMA SendKept ==
  ASSUME SInv, UNCHANGED <<isSending, tx, sn, txBlock, txFrames, logVars>>, clear' => clear,
         "flooded" \notin faults', \A j \in Box : WantSame(j) /\ FlowLike(j)
  PROVE  SInv'
<1>1. UNCHANGED <<accepted, confirmed, received>>  BY DEF logVars
<1>2. ASSUME NEW j \in Box, Idle(j) PROVE Idle(j)'
  BY <1>2 DEF Idle, WantSame, FlowLike
<1>3. ASSUME NEW j \in Box, Awaits(j) PROVE Awaits(j)'
  BY <1>3 DEF Awaits, Ready, WantSame, FlowLike
<1> QED  BY <1>1, <1>2, <1>3 DEF SInv

\* What an ECU does about its own message.
LEMMA OwnSame ==
  ASSUME IInv, NEW i \in Box,
         \/ ecu' = ecu \/ EcuNext(i) \/ EcuGivesUp(i) \/ (\E n \in Lens : EcuFirst(i, n))
         \/ (\E b : EcuTakesFlow(i, b))
  PROVE  \A j \in Box : WantSame(j)
<1>1. ecu \in [Box -> EcuStates] /\ ecu[i] \in EcuStates  BY DEF IInv, EcuGood
<1>2. CASE ecu' = ecu  BY <1>2 DEF WantSame
<1>3. CASE EcuNext(i)  BY <1>1, <1>3 DEF EcuNext, WantSame, EcuStates
<1>4. CASE EcuGivesUp(i)  BY <1>1, <1>4 DEF EcuGivesUp, WantSame, EcuStates
<1>5. ASSUME NEW n \in Lens, EcuFirst(i, n) PROVE \A j \in Box : WantSame(j)
  BY <1>1, <1>5 DEF EcuFirst, WantSame, EcuStates
<1>6. ASSUME NEW b, EcuTakesFlow(i, b) PROVE \A j \in Box : WantSame(j)
  <2>1. ecu' = ecu \/ \E c : ecu' = [ecu EXCEPT ![i].credit = c]  BY <1>6 DEF EcuTakesFlow
  <2> QED  BY <1>1, <2>1 DEF WantSame, EcuStates
<1> QED  BY <1>2, <1>3, <1>4, <1>5, <1>6

\* The device takes a frame of a message, or a flow control it does not know.
LEMMA TakenSends ==
  ASSUME IInv, SInv, NEW i \in Box,
         RxSingleFrame(i) \/ SendFfIndication(i) \/ RxMultiFrame(i) \/ IgnoreFc(i)
  PROVE  SInv'
<1>1. PICK type : Take(i, type)
  BY DEF RxSingleFrame, SendFfIndication, FirstFrame, RxMultiFrame, IgnoreFc
<1>2. UNCHANGED <<isSending, clear, tx, sn, txBlock, txFrames, logVars>>
  BY DEF RxSingleFrame, SendFfIndication, FirstFrame, RxMultiFrame, IgnoreFc, txVars
<1>3. "flooded" \notin faults'
  BY DEF SInv, RxSingleFrame, SendFfIndication, FirstFrame, RxMultiFrame, IgnoreFc
<1>4. ecu' = ecu \/ \E b : EcuTakesFlow(i, b)
  BY DEF RxSingleFrame, SendFfIndication, FirstFrame, RxMultiFrame, IgnoreFc
<1>5. \A j \in Box : WantSame(j)  BY <1>4, OwnSame
<1> QED  BY <1>1, <1>2, <1>3, <1>5, LikeTake, SendKept

LEMMA QuietSends ==
  ASSUME IInv, SInv,
         \/ EndTurn \/ Tick \/ \E b \in AppBlocks : IoctlSet(b)
         \/ \E i \in Box : AddFilter(i) \/ RemoveFilter(i)
  PROVE  SInv'
<1>1. UNCHANGED <<isSending, tx, sn, txBlock, txFrames, logVars, ecu>> /\ (clear' => clear)
  BY DEF EndTurn, Tick, IoctlSet, AddFilter, RemoveFilter, txVars
<1>2. "flooded" \notin faults'
  BY DEF SInv, EndTurn, Tick, IoctlSet, AddFilter, RemoveFilter
<1>3. \A j \in Box : FlowLike(j)
  <2>1. CASE UNCHANGED ring  BY <2>1, LikeSame
  <2>2. ASSUME NEW i \in Box, ring' = [ring EXCEPT ![i] = <<>>] PROVE \A j \in Box : FlowLike(j)
    <3>1. ring \in [Box -> Seq(Frames)]  BY DEF IInv, RingGood
    <3>2. ring'[i] = <<>> /\ \A j \in Box \ {i} : ring'[j] = ring[j]  BY <2>2, <3>1
    <3> QED  BY <3>2, LikeSame, LikeEmpty
  <2> QED  BY <2>1, <2>2 DEF EndTurn, Tick, IoctlSet, AddFilter, RemoveFilter
<1>4. \A j \in Box : WantSame(j)  BY <1>1 DEF WantSame
<1> QED  BY <1>1, <1>2, <1>3, <1>4, SendKept

LEMMA EcuOwnSends ==
  ASSUME IInv, SInv, "stray" \notin faults', NEW i \in Box,
         \/ EcuNext(i) \/ EcuSingle(i) \/ EcuGivesUp(i) \/ \E n \in Lens : EcuFirst(i, n)
         \/ \E type \in {"flow", "wait"}, b \in EcuBlocks : EcuStray(i, type, b)
  PROVE  SInv'
<1>1. UNCHANGED <<isSending, clear, tx, sn, txBlock, txFrames, logVars>>
  BY DEF EcuNext, EcuSingle, EcuGivesUp, EcuFirst, EcuStray, Device, txVars
<1>2. "flooded" \notin faults'
  <2>1. faults' = faults \/ faults' = faults \cup {"lost"} \/ faults' = faults \cup {"stray"}
    <3>1. ASSUME NEW f, Put(i, f) PROVE faults' = faults \/ faults' = faults \cup {"lost"}
      BY <3>1 DEF Put
    <3> QED  BY <3>1 DEF EcuNext, EcuSingle, EcuGivesUp, EcuFirst, EcuStray
  <2> QED  BY <2>1 DEF SInv
<1>3. \A j \in Box : WantSame(j)  BY OwnSame DEF EcuSingle, EcuStray
<1>4. \A j \in Box : FlowLike(j)
  <2>1. CASE EcuGivesUp(i)  BY <2>1, LikeSame DEF EcuGivesUp
  <2>2. ASSUME NEW f \in Frames, f.type # "flow", Put(i, f) PROVE \A j \in Box : FlowLike(j)
    BY <2>2, LikePut DEF Put
  <2>3. CASE EcuNext(i)
    <3> DEFINE f == Frame("next", ecu[i].msg, 0, ecu[i].next)
    <3>1. f \in Frames /\ f.type # "flow"  BY EcuParts DEF IInv, Frame, Frames
    <3>2. Put(i, f)  BY <2>3 DEF EcuNext
    <3> HIDE DEF f
    <3> QED  BY <2>2, <3>1, <3>2
  <2>4. CASE EcuSingle(i)
    <3> DEFINE f == Frame("single", msgs + 1, CfBytes, 0)
    <3>1. f \in Frames /\ f.type # "flow"
      BY <2>4, IsoConstants DEF EcuSingle, IInv, EnvGood, Frame, Frames
    <3>2. Put(i, f)  BY <2>4 DEF EcuSingle
    <3> HIDE DEF f
    <3> QED  BY <2>2, <3>1, <3>2
  <2>5. ASSUME NEW n \in Lens, EcuFirst(i, n) PROVE \A j \in Box : FlowLike(j)
    <3> DEFINE f == Frame("first", msgs + 1, n, 0)
    <3>1. Put(i, f) /\ msgs < MaxMsgs  BY <2>5 DEF EcuFirst
    <3>2. msgs + 1 \in 0 .. MaxMsgs  BY <3>1, IsoConstants DEF IInv, EnvGood
    <3>3. f.type # "flow"  BY DEF Frame
    <3>4. f \in Frames  BY <2>5, <3>2 DEF Frame, Frames
    <3> HIDE DEF f
    <3> QED  BY <2>2, <3>1, <3>3, <3>4
  <2>6. ASSUME NEW type \in {"flow", "wait"}, NEW b \in EcuBlocks, EcuStray(i, type, b)
        PROVE  \A j \in Box : FlowLike(j)
    <3> DEFINE f == Frame(type, 0, b, 0)
    <3>1. type = "wait"  BY <2>6 DEF EcuStray
    <3>2. f \in Frames /\ f.type # "flow"
      BY <3>1, BlocksNat, IsoConstants DEF Frame, Frames
    <3>3. ring' = [ring EXCEPT ![i] = Append(@, f)]  BY <2>6 DEF EcuStray
    <3> HIDE DEF f
    <3> QED  BY <3>2, <3>3, LikePut
  <2> QED  BY <2>1, <2>3, <2>4, <2>5, <2>6
<1> QED  BY <1>1, <1>2, <1>3, <1>4, SendKept
-----------------------------------------------------------------------------
(* Steps of the device's message *)

\* The device begins a message: no ECU waited for anything.
LEMMA SendMsgSends ==
  ASSUME IInv, SInv, NEW i \in Box, NEW n \in SendLens, SendMsg(i, n) PROVE SInv'
<1>1. /\ ~isSending /\ isSending' = TRUE /\ clear' = FALSE /\ sn' = 1 % SnMod
      /\ accepted' = accepted + 1 /\ UNCHANGED <<confirmed, received, ring, faults>>
      /\ tx' = [box |-> i, size |-> n + IdBytes, pos |-> IdBytes + FfBytes]
  BY DEF SendMsg
<1>2. /\ ecu'[i].want = n - FfBytes /\ ecu'[i].sn = 1 % SnMod /\ ecu'[i].owes = TRUE
      /\ ecu'[i].grant = 0 /\ \A j \in Box \ {i} : ecu'[j] = ecu[j]
  BY DEF SendMsg, EcuTakesFirst, IInv, EcuGood, EcuStates
<1>3. n \in Nat /\ n >= 8  BY LensNat
<1>4. NoFlow(ring'[i])  BY <1>1 DEF SInv, Idle
<1>5. tx'.pos < tx'.size /\ ecu'[i].want = tx'.size - tx'.pos /\ tx'.box = i
  BY <1>1, <1>2, <1>3, IsoConstants
<1>6. Awaits(i)'  BY <1>1, <1>2, <1>4, <1>5, NoFlowOne DEF Awaits
<1>7. \A j \in Box \ {i} : Idle(j)'  BY <1>1, <1>2 DEF SInv, Idle
<1>8. confirmed' = received' /\ accepted' = received' + 1
  BY <1>1 DEF SInv, IInv, LogGood
<1> QED  BY <1>1, <1>5, <1>6, <1>7, <1>8 DEF SInv

\* Flow control is that of the ECU the message goes to.
LEMMA HandleFcSends ==
  ASSUME IInv, SInv, NEW i \in Box, HandleFc(i) PROVE SInv'
<1> DEFINE f == Head(ring[i])
<1>1. /\ txBlock' = FlowBlock(f.n) /\ txFrames' = 0 /\ clear' = TRUE /\ isSending' = TRUE
      /\ UNCHANGED <<tx, sn, accepted, confirmed, received, ecu, faults>> /\ Take(i, "flow")
  BY DEF HandleFc, logVars
<1>2. /\ ring[i] \in Seq(Frames) /\ ring[i] # <<>> /\ f.type = "flow" /\ f \in Frames
      /\ ring'[i] = Tail(ring[i]) /\ \A j \in Box \ {i} : ring'[j] = ring[j]
  BY <1>1, TakeWhole
<1>3. ~NoFlow(ring[i])  BY <1>2, TailFlow
<1>4. isSending /\ i = tx.box /\ Awaits(i)  BY <1>3 DEF SInv, Idle
<1>5. ~ecu[i].owes  BY <1>3, <1>4 DEF Awaits
<1>6. Grants(f.n, ecu[i].grant, ecu[i].want) /\ NoFlow(ring'[i])
  BY <1>2, <1>4, TailFlow DEF Awaits
<1>7. f.n \in Nat
  <2>1. f.n \in Lens \cup Nat  BY <1>2 DEF Frames
  <2> QED  BY <2>1, LensNat
<1>8. Ready(i)'
  <2>1. CASE f.n = 0  BY <1>1, <1>6, <2>1 DEF Grants, Ready
  <2>2. CASE f.n # 0
    <3>1. txBlock' = f.n /\ ecu'[i].grant = f.n  BY <1>1, <1>6, <2>2 DEF FlowBlock, Grants
    <3>2. txFrames' < txBlock' /\ txBlock' - txFrames' = f.n  BY <1>1, <1>7, <2>2, <3>1
    <3> QED  BY <3>1, <3>2 DEF Ready
  <2> QED  BY <2>1, <2>2
<1>9. Awaits(i)'  BY <1>1, <1>4, <1>5, <1>6, <1>8, NoFlowOne DEF Awaits
<1>10. \A j \in Box \ {i} : Idle(j)'  BY <1>1, <1>2, <1>4 DEF SInv, Idle
<1> QED  BY <1>1, <1>4, <1>9, <1>10 DEF SInv

\* The ECU that owes flow control sends it, or it is lost.
LEMMA EcuFlowSends ==
  ASSUME IInv, SInv, NEW i \in Box, NEW b \in EcuBlocks, EcuFlow(i, b) PROVE SInv'
<1> DEFINE f == Frame("flow", 0, b, 0)
           g == IF b = 0 THEN Cfs(ecu[i].want + CfBytes) ELSE b
<1>1. /\ ecu[i].owes /\ Put(i, f)
      /\ UNCHANGED <<isSending, clear, tx, sn, txBlock, txFrames, accepted, confirmed, received>>
  BY DEF EcuFlow, Device, txVars, logVars
<1>2. /\ ecu'[i].want = ecu[i].want /\ ecu'[i].sn = ecu[i].sn /\ ecu'[i].owes = FALSE
      /\ ecu'[i].grant = g /\ \A j \in Box \ {i} : ecu'[j] = ecu[j]
  <2> HIDE DEF f
  <2>1. ecu' = [ecu EXCEPT ![i] = [@ EXCEPT !.owes = FALSE, !.grant = g]]  BY DEF EcuFlow
  <2> HIDE DEF g
  <2> QED  BY <2>1 DEF IInv, EcuGood, EcuStates
<1>3. isSending /\ i = tx.box /\ Awaits(i)  BY <1>1 DEF SInv, Idle
<1>4. ~clear /\ NoFlow(ring[i])  BY <1>1, <1>3 DEF Awaits
<1>5. f \in Frames /\ f.n = b  BY BlocksNat, IsoConstants DEF Frame, Frames
<1>6. Grants(b, g, ecu[i].want)
  <2>1. CASE b = 0
    <3> DEFINE w == ecu[i].want
    <3>1. w \in Nat  BY EcuParts DEF IInv
    <3> HIDE DEF w
    <3>2. 7 * ((w + 7) \div 7) >= w  BY <3>1
    <3>3. CfBytes * Cfs(w + CfBytes) >= w  BY <3>2 DEF Cfs, CfBytes
    <3> QED  BY <2>1, <3>3 DEF Grants, w
  <2>2. CASE b # 0  BY <2>2 DEF Grants
  <2> QED  BY <2>1, <2>2
<1> HIDE DEF f, g
<1>7. /\ ring'[i] = ring[i] \/ ring'[i] = Append(ring[i], f)
      /\ \A j \in Box \ {i} : ring'[j] = ring[j]
      /\ "flooded" \notin faults'
  <2>1. ring \in [Box -> Seq(Frames)] /\ "flooded" \notin faults  BY DEF IInv, RingGood, SInv
  <2>2. ring' = ring \/ ring' = [ring EXCEPT ![i] = Append(@, f)]  BY <1>1 DEF Put
  <2>3. faults' = faults \/ faults' = faults \cup {"lost"}  BY <1>1 DEF Put
  <2> QED  BY <2>1, <2>2, <2>3
<1>8. OneFlow(ring'[i], g, ecu[i].want)
  <2>1. ring[i] \in Seq(Frames)  BY DEF IInv, RingGood
  <2> QED  BY <1>4, <1>5, <1>6, <1>7, <2>1, AppendFlow, NoFlowOne
<1>9. Awaits(i)'  BY <1>1, <1>2, <1>3, <1>4, <1>8 DEF Awaits
<1>10. \A j \in Box \ {i} : Idle(j)'  BY <1>2, <1>3, <1>7 DEF SInv, Idle
<1> QED  BY <1>1, <1>3, <1>4, <1>7, <1>9, <1>10 DEF SInv

\* The ECU takes the frame it waits for.
LEMMA NextTaken ==
  ASSUME IInv, NEW i \in Box, EcuTakesNext(i, ecu[i].sn), ecu[i].want > 0, ecu[i].grant > 0
  PROVE  /\ faults' = faults /\ \A j \in Box \ {i} : ecu'[j] = ecu[j]
         /\ ecu[i].want <= CfBytes =>
              received' = received + 1 /\ ecu'[i].want = 0 /\ ~ecu'[i].owes
         /\ ecu[i].want > CfBytes =>
              /\ received' = received /\ ecu'[i].want = ecu[i].want - CfBytes
              /\ ecu'[i].sn = (ecu[i].sn + 1) % SnMod /\ ecu'[i].grant = ecu[i].grant - 1
              /\ ecu'[i].owes = (ecu[i].grant = 1)
<1> DEFINE e    == ecu[i]
           left == e.want - AtMost(CfBytes, e.want)
           done == [e EXCEPT !.want = 0, !.sn = 1 % SnMod, !.grant = 0, !.owes = FALSE]
           more == [e EXCEPT !.want = left, !.sn = (@ + 1) % SnMod, !.grant = @ - 1, !.owes = e.grant = 1]
<1>1. e \in EcuStates /\ e.want \in Nat /\ e.grant \in Nat /\ e.want # 0 /\ e.grant # 0
  BY EcuParts DEF IInv
<1>2. /\ ecu' = [ecu EXCEPT ![i] = IF left = 0 THEN done ELSE more]
      /\ received' = IF left = 0 THEN received + 1 ELSE received
      /\ faults' = faults
  BY <1>1 DEF EcuTakesNext
<1>3. ecu'[i] = IF left = 0 THEN done ELSE more
  <2> HIDE DEF done, more, left
  <2> QED  BY <1>2 DEF IInv, EcuGood
<1>4. \A j \in Box \ {i} : ecu'[j] = ecu[j]
  <2> HIDE DEF done, more, left
  <2> QED  BY <1>2 DEF IInv, EcuGood
<1>5. /\ e.want <= CfBytes => left = 0
      /\ e.want > CfBytes => left # 0 /\ left = e.want - CfBytes
  BY <1>1, IsoConstants DEF AtMost
<1> HIDE DEF left
<1>6. done.want = 0 /\ done.owes = FALSE  BY <1>1 DEF EcuStates
<1>7. /\ more.want = left /\ more.sn = (e.sn + 1) % SnMod /\ more.grant = e.grant - 1
      /\ more.owes = (e.grant = 1)
  BY <1>1 DEF EcuStates
<1> HIDE DEF done, more
<1> QED  BY <1>2, <1>3, <1>4, <1>5, <1>6, <1>7
\* The device sends the next frame: the ECU was ready for it.
LEMMA TxMultiSends ==
  ASSUME IInv, SInv, TxMultiFrame PROVE SInv'
<1>0. PICK i \in Box : i = tx.box  BY DEF IInv, TxGood
<1> DEFINE e == ecu[i]
<1>1. /\ isSending /\ clear /\ EcuTakesNext(i, sn) /\ tx' = [tx EXCEPT !.pos = TxPos]
      /\ sn' = (sn + 1) % SnMod /\ txFrames' = txFrames + 1
      /\ UNCHANGED <<ring, txBlock, accepted>>
  BY <1>0 DEF TxMultiFrame, NextFrame
<1>e. \/ /\ TxPos >= tx.size /\ clear' = FALSE /\ isSending' = FALSE
         /\ confirmed' = confirmed + 1
      \/ /\ ~(TxPos >= tx.size) /\ clear' = ~(txFrames + 1 >= txBlock)
         /\ isSending' = isSending /\ confirmed' = confirmed
  BY DEF TxMultiFrame, NextFrame
<1>2. /\ tx.pos \in Nat /\ tx.size \in Nat /\ txBlock \in Nat /\ txFrames \in Nat
      /\ tx'.pos = TxPos /\ tx'.size = tx.size /\ tx'.box = i
  BY <1>0, <1>1 DEF IInv, TxGood
<1>3. Awaits(i)  BY <1>0, <1>1 DEF SInv
<1>4. tx.pos < tx.size /\ e.want = tx.size - tx.pos /\ e.sn = sn /\ ~e.owes /\ NoFlow(ring[i])
      /\ Ready(i)
  BY <1>1, <1>3 DEF Awaits
<1>5. e.want \in Nat /\ e.grant \in Nat /\ e.want > 0  BY <1>2, <1>4, EcuParts DEF IInv
<1>6. e.grant > 0
  <2>1. CASE txFrames < txBlock /\ e.grant = txBlock - txFrames  BY <1>2, <1>5, <2>1
  <2>2. CASE CfBytes * e.grant >= e.want  BY <1>5, <2>2, IsoConstants
  <2> QED  BY <1>4, <2>1, <2>2 DEF Ready
<1>7. /\ faults' = faults /\ \A j \in Box \ {i} : ecu'[j] = ecu[j]
      /\ e.want <= CfBytes => received' = received + 1 /\ ecu'[i].want = 0 /\ ~ecu'[i].owes
      /\ e.want > CfBytes =>
           /\ received' = received /\ ecu'[i].want = e.want - CfBytes
           /\ ecu'[i].sn = (e.sn + 1) % SnMod /\ ecu'[i].grant = e.grant - 1
           /\ ecu'[i].owes = (e.grant = 1)
  BY <1>1, <1>2, <1>4, <1>5, <1>6, NextTaken
<1>8. \A j \in Box \ {i} : Idle(j) /\ Idle(j)'  BY <1>0, <1>1, <1>7 DEF SInv, Idle
<1>9. /\ confirmed = received /\ accepted = received + 1 /\ "flooded" \notin faults'
      /\ received \in Nat
  BY <1>1, <1>7 DEF SInv, IInv, LogGood
<1>10. CASE e.want <= CfBytes
  <2>1. TxPos >= tx.size  BY <1>2, <1>4, <1>10, IsoConstants DEF TxPos, CopyLen
  <2>2. clear' = FALSE /\ isSending' = FALSE /\ confirmed' = confirmed + 1
    BY <1>e, <2>1
  <2>3. Idle(i)'  BY <1>1, <1>4, <1>7, <1>10 DEF Idle
  <2> QED  BY <1>1, <1>7, <1>8, <1>9, <1>10, <2>2, <2>3 DEF SInv
<1>11. CASE e.want > CfBytes
  <2>1. TxPos = tx.pos + CfBytes /\ TxPos < tx.size
    BY <1>2, <1>4, <1>11, IsoConstants DEF TxPos, CopyLen
  <2>2. /\ (clear' <=> ~(txFrames + 1 >= txBlock)) /\ isSending' = isSending
        /\ confirmed' = confirmed
    <3>1. ~(TxPos >= tx.size)  BY <1>2, <2>1, IsoConstants
    <3> QED  BY <1>e, <3>1
  <2>3. ecu'[i].want = tx'.size - tx'.pos /\ tx'.pos < tx'.size
    BY <1>2, <1>4, <1>7, <1>11, <2>1, IsoConstants
  <2>4. clear' => Ready(i)' /\ ~ecu'[i].owes
    <3> SUFFICES ASSUME clear' PROVE Ready(i)' /\ ~ecu'[i].owes  OBVIOUS
    <3>1. txFrames + 1 < txBlock  BY <1>2, <2>2
    <3>2. ecu'[i].grant = e.grant - 1 /\ ecu'[i].want = e.want - CfBytes
          /\ ecu'[i].owes = (e.grant = 1)
      BY <1>7, <1>11
    <3>3. CASE txFrames < txBlock /\ e.grant = txBlock - txFrames
      <4>1. txFrames' < txBlock' /\ ecu'[i].grant = txBlock' - txFrames'
        BY <1>1, <1>2, <3>1, <3>2, <3>3
      <4>2. e.grant # 1  BY <1>2, <3>1, <3>3
      <4> QED  BY <3>2, <4>1, <4>2 DEF Ready
    <3>4. CASE CfBytes * e.grant >= e.want
      <4>1. CfBytes * ecu'[i].grant >= ecu'[i].want  BY <1>5, <1>6, <3>2, <3>4, IsoConstants
      <4>2. e.grant # 1  BY <1>5, <1>11, <3>4, IsoConstants
      <4> QED  BY <3>2, <4>1, <4>2 DEF Ready
    <3> QED  BY <1>4, <3>3, <3>4 DEF Ready
  <2>5. Awaits(i)'
    BY <1>1, <1>4, <1>7, <1>11, <2>3, <2>4, NoFlowOne DEF Awaits
  <2> QED  BY <1>1, <1>2, <1>7, <1>8, <1>9, <1>11, <2>2, <2>5 DEF SInv
<1> QED  BY <1>5, <1>10, <1>11, IsoConstants
-----------------------------------------------------------------------------
(* The theorems *)

LEMMA InitSending == IsoInit => Sending
<1> SUFFICES ASSUME IsoInit PROVE SInv  BY DEF Sending
<1>1. ASSUME NEW i \in Box PROVE Idle(i)
  BY NoFlowEmpty DEF IsoInit, Idle, Quiet
<1> QED  BY <1>1 DEF IsoInit, SInv

LEMMA NextSending == IInv /\ Sending /\ [IsoNext]_vars => Sending'
<1> SUFFICES ASSUME IInv, Sending, [IsoNext]_vars, "stray" \notin faults' PROVE SInv'
  BY DEF Sending
<1>1. SInv  BY FaultsGrow DEF Sending
<1>2. CASE UNCHANGED vars
  <2>1. UNCHANGED <<isSending, clear, tx, sn, txBlock, txFrames, logVars, ecu, ring, faults>>
    BY <1>2 DEF vars, txVars
  <2>2. \A j \in Box : WantSame(j) /\ FlowLike(j)  BY <2>1, LikeSame DEF WantSame
  <2>3. "flooded" \notin faults'  BY <1>1, <2>1 DEF SInv
  <2> QED  BY <1>1, <2>1, <2>2, <2>3, SendKept
<1>3. ASSUME NEW i \in Box, Handle(i) PROVE SInv'
  BY <1>1, <1>3, TakenSends, HandleFcSends DEF Handle
<1>4. CASE TxMultiFrame \/ EndTurn \/ Tick \/ \E b \in AppBlocks : IoctlSet(b)
  BY <1>1, <1>4, TxMultiSends, QuietSends
<1>5. ASSUME NEW i \in Box,
             \/ AddFilter(i) \/ RemoveFilter(i) \/ \E n \in SendLens : SendMsg(i, n)
             \/ EcuSends(i) \/ EcuSingle(i) \/ EcuGivesUp(i) \/ \E n \in Lens : EcuFirst(i, n)
             \/ \E type \in {"flow", "wait"}, b \in EcuBlocks : EcuStray(i, type, b)
      PROVE  SInv'
  BY <1>1, <1>5, QuietSends, SendMsgSends, EcuOwnSends, EcuFlowSends DEF EcuSends
<1> QED  BY <1>2, <1>3, <1>4, <1>5 DEF IsoNext, Turn

\* tx_multi_frame (comm_channel_iso15765.cpp:267) confirms a message to the
\* driver once, and only when its ECU has all of it, for any lengths, block
\* sizes and number of ECUs - as long as no flow control comes that the device
\* did not ask for.
THEOREM IsoConfirmedOnce == IsoSpec => []ConfirmedOnce
<1>1. IInv /\ Sending => ConfirmedOnce
  <2> SUFFICES ASSUME IInv, SInv PROVE confirmed <= received /\ received <= accepted
    BY DEF Sending, ConfirmedOnce
  <2> QED  BY DEF SInv, IInv, LogGood
<1> QED  BY <1>1, InitSending, NextSending, IInvInvariant, PTL DEF IsoSpec

\* "Here, we honour the ECU's COM Parameters" (comm_channel_iso15765.cpp:130):
\* an ECU is never sent a frame it is not ready for, whatever block sizes it
\* asks for, under the same condition.
THEOREM IsoBlockHonoured == IsoSpec => []BlockHonoured
<1>1. Sending => BlockHonoured  BY DEF Sending, SInv, BlockHonoured
<1> QED  BY <1>1, InitSending, NextSending, IInvInvariant, PTL DEF IsoSpec
=============================================================================
