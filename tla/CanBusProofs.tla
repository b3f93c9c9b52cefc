---------------------------- MODULE CanBusProofs ----------------------------
(***************************************************************************)
(* For any number of mailboxes, any rings and any bounds: the types of     *)
(* CanBus, the order of what is sent, and that what is read and told       *)
(* belongs to the filter it is read for.                                   *)
(*                                                                         *)
(* The order is inductive once it is said of the places one by one         *)
(* (Ordered).  The filters need more (Served): while the channel is open   *)
(* an interrupt is pending as soon as a mailbox holds a frame, so that no  *)
(* call of the loop finds one that came for an earlier filter.             *)
(***************************************************************************)
EXTENDS CanBus, SequenceTheorems, TLAPS

\* What is out, in the mailbox and in the ring, each later than the one before.
Ordered ==
  /\ out <= sends
  /\ sending # 0 => out < sending /\ sending <= sends
  /\ \A k \in 1 .. Len(txRing) : out < txRing[k] /\ sending < txRing[k] /\ txRing[k] <= sends
  /\ \A j, k \in 1 .. Len(txRing) : j < k => txRing[j] < txRing[k]

IsPass(i) == filter[i].type = "pass"

\* Open means that interrupts come; filters are those of an open channel, with
\* their callback; a pass filter is what the mailbox is programmed for, and
\* what it and its ring hold.
Served ==
  /\ chan => nvic /\ Box \subseteq imr
  /\ \A i \in Box : Used(i) => chan /\ hook[i] = i
  /\ \A i \in Box : hook[i] \in {i, TxBox}
  /\ \A i \in Box : IsPass(i) =>
       /\ mask[i] = filter[i].mask /\ id[i] = filter[i].pattern
       /\ full[i] # None => Matches(full[i], mask[i], id[i])

CInv == CanTypeOK /\ Ordered /\ Served /\ FiledByFilter /\ ToldPasses
-----------------------------------------------------------------------------
(* Data *)

LEMMA AndBits == ASSUME NEW x \in Bits, NEW m \in Bits PROVE And(x, m) \in Bits
  BY DEF And, Bits

LEMMA FiltersType ==
  Filters \subseteq [type : {"none", "pass", "block"}, mask : Bits, pattern : Bits]
<1> SUFFICES ASSUME NEW type \in {"pass", "block"}, NEW m \in Masks, NEW p \in Ids
             PROVE  Filter(type, m, And(p, m)) \in [type : {"none", "pass", "block"}, mask : Bits, pattern : Bits]
  BY DEF Filters
<1>1. m \in Bits /\ p \in Bits  BY CanAssumption DEF CanAssumption, Bits
<1>2. And(p, m) \in Bits  BY <1>1, AndBits
<1> QED  BY <1>1, <1>2 DEF Filter

LEMMA FiltersUsed == ASSUME NEW f \in Filters PROVE f.type \in {"pass", "block"}
  BY DEF Filters, Filter

LEMMA Constants == /\ Boxes \in Nat /\ Boxes > 0 /\ TxRoom \in Nat /\ TxRoom > 0
                   /\ RxRoom \in Nat /\ RxRoom > 0 /\ Ids \subseteq Bits /\ MaxSends \in Nat
                   /\ TxBox = Boxes /\ TxBox \notin Box
  BY CanAssumption DEF CanAssumption, Bits, TxBox, Box

\* The order, as the property says it.
LEMMA OrderedIsOrder == ASSUME CanTypeOK, Ordered PROVE SendOrder
<1> DEFINE S == IF sending = 0 THEN <<>> ELSE <<sending>>
           w == <<out>> \o S \o txRing
           n == IF sending = 0 THEN 1 ELSE 2
<1>1. txRing \in Seq(Nat) /\ out \in Nat /\ sending \in Nat /\ sends \in Nat
  BY Constants DEF CanTypeOK
<1>2. /\ Len(w) = Len(txRing) + n /\ w[1] = out /\ (n = 2 => w[2] = sending)
      /\ \A k \in n + 1 .. Len(w) : w[k] = txRing[k - n]
  <2>1. CASE sending = 0  BY <1>1, <2>1
  <2>2. CASE sending # 0  BY <1>1, <2>2
  <2> QED  BY <2>1, <2>2
<1>3. n \in 1 .. 2 /\ (sending = 0 <=> n = 1) /\ Len(txRing) \in Nat
  BY <1>1
<1> HIDE DEF w, n
<1>4. ASSUME NEW k \in n + 1 .. Len(w)
      PROVE  /\ k - n \in 1 .. Len(txRing) /\ w[k] = txRing[k - n]
             /\ txRing[k - n] \in Nat
             /\ out < w[k] /\ sending < w[k] /\ w[k] <= sends
  <2>1. k - n \in 1 .. Len(txRing)  BY <1>2, <1>3
  <2>2. w[k] = txRing[k - n]  BY <1>2
  <2>3. txRing[k - n] \in Nat  BY <2>1, <1>1
  <2> QED  BY <2>1, <2>2, <2>3 DEF Ordered
<1>5. ASSUME NEW k \in 1 .. Len(w) - 1 PROVE w[k] < w[k + 1]
  <2>1. CASE k > n
    <3>1. k \in n + 1 .. Len(w) /\ k + 1 \in n + 1 .. Len(w)  BY <1>2, <1>3, <2>1
    <3>2. (k + 1) - n = (k - n) + 1  BY <1>3
    <3>3. w[k] = txRing[k - n] /\ w[k + 1] = txRing[(k + 1) - n]  BY <3>1, <1>4
    <3>4. k - n \in 1 .. Len(txRing) /\ (k + 1) - n \in 1 .. Len(txRing)  BY <3>1, <1>4
    <3>5. k - n < (k + 1) - n  BY <1>3
    <3> QED  BY <3>3, <3>4, <3>5 DEF Ordered
  <2>2. CASE k = n
    <3>1. k + 1 \in n + 1 .. Len(w)  BY <1>2, <1>3, <2>2
    <3>2. out < w[k + 1] /\ sending < w[k + 1]  BY <3>1, <1>4
    <3>3. w[k] = out \/ w[k] = sending  BY <1>2, <1>3, <2>2
    <3> QED  BY <3>2, <3>3
  <2>3. CASE k < n
    <3>1. k = 1 /\ n = 2 /\ sending # 0  BY <1>2, <1>3, <2>3
    <3> QED  BY <3>1, <1>2, <1>3 DEF Ordered
  <2> QED  BY <2>1, <2>2, <2>3, <1>3
<1>6. ASSUME NEW k \in 1 .. Len(w) PROVE w[k] <= sends
  <2>1. CASE k > n
    <3>1. k \in n + 1 .. Len(w)  BY <2>1, <1>2, <1>3
    <3> QED  BY <3>1, <1>4
  <2>2. CASE k <= n
    <3>1. k = 1 \/ (k = 2 /\ n = 2)  BY <2>2, <1>3, <1>2
    <3> QED  BY <3>1, <1>2, <1>3, <1>1 DEF Ordered
  <2> QED  BY <2>1, <2>2, <1>3
<1>7. SendOrder <=> (/\ \A k \in 1 .. Len(w) - 1 : w[k] < w[k + 1]
                     /\ \A k \in 1 .. Len(w) : w[k] <= sends)
  BY DEF SendOrder, w
<1> QED  BY <1>5, <1>6, <1>7
-----------------------------------------------------------------------------
(* The first state *)

LEMMA InitCInv == CanInit => CInv
<1> SUFFICES ASSUME CanInit PROVE CInv
  OBVIOUS
<1> USE DEF CanInit
<1>1. CanTypeOK
  <2>1. NoFilter \in [type : {"none", "pass", "block"}, mask : Bits, pattern : Bits]
    BY DEF NoFilter, Filter, Bits
  <2>2. told \in [filter : [type : {"none", "pass", "block"}, mask : Bits, pattern : Bits], id : 0 .. None]
    BY <2>1 DEF Quiet, None
  <2>3. /\ txRing \in Seq(1 .. MaxSends) /\ Len(txRing) <= TxRoom
        /\ rxRing \in [Box -> Seq(Bits)] /\ \A i \in Box : Len(rxRing[i]) <= RxRoom
    <3>1. <<>> \in Seq(1 .. MaxSends) /\ <<>> \in Seq(Bits) /\ Len(<<>>) = 0
      OBVIOUS
    <3>2. \A i \in Box : rxRing[i] = <<>>  OBVIOUS
    <3>3. rxRing \in [Box -> Seq(Bits)]  BY <3>1
    <3> HIDE DEF CanInit
    <3>4. \A i \in Box : Len(rxRing[i]) <= RxRoom  BY <3>1, <3>2, Constants
    <3>5. txRing = <<>>  BY DEF CanInit
    <3> QED  BY <3>1, <3>3, <3>4, <3>5, Constants
  <2>4. /\ mask \in [Box -> Bits] /\ id \in [Box -> Bits]
        /\ full \in [Box -> 0 .. None] /\ hook \in [Box -> 0 .. Boxes]
    BY Constants DEF Bits, None
  <2>5. filter \in [Box -> [type : {"none", "pass", "block"}, mask : Bits, pattern : Bits]]
    BY <2>1
  <2>6. /\ sending \in 0 .. MaxSends /\ sends \in 0 .. MaxSends /\ arrivals \in 0 .. MaxArrivals
        /\ sets \in 0 .. MaxSets /\ opens \in 0 .. MaxOpens /\ out \in 0 .. MaxSends
    BY CanAssumption DEF CanAssumption
  <2>7. /\ chan \in BOOLEAN /\ buffers \in BOOLEAN /\ enabled \in BOOLEAN /\ nvic \in BOOLEAN
        /\ imr \subseteq 0 .. Boxes /\ kept \in BOOLEAN
    OBVIOUS
  <2> QED
    BY <2>2, <2>3, <2>4, <2>5, <2>6, <2>7 DEF CanTypeOK
<1>2. \A i \in Box : filter[i].type = "none"  BY DEF NoFilter, Filter
<1>3. Ordered  BY DEF Ordered
<1>4. Served  BY <1>2 DEF Served, Used, IsPass
<1>5. FiledByFilter  BY <1>2 DEF FiledByFilter
<1>6. ToldPasses  BY DEF ToldPasses, Quiet
<1> QED  BY <1>1, <1>3, <1>4, <1>5, <1>6 DEF CInv
-----------------------------------------------------------------------------
(* Types *)

LEMMA NextFrameTypes ==
  ASSUME CanTypeOK, NextFrame
  PROVE  /\ sending' \in 0 .. MaxSends /\ txRing' \in Seq(1 .. MaxSends) /\ Len(txRing') <= TxRoom
         /\ imr' \subseteq 0 .. Boxes
<1>1. txRing \in Seq(1 .. MaxSends) /\ Len(txRing) <= TxRoom /\ imr \subseteq 0 .. Boxes
      /\ sending \in 0 .. MaxSends
  BY DEF CanTypeOK
<1>2. CASE txRing # <<>>
  <2>1. Head(txRing) \in 1 .. MaxSends /\ Tail(txRing) \in Seq(1 .. MaxSends) /\ Len(Tail(txRing)) = Len(txRing) - 1
    BY <1>1, <1>2, HeadTailProperties
  <2>2. sending' = Head(txRing) /\ txRing' = Tail(txRing) /\ imr' = imr
    BY <1>2 DEF NextFrame
  <2>3. Len(txRing) \in Nat  BY <1>1
  <2>4. Head(txRing) \in 0 .. MaxSends  BY <2>1, Constants
  <2>5. Len(Tail(txRing)) <= TxRoom  BY <2>1, <2>3, <1>1, Constants
  <2> QED  BY <1>1, <2>1, <2>2, <2>4, <2>5
<1>3. CASE txRing = <<>>  BY <1>1, <1>3 DEF NextFrame
<1> QED  BY <1>2, <1>3

LEMMA QueueType ==
  ASSUME CanTypeOK, NEW n \in 1 .. MaxSends
  PROVE  Queue(n) \in Seq(1 .. MaxSends) /\ Len(Queue(n)) <= TxRoom
<1>1. CASE Len(txRing) < TxRoom
  <2>1. Append(txRing, n) \in Seq(1 .. MaxSends) /\ Len(Append(txRing, n)) = Len(txRing) + 1
    BY DEF CanTypeOK
  <2> QED  BY <1>1, <2>1, Constants DEF Queue, CanTypeOK
<1>2. CASE ~(Len(txRing) < TxRoom)  BY <1>2 DEF Queue, CanTypeOK
<1> QED  BY <1>1, <1>2

LEMMA PushedType ==
  ASSUME CanTypeOK, NEW k \in Box
  PROVE  Pushed(k) \in Seq(Bits) /\ Len(Pushed(k)) <= RxRoom
<1> DEFINE from == {i \in Box : hook[i] = k /\ full[i] # None}
<1>3. rxRing[k] \in Seq(Bits) /\ Len(rxRing[k]) \in Nat /\ Len(rxRing[k]) <= RxRoom
  BY DEF CanTypeOK
<1>1. CASE from = {} \/ Len(rxRing[k]) >= RxRoom
  <2>1. Pushed(k) = rxRing[k]  BY <1>1 DEF Pushed
  <2> QED  BY <2>1, <1>3
<1>2. CASE from # {} /\ Len(rxRing[k]) < RxRoom
  <2> DEFINE x == CHOOSE i \in from : TRUE
  <2>1. x \in Box /\ full[x] # None  BY <1>2
  <2>2. full[x] \in Bits  BY <2>1 DEF CanTypeOK, Bits, None
  <2>4. Append(rxRing[k], full[x]) \in Seq(Bits) /\ Len(Append(rxRing[k], full[x])) = Len(rxRing[k]) + 1
    BY <2>2, <1>3
  <2>5. ~(Len(rxRing[k]) >= RxRoom)  BY <1>2, <1>3, Constants
  <2>6. Pushed(k) = Append(rxRing[k], full[x])  BY <1>2, <2>5 DEF Pushed
  <2> HIDE DEF x, from
  <2>7. Len(Append(rxRing[k], full[x])) <= RxRoom  BY <1>2, <1>3, <2>4, Constants
  <2> QED  BY <2>4, <2>6, <2>7
<1> QED  BY <1>1, <1>2, <1>3, Constants

FilterType == [type : {"none", "pass", "block"}, mask : Bits, pattern : Bits]

\* CanTypeOK by the groups of variables that actions leave alone.
TypesTx == /\ sending \in 0 .. MaxSends /\ txRing \in Seq(1 .. MaxSends) /\ Len(txRing) <= TxRoom
           /\ sends \in 0 .. MaxSends /\ out \in 0 .. MaxSends
TypesReg == mask \in [Box -> Bits] /\ id \in [Box -> Bits]
TypesBox == /\ full \in [Box -> 0 .. None] /\ hook \in [Box -> 0 .. Boxes]
            /\ arrivals \in 0 .. MaxArrivals
            /\ rxRing \in [Box -> Seq(Bits)] /\ \A i \in Box : Len(rxRing[i]) <= RxRoom
TypesBus == /\ chan \in BOOLEAN /\ buffers \in BOOLEAN /\ enabled \in BOOLEAN /\ nvic \in BOOLEAN
            /\ opens \in 0 .. MaxOpens
TypesChan == filter \in [Box -> FilterType] /\ sets \in 0 .. MaxSets
TypesTold == told \in [filter : FilterType, id : 0 .. None]
TypesImr  == imr \subseteq 0 .. Boxes
TypesKept == kept \in BOOLEAN

LEMMA TypesIsTypes ==
  CanTypeOK <=> /\ TypesTx /\ TypesReg /\ TypesBox /\ TypesBus /\ TypesChan
                /\ TypesTold /\ TypesImr /\ TypesKept
  BY DEF CanTypeOK, TypesTx, TypesReg, TypesBox, TypesBus, TypesChan, TypesTold, TypesImr,
         TypesKept, FilterType

LEMMA TypesIsTypesNext ==
  CanTypeOK' <=> /\ TypesTx' /\ TypesReg' /\ TypesBox' /\ TypesBus' /\ TypesChan'
                 /\ TypesTold' /\ TypesImr' /\ TypesKept'
  BY DEF CanTypeOK, TypesTx, TypesReg, TypesBox, TypesBus, TypesChan, TypesTold, TypesImr,
         TypesKept, FilterType

LEMMA TypesKeptTx == ASSUME TypesTx, UNCHANGED txVars PROVE TypesTx'
  BY DEF TypesTx, txVars
LEMMA TypesKeptReg == ASSUME TypesReg, UNCHANGED regVars PROVE TypesReg'
  BY DEF TypesReg, regVars
LEMMA TypesKeptBox == ASSUME TypesBox, UNCHANGED boxVars PROVE TypesBox'
  BY DEF TypesBox, boxVars
LEMMA TypesKeptBus == ASSUME TypesBus, UNCHANGED busVars PROVE TypesBus'
  BY DEF TypesBus, busVars
LEMMA TypesKeptChan == ASSUME TypesChan, UNCHANGED chanVars PROVE TypesChan'
  BY DEF TypesChan, chanVars

LEMMA QuietType == ASSUME told' = Quiet PROVE TypesTold'
<1>1. NoFilter \in FilterType  BY DEF NoFilter, Filter, Bits, FilterType
<1> QED  BY <1>1 DEF Quiet, None, TypesTold

\* Empty rings.
LEMMA EmptyRings ==
  /\ <<>> \in Seq(1 .. MaxSends) /\ Len(<<>>) = 0
  /\ [i \in Box |-> <<>>] \in [Box -> Seq(Bits)]
<1>1. <<>> \in Seq(1 .. MaxSends) /\ <<>> \in Seq(Bits) /\ Len(<<>>) = 0
  OBVIOUS
<1> QED  BY <1>1

\* The registers as init leaves them, all mailboxes blocked, or one set.
LEMMA RegTypes ==
  ASSUME TypesReg
  PROVE  /\ SetNumTXBoxes => TypesReg'
         /\ BlockAll => TypesReg'
         /\ \A i \in Box, m \in Bits, x \in Bits : SetRXFilter(i, m, x) => TypesReg'
<1>1. 0 \in Bits /\ 3 \in Bits  BY DEF Bits
<1>2. SetNumTXBoxes => TypesReg'  BY <1>1 DEF SetNumTXBoxes, TypesReg
<1>3. BlockAll => TypesReg'  BY <1>1 DEF BlockAll, TypesReg
<1>4. ASSUME NEW i \in Box, NEW m \in Bits, NEW x \in Bits, SetRXFilter(i, m, x) PROVE TypesReg'
  BY <1>4 DEF SetRXFilter, TypesReg
<1> QED  BY <1>2, <1>3, <1>4

LEMMA BoxImr == /\ Box \subseteq 0 .. Boxes /\ TxBox \in 0 .. Boxes /\ None \in 0 .. None
  BY Constants DEF Box, TxBox, None
LEMMA ArriveTypes ==
  ASSUME CanTypeOK, NEW x \in Ids, Arrive(x) PROVE CanTypeOK'
<1>1. TypesTx' /\ TypesReg' /\ TypesBus' /\ TypesChan'
  BY TypesIsTypes, TypesKeptTx, TypesKeptReg, TypesKeptBus, TypesKeptChan DEF Arrive
<1>2. TypesTold' /\ TypesImr' /\ TypesKept'
  BY QuietType, TypesIsTypes DEF Arrive, TypesImr, TypesKept
<1>3. x \in 0 .. None  BY Constants DEF Bits, None
<1>4. full' \in [Box -> 0 .. None]  BY <1>3 DEF Arrive, CanTypeOK
<1>5. arrivals' \in 0 .. MaxArrivals  BY CanAssumption DEF Arrive, CanTypeOK, CanAssumption
<1>6. TypesBox'  BY <1>4, <1>5, TypesIsTypes DEF Arrive, TypesBox
<1> QED  BY <1>1, <1>2, <1>6, TypesIsTypesNext

LEMMA SentTypes == ASSUME CanTypeOK, Sent PROVE CanTypeOK'
<1>1. TypesReg' /\ TypesBox' /\ TypesBus' /\ TypesChan'
  BY TypesIsTypes, TypesKeptReg, TypesKeptBox, TypesKeptBus, TypesKeptChan DEF Sent
<1>2. TypesTold' /\ TypesImr' /\ TypesKept'
  BY QuietType, TypesIsTypes DEF Sent, TypesImr, TypesKept
<1>3. TypesTx'  BY TypesIsTypes, Constants DEF Sent, TypesTx
<1> QED  BY <1>1, <1>2, <1>3, TypesIsTypesNext

LEMMA InterruptTypes == ASSUME CanTypeOK, Interrupt PROVE CanTypeOK'
<1>1. TypesReg' /\ TypesBus' /\ TypesChan'
  BY TypesIsTypes, TypesKeptReg, TypesKeptBus, TypesKeptChan DEF Interrupt
<1>2. TypesTold' /\ TypesKept'
  BY QuietType, TypesIsTypes DEF Interrupt, TypesKept
<1>3. full' \in [Box -> 0 .. None]  BY BoxImr DEF Interrupt
<1>4. rxRing' \in [Box -> Seq(Bits)] /\ \A i \in Box : Len(rxRing'[i]) <= RxRoom
  <2>1. rxRing' = [k \in Box |-> Pushed(k)]  BY DEF Interrupt
  <2> QED  BY <2>1, PushedType
<1>5. TypesBox'  BY <1>3, <1>4, TypesIsTypes DEF Interrupt, TypesBox
<1>6. /\ sending' \in 0 .. MaxSends /\ txRing' \in Seq(1 .. MaxSends) /\ Len(txRing') <= TxRoom
      /\ imr' \subseteq 0 .. Boxes
  <2>1. CASE Ready(TxBox)  BY <2>1, NextFrameTypes DEF Interrupt
  <2>2. CASE ~Ready(TxBox)  BY <2>2 DEF Interrupt, CanTypeOK
  <2> QED  BY <2>1, <2>2
<1>7. TypesTx'  BY <1>6, TypesIsTypes DEF Interrupt, TypesTx
<1>8. TypesImr'  BY <1>6 DEF TypesImr
<1> QED  BY <1>1, <1>2, <1>5, <1>7, <1>8, TypesIsTypesNext

LEMMA SendFrameTypes == ASSUME CanTypeOK, SendFrame PROVE CanTypeOK'
<1> DEFINE n == sends + 1
<1>1. TypesReg' /\ TypesBox' /\ TypesBus' /\ TypesChan'
  BY TypesIsTypes, TypesKeptReg, TypesKeptBox, TypesKeptBus, TypesKeptChan DEF SendFrame
<1>2. TypesTold' /\ TypesKept'
  BY QuietType, TypesIsTypes DEF SendFrame, TypesKept
<1>3. n \in 1 .. MaxSends /\ n \in 0 .. MaxSends  BY Constants DEF SendFrame, CanTypeOK
<1>4. /\ sends' = n /\ out' = out
      /\ sending' = n \/ sending' = sending
      /\ txRing' = Queue(n) \/ txRing' = txRing
      /\ imr' = imr \cup {TxBox} \/ imr' = imr
  BY DEF SendFrame
<1>5. Queue(n) \in Seq(1 .. MaxSends) /\ Len(Queue(n)) <= TxRoom  BY <1>3, QueueType
<1> HIDE DEF n
<1>6. TypesTx'  BY <1>3, <1>4, <1>5, TypesIsTypes DEF TypesTx
<1>7. TypesImr'  BY <1>4, BoxImr, TypesIsTypes DEF TypesImr
<1> QED  BY <1>1, <1>2, <1>6, <1>7, TypesIsTypesNext

\* What opening does, successful or not.
LEMMA InitBuffersTypes ==
  ASSUME CanTypeOK, InitBuffers, opens < MaxOpens
  PROVE  /\ buffers' \in BOOLEAN /\ kept' \in BOOLEAN /\ opens' \in 0 .. MaxOpens
         /\ txRing' \in Seq(1 .. MaxSends) /\ Len(txRing') <= TxRoom
         /\ hook' \in [Box -> 0 .. Boxes]
<1>1. opens' \in 0 .. MaxOpens  BY CanAssumption DEF InitBuffers, CanTypeOK, CanAssumption
<1>2. hook' \in [Box -> 0 .. Boxes]  BY BoxImr DEF InitBuffers
<1>3. txRing' = txRing \/ txRing' = <<>>  BY DEF InitBuffers
<1>4. txRing' \in Seq(1 .. MaxSends) /\ Len(txRing') <= TxRoom
  <2>1. CASE txRing' = txRing  BY <2>1 DEF CanTypeOK
  <2>2. CASE txRing' = <<>>  BY <2>2, EmptyRings, Constants
  <2> QED  BY <2>1, <2>2, <1>3
<1>5. buffers' \in BOOLEAN  BY DEF InitBuffers
<1>6. kept' \in BOOLEAN  BY DEF InitBuffers
<1> QED  BY <1>1, <1>2, <1>4, <1>5, <1>6

LEMMA EmptiedTypes ==
  ASSUME rxRing' = [i \in Box |-> <<>>]
  PROVE  rxRing' \in [Box -> Seq(Bits)] /\ \A i \in Box : Len(rxRing'[i]) <= RxRoom
<1>1. \A i \in Box : Len(rxRing'[i]) = 0  BY EmptyRings
<1> QED  BY <1>1, EmptyRings, Constants
LEMMA OpenTypes == ASSUME CanTypeOK, Open \/ OpenTimesOut \/ OpenFails PROVE CanTypeOK'
<1>1. InitBuffers /\ opens < MaxOpens  BY DEF Open, OpenTimesOut, OpenFails
<1>2. /\ buffers' \in BOOLEAN /\ kept' \in BOOLEAN /\ opens' \in 0 .. MaxOpens
      /\ txRing' \in Seq(1 .. MaxSends) /\ Len(txRing') <= TxRoom
      /\ hook' \in [Box -> 0 .. Boxes]
  BY <1>1, InitBuffersTypes
<1>3. /\ out' = out /\ sends' = sends /\ (sending' = 0 \/ sending' = sending)
  BY DEF Open, OpenTimesOut, OpenFails, Started
<1>4. TypesTx'  BY <1>2, <1>3, TypesIsTypes, Constants DEF TypesTx
<1>5. (SetNumTXBoxes \/ BlockAll \/ UNCHANGED regVars)  BY DEF Open, OpenTimesOut, OpenFails
<1>6. TypesReg'  BY <1>5, RegTypes, TypesKeptReg, TypesIsTypes
<1>7. full' = [i \in Box |-> None] \/ full' = full
  BY DEF Open, OpenTimesOut, OpenFails, Started
<1>8. full' \in [Box -> 0 .. None]  BY <1>7, BoxImr DEF CanTypeOK
<1>9. rxRing' \in [Box -> Seq(Bits)] /\ \A i \in Box : Len(rxRing'[i]) <= RxRoom
  <2>1. rxRing' = [i \in Box |-> <<>>] \/ rxRing' = rxRing  BY DEF Open, OpenTimesOut, OpenFails
  <2>2. CASE rxRing' = rxRing  BY <2>2 DEF CanTypeOK
  <2> QED  BY <2>1, <2>2, EmptiedTypes
<1>10. TypesBox'  BY <1>2, <1>8, <1>9, TypesIsTypes DEF TypesBox, Open, OpenTimesOut, OpenFails
<1>11. /\ chan' \in BOOLEAN /\ enabled' \in BOOLEAN /\ nvic' \in BOOLEAN
  BY DEF Open, OpenTimesOut, OpenFails, Started, CanTypeOK
<1>12. TypesBus'  BY <1>2, <1>11 DEF TypesBus
<1>13. TypesChan'  BY TypesIsTypes, TypesKeptChan DEF Open, OpenTimesOut, OpenFails
<1>14. TypesTold'  BY QuietType DEF Open, OpenTimesOut, OpenFails, Loop
<1>15. imr' = Box \/ imr' = {} \/ imr' = imr  BY DEF Open, OpenTimesOut, OpenFails
<1>16. TypesImr'  BY <1>15, BoxImr, TypesIsTypes DEF TypesImr
<1>17. TypesKept'  BY <1>2 DEF TypesKept
<1> QED  BY <1>4, <1>6, <1>10, <1>12, <1>13, <1>14, <1>16, <1>17, TypesIsTypesNext

LEMMA CloseTypes == ASSUME CanTypeOK, Close PROVE CanTypeOK'
<1>1. TypesTx' /\ TypesReg'
  BY TypesIsTypes, TypesKeptTx, RegTypes DEF Close
<1>2. hook' \in [Box -> 0 .. Boxes]  BY BoxImr DEF Close
<1>3. rxRing' \in [Box -> Seq(Bits)] /\ \A i \in Box : Len(rxRing'[i]) <= RxRoom
  BY EmptiedTypes DEF Close
<1>4. TypesBox'  BY <1>2, <1>3, TypesIsTypes DEF TypesBox, Close
<1>5. TypesBus'  BY TypesIsTypes DEF TypesBus, Close
<1>6. NoFilter \in FilterType  BY DEF NoFilter, Filter, Bits, FilterType
<1>7. TypesChan'  BY <1>6, TypesIsTypes DEF TypesChan, Close
<1>8. TypesTold' /\ TypesKept'  BY QuietType, TypesIsTypes DEF Close, Loop, TypesKept
<1>9. TypesImr'  BY BoxImr, TypesIsTypes DEF TypesImr, Close
<1> QED  BY <1>1, <1>4, <1>5, <1>7, <1>8, <1>9, TypesIsTypesNext

\* A mailbox whose ring is emptied and whose callback is set.
LEMMA ResetTypes ==
  ASSUME CanTypeOK, NEW i \in Box, NEW callback \in 0 .. Boxes,
         rxRing' = [rxRing EXCEPT ![i] = <<>>], hook' = [hook EXCEPT ![i] = callback],
         UNCHANGED <<full, arrivals>>
  PROVE  TypesBox'
<1>1. hook' \in [Box -> 0 .. Boxes]  BY DEF CanTypeOK
<1>2. <<>> \in Seq(Bits) /\ Len(<<>>) = 0  OBVIOUS
<1>3. rxRing' \in [Box -> Seq(Bits)]  BY <1>2 DEF CanTypeOK
<1>4. \A j \in Box : rxRing'[j] = <<>> \/ rxRing'[j] = rxRing[j]  BY DEF CanTypeOK
<1>5. ASSUME NEW j \in Box PROVE Len(rxRing'[j]) <= RxRoom
  <2>1. CASE rxRing'[j] = <<>>  BY <2>1, <1>2, Constants
  <2>2. CASE rxRing'[j] = rxRing[j]  BY <2>2 DEF CanTypeOK
  <2> QED  BY <2>1, <2>2, <1>4
<1> QED  BY <1>1, <1>3, <1>5, TypesIsTypes DEF TypesBox

LEMMA AddFilterTypes ==
  ASSUME CanTypeOK, NEW i \in Box, NEW f \in Filters, AddFilter(i, f) PROVE CanTypeOK'
<1>0. SetFilter(i, f, i)  BY DEF AddFilter
<1>1. f \in FilterType  BY FiltersType DEF FilterType
<1>2. f.mask \in Bits /\ f.pattern \in Bits /\ 0 \in Bits  BY <1>1 DEF FilterType, Bits
<1>3. \E m \in Bits, x \in Bits : SetRXFilter(i, m, x)
  BY <1>0, <1>2 DEF SetFilter
<1>4. TypesReg'  BY <1>3, RegTypes, TypesIsTypes
<1>5. TypesTx' /\ TypesBus'  BY <1>0, TypesIsTypes, TypesKeptTx, TypesKeptBus DEF SetFilter
<1>6. i \in 0 .. Boxes  BY BoxImr
<1>7. TypesBox'  BY <1>0, <1>6, ResetTypes DEF SetFilter
<1>8. sets' \in 0 .. MaxSets  BY <1>0, CanAssumption DEF SetFilter, CanTypeOK, CanAssumption
<1>9. TypesChan'  BY <1>0, <1>1, <1>8, TypesIsTypes DEF SetFilter, TypesChan
<1>10. TypesTold' /\ TypesKept'  BY <1>0, QuietType, TypesIsTypes DEF SetFilter, Loop, TypesKept
<1>11. TypesImr'  BY <1>3, BoxImr, TypesIsTypes DEF TypesImr, SetRXFilter
<1> QED  BY <1>4, <1>5, <1>7, <1>9, <1>10, <1>11, TypesIsTypesNext

LEMMA RemoveFilterTypes ==
  ASSUME CanTypeOK, NEW i \in Box, RemoveFilter(i) PROVE CanTypeOK'
<1>1. SetRXFilter(i, 0, 3) /\ 0 \in Bits /\ 3 \in Bits  BY DEF RemoveFilter, Bits
<1>2. TypesReg'  BY <1>1, RegTypes, TypesIsTypes
<1>3. TypesTx' /\ TypesBus'  BY TypesIsTypes, TypesKeptTx, TypesKeptBus DEF RemoveFilter
<1>4. TypesBox'  BY BoxImr, ResetTypes DEF RemoveFilter
<1>5. NoFilter \in FilterType  BY DEF NoFilter, Filter, Bits, FilterType
<1>6. TypesChan'  BY <1>5, TypesIsTypes DEF RemoveFilter, TypesChan
<1>7. TypesTold' /\ TypesKept'  BY QuietType, TypesIsTypes DEF RemoveFilter, Loop, TypesKept
<1>8. TypesImr'  BY <1>1, BoxImr, TypesIsTypes DEF TypesImr, SetRXFilter
<1> QED  BY <1>2, <1>3, <1>4, <1>6, <1>7, <1>8, TypesIsTypesNext

\* The ring that is polled.
LEMMA PollRing ==
  ASSUME CanTypeOK, NEW i \in Box, Poll(i)
  PROVE  /\ Head(rxRing[i]) \in Bits /\ Head(rxRing[i]) = rxRing[i][1]
         /\ Tail(rxRing[i]) \in Seq(Bits) /\ Len(rxRing[i]) \in Nat \ {0}
         /\ Len(Tail(rxRing[i])) = Len(rxRing[i]) - 1
         /\ \A k \in 1 .. Len(Tail(rxRing[i])) : Tail(rxRing[i])[k] = rxRing[i][k + 1]
<1>1. rxRing[i] \in Seq(Bits) /\ rxRing[i] # <<>>  BY DEF CanTypeOK, Poll
<1> QED  BY <1>1, HeadTailProperties

LEMMA PollTypes == ASSUME CanTypeOK, NEW i \in Box, Poll(i) PROVE CanTypeOK'
<1>1. TypesTx' /\ TypesReg' /\ TypesBus' /\ TypesChan'
  BY TypesIsTypes, TypesKeptTx, TypesKeptReg, TypesKeptBus, TypesKeptChan DEF Poll
<1>2. TypesImr' /\ TypesKept'  BY TypesIsTypes DEF Poll, TypesImr, TypesKept
<1>3. rxRing' = [rxRing EXCEPT ![i] = Tail(rxRing[i])]  BY DEF Poll, CanTypeOK
<1>4. rxRing' \in [Box -> Seq(Bits)]  BY <1>3, PollRing DEF CanTypeOK
<1>5. ASSUME NEW j \in Box PROVE Len(rxRing'[j]) <= RxRoom
  <2>1. CASE j = i
    <3>1. Len(rxRing'[j]) = Len(rxRing[i]) - 1  BY <1>3, <2>1, PollRing DEF CanTypeOK
    <3>2. Len(rxRing[i]) <= RxRoom  BY DEF CanTypeOK
    <3> QED  BY <3>1, <3>2, PollRing, Constants
  <2>2. CASE j # i
    <3>1. rxRing'[j] = rxRing[j]  BY <1>3, <2>2 DEF CanTypeOK
    <3> QED  BY <3>1 DEF CanTypeOK
  <2> QED  BY <2>1, <2>2
<1>6. TypesBox'  BY <1>4, <1>5, TypesIsTypes DEF Poll, TypesBox
<1>7. TypesTold'
  <2>1. told' = [filter |-> filter[i], id |-> Head(rxRing[i])] \/ told' = Quiet  BY DEF Poll
  <2>2. Head(rxRing[i]) \in 0 .. None  BY PollRing DEF Bits, None
  <2>3. filter[i] \in FilterType  BY TypesIsTypes DEF TypesChan
  <2> QED  BY <2>1, <2>2, <2>3, QuietType DEF TypesTold
<1> QED  BY <1>1, <1>2, <1>6, <1>7, TypesIsTypesNext

LEMMA NextTypes == ASSUME CanTypeOK, [CanNext]_vars PROVE CanTypeOK'
<1>1. CASE UNCHANGED vars
  BY <1>1 DEF vars, txVars, regVars, boxVars, busVars, chanVars, CanTypeOK
<1>2. ASSUME NEW i \in Box, NEW f \in Filters, AddFilter(i, f) PROVE CanTypeOK'
  BY <1>2, AddFilterTypes
<1>3. ASSUME NEW x \in Ids, Arrive(x) PROVE CanTypeOK'
  BY <1>3, ArriveTypes
<1>4. ASSUME NEW i \in Box, Poll(i) \/ RemoveFilter(i) PROVE CanTypeOK'
  BY <1>4, PollTypes, RemoveFilterTypes
<1> QED
  BY <1>1, <1>2, <1>3, <1>4, InterruptTypes, SentTypes, SendFrameTypes, OpenTypes, CloseTypes
  DEF CanNext
-----------------------------------------------------------------------------
(* The order of what is sent *)

\* The frames of the ring are numbered from one.
LEMMA RingElements ==
  ASSUME CanTypeOK, NEW k \in 1 .. Len(txRing) PROVE txRing[k] \in Nat /\ 0 < txRing[k]
<1>1. txRing \in Seq(1 .. MaxSends)  BY DEF CanTypeOK
<1> HIDE DEF CanTypeOK
<1>2. txRing[k] \in 1 .. MaxSends  BY <1>1, ElementOfSeq
<1> QED  BY <1>2, Constants

\* Ordered only reads these.
LEMMA OrderedKept ==
  ASSUME Ordered, UNCHANGED <<out, sending, txRing, sends>> PROVE Ordered'
  BY DEF Ordered

LEMMA SentOrdered == ASSUME CanTypeOK, Ordered, Sent PROVE Ordered'
<1>1. out' = sending /\ sending' = 0 /\ txRing' = txRing /\ sends' = sends /\ sending # 0
  BY DEF Sent
<1>2. \A k \in 1 .. Len(txRing) : 0 < txRing[k]  BY RingElements
<1> QED  BY <1>1, <1>2 DEF Ordered

LEMMA InterruptOrdered == ASSUME CanTypeOK, Ordered, Interrupt PROVE Ordered'
<1>1. out' = out /\ sends' = sends  BY DEF Interrupt
<1>2. CASE UNCHANGED <<sending, txRing>>  BY <1>1, <1>2, OrderedKept
<1>3. CASE ~ UNCHANGED <<sending, txRing>>
  <2>1. sending = 0 /\ txRing # <<>> /\ sending' = Head(txRing) /\ txRing' = Tail(txRing)
    BY <1>3 DEF Interrupt, Ready, NextFrame
  <2>2. txRing \in Seq(1 .. MaxSends)  BY DEF CanTypeOK
  <2>3. /\ Len(txRing) \in Nat \ {0} /\ Head(txRing) = txRing[1] /\ Len(Tail(txRing)) = Len(txRing) - 1
        /\ \A k \in 1 .. Len(Tail(txRing)) : Tail(txRing)[k] = txRing[k + 1]
    BY <2>1, <2>2, HeadTailProperties
  <2>4. \A k \in 1 .. Len(txRing') : k + 1 \in 1 .. Len(txRing) /\ txRing'[k] = txRing[k + 1]
    BY <2>1, <2>3
  <2>5. 1 \in 1 .. Len(txRing) /\ sending' = txRing[1]  BY <2>1, <2>3
  <2>6. out' < sending' /\ sending' <= sends'  BY <2>5, <1>1 DEF Ordered
  <2>7. \A k \in 1 .. Len(txRing') :
          /\ out' < txRing'[k] /\ sending' < txRing'[k] /\ txRing'[k] <= sends'
    <3> TAKE k \in 1 .. Len(txRing')
    <3>1. k + 1 \in 1 .. Len(txRing) /\ 1 < k + 1  BY <2>4
    <3>2. out < txRing[k + 1] /\ txRing[1] < txRing[k + 1] /\ txRing[k + 1] <= sends
      BY <3>1, <2>5 DEF Ordered
    <3> QED  BY <3>2, <2>4, <2>5, <1>1
  <2>8. \A j, k \in 1 .. Len(txRing') : j < k => txRing'[j] < txRing'[k]
    <3> TAKE j, k \in 1 .. Len(txRing')
    <3> HAVE j < k
    <3>1. j + 1 < k + 1 /\ j + 1 \in 1 .. Len(txRing) /\ k + 1 \in 1 .. Len(txRing)  BY <2>4
    <3>2. txRing[j + 1] < txRing[k + 1]  BY <3>1 DEF Ordered
    <3> QED  BY <3>2, <2>4
  <2>9. out' <= sends'  BY <1>1 DEF Ordered
  <2> QED  BY <2>6, <2>7, <2>8, <2>9 DEF Ordered
<1> QED  BY <1>2, <1>3

LEMMA SendFrameOrdered == ASSUME CanTypeOK, Ordered, SendFrame PROVE Ordered'
<1> DEFINE n == sends + 1
<1>1. out' = out /\ sends' = n /\ n \in Nat /\ sends < n  BY DEF SendFrame, CanTypeOK
<1>2. out \in Nat /\ sends \in Nat /\ sending \in Nat /\ txRing \in Seq(1 .. MaxSends) /\ Len(txRing) \in Nat
  BY Constants DEF CanTypeOK
<1>3. \A k \in 1 .. Len(txRing) : txRing[k] \in Nat  BY RingElements
<1>4. out < n /\ sending < n /\ \A k \in 1 .. Len(txRing) : txRing[k] < n
  BY <1>1, <1>2, <1>3 DEF Ordered
<1>5. CASE sending' = n /\ txRing' = txRing /\ txRing = <<>>
  <2>1. \A k \in 1 .. Len(txRing') : FALSE  BY <1>5
  <2>2. out' <= sends' /\ out' < sending' /\ sending' <= sends'  BY <1>5, <1>1, <1>2, <1>4
  <2> QED  BY <2>1, <2>2 DEF Ordered
<1>6. CASE sending' = sending /\ txRing' = Queue(n)
  <2>1. CASE Queue(n) = txRing
    <3>1. out' <= sends' /\ (sending' # 0 => out' < sending' /\ sending' <= sends')
      BY <1>6, <1>1, <1>2 DEF Ordered
    <3>2. \A k \in 1 .. Len(txRing') :
            out' < txRing'[k] /\ sending' < txRing'[k] /\ txRing'[k] <= sends'
      BY <2>1, <1>6, <1>1, <1>3, <1>4 DEF Ordered
    <3>3. \A j, k \in 1 .. Len(txRing') : j < k => txRing'[j] < txRing'[k]
      BY <2>1, <1>6 DEF Ordered
    <3> QED  BY <3>1, <3>2, <3>3 DEF Ordered
  <2>2. CASE Queue(n) # txRing
    <3>1. txRing' = Append(txRing, n)  BY <2>2, <1>6 DEF Queue
    <3>2. Len(txRing') = Len(txRing) + 1 /\ txRing'[Len(txRing) + 1] = n
          /\ \A k \in 1 .. Len(txRing) : txRing'[k] = txRing[k]
      <4>1. txRing \in Seq(Nat)  BY <1>2, <1>3
      <4> HIDE DEF n
      <4> QED  BY <3>1, <4>1, <1>1, AppendProperties
    <3>3. \A k \in 1 .. Len(txRing') : k \in 1 .. Len(txRing) \/ k = Len(txRing) + 1
      BY <3>2, <1>2
    <3>4. out' <= sends' /\ (sending' # 0 => out' < sending' /\ sending' <= sends')
      BY <1>6, <1>1, <1>2 DEF Ordered
    <3> HIDE DEF n
    <3>5. \A k \in 1 .. Len(txRing') :
            out' < txRing'[k] /\ sending' < txRing'[k] /\ txRing'[k] <= sends'
      <4> TAKE k \in 1 .. Len(txRing')
      <4>1. CASE k \in 1 .. Len(txRing)
        BY <4>1, <3>2, <1>6, <1>1, <1>3, <1>4 DEF Ordered
      <4>2. CASE k = Len(txRing) + 1  BY <4>2, <3>2, <1>6, <1>1, <1>4
      <4> QED  BY <4>1, <4>2, <3>3
    <3>6. \A j, k \in 1 .. Len(txRing') : j < k => txRing'[j] < txRing'[k]
      <4> TAKE j, k \in 1 .. Len(txRing')
      <4> HAVE j < k
      <4>1. j \in 1 .. Len(txRing)  BY <3>3, <3>2, <1>2
      <4>2. CASE k \in 1 .. Len(txRing)  BY <4>1, <4>2, <3>2 DEF Ordered
      <4>3. CASE k = Len(txRing) + 1  BY <4>1, <4>3, <3>2, <1>4
      <4> QED  BY <4>2, <4>3, <3>3
    <3> QED  BY <3>4, <3>5, <3>6 DEF Ordered
  <2> QED  BY <2>1, <2>2
<1>7. \/ sending' = n /\ txRing' = txRing /\ txRing = <<>>
      \/ sending' = sending /\ txRing' = Queue(n)
  BY DEF SendFrame
<1> QED  BY <1>5, <1>6, <1>7

LEMMA OpenOrdered ==
  ASSUME CanTypeOK, Ordered, Open \/ OpenTimesOut \/ OpenFails PROVE Ordered'
<1>1. /\ out' = out /\ sends' = sends /\ (sending' = 0 \/ sending' = sending)
      /\ txRing' = txRing \/ txRing' = <<>>
  BY DEF Open, OpenTimesOut, OpenFails, Started, InitBuffers
<1>2. \A k \in 1 .. Len(txRing) : 0 < txRing[k]  BY RingElements
<1>3. CASE txRing' = txRing  BY <1>1, <1>2, <1>3 DEF Ordered
<1>4. CASE txRing' = <<>>
  <2>1. \A k \in 1 .. Len(txRing') : FALSE  BY <1>4
  <2>2. out' <= sends' /\ (sending' # 0 => out' < sending' /\ sending' <= sends')  BY <1>1 DEF Ordered
  <2> QED  BY <2>1, <2>2 DEF Ordered
<1> QED  BY <1>1, <1>3, <1>4

LEMMA NextOrdered == ASSUME CanTypeOK, Ordered, [CanNext]_vars PROVE Ordered'
<1>1. CASE UNCHANGED txVars  BY <1>1, OrderedKept DEF txVars
<1>2. ASSUME [CanNext]_vars, ~ UNCHANGED txVars
      PROVE  Interrupt \/ Sent \/ SendFrame \/ Open \/ OpenTimesOut \/ OpenFails
  <2>1. ASSUME NEW i \in Box, NEW f \in Filters, AddFilter(i, f) PROVE UNCHANGED txVars
    BY <2>1 DEF AddFilter, SetFilter
  <2>2. ASSUME NEW x \in Ids, Arrive(x) PROVE UNCHANGED txVars  BY <2>2 DEF Arrive
  <2>3. ASSUME NEW i \in Box, Poll(i) \/ RemoveFilter(i) PROVE UNCHANGED txVars
    BY <2>3 DEF Poll, RemoveFilter
  <2>4. Close => UNCHANGED txVars  BY DEF Close
  <2>5. UNCHANGED vars => UNCHANGED txVars  BY DEF vars
  <2> QED  BY <1>2, <2>1, <2>2, <2>3, <2>4, <2>5 DEF CanNext
<1> QED
  BY <1>1, <1>2, InterruptOrdered, SentOrdered, SendFrameOrdered, OpenOrdered
-----------------------------------------------------------------------------
(* Filters, mailboxes and callbacks *)

\* Between the calls of the loop no mailbox of an open channel holds a frame.
LEMMA LoopEmpty ==
  ASSUME Served, chan, ~Pending, NEW i \in Box PROVE full[i] = None
<1>1. nvic /\ i \in imr  BY DEF Served
<1>2. ~Ready(i)  BY <1>1 DEF Pending
<1> QED  BY <1>2, Constants DEF Ready

\* A step that programs nothing, where a mailbox takes only what it accepts.
LEMMA ServedKept ==
  ASSUME Served, UNCHANGED <<chan, nvic, filter, hook, mask, id>>, Box \cap imr \subseteq imr',
         \A i \in Box : \/ full'[i] = full[i] \/ full'[i] = None
                        \/ Matches(full'[i], mask[i], id[i])
  PROVE  Served'
<1>1. chan' => nvic' /\ Box \subseteq imr'  BY DEF Served
<1>2. \A i \in Box : (Used(i))' <=> Used(i)  BY DEF Used
<1>3. \A i \in Box : (IsPass(i))' <=> IsPass(i)  BY DEF IsPass
<1>4. ASSUME NEW i \in Box, IsPass(i), full'[i] # None PROVE Matches(full'[i], mask[i], id[i])
  BY <1>4 DEF Served
<1>5. \A i \in Box : Matches(full'[i], mask'[i], id'[i]) <=> Matches(full'[i], mask[i], id[i])
  BY DEF Matches
<1>6. \A i \in Box : (IsPass(i))' =>
        /\ mask'[i] = filter'[i].mask /\ id'[i] = filter'[i].pattern
        /\ full'[i] # None => Matches(full'[i], mask'[i], id'[i])
  BY <1>3, <1>4, <1>5 DEF Served
<1>7. /\ \A i \in Box : (Used(i))' => chan' /\ hook'[i] = i
      /\ \A i \in Box : hook'[i] \in {i, TxBox}
  BY <1>2 DEF Served
<1> QED  BY <1>1, <1>6, <1>7 DEF Served, Matches

LEMMA InterruptServed == ASSUME CanTypeOK, Served, Interrupt PROVE Served'
<1>1. UNCHANGED <<chan, nvic, filter, hook, mask, id>>
  BY DEF Interrupt, busVars, chanVars, regVars
<1>2. imr' = imr \ {TxBox} \/ imr' = imr  BY DEF Interrupt, NextFrame
<1>3. Box \cap imr \subseteq imr'  BY <1>2, Constants
<1>4. \A i \in Box : full'[i] = None  BY DEF Interrupt
<1> QED  BY <1>1, <1>3, <1>4, ServedKept

LEMMA ArriveServed == ASSUME CanTypeOK, Served, NEW x \in Ids, Arrive(x) PROVE Served'
<1>1. UNCHANGED <<chan, nvic, filter, hook, mask, id>> /\ imr' = imr
  BY DEF Arrive, busVars, chanVars, regVars
<1>2. ASSUME NEW i \in Box
      PROVE full'[i] = full[i] \/ full'[i] = None \/ Matches(full'[i], mask[i], id[i])
  <2>1. CASE UNCHANGED full  BY <2>1
  <2>2. CASE \E j \in Box : Accepts(j, x) /\ full' = [full EXCEPT ![j] = x]
    <3>1. PICK j \in Box : Accepts(j, x) /\ full' = [full EXCEPT ![j] = x]  BY <2>2
    <3>2. CASE i = j  BY <3>1, <3>2 DEF Accepts, CanTypeOK
    <3>3. CASE i # j  BY <3>1, <3>3 DEF CanTypeOK
    <3> QED  BY <3>2, <3>3
  <2> QED  BY <2>1, <2>2 DEF Arrive
<1> QED  BY <1>1, <1>2, ServedKept

LEMMA QuietServed ==
  ASSUME Served, Sent \/ SendFrame \/ (\E i \in Box : Poll(i)) \/ UNCHANGED vars PROVE Served'
<1>1. UNCHANGED <<chan, nvic, filter, hook, mask, id, full>>
  BY DEF Sent, SendFrame, Poll, vars, busVars, chanVars, regVars, boxVars
<1>2. Box \cap imr \subseteq imr'  BY DEF Sent, SendFrame, Poll, vars
<1> QED  BY <1>1, <1>2, ServedKept

\* Without an open channel there are no filters.
LEMMA NoFiltersServed ==
  ASSUME \A i \in Box : filter'[i].type = "none" /\ hook'[i] = TxBox,
         chan' => nvic' /\ Box \subseteq imr'
  PROVE  Served'
<1>1. \A i \in Box : ~(Used(i))' /\ ~(IsPass(i))'  BY DEF Used, IsPass
<1> QED  BY <1>1 DEF Served

LEMMA OpenServed == ASSUME Served, Open \/ OpenTimesOut \/ OpenFails PROVE Served'
<1>1. ~chan /\ filter' = filter /\ \A i \in Box : hook'[i] = TxBox
  BY DEF Open, OpenTimesOut, OpenFails, InitBuffers, chanVars
<1>2. \A i \in Box : filter[i].type = "none"  BY <1>1 DEF Served, Used
<1>3. chan' => nvic' /\ Box \subseteq imr'
  <2>1. CASE Open  BY <2>1 DEF Open, Started
  <2>2. CASE OpenTimesOut \/ OpenFails  BY <2>2, <1>1 DEF OpenTimesOut, OpenFails
  <2> QED  BY <2>1, <2>2
<1> QED  BY <1>1, <1>2, <1>3, NoFiltersServed

LEMMA CloseServed == ASSUME Close PROVE Served'
<1>1. \A i \in Box : filter'[i].type = "none" /\ hook'[i] = TxBox
  BY DEF Close, NoFilter, Filter
<1> QED  BY <1>1, NoFiltersServed DEF Close

\* A filter, or none, is set for mailbox i, the other mailboxes stay.
LEMMA SetServed ==
  ASSUME CanTypeOK, Served, chan, ~Pending, NEW i \in Box, NEW f \in FilterType, NEW m, NEW x,
         SetRXFilter(i, m, x),
         filter' = [filter EXCEPT ![i] = f],
         hook' = [hook EXCEPT ![i] = IF f.type = "none" THEN TxBox ELSE i],
         f.type = "pass" => m = f.mask /\ x = f.pattern,
         UNCHANGED <<chan, nvic, full>>
  PROVE  Served'
<1>1. chan' => nvic' /\ Box \subseteq imr'  BY DEF Served, SetRXFilter
<1>2. /\ filter'[i] = f /\ hook'[i] = (IF f.type = "none" THEN TxBox ELSE i)
      /\ mask'[i] = m /\ id'[i] = x
  BY DEF CanTypeOK, SetRXFilter
<1>3. \A j \in Box : j # i => /\ filter'[j] = filter[j] /\ hook'[j] = hook[j]
                              /\ mask'[j] = mask[j] /\ id'[j] = id[j]
  BY DEF CanTypeOK, SetRXFilter
<1>4. \A j \in Box : full'[j] = None  BY LoopEmpty
<1>5. \A j \in Box : (Used(j))' => chan' /\ hook'[j] = j
  <2> TAKE j \in Box
  <2>1. CASE j = i  BY <2>1, <1>2 DEF Used
  <2>2. CASE j # i  BY <2>2, <1>3 DEF Used, Served
  <2> QED  BY <2>1, <2>2
<1>6. \A j \in Box : hook'[j] \in {j, TxBox}
  <2> TAKE j \in Box
  <2>1. CASE j = i  BY <2>1, <1>2
  <2>2. CASE j # i  BY <2>2, <1>3 DEF Served
  <2> QED  BY <2>1, <2>2
<1>7. \A j \in Box : (IsPass(j))' => mask'[j] = filter'[j].mask /\ id'[j] = filter'[j].pattern
  <2> TAKE j \in Box
  <2>1. CASE j = i  BY <2>1, <1>2 DEF IsPass
  <2>2. CASE j # i  BY <2>2, <1>3 DEF IsPass, Served
  <2> QED  BY <2>1, <2>2
<1> QED  BY <1>1, <1>4, <1>5, <1>6, <1>7 DEF Served

LEMMA AddFilterServed ==
  ASSUME CanTypeOK, Served, NEW i \in Box, NEW f \in Filters, AddFilter(i, f) PROVE Served'
<1>1. f \in FilterType /\ f.type \in {"pass", "block"}  BY FiltersType, FiltersUsed DEF FilterType
<1>2. SetFilter(i, f, i)  BY DEF AddFilter
<1>3. hook' = [hook EXCEPT ![i] = IF f.type = "none" THEN TxBox ELSE i]
  BY <1>1, <1>2 DEF SetFilter
<1>4. /\ chan /\ ~Pending /\ filter' = [filter EXCEPT ![i] = f]
      /\ UNCHANGED <<chan, nvic, full>>
  BY <1>2 DEF SetFilter, Loop, busVars
<1>5. CASE f.type = "block"
  <2>1. SetRXFilter(i, 0, 0)  BY <1>2, <1>5 DEF SetFilter
  <2> QED  BY <2>1, <1>1, <1>3, <1>4, <1>5, SetServed
<1>6. CASE f.type = "pass"
  <2>1. SetRXFilter(i, f.mask, f.pattern)  BY <1>2, <1>6 DEF SetFilter
  <2> QED  BY <2>1, <1>1, <1>3, <1>4, <1>6, SetServed
<1> QED  BY <1>1, <1>5, <1>6

LEMMA RemoveFilterServed ==
  ASSUME CanTypeOK, Served, NEW i \in Box, RemoveFilter(i) PROVE Served'
<1>1. NoFilter \in FilterType /\ NoFilter.type = "none"
  BY DEF NoFilter, Filter, Bits, FilterType
<1>2. hook' = [hook EXCEPT ![i] = IF NoFilter.type = "none" THEN TxBox ELSE i]
  BY <1>1 DEF RemoveFilter
<1>3. /\ chan /\ ~Pending /\ filter' = [filter EXCEPT ![i] = NoFilter] /\ SetRXFilter(i, 0, 3)
      /\ UNCHANGED <<chan, nvic, full>>
  BY DEF RemoveFilter, Loop, busVars
<1> QED  BY <1>1, <1>2, <1>3, SetServed

LEMMA NextServed == ASSUME CanTypeOK, Served, [CanNext]_vars PROVE Served'
<1>1. ASSUME NEW i \in Box, NEW f \in Filters, AddFilter(i, f) PROVE Served'
  BY <1>1, AddFilterServed
<1>2. ASSUME NEW x \in Ids, Arrive(x) PROVE Served'
  BY <1>2, ArriveServed
<1>3. ASSUME NEW i \in Box, RemoveFilter(i) PROVE Served'
  BY <1>3, RemoveFilterServed
<1> QED
  BY <1>1, <1>2, <1>3, InterruptServed, QuietServed, OpenServed, CloseServed DEF CanNext
-----------------------------------------------------------------------------
(* What the rings hold, and what is told *)

\* The rings and filters of these steps are left alone, or the ring is emptied.
LEMMA FiledKept ==
  ASSUME FiledByFilter,
         \A i \in Box : \/ rxRing'[i] = <<>>
                        \/ rxRing'[i] = rxRing[i] /\ filter'[i] = filter[i]
                        \/ filter'[i].type = "none"
  PROVE  FiledByFilter'
<1> SUFFICES ASSUME NEW i \in Box, filter'[i].type = "pass", NEW k \in 1 .. Len(rxRing'[i])
             PROVE  Matches(rxRing'[i][k], filter'[i].mask, filter'[i].pattern)
  BY DEF FiledByFilter, Matches
<1>1. CASE rxRing'[i] = <<>>  BY <1>1
<1>2. CASE rxRing'[i] = rxRing[i] /\ filter'[i] = filter[i]
  BY <1>2 DEF FiledByFilter
<1> QED  BY <1>1, <1>2

\* The callback of a mailbox files the frame of that mailbox.
LEMMA PushedMatches ==
  ASSUME CanTypeOK, Served, FiledByFilter, NEW i \in Box, IsPass(i),
         NEW k \in 1 .. Len(Pushed(i))
  PROVE  Matches(Pushed(i)[k], filter[i].mask, filter[i].pattern)
<1> DEFINE from == {j \in Box : hook[j] = i /\ full[j] # None}
           x == CHOOSE j \in from : TRUE
<1>1. CASE Pushed(i) = rxRing[i]  BY <1>1 DEF FiledByFilter, IsPass
<1>2. CASE Pushed(i) # rxRing[i]
  <2>1. from # {} /\ Pushed(i) = Append(rxRing[i], full[x])  BY <1>2 DEF Pushed
  <2>2. x \in from  BY <2>1
  <2>3. hook[x] \in {x, TxBox} /\ hook[x] = i  BY <2>2 DEF Served
  <2>4. x = i  BY <2>3, Constants
  <2>5. full[i] # None  BY <2>2, <2>4
  <2>6. Matches(full[i], filter[i].mask, filter[i].pattern)  BY <2>5 DEF Served
  <2>7. full[i] \in Bits /\ rxRing[i] \in Seq(Bits)  BY <2>5 DEF CanTypeOK, Bits, None
  <2>8. Pushed(i) = Append(rxRing[i], full[i])  BY <2>1, <2>4
  <2>9. /\ Len(Pushed(i)) = Len(rxRing[i]) + 1 /\ Len(rxRing[i]) \in Nat
        /\ Pushed(i)[Len(rxRing[i]) + 1] = full[i]
        /\ \A n \in 1 .. Len(rxRing[i]) : Pushed(i)[n] = rxRing[i][n]
    BY <2>7, <2>8, AppendProperties
  <2> HIDE DEF from, x
  <2>10. CASE k \in 1 .. Len(rxRing[i])  BY <2>10, <2>9 DEF FiledByFilter, IsPass
  <2>11. CASE k = Len(rxRing[i]) + 1  BY <2>11, <2>9, <2>6
  <2> QED  BY <2>9, <2>10, <2>11
<1> QED  BY <1>1, <1>2

LEMMA InterruptFiled ==
  ASSUME CanTypeOK, Served, FiledByFilter, Interrupt PROVE FiledByFilter'
<1>1. filter' = filter /\ \A i \in Box : rxRing'[i] = Pushed(i)
  BY DEF Interrupt, chanVars
<1> SUFFICES ASSUME NEW i \in Box, filter'[i].type = "pass", NEW k \in 1 .. Len(rxRing'[i])
             PROVE  Matches(rxRing'[i][k], filter'[i].mask, filter'[i].pattern)
  BY DEF FiledByFilter, Matches
<1>2. IsPass(i)  BY <1>1 DEF IsPass
<1>3. k \in 1 .. Len(Pushed(i)) /\ rxRing'[i][k] = Pushed(i)[k] /\ filter'[i] = filter[i]
  BY <1>1
<1> QED  BY <1>2, <1>3, PushedMatches

LEMMA PollFiled ==
  ASSUME CanTypeOK, FiledByFilter, NEW i \in Box, Poll(i) PROVE FiledByFilter'
<1>1. filter' = filter /\ rxRing' = [rxRing EXCEPT ![i] = Tail(rxRing[i])]
  BY DEF Poll, chanVars, CanTypeOK
<1> SUFFICES ASSUME NEW j \in Box, filter'[j].type = "pass", NEW k \in 1 .. Len(rxRing'[j])
             PROVE  Matches(rxRing'[j][k], filter'[j].mask, filter'[j].pattern)
  BY DEF FiledByFilter, Matches
<1>2. CASE j # i
  <2>1. rxRing'[j] = rxRing[j]  BY <1>1, <1>2 DEF CanTypeOK
  <2> QED  BY <2>1, <1>1 DEF FiledByFilter
<1>3. CASE j = i
  <2>1. rxRing'[i] = Tail(rxRing[i])  BY <1>1 DEF CanTypeOK
  <2>2. k \in 1 .. Len(Tail(rxRing[i])) /\ rxRing'[j][k] = rxRing[i][k + 1]
    BY <2>1, <1>3, PollRing
  <2>3. k + 1 \in 1 .. Len(rxRing[i])  BY <2>2, PollRing
  <2> QED  BY <2>2, <2>3, <1>1, <1>3 DEF FiledByFilter
<1> QED  BY <1>2, <1>3

LEMMA NextFiled ==
  ASSUME CanTypeOK, Served, FiledByFilter, [CanNext]_vars PROVE FiledByFilter'
<1>1. CASE UNCHANGED <<rxRing, filter>>  BY <1>1, FiledKept
<1>2. ASSUME NEW i \in Box, NEW f \in Filters, AddFilter(i, f) PROVE FiledByFilter'
  <2>1. rxRing' = [rxRing EXCEPT ![i] = <<>>] /\ filter' = [filter EXCEPT ![i] = f]
    BY <1>2 DEF AddFilter, SetFilter
  <2>2. \A j \in Box : rxRing'[j] = <<>> \/ (rxRing'[j] = rxRing[j] /\ filter'[j] = filter[j])
    BY <2>1 DEF CanTypeOK
  <2> QED  BY <2>2, FiledKept
<1>3. ASSUME NEW i \in Box, RemoveFilter(i) PROVE FiledByFilter'
  <2>1. rxRing' = [rxRing EXCEPT ![i] = <<>>] /\ filter' = [filter EXCEPT ![i] = NoFilter]
    BY <1>3 DEF RemoveFilter
  <2>2. \A j \in Box : rxRing'[j] = <<>> \/ (rxRing'[j] = rxRing[j] /\ filter'[j] = filter[j])
    BY <2>1 DEF CanTypeOK
  <2> QED  BY <2>2, FiledKept
<1>4. CASE Open \/ Close
  <2>1. \A i \in Box : rxRing'[i] = <<>>  BY <1>4 DEF Open, Close
  <2> QED  BY <2>1, FiledKept
<1>5. ASSUME NEW i \in Box, Poll(i) PROVE FiledByFilter'
  BY <1>5, PollFiled
<1>6. CASE UNCHANGED vars \/ Sent \/ SendFrame \/ OpenTimesOut \/ OpenFails
  <2>1. UNCHANGED <<rxRing, filter>>
    BY <1>6 DEF vars, boxVars, chanVars, Sent, SendFrame, OpenTimesOut, OpenFails
  <2> QED  BY <2>1, <1>1
<1>7. ASSUME NEW x \in Ids, Arrive(x) PROVE FiledByFilter'
  <2>1. UNCHANGED <<rxRing, filter>>  BY <1>7 DEF Arrive, chanVars
  <2> QED  BY <2>1, <1>1
<1> QED
  BY <1>2, <1>3, <1>4, <1>5, <1>6, <1>7, InterruptFiled DEF CanNext

LEMMA AndAll == ASSUME NEW x \in Bits PROVE And(x, 3) = x
  BY DEF And

LEMMA PollTold ==
  ASSUME CanTypeOK, Served, FiledByFilter, NEW i \in Box, Poll(i) PROVE ToldPasses'
<1> DEFINE x == Head(rxRing[i])
<1>1. CASE told' = Quiet  BY <1>1 DEF ToldPasses, Quiet
<1>2. CASE Passes(filter[i], x) /\ told' = [filter |-> filter[i], id |-> x]
  <2>1. x = rxRing[i][1] /\ x \in Bits /\ 1 \in 1 .. Len(rxRing[i])  BY PollRing
  <2>2. told'.filter = filter[i] /\ told'.id = x  BY <1>2
  <2>3. filter[i] \in FilterType  BY TypesIsTypes DEF TypesChan
  <2>4. filter[i].type \in {"pass", "block"}  BY <2>3 DEF FilterType, Poll, Used
  <2> HIDE DEF x
  <2>5. CASE filter[i].type = "pass"
    <3>1. Matches(x, filter[i].mask, filter[i].pattern)  BY <2>1, <2>5 DEF FiledByFilter
    <3>2. Matches(told'.id, told'.filter.mask, told'.filter.pattern) /\ told'.filter.type = "pass"
      BY <3>1, <2>2, <2>5
    <3> QED  BY <3>2 DEF ToldPasses, Matches
  <2>6. CASE filter[i].type = "block"
    <3>1. filter[i].mask # 0 /\ x # filter[i].pattern  BY <1>2, <2>6 DEF Passes
    <3>2. filter[i].pattern \in Bits  BY <2>3 DEF FilterType
    <3>3. filter[i].mask \in {0, 3} => ~Matches(x, filter[i].mask, filter[i].pattern)
      BY <3>1, <3>2, <2>1, AndAll DEF Matches
    <3>4. /\ told'.filter.type = "block"
          /\ told'.filter.mask \in {0, 3} => ~Matches(told'.id, told'.filter.mask, told'.filter.pattern)
      BY <3>3, <2>2, <2>6
    <3> QED  BY <3>4 DEF ToldPasses, Matches
  <2> QED  BY <2>4, <2>5, <2>6
<1> QED  BY <1>1, <1>2 DEF Poll

LEMMA NextTold ==
  ASSUME CanTypeOK, Served, FiledByFilter, ToldPasses, [CanNext]_vars PROVE ToldPasses'
<1>1. CASE told' = Quiet  BY <1>1 DEF ToldPasses, Quiet
<1>2. CASE UNCHANGED vars  BY <1>2 DEF vars, ToldPasses, Matches
<1>3. ASSUME NEW i \in Box, Poll(i) PROVE ToldPasses'
  BY <1>3, PollTold
<1>4. ASSUME NEW i \in Box, NEW f \in Filters, AddFilter(i, f) PROVE told' = Quiet
  BY <1>4 DEF AddFilter, SetFilter, Loop
<1>5. ASSUME NEW x \in Ids, Arrive(x) PROVE told' = Quiet
  BY <1>5 DEF Arrive
<1>6. ASSUME NEW i \in Box, RemoveFilter(i) PROVE told' = Quiet
  BY <1>6 DEF RemoveFilter, Loop
<1>7. Interrupt \/ Sent \/ SendFrame \/ Open \/ OpenTimesOut \/ OpenFails \/ Close => told' = Quiet
  BY DEF Interrupt, Sent, SendFrame, Open, OpenTimesOut, OpenFails, Close, Loop
<1> QED  BY <1>1, <1>2, <1>3, <1>4, <1>5, <1>6, <1>7 DEF CanNext
-----------------------------------------------------------------------------
(* The theorems *)

LEMMA CInvInvariant == CanSpec => []CInv
<1>1. CInv /\ [CanNext]_vars => CInv'
  BY NextTypes, NextOrdered, NextServed, NextFiled, NextTold DEF CInv
<1> QED  BY <1>1, InitCInv, PTL DEF CanSpec

\* Whatever the loop, the interrupt and the bus do, in any order: the rings
\* stay within their room and hold frames, registers and counters their types.
THEOREM CanTypes == CanSpec => []CanTypeOK
<1>1. CInv => CanTypeOK  BY DEF CInv
<1> QED  BY <1>1, CInvInvariant, PTL

\* Frames leave the controller in the order of sendFrame (due_can.cpp:907), each
\* at most once, although an interrupt moves the ring to the mailbox at any
\* time between them and the channel is closed and opened.
THEOREM CanSendOrder == CanSpec => []SendOrder
<1>1. CInv => SendOrder  BY OrderedIsOrder DEF CInv
<1> QED  BY <1>1, CInvInvariant, PTL

\* The ring that is polled for a pass filter never holds a frame the filter
\* does not accept: filters set and removed while frames arrive, and mailboxes
\* used again, do not leave one behind (comm_channel_can.cpp, custom_can.cpp).
THEOREM CanFiledByFilter == CanSpec => []FiledByFilter
<1>1. CInv => FiledByFilter  BY DEF CInv
<1> QED  BY <1>1, CInvInvariant, PTL

\* The driver is told of no frame that its filter keeps out: a pass filter of
\* any mask, a block filter of all bits or of none.
THEOREM CanToldPasses == CanSpec => []ToldPasses
<1>1. CInv => ToldPasses  BY DEF CInv
<1> QED  BY <1>1, CInvInvariant, PTL
=============================================================================
