------------------------------- MODULE CanBus -------------------------------
(***************************************************************************)
(* The CAN controller of the M2 and its driver (firmware/due_can.cpp,      *)
(* custom_can.cpp) under a CAN channel (comm_channel_can.cpp): sending     *)
(* through one mailbox and a ring, receiving through the others, each with *)
(* a filter, a callback and a ring of its own.                             *)
(*                                                                         *)
(* An interrupt runs to its end before the loop goes on; only sendFrame    *)
(* keeps it waiting.  The writes of one call of the loop are one step here,*)
(* RxRing has them one by one.  What the controller does by itself is      *)
(* taken from its data sheet.                                              *)
(***************************************************************************)
EXTENDS Integers, Sequences

CONSTANTS
  Boxes,        \* mailboxes that receive (7); the next one sends
  TxRoom,       \* frames the send ring holds (SIZE_TX_BUFFER - 1, 7)
  RxRoom,       \* frames a receive ring holds (MAX_RX_QUEUE - 1, 7)
  Ids,          \* CAN ids, of two bits
  Masks,        \* masks an application sets, of two bits
  MaxSends,     \* bound: frames sent
  MaxArrivals,  \* bound: frames on the bus
  MaxSets,      \* bound: filters set
  MaxOpens      \* bound: channels opened

ASSUME CanAssumption ==
  /\ Boxes \in Nat \ {0} /\ TxRoom \in Nat \ {0} /\ RxRoom \in Nat \ {0}
  /\ Ids \subseteq 0 .. 3 /\ Masks \subseteq 0 .. 3
  /\ MaxSends \in Nat /\ MaxArrivals \in Nat /\ MaxSets \in Nat /\ MaxOpens \in Nat

Box   == 0 .. Boxes - 1
TxBox == Boxes
Bits  == 0 .. 3
None  == 4           \* no frame

VARIABLES
  chan,         \* canChannel # nullptr
  buffers,      \* isInitialized(): the rings were made
  enabled,      \* CAN_MR_CANEN
  nvic,         \* NVIC_EnableIRQ was called
  imr,          \* mailboxes whose interrupt is enabled
  mask, id,     \* CAN_MAM, CAN_MID of the mailboxes that receive
  full,         \* the frame such a mailbox holds, None if it is free
  sending,      \* the frame the sending mailbox holds, 0 if it is ready (CAN_MSR_MRDY)
  txRing,       \* the send ring
  hook,         \* cbCANFrame: the ring a mailbox's callback pushes to, TxBox if none is set
  rxRing,       \* the receive rings
  filter,       \* used_mailboxes, blocking_filters, masks, patterns
  sends, arrivals, sets, opens,  \* counters
  out,          \* history: the frame sent last
  told,         \* the frame handed to the driver in the last step, with its filter
  kept          \* history: the controller was started over frames left in the send ring

txVars    == <<sending, txRing, out, sends>>
regVars   == <<mask, id>>
boxVars   == <<full, hook, rxRing, arrivals>>
busVars   == <<chan, buffers, enabled, nvic, opens>>
chanVars  == <<filter, sets>>
vars      == <<txVars, regVars, boxVars, busVars, chanVars, imr, told, kept>>

\* x & m on two bits.
And(x, m) == IF m = 3 THEN x ELSE IF m = 2 THEN (x \div 2) * 2 ELSE IF m = 1 THEN x % 2 ELSE 0

Filter(type, m, p) == [type |-> type, mask |-> m, pattern |-> p]
NoFilter == Filter("none", 0, 0)
Quiet == [filter |-> NoFilter, id |-> None]

Matches(x, m, p) == And(x, m) = And(p, m)
Used(i) == filter[i].type # "none"

CanInit ==
  /\ chan = FALSE /\ buffers = FALSE /\ enabled = FALSE /\ nvic = FALSE /\ imr = {}
  /\ mask = [i \in Box |-> 0] /\ id = [i \in Box |-> 0] /\ full = [i \in Box |-> None]
  /\ sending = 0 /\ txRing = <<>> /\ hook = [i \in Box |-> TxBox] /\ rxRing = [i \in Box |-> <<>>]
  /\ filter = [i \in Box |-> NoFilter] /\ sends = 0 /\ arrivals = 0 /\ sets = 0 /\ opens = 0
  /\ out = 0 /\ told = Quiet /\ kept = FALSE
-----------------------------------------------------------------------------
(* The controller *)

\* A frame on the bus goes to the first free mailbox that accepts it.
Accepts(i, x) == full[i] = None /\ Matches(x, mask[i], id[i])

Arrive(x) ==
  /\ enabled /\ arrivals < MaxArrivals /\ arrivals' = arrivals + 1 /\ told' = Quiet
  /\ \/ \E i \in Box : /\ Accepts(i, x) /\ \A j \in 0 .. i - 1 : ~Accepts(j, x)
                       /\ full' = [full EXCEPT ![i] = x]
     \/ (\A i \in Box : ~Accepts(i, x)) /\ UNCHANGED full
  /\ UNCHANGED <<txVars, regVars, hook, rxRing, busVars, chanVars, imr, kept>>

\* The bus takes the frame; the mailbox is ready again.
Sent ==
  /\ enabled /\ sending # 0 /\ out' = sending /\ sending' = 0 /\ told' = Quiet
  /\ UNCHANGED <<txRing, sends, regVars, boxVars, busVars, chanVars, imr, kept>>

Ready(i) == IF i = TxBox THEN sending = 0 ELSE full[i] # None

Pending == nvic /\ \E i \in imr : Ready(i)
-----------------------------------------------------------------------------
(* interruptHandler and mailbox_int_handler *)

\* The ring of callback k after the frame of its mailbox; a full ring loses it.
Pushed(k) ==
  LET from == {i \in Box : hook[i] = k /\ full[i] # None}
  IN  IF from = {} \/ Len(rxRing[k]) >= RxRoom THEN rxRing[k]
      ELSE Append(rxRing[k], full[CHOOSE i \in from : TRUE])

\* Mutant: the interrupt of the sending mailbox is disabled while frames wait.
NextFrameOff ==
  IF txRing # <<>>
  THEN sending' = Head(txRing) /\ txRing' = Tail(txRing) /\ imr' = imr \ {TxBox}
  ELSE imr' = imr \ {TxBox} /\ UNCHANGED <<sending, txRing>>

\* The sending mailbox is ready: the next frame, or no more interrupts of it.
NextFrame ==
  IF txRing # <<>>
  THEN sending' = Head(txRing) /\ txRing' = Tail(txRing) /\ UNCHANGED imr
  ELSE imr' = imr \ {TxBox} /\ UNCHANGED <<sending, txRing>>

\* All mailboxes that are ready are looked at, whichever raised the interrupt.
\* A frame of a mailbox without callback goes to a ring that nobody reads.
Interrupt ==
  /\ Pending /\ told' = Quiet
  /\ full' = [i \in Box |-> None] /\ rxRing' = [k \in Box |-> Pushed(k)]
  /\ IF Ready(TxBox) THEN NextFrame ELSE UNCHANGED <<sending, txRing, imr>>
  /\ UNCHANGED <<out, sends, regVars, hook, arrivals, busVars, chanVars, kept>>
-----------------------------------------------------------------------------
(* The calls of the loop; an interrupt comes first *)

Loop == ~Pending /\ told' = Quiet

\* Mutant: the send ring is not looked at for room.
QueueAlways(n) == Append(txRing, n)

Queue(n) == IF Len(txRing) < TxRoom THEN Append(txRing, n) ELSE txRing

\* Mutant: a mailbox that has just become ready is used past the ring.
SendFramePast ==
  LET n == sends + 1 IN
  /\ chan /\ sends < MaxSends /\ sends' = n /\ told' = Quiet
  /\ \/ sending = 0 /\ sending' = n /\ imr' = imr \cup {TxBox} /\ UNCHANGED txRing
     \/ sending # 0 /\ txRing' = Queue(n) /\ UNCHANGED <<sending, imr>>
  /\ UNCHANGED <<out, regVars, boxVars, busVars, chanVars, kept>>

\* sendMsg, debug_send_frame and CANRaw::sendFrame: under irqLock, so that an
\* interrupt may be waiting.  On a full ring the frame is dropped.
SendFrame ==
  LET n    == sends + 1
      free == txRing = <<>> /\ sending = 0
  IN
  /\ chan /\ sends < MaxSends /\ sends' = n /\ told' = Quiet
  /\ \/ free /\ sending' = n /\ imr' = imr \cup {TxBox} /\ UNCHANGED txRing
     \/ ~free /\ txRing' = Queue(n) /\ UNCHANGED <<sending, imr>>
  /\ UNCHANGED <<out, regVars, boxVars, busVars, chanVars, kept>>

\* init: the rings are made once, and kept.
InitBuffers ==
  /\ buffers' = TRUE /\ txRing' = IF buffers THEN txRing ELSE <<>>
  /\ kept' = (kept \/ (buffers /\ txRing # <<>>))
  /\ hook' = [i \in Box |-> TxBox] /\ opens' = opens + 1

\* init up to its end: mailboxes are reset, interrupts off.
Started == enabled' = TRUE /\ nvic' = TRUE /\ sending' = 0 /\ full' = [i \in Box |-> None]

\* setNumTXBoxes: all mailboxes but the last receive, the id zero for now.
SetNumTXBoxes == mask' = [i \in Box |-> 3] /\ id' = [i \in Box |-> 0]

\* setRXFilter of mailbox i.
SetRXFilter(i, m, x) ==
  mask' = [mask EXCEPT ![i] = m] /\ id' = [id EXCEPT ![i] = x] /\ imr' = imr \cup {i}

\* setRXFilter(i, 0xFFFF, 0x0000, false) for all of them.
BlockAll == mask' = [i \in Box |-> 0] /\ id' = [i \in Box |-> 3]

\* setup_channel, CanChannel::setup and enableCanBus.
Open ==
  /\ Loop /\ ~chan /\ opens < MaxOpens /\ chan' = TRUE
  /\ InitBuffers /\ Started /\ BlockAll /\ imr' = Box /\ rxRing' = [i \in Box |-> <<>>]
  /\ UNCHANGED <<out, sends, arrivals, chanVars>>

\* The bus is not there: the controller stays on, with no interrupts.
OpenTimesOut ==
  /\ Loop /\ ~chan /\ opens < MaxOpens
  /\ InitBuffers /\ Started /\ SetNumTXBoxes /\ imr' = {}
  /\ UNCHANGED <<chan, rxRing, out, sends, arrivals, chanVars>>

\* A baud rate that cannot be set.
OpenFails ==
  /\ Loop /\ ~chan /\ opens < MaxOpens
  /\ InitBuffers /\ enabled' = FALSE
  /\ UNCHANGED <<chan, nvic, sending, full, rxRing, out, sends, arrivals, imr, regVars, chanVars>>

\* delete_channel, destroy and disableCanBus.
Close ==
  /\ Loop /\ chan /\ chan' = FALSE /\ enabled' = FALSE
  /\ BlockAll /\ imr' = imr \cup Box /\ hook' = [i \in Box |-> TxBox] /\ rxRing' = [i \in Box |-> <<>>]
  /\ filter' = [i \in Box |-> NoFilter]
  /\ UNCHANGED <<buffers, nvic, opens, txVars, full, arrivals, sets, kept>>

\* addFilter and enableCanFilter, with the callback that is set.
SetFilter(i, f, callback) ==
  /\ Loop /\ chan /\ ~Used(i) /\ sets < MaxSets /\ sets' = sets + 1
  /\ filter' = [filter EXCEPT ![i] = f]
  /\ IF f.type = "block" THEN SetRXFilter(i, 0, 0) ELSE SetRXFilter(i, f.mask, f.pattern)
  /\ rxRing' = [rxRing EXCEPT ![i] = <<>>]
  /\ hook' = [hook EXCEPT ![i] = callback]
  /\ UNCHANGED <<txVars, full, arrivals, busVars, kept>>

\* Mutant: the callback of the mailbox before.
AddFilterMixed(i, f) == SetFilter(i, f, IF i = 0 THEN 0 ELSE i - 1)

AddFilter(i, f) == SetFilter(i, f, i)

\* removeFilter and disableCanFilter: "block all traffic" is a mask of zero.
RemoveFilter(i) ==
  /\ Loop /\ chan /\ Used(i) /\ filter' = [filter EXCEPT ![i] = NoFilter]
  /\ SetRXFilter(i, 0, 3)
  /\ rxRing' = [rxRing EXCEPT ![i] = <<>>] /\ hook' = [hook EXCEPT ![i] = TxBox]
  /\ UNCHANGED <<txVars, full, arrivals, busVars, sets, kept>>

\* Mutant: what a block filter names is what it passes.
PassesInverse(f, x) == f.type = "pass" \/ (f.mask # 0 /\ x = f.pattern)

\* The block filter check: masks[i] & f.id != patterns[i], where masks[i] is a bool.
Passes(f, x) == f.type = "pass" \/ (f.mask # 0 /\ x # f.pattern)

\* update, of one mailbox.
Poll(i) ==
  LET x == Head(rxRing[i]) IN
  /\ ~Pending /\ chan /\ Used(i) /\ rxRing[i] # <<>>
  /\ rxRing' = [rxRing EXCEPT ![i] = Tail(@)]
  /\ told' = IF Passes(filter[i], x) THEN [filter |-> filter[i], id |-> x] ELSE Quiet
  /\ UNCHANGED <<txVars, regVars, full, hook, arrivals, busVars, chanVars, imr, kept>>

Filters == {Filter(type, m, And(p, m)) : type \in {"pass", "block"}, m \in Masks, p \in Ids}

CanNext ==
  \/ Interrupt \/ Sent \/ (\E x \in Ids : Arrive(x))
  \/ SendFrame \/ Open \/ OpenTimesOut \/ OpenFails \/ Close
  \/ \E i \in Box : Poll(i) \/ RemoveFilter(i) \/ \E f \in Filters : AddFilter(i, f)

CanSpec == CanInit /\ [][CanNext]_vars

\* Interrupts come, and somebody on the bus takes the frames.
FairCanSpec == CanSpec /\ WF_vars(Interrupt) /\ WF_vars(Sent)
-----------------------------------------------------------------------------
CanTypeOK ==
  /\ chan \in BOOLEAN /\ buffers \in BOOLEAN /\ enabled \in BOOLEAN /\ nvic \in BOOLEAN
  /\ imr \subseteq 0 .. Boxes /\ mask \in [Box -> Bits] /\ id \in [Box -> Bits]
  /\ full \in [Box -> 0 .. None] /\ hook \in [Box -> 0 .. Boxes]
  /\ sending \in 0 .. MaxSends /\ txRing \in Seq(1 .. MaxSends) /\ Len(txRing) <= TxRoom
  /\ rxRing \in [Box -> Seq(Bits)] /\ \A i \in Box : Len(rxRing[i]) <= RxRoom
  /\ filter \in [Box -> [type : {"none", "pass", "block"}, mask : Bits, pattern : Bits]]
  /\ sends \in 0 .. MaxSends /\ arrivals \in 0 .. MaxArrivals
  /\ sets \in 0 .. MaxSets /\ opens \in 0 .. MaxOpens /\ out \in 0 .. MaxSends
  /\ told \in [filter : [type : {"none", "pass", "block"}, mask : Bits, pattern : Bits], id : 0 .. None]
  /\ kept \in BOOLEAN

\* Frames go out in the order in which they were sent, each at most once, with
\* an interrupt at any time and over closing and opening.
SendOrder ==
  LET waiting == <<out>> \o (IF sending = 0 THEN <<>> ELSE <<sending>>) \o txRing
  IN  /\ \A k \in 1 .. Len(waiting) - 1 : waiting[k] < waiting[k + 1]
      /\ \A k \in 1 .. Len(waiting) : waiting[k] <= sends

\* "Automatically turns on TX interrupt if necessary" (due_can.cpp:899): frames
\* that wait in the ring are sent, unless the controller stops, or was started
\* over frames left from the channel before, for which nothing turns it on.
WaitingSent ==
  enabled /\ txRing # <<>> ~> txRing = <<>> \/ ~enabled \/ kept

\* The ring of a pass filter holds frames of that filter only: none that came
\* before it was set, of another mailbox or of a filter removed since.
FiledByFilter ==
  \A i \in Box : filter[i].type = "pass" =>
    \A k \in 1 .. Len(rxRing[i]) : Matches(rxRing[i][k], filter[i].mask, filter[i].pattern)

\* What the driver is given has passed its filter, a block filter of all bits
\* or of none: of others the mask is not applied (comm_channel_can.cpp:79).
ToldPasses ==
  told.id # None =>
    \/ told.filter.type = "pass" /\ Matches(told.id, told.filter.mask, told.filter.pattern)
    \/ /\ told.filter.type = "block"
       /\ told.filter.mask \in {0, 3} => ~Matches(told.id, told.filter.mask, told.filter.pattern)
=============================================================================
