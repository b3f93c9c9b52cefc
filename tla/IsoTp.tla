------------------------------- MODULE IsoTp -------------------------------
(***************************************************************************)
(* Long messages on an ISO 15765 channel (firmware/comm_channel_iso15765   *)
(* .cpp), with one ECU behind each filter.  The channel takes messages     *)
(* apart and puts them together a frame at a time, over many turns of the  *)
(* loop, with one buffer for each direction whichever ECU it talks to.     *)
(*                                                                         *)
(* A frame is what it says of the transport; data is the frame it came in. *)
(* ECUs keep to the protocol, and frames the device sends reach them.      *)
(* Between the calls of the loop any number of frames may come in.         *)
(***************************************************************************)
EXTENDS Integers, Sequences

CONSTANTS
  Boxes,      \* mailboxes (MAILBOX_COUNT, 7)
  RingCap,    \* frames that wait in a mailbox's ring (7)
  RxBlock,    \* frames after which the device sends flow control (8)
  Radix,      \* values of a byte (256)
  SnMod,      \* values of a sequence number (16)
  Lens,       \* lengths of long messages of ECUs
  SendLens,   \* and of the application's
  FlowIds,    \* flow control ids an application sets, of 0 and 1
  AppBlocks,  \* block sizes an application sets
  EcuBlocks,  \* block sizes ECUs ask for, 0 for no limit
  MaxMsgs,    \* bound: messages of ECUs
  MaxSends,   \* bound: long messages the application writes
  MaxSets,    \* bound: filters and block sizes set
  MaxStrays,  \* bound: flow control frames nobody waits for
  MaxTalks    \* bound: all of these together

IdBytes == 4   \* the CAN id before the data
FfBytes == 6   \* data of a first frame
CfBytes == 7   \* data of a consecutive frame

ASSUME IsoAssumption ==
  /\ Boxes \in Nat \ {0} /\ RingCap \in Nat \ {0} /\ RxBlock \in Nat \ {0}
  /\ SnMod \in Nat \ {0} /\ Radix \in Nat /\ Radix > IdBytes + FfBytes
  /\ Lens \cup SendLens \subseteq 8 .. 16 * Radix - 1
  /\ FlowIds \subseteq {0, 1} /\ AppBlocks \subseteq Nat /\ EcuBlocks \subseteq 0 .. Radix - 1
  /\ MaxMsgs \in Nat /\ MaxSends \in Nat /\ MaxSets \in Nat /\ MaxStrays \in Nat
  /\ MaxTalks \in Nat

Box == 0 .. Boxes - 1

VARIABLES
  at,           \* where the loop is: before mailbox at, or before sending
  ring,         \* the receive rings
  used, flow,   \* used_mailboxes, flowcontrol_ids
  blockSize,    \* block_size, the application's
  isReceiving,
  rx,           \* rxPayload: whose, its size, how far it is filled, with the data of which frames
  rxCount,      \* rx_frame_count
  isSending, clear,  \* clear, due: clear_to_send, millis() > next_send_time
  due,
  tx,           \* txPayload: whose, its size, how far it is sent
  sn,           \* tx_pci
  txBlock, txFrames,  \* block_size_tx, tx_frames_sent
  told,         \* the message handed to the driver in the last step
  ecu,          \* the ECUs
  sets, msgs, strays,
  accepted, confirmed, received,  \* history: long messages taken from the driver, confirmed to it, arrived
  faults        \* history: what went wrong or out of turn

rxVars  == <<isReceiving, rx, rxCount>>
txVars  == <<isSending, clear, due, tx, sn, txBlock, txFrames>>
cfgVars == <<used, flow, blockSize, sets>>
envVars == <<msgs, strays>>
logVars == <<accepted, confirmed, received>>
vars    == <<at, ring, rxVars, txVars, cfgVars, envVars, logVars, told, ecu, faults>>

Talks == msgs + accepted + strays

AtMost(a, b) == IF a < b THEN a ELSE b
Byte(n) == n % Radix
All     == Radix * Radix - 1   \* 0xFFFF

\* Consecutive frames of a message of n bytes.
Cfs(n) == n \div CfBytes

Frame(type, msg, n, k) == [type |-> type, msg |-> msg, n |-> n, k |-> k]
NoRx == [box |-> 0, size |-> 0, pos |-> 0, parts |-> <<>>]
NoTx == [box |-> 0, size |-> 0, pos |-> 0]

\* msg, len, next, credit: the message it sends, its next frame and how many
\* may go before flow control.  want, sn, owes, grant: bytes it waits for, the
\* number of the next frame, whether it is to send flow control, and how many
\* frames it has let the device send.
Quiet == [msg |-> 0, len |-> 0, next |-> 1, credit |-> 0,
          want |-> 0, sn |-> 1, owes |-> FALSE, grant |-> 0]

\* setup: the channel is a new object.
IsoInit ==
  /\ at = 0 /\ ring = [i \in Box |-> <<>>]
  /\ used = [i \in Box |-> FALSE] /\ flow = [i \in Box |-> 0] /\ blockSize = 0
  /\ isReceiving = FALSE /\ rx = NoRx /\ rxCount = 0
  /\ isSending = FALSE /\ clear = FALSE /\ due = TRUE /\ tx = NoTx /\ sn = 0
  /\ txBlock = 0 /\ txFrames = 0
  /\ told = NoRx /\ ecu = [i \in Box |-> Quiet]
  /\ sets = 0 /\ msgs = 0 /\ strays = 0
  /\ accepted = 0 /\ confirmed = 0 /\ received = 0 /\ faults = {}
-----------------------------------------------------------------------------
(* What an ECU makes of a frame of the device *)

Waits(i) == ecu[i].msg # 0 /\ ecu[i].credit = 0

\* Flow control with block size b; who does not wait for it ignores it.
EcuTakesFlow(i, b) ==
  ecu' = IF Waits(i)
         THEN [ecu EXCEPT ![i].credit = IF b = 0 THEN Cfs(ecu[i].len) ELSE AtMost(b, Cfs(ecu[i].len))]
         ELSE ecu

\* A first frame announcing n bytes.
EcuTakesFirst(i, n) ==
  ecu' = [ecu EXCEPT ![i] = [@ EXCEPT !.want = n - FfBytes, !.sn = 1 % SnMod, !.owes = TRUE, !.grant = 0]]

\* A consecutive frame of number s; one out of order, or before the ECU is
\* ready for it, ends the message.
EcuTakesNext(i, s) ==
  LET e    == ecu[i]
      good == s = e.sn /\ e.grant > 0
      left == IF good THEN e.want - AtMost(CfBytes, e.want) ELSE 0
      done == [e EXCEPT !.want = 0, !.sn = 1 % SnMod, !.grant = 0, !.owes = FALSE]
      more == [e EXCEPT !.want = left, !.sn = (@ + 1) % SnMod, !.grant = @ - 1, !.owes = e.grant = 1]
  IN  /\ ecu' = [ecu EXCEPT ![i] = IF e.want = 0 THEN e ELSE IF left = 0 THEN done ELSE more]
      /\ received' = IF e.want # 0 /\ good /\ left = 0 THEN received + 1 ELSE received
      /\ faults' = IF e.want # 0 /\ e.grant = 0 THEN faults \cup {"flooded"} ELSE faults
-----------------------------------------------------------------------------
(* The turn of the loop: one frame of each mailbox, then one of ours.  A    *)
(* step begins with passing over mailboxes that have nothing.              *)

Empty(i) == ~used[i] \/ ring[i] = <<>>
Past(i)  == \A j \in Box : at <= j /\ j < i => Empty(j)

Take(i, type) ==
  /\ at <= i /\ Past(i) /\ ~Empty(i) /\ Head(ring[i]).type = type
  /\ at' = i + 1 /\ ring' = [ring EXCEPT ![i] = Tail(@)]

RxSingleFrame(i) ==
  /\ Take(i, "single")
  /\ told' = [box |-> i, size |-> Head(ring[i]).n + IdBytes, pos |-> 0, parts |-> <<Head(ring[i])>>]
  /\ UNCHANGED <<rxVars, txVars, cfgVars, envVars, logVars, ecu, faults>>

\* ((hi & 0x0F) << 8) | (lo + 4): the sum may reach the lowest bit of hi.
FfSize(n) ==
  LET hi  == n \div Radix
      low == (n % Radix) + IdBytes
  IN  hi * Radix + IF low >= Radix /\ hi % 2 = 1 THEN low - Radix ELSE low

\* Lengths whose size comes out too small.
Carries(n) == FfSize(n) # n + IdBytes

\* A first frame, with the reason to drop it.  It is answered with the
\* application's block size.
FirstFrame(i, dropped) ==
  LET f == Head(ring[i])
      b == Byte(blockSize)
  IN
  /\ Take(i, "first") /\ told' = NoRx
  /\ \/ dropped /\ UNCHANGED <<rxVars, ecu, faults>>
     \/ /\ ~dropped /\ isReceiving' = TRUE /\ rxCount' = 0 /\ EcuTakesFlow(i, b)
        /\ rx' = [box |-> i, size |-> FfSize(f.n), pos |-> IdBytes + FfBytes, parts |-> <<f>>]
        /\ faults' = faults \cup (IF Carries(f.n) THEN {"carry"} ELSE {})
                            \cup (IF b % RxBlock # 0 THEN {"block"} ELSE {})
  /\ UNCHANGED <<txVars, cfgVars, envVars, logVars>>

\* Mutant: a first frame is taken whatever is being received.
SendFfIndicationAlways(i) == FirstFrame(i, flow[i] = 0)

\* send_ff_indication: no flow control id, or in the middle of another message.
SendFfIndication(i) == FirstFrame(i, flow[i] = 0 \/ isReceiving)

\* Mutant: the end of a message is not looked at.
CopyLenAll(left) == CfBytes

CopyLen(left) == IF left < CfBytes THEN left ELSE CfBytes

\* Mutant: one frame late.
BlockDoneLate(count) == count > RxBlock

BlockDone(count) == count >= RxBlock

\* The ECU waits, but to begin another message than the one being received.
WaitsForNext(i) == Waits(i) /\ ecu[i].msg # rx.parts[1].msg

\* rx_multi_frame: whoever sent it, whatever its number.  After RxBlock frames
\* flow control goes out, whatever block size the ECU was told, with the block
\* size that was asked of us.
RxMultiFrame(i) ==
  LET more  == [rx EXCEPT !.pos = @ + CopyLen(rx.size - rx.pos), !.parts = Append(@, Head(ring[i]))]
      full  == more.pos >= rx.size
      count == rxCount + 1
      b     == Byte(txBlock)
  IN
  /\ Take(i, "next")
  /\ \/ ~isReceiving /\ told' = NoRx /\ UNCHANGED <<rxVars, ecu, faults>>
     \/ /\ isReceiving /\ full
        /\ told' = more /\ isReceiving' = FALSE /\ rx' = NoRx /\ rxCount' = count
        /\ UNCHANGED <<ecu, faults>>
     \/ /\ isReceiving /\ ~full /\ ~BlockDone(count)
        /\ rx' = more /\ rxCount' = count /\ told' = NoRx
        /\ UNCHANGED <<isReceiving, ecu, faults>>
     \/ /\ isReceiving /\ ~full /\ BlockDone(count)
        /\ rx' = more /\ rxCount' = 0 /\ told' = NoRx /\ EcuTakesFlow(i, b)
        /\ faults' = faults \cup (IF WaitsForNext(i) THEN {"astray"} ELSE {})
                            \cup (IF b % RxBlock # 0 THEN {"block"} ELSE {})
        /\ UNCHANGED isReceiving
  /\ UNCHANGED <<txVars, cfgVars, envVars, logVars>>

\* Mutant: no limit is a limit of zero.
FlowBlockPlain(b) == b

FlowBlock(b) == IF b = 0 THEN All ELSE b

\* handle_fc: from whichever mailbox, whether or not anything is being sent.
HandleFc(i) ==
  /\ Take(i, "flow") /\ told' = NoRx
  /\ txBlock' = FlowBlock(Head(ring[i]).n) /\ txFrames' = 0
  /\ clear' = TRUE /\ isSending' = TRUE /\ due' = FALSE
  /\ UNCHANGED <<rxVars, tx, sn, cfgVars, envVars, logVars, ecu, faults>>

\* Flow control that is not 0x30.
IgnoreFc(i) ==
  /\ Take(i, "wait") /\ told' = NoRx
  /\ UNCHANGED <<rxVars, txVars, cfgVars, envVars, logVars, ecu, faults>>

\* The next frame of the message: its number, where the message ends, when
\* flow control has to come first.
NextFrame(pos, roll, end, stop) ==
  /\ Past(Boxes) /\ isSending /\ clear /\ due
  /\ at' = 0 /\ told' = NoRx /\ EcuTakesNext(tx.box, sn)
  /\ tx' = [tx EXCEPT !.pos = pos] /\ sn' = (sn + 1) % roll /\ txFrames' = txFrames + 1
  /\ \/ end /\ clear' = FALSE /\ isSending' = FALSE /\ confirmed' = confirmed + 1 /\ UNCHANGED due
     \/ ~end /\ clear' = ~stop /\ due' = FALSE /\ UNCHANGED <<isSending, confirmed>>
  /\ UNCHANGED <<ring, rxVars, txBlock, cfgVars, envVars, accepted>>

TxPos == tx.pos + CopyLen(tx.size - tx.pos)

\* Mutants: no rollover; the last frame is taken for sent; one frame more per block.
TxMultiFrameOn    == NextFrame(TxPos, 2 * SnMod, TxPos >= tx.size, txFrames + 1 >= txBlock)
TxMultiFrameEarly == NextFrame(TxPos, SnMod, TxPos + CfBytes >= tx.size, txFrames + 1 >= txBlock)
TxMultiFrameMore  == NextFrame(TxPos, SnMod, TxPos >= tx.size, txFrames >= txBlock)

\* tx_multi_frame, when its time has come.
TxMultiFrame == NextFrame(TxPos, SnMod, TxPos >= tx.size, txFrames + 1 >= txBlock)

EndTurn ==
  /\ at > 0 /\ Past(Boxes) /\ ~(isSending /\ clear /\ due) /\ at' = 0 /\ told' = NoRx
  /\ UNCHANGED <<ring, rxVars, txVars, cfgVars, envVars, logVars, ecu, faults>>

Handle(i) ==
  RxSingleFrame(i) \/ SendFfIndication(i) \/ RxMultiFrame(i) \/ HandleFc(i) \/ IgnoreFc(i)

Turn == (\E i \in Box : Handle(i)) \/ TxMultiFrame \/ EndTurn

\* millis() passes next_send_time.
Tick ==
  /\ ~due /\ due' = TRUE /\ told' = NoRx
  /\ UNCHANGED <<at, ring, rxVars, isSending, clear, tx, sn, txBlock, txFrames, cfgVars, envVars, logVars, ecu, faults>>
-----------------------------------------------------------------------------
(* Commands, between two turns *)

\* addFilter, past its checks.
AddFilter(i) ==
  /\ at = 0 /\ ~used[i] /\ sets < MaxSets /\ sets' = sets + 1 /\ told' = NoRx
  /\ \E id \in FlowIds : flow' = [flow EXCEPT ![i] = id]
  /\ used' = [used EXCEPT ![i] = TRUE] /\ ring' = [ring EXCEPT ![i] = <<>>]
  /\ UNCHANGED <<at, blockSize, rxVars, txVars, envVars, logVars, ecu, faults>>

\* removeFilter ends what is being received, and lets nothing be sent, of
\* whichever ECU.  (It also frees what was never allocated.)
RemoveFilter(i) ==
  /\ at = 0 /\ used[i] /\ told' = NoRx
  /\ used' = [used EXCEPT ![i] = FALSE] /\ flow' = [flow EXCEPT ![i] = 0]
  /\ ring' = [ring EXCEPT ![i] = <<>>]
  /\ isReceiving' = FALSE /\ clear' = FALSE /\ rx' = NoRx
  /\ faults' = IF isReceiving \/ isSending THEN faults \cup {"removed"} ELSE faults
  /\ UNCHANGED <<at, blockSize, sets, rxCount, isSending, due, tx, sn, txBlock, txFrames, envVars, logVars, ecu>>

\* ioctl_set of ISO15765_BS.
IoctlSet(b) ==
  /\ at = 0 /\ sets < MaxSets /\ sets' = sets + 1 /\ blockSize' = b /\ told' = NoRx
  /\ UNCHANGED <<at, ring, used, flow, rxVars, txVars, envVars, logVars, ecu, faults>>

\* sendMsg of a long message.  While one is being sent it is refused.
SendMsg(i, n) ==
  /\ at = 0 /\ accepted < MaxSends /\ Talks < MaxTalks /\ ~isSending /\ told' = NoRx
  /\ tx' = [box |-> i, size |-> n + IdBytes, pos |-> IdBytes + FfBytes]
  /\ clear' = FALSE /\ isSending' = TRUE /\ sn' = 1 % SnMod /\ accepted' = accepted + 1
  /\ EcuTakesFirst(i, n)
  /\ UNCHANGED <<at, ring, rxVars, due, txBlock, txFrames, cfgVars, envVars, confirmed, received, faults>>
-----------------------------------------------------------------------------
(* ECUs *)

\* A frame reaches a ring that has room, and is lost on a full one or where
\* there is no filter.  Losing data or flow control is a fault.
Arrives(i) == used[i] /\ Len(ring[i]) < RingCap

Put(i, f) ==
  \/ Arrives(i) /\ ring' = [ring EXCEPT ![i] = Append(@, f)] /\ UNCHANGED faults
  \/ /\ ~Arrives(i) /\ UNCHANGED ring
     /\ faults' = IF f.type \in {"next", "flow"} THEN faults \cup {"lost"} ELSE faults

Device == <<at, rxVars, txVars, cfgVars, logVars>>

EcuSingle(i) ==
  /\ ecu[i].msg = 0 /\ msgs < MaxMsgs /\ Talks < MaxTalks /\ msgs' = msgs + 1 /\ told' = NoRx
  /\ Put(i, Frame("single", msgs + 1, CfBytes, 0))
  /\ UNCHANGED <<Device, strays, ecu>>

EcuFirst(i, n) ==
  /\ ecu[i].msg = 0 /\ msgs < MaxMsgs /\ Talks < MaxTalks /\ msgs' = msgs + 1 /\ told' = NoRx
  /\ ecu' = [ecu EXCEPT ![i] = [@ EXCEPT !.msg = msgs + 1, !.len = n, !.next = 1, !.credit = 0]]
  /\ Put(i, Frame("first", msgs + 1, n, 0))
  /\ UNCHANGED <<Device, strays>>

EcuNext(i) ==
  LET e    == ecu[i]
      last == e.next = Cfs(e.len)
  IN
  /\ e.msg # 0 /\ e.credit > 0 /\ told' = NoRx
  /\ ecu' = [ecu EXCEPT ![i] = IF last THEN [e EXCEPT !.msg = 0, !.len = 0, !.next = 1, !.credit = 0]
                                        ELSE [e EXCEPT !.next = @ + 1, !.credit = @ - 1]]
  /\ Put(i, Frame("next", e.msg, 0, e.next))
  /\ UNCHANGED <<Device, envVars>>

\* Flow control for the device's message.
EcuFlow(i, b) ==
  /\ ecu[i].owes /\ told' = NoRx
  /\ ecu' = [ecu EXCEPT ![i] = [@ EXCEPT !.owes = FALSE,
                                      !.grant = IF b = 0 THEN Cfs(ecu[i].want + CfBytes) ELSE b]]
  /\ Put(i, Frame("flow", 0, b, 0))
  /\ UNCHANGED <<Device, envVars>>

\* Flow control for somebody else on the bus, or one that says wait.
EcuStray(i, type, b) ==
  /\ strays < MaxStrays /\ Talks < MaxTalks /\ strays' = strays + 1 /\ told' = NoRx
  /\ Arrives(i) /\ ring' = [ring EXCEPT ![i] = Append(@, Frame(type, 0, b, 0))]
  /\ faults' = IF type = "flow" THEN faults \cup {"stray"} ELSE faults
  /\ UNCHANGED <<Device, msgs, ecu>>

\* The device has had time to answer: what came in is handled.
Settled == at = 0 /\ \A i \in Box : Empty(i)

EcuGivesUp(i) ==
  /\ Waits(i) /\ Settled /\ told' = NoRx
  /\ ecu' = [ecu EXCEPT ![i] = [@ EXCEPT !.msg = 0, !.len = 0, !.next = 1]]
  /\ UNCHANGED <<Device, ring, envVars, faults>>

EcuSends(i) == EcuNext(i) \/ \E b \in EcuBlocks : EcuFlow(i, b)

IsoNext ==
  \/ Turn \/ Tick
  \/ \E i \in Box :
       \/ AddFilter(i) \/ RemoveFilter(i) \/ \E n \in SendLens : SendMsg(i, n)
       \/ EcuSends(i) \/ EcuSingle(i) \/ EcuGivesUp(i) \/ \E n \in Lens : EcuFirst(i, n)
       \/ \E type \in {"flow", "wait"}, b \in EcuBlocks : EcuStray(i, type, b)
  \/ \E b \in AppBlocks : IoctlSet(b)

IsoSpec == IsoInit /\ [][IsoNext]_vars

\* The loop goes on, so does the clock, and ECUs send what they may send.
FairIsoSpec == IsoSpec /\ WF_vars(Turn) /\ WF_vars(Tick) /\ \A i \in Box : WF_vars(EcuSends(i))
-----------------------------------------------------------------------------
Frames ==
  [type : {"first"}, msg : 0 .. MaxMsgs, n : Lens, k : Nat]
    \cup [type : {"single", "next", "flow", "wait"}, msg : 0 .. MaxMsgs, n : Nat, k : Nat]

EcuStates ==
  [msg : 0 .. MaxMsgs, len : Lens \cup {0}, next : Nat, credit : Nat,
   want : Nat, sn : 0 .. SnMod - 1, owes : BOOLEAN, grant : Nat]

IsoTypeOK ==
  /\ at \in 0 .. Boxes /\ ring \in [Box -> Seq(Frames)]
  /\ used \in [Box -> BOOLEAN] /\ flow \in [Box -> {0, 1}] /\ blockSize \in AppBlocks \cup {0}
  /\ isReceiving \in BOOLEAN /\ rx \in [box : Box, size : Nat, pos : Nat, parts : Seq(Frames)]
  /\ rxCount \in 0 .. RxBlock
  /\ isSending \in BOOLEAN /\ clear \in BOOLEAN /\ due \in BOOLEAN
  /\ tx \in [box : Box, size : Nat, pos : Nat] /\ sn \in 0 .. SnMod - 1
  /\ txBlock \in Nat /\ txFrames \in Nat
  /\ told \in [box : Box, size : Nat, pos : Nat, parts : Seq(Frames)]
  /\ ecu \in [Box -> EcuStates]
  /\ sets \in 0 .. MaxSets /\ msgs \in 0 .. MaxMsgs /\ strays \in 0 .. MaxStrays
  /\ accepted \in 0 .. MaxSends /\ confirmed \in Nat /\ received \in Nat
  /\ faults \subseteq {"carry", "lost", "removed", "astray", "block", "flooded", "stray"}

\* No frame writes past the end of a message, or of what is being sent: the
\* differences of the code do not become negative.
NoOverrun ==
  /\ isReceiving => rx.pos < rx.size
  /\ tx.pos <= tx.size

\* The frames are those of one message, all of it and in order.
WholeMessage(m) ==
  LET first == m.parts[1] IN
  \/ m.parts = <<>> \/ first.type = "single"
  \/ /\ first.type = "first" /\ m.size = first.n + IdBytes /\ Len(m.parts) = Cfs(first.n) + 1
     /\ \A k \in 1 .. Cfs(first.n) : m.parts[k + 1] = Frame("next", first.msg, 0, k)

\* "Got all our data!" (comm_channel_iso15765.cpp:216): what is handed to the
\* driver is one message, whole.  Neither the sender nor the number of a frame
\* is looked at, so it is not after a lost frame or a removed filter, nor for
\* some lengths; nor once an ECU has taken flow control for its last message
\* as that for its next, whose frames then come unasked.
Mixing == {"carry", "lost", "removed", "astray"}

DeliveredWhole == faults \cap Mixing = {} => WholeMessage(told)

\* An ECU in the middle of a message, with nothing under way that could let it
\* go on.
Starved(i) == Waits(i) /\ Settled /\ isReceiving /\ rx.box = i /\ rx.parts[1].msg = ecu[i].msg

\* "ECU hit block limit. Send flow control again!" (comm_channel_iso15765.cpp
\* :222): the device does so if it told a multiple of its own eight, and counts
\* the frames of one message.
BlockAnswered ==
  faults \cap (Mixing \cup {"block"}) = {} => \A i \in Box : ~Starved(i)

\* Every message is confirmed at most once, and only when the ECU has all of
\* it, until flow control comes that nobody asked for: handle_fc starts
\* sending even what has been sent.
ConfirmedOnce == "stray" \notin faults => confirmed <= received /\ received <= accepted

\* "Here, we honour the ECU's COM Parameters" (comm_channel_iso15765.cpp:130):
\* the ECU never gets more frames than it asked for.
BlockHonoured == "flooded" \in faults => "stray" \in faults

\* Between ECUs that keep to the protocol a message is sent to its end, and
\* received to its end.
SendEnds    == isSending ~> (~isSending \/ faults \cap {"lost", "removed", "stray"} # {})
ReceiveEnds == isReceiving ~> (~isReceiving \/ faults \cap (Mixing \cup {"block"}) # {})
BothEnd     == SendEnds /\ ReceiveEnds
=============================================================================
