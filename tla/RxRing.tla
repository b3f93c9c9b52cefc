------------------------------- MODULE RxRing -------------------------------
(***************************************************************************)
(* One CAN mailbox and its receive ring (firmware/custom_can.cpp), with    *)
(* the channel that uses it (comm_channel_can.cpp, comm_channel_iso15765   *)
(* .cpp).  The interrupt may come between any two writes of the loop; it   *)
(* runs to its end before the loop goes on.                                *)
(*                                                                         *)
(* A call of the loop is the sequence of the writes it makes, "todo".      *)
(* Mailboxes share nothing but the controller, so one stands for all; the  *)
(* content of a frame and what a channel does with it are left out.        *)
(***************************************************************************)
EXTENDS Naturals, Sequences

CONSTANTS
  RingSize,   \* MAX_RX_QUEUE, 8
  Boards,     \* of "m2", "a0", "a0high": a mailbox of disableCanBus's loop to 7, or past it
  MaxFrames,  \* bound: frames that reach the ring
  MaxSets     \* bound: filters set, channels opened

ASSUME RingAssumption ==
  /\ RingSize \in Nat /\ RingSize >= 2
  /\ Boards \subseteq {"m2", "a0", "a0high"}
  /\ MaxFrames \in Nat /\ MaxSets \in Nat

VARIABLES
  board,    \* which mailbox of which board this is
  head, tail, buf,
  hook,     \* cbCANFrame[i] is set
  bus,      \* the controller is enabled
  accept,   \* the filter the mailbox is programmed for; 0: whatever comes
  chan,     \* canChannel # nullptr
  used,     \* used_mailboxes[i]
  frame,    \* the channel's f
  todo,     \* what the loop has still to do of a call
  frames, sets, opens,   \* counters: frames pushed, filters set, channels opened
  out       \* history: the frame handled last

ctlVars  == <<board, bus, accept, chan, frames, sets, opens>>
ringVars == <<head, tail, buf, hook>>
useVars  == <<used, frame, out>>
vars     == <<ctlVars, ringVars, useVars, todo>>

Frame(n, filter) == [n |-> n, filter |-> filter]
NoFrame == Frame(0, 0)
Index == 0 .. RingSize - 1

RingInit ==
  /\ board \in Boards
  /\ head = 0 /\ tail = 0 /\ buf = [i \in Index |-> NoFrame] /\ hook = FALSE
  /\ bus = FALSE /\ accept = 0 /\ chan = FALSE /\ used = FALSE /\ frame = NoFrame
  /\ todo = <<>> /\ frames = 0 /\ sets = 0 /\ opens = 0 /\ out = NoFrame
-----------------------------------------------------------------------------
(* The interrupt *)

\* Mutant: no wrap.
SuccFlat(i) == i + 1

Succ(i) == (i + 1) % RingSize

\* __rx_queue_push_frame: with one place free the ring is full.
Push(f) ==
  IF Succ(head) = tail THEN UNCHANGED <<head, buf>>
  ELSE head' = Succ(head) /\ buf' = [buf EXCEPT ![head] = f]

\* mailbox_int_handler, when a callback is set.  Without one the frame goes to
\* the library's own ring, which nobody reads.
Interrupt ==
  /\ bus /\ hook /\ frames < MaxFrames
  /\ frames' = frames + 1 /\ Push(Frame(frames + 1, accept))
  /\ UNCHANGED <<board, bus, accept, chan, sets, opens, tail, hook, useVars, todo>>
-----------------------------------------------------------------------------
(* The calls of CustomCan, by their writes *)

\* Mutant: the callback stays.
DeleteQuiet == <<"head", "tail">>

DeleteRing == <<"head", "tail", "unhook">>   \* __delete_check_rx_ring
CreateRing == <<"head", "tail", "hook">>     \* __create_check_rx_ring

\* Mutant: the callback is set before the mailbox has its filter.
EnableEarly == DeleteRing \o CreateRing \o <<"mask", "id">>

\* enableCanFilter.  The mask is programmed before the id.
EnableCanFilter == <<"mask", "id">> \o DeleteRing \o CreateRing

\* disableCanFilter: "blocked" is a mask of zero, which lets everything through.
DisableCanFilter == <<"mask">> \o DeleteRing

\* enableCanBus, if the controller starts.
EnableCanBus == <<"init", "mask">> \o DeleteRing

\* disableCanBus clears seven mailboxes, also where there are ten.
DisableCanBus == <<"off">> \o IF board = "a0high" THEN <<>> ELSE <<"mask">> \o DeleteRing

Idle == todo = <<>>
Starts(seq) == Idle /\ todo' = seq

\* setup_channel with CanChannel::setup or ISO15765Channel::setup.
Open ==
  /\ ~chan /\ opens < MaxSets /\ opens' = opens + 1
  /\ \E seq \in {EnableCanBus \o <<"new">>, <<"fail">>} : Starts(seq)
  /\ UNCHANGED <<board, bus, accept, chan, frames, sets, ringVars, useVars>>

\* delete_channel and reset_all_channels.
Delete ==
  /\ chan /\ Starts(DisableCanBus \o <<"delete">>)
  /\ UNCHANGED <<ctlVars, ringVars, useVars>>

\* addFilter, past its checks.
AddFilter ==
  /\ chan /\ ~used /\ sets < MaxSets /\ sets' = sets + 1
  /\ Starts(EnableCanFilter \o <<"use">>)
  /\ UNCHANGED <<board, bus, accept, chan, frames, opens, ringVars, useVars>>

\* removeFilter.
RemoveFilter ==
  /\ chan /\ used /\ used' = FALSE /\ Starts(DisableCanFilter)
  /\ UNCHANGED <<ctlVars, ringVars, frame, out>>

\* Mutant: a full ring is taken for an empty one.
PollNotFull ==
  /\ chan /\ used /\ head # tail /\ Succ(head) # tail /\ Starts(<<"advance">>) /\ frame' = buf[tail]
  /\ UNCHANGED <<ctlVars, ringVars, used, out>>

\* update and __rx_queue_pop_frame: the frame is copied, then the tail moves.
Poll ==
  /\ chan /\ used /\ head # tail /\ Starts(<<"advance">>) /\ frame' = buf[tail]
  /\ UNCHANGED <<ctlVars, ringVars, used, out>>
-----------------------------------------------------------------------------
(* The writes *)

Step(w) == todo # <<>> /\ Head(todo) = w /\ todo' = Tail(todo)

ResetHead == Step("head") /\ head' = 0 /\ UNCHANGED <<ctlVars, tail, buf, hook, useVars>>
ResetTail == Step("tail") /\ tail' = 0 /\ UNCHANGED <<ctlVars, head, buf, hook, useVars>>

\* removeCallback, setCallback.
SetHook ==
  /\ \/ Step("unhook") /\ hook' = FALSE
     \/ Step("hook") /\ hook' = TRUE
  /\ UNCHANGED <<ctlVars, head, tail, buf, useVars>>

\* setRXFilter.
SetAccept ==
  /\ \/ Step("mask") /\ accept' = 0
     \/ Step("id") /\ accept' = sets
  /\ UNCHANGED <<board, bus, chan, frames, sets, opens, ringVars, useVars>>

\* CANRaw::init clears the callbacks and may fail with the controller off or on.
\* The library of the A0 is not in the repository: it is taken to keep them.
InitBus ==
  /\ \/ Step("init") /\ bus' = TRUE
     \/ Step("fail") /\ bus' \in BOOLEAN
  /\ accept' = 0 /\ hook' = (hook /\ board # "m2")
  /\ UNCHANGED <<board, chan, frames, sets, opens, head, tail, buf, useVars>>

BusOff ==
  /\ Step("off") /\ bus' = FALSE
  /\ UNCHANGED <<board, accept, chan, frames, sets, opens, ringVars, useVars>>

\* A new channel has no mailbox in use.
SetChan ==
  /\ \/ Step("new") /\ chan' = TRUE
     \/ Step("delete") /\ chan' = FALSE
  /\ used' = FALSE
  /\ UNCHANGED <<board, bus, accept, frames, sets, opens, ringVars, frame, out>>

Use == Step("use") /\ used' = TRUE /\ UNCHANGED <<ctlVars, ringVars, frame, out>>

Advance ==
  /\ Step("advance") /\ tail' = Succ(tail) /\ out' = frame
  /\ UNCHANGED <<ctlVars, head, buf, hook, used, frame>>

Write ==
  ResetHead \/ ResetTail \/ SetHook \/ SetAccept \/ InitBus \/ BusOff \/ SetChan \/ Use \/ Advance

RingNext == Interrupt \/ Open \/ Delete \/ AddFilter \/ RemoveFilter \/ Poll \/ Write

RingSpec == RingInit /\ [][RingNext]_vars

\* loop() goes on, and looks into every mailbox in use once a turn.
FairRingSpec == RingSpec /\ WF_vars(Write) /\ WF_vars(Poll)
-----------------------------------------------------------------------------
Frames == [n : 0 .. MaxFrames, filter : 0 .. MaxSets]

RingTypeOK ==
  /\ board \in Boards /\ head \in Index /\ tail \in Index /\ buf \in [Index -> Frames]
  /\ hook \in BOOLEAN /\ bus \in BOOLEAN /\ accept \in 0 .. MaxSets
  /\ chan \in BOOLEAN /\ used \in BOOLEAN /\ frame \in Frames /\ out \in Frames
  /\ frames \in 0 .. MaxFrames /\ sets \in 0 .. MaxSets /\ opens \in 0 .. MaxSets

Waiting  == (head + RingSize - tail) % RingSize
Contents == [k \in 1 .. Waiting |-> buf[(tail + k - 1) % RingSize]]

\* A filter is set from its callback on, until the loop begins to take it away.
Filtered == todo = <<"use">> \/ (used /\ todo \in {<<>>, <<"advance">>})

Queue == INSTANCE FilterQueue WITH
  Capacity <- RingSize - 1, Filters <- 1 .. MaxSets,
  current <- IF Filtered THEN sets ELSE 0, queue <- IF Filtered THEN Contents ELSE <<>>,
  seen <- frames, out <- out

\* The ring with its interrupt is a queue of RingSize - 1 frames per filter: in
\* order, each once, none lost while there is room, none of an earlier filter.
\* (custom_can.h:23 says "a rxMailbox of 8 frames": it holds 7.)
ImplementsQueue == Queue!QueueSpec

\* Callbacks are "Only registered when a rxFilter is set for the mailbox"
\* (custom_can.h:77).  Not so on an A0 past its seventh mailbox: there they
\* outlive the channel.
HookedIsFiltered == hook /\ Idle /\ board # "a0high" => used

Holds(n) == Filtered /\ \E k \in 1 .. Waiting : Contents[k].n = n

\* A frame that found room is read in the end, also from a ring that was full,
\* unless its filter is taken away.
FrameRead == \A n \in 1 .. MaxFrames : Holds(n) ~> (out.n = n \/ ~Filtered)
=============================================================================
