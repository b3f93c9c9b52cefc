---------------------------- MODULE FilterQueue ----------------------------
(***************************************************************************)
(* What a channel may rely on when it reads a CAN mailbox: while a filter  *)
(* is set, the frames it lets through come in the order they arrived, each *)
(* once; a frame is lost only if Capacity frames wait; no frame is left    *)
(* over for the next filter.  RxRing implements it.                        *)
(***************************************************************************)
EXTENDS Naturals, Sequences

CONSTANTS Capacity, Filters

VARIABLES
  current,  \* the filter that is set, 0 if none
  queue,    \* frames waiting to be read
  seen,     \* how many frames have arrived
  out       \* the frame read last

queueVars == <<current, queue, seen, out>>

Frame(n, filter) == [n |-> n, filter |-> filter]
NoFrame == Frame(0, 0)

QueueInit == current = 0 /\ queue = <<>> /\ seen = 0 /\ out = NoFrame

Set == current = 0 /\ current' \in Filters /\ UNCHANGED <<queue, seen, out>>

Clear == current # 0 /\ current' = 0 /\ queue' = <<>> /\ UNCHANGED <<seen, out>>

Arrive ==
  /\ seen' = seen + 1 /\ UNCHANGED <<current, out>>
  /\ queue' = IF current # 0 /\ Len(queue) < Capacity
                THEN Append(queue, Frame(seen', current)) ELSE queue

Take ==
  /\ queue # <<>> /\ out' = Head(queue) /\ queue' = Tail(queue)
  /\ UNCHANGED <<current, seen>>

QueueSpec == QueueInit /\ [][Set \/ Clear \/ Arrive \/ Take]_queueVars
=============================================================================
