--------------------------- MODULE SerialFraming ---------------------------
(***************************************************************************)
(* Messages as bytes on the serial line.  To the device every message has  *)
(* its length before it, and so has one from an A0; an M2 sends structures *)
(* of a fixed size (driver/src/comm.rs, firmware/comm_m2.cpp, comm_a0.cpp).*)
(*                                                                         *)
(* CommLink moves whole messages, in order.  This is what that takes: two  *)
(* threads of the driver write to one port, a write may give up half-way,  *)
(* a session may end and begin with bytes under way, and bytes come in any *)
(* pieces.  A byte is known by its message; what bytes say is left out.    *)
(***************************************************************************)
EXTENDS Integers, Sequences

CONSTANTS
  Boards,       \* of "m2", "a0"
  Sizes,        \* bytes of a message, of a call or of the device, 2 or more
  Record,       \* bytes of a COMM_MSG on the M2 (COMM_MSG_SIZE, 8192)
  Buffered,     \* messages the driver's buffer holds on the M2 (MAX_BUFFER_SIZE, 16)
  Room,         \* bytes the port and the line hold in one direction
  MaxDown,      \* bound: messages to the device besides hellos and goodbyes
  MaxUp,        \* bound: messages from the device
  MaxSessions   \* bound: sessions

LenBytes == 2     \* the length before a message
StatusBytes == 3  \* a hello or goodbye: its id, its type, one argument

ASSUME FramingAssumption ==
  /\ Boards \subseteq {"m2", "a0"} /\ Sizes \subseteq Nat /\ \A s \in Sizes : s >= 2
  /\ Record \in Nat \ {0} /\ Buffered \in Nat \ {0} /\ Room \in Nat \ {0}
  /\ MaxDown \in Nat /\ MaxUp \in Nat /\ MaxSessions \in Nat

VARIABLES
  board,
  session,    \* the reader thread: "none", "hello", "up", "bye"
  opens,      \* sessions so far
  rOut, wOut, \* bytes the reader and the writer thread have still to write of a message
  down, up,   \* bytes written and not read: they come in the pieces they are written in
  dev,        \* isReadingMsg, read_target and what was read so far
  devOut,     \* bytes the device has still to send of a message
  host,       \* the same of the reader thread
  sent, ups,  \* messages begun, in each direction
  got, taken, \* what the device, the driver took for a message (messages) in the last step
  cutDown, cutUp  \* history: a message was cut off or mixed with another

hostVars == <<session, opens, rOut, wOut, sent>>
devVars  == <<dev, devOut, ups>>
vars     == <<board, hostVars, devVars, down, up, host, got, taken, cutDown, cutUp>>

AtMost(a, b) == IF a < b THEN a ELSE b
DropN(s, n)  == SubSeq(s, n + 1, Len(s))
TakeN(s, n)  == SubSeq(s, 1, n)

\* Message m, of n bytes in all.
Message(m, n) == [k \in 1 .. n |-> [msg |-> m, k |-> k, of |-> n]]

\* read_count is the length of buf.
NotReading == [reading |-> FALSE, target |-> 0, buf |-> <<>>]

FramingInit ==
  /\ board \in Boards /\ session = "none" /\ opens = 0 /\ rOut = <<>> /\ wOut = <<>>
  /\ down = <<>> /\ up = <<>> /\ dev = NotReading /\ devOut = <<>> /\ host = NotReading
  /\ sent = 0 /\ ups = 0 /\ got = <<>> /\ taken = <<>>
  /\ cutDown = FALSE /\ cutUp = FALSE
-----------------------------------------------------------------------------
\* Bound: what follows when a message to the device was cut is left out.  The
\* device does not look for a beginning again: nothing is claimed of it.
Followed == ~cutDown
-----------------------------------------------------------------------------
(* Whoever reads a length first *)

\* A length from the middle of a message may be anything.
Lengths(a, b) == IF a.msg = b.msg /\ a.k = 1 /\ b.k = 2 THEN {a.of - LenBytes}
                 ELSE Sizes \union {StatusBytes}

\* Mutant: it waits for more than the smallest message.
HeaderBytesMore == LenBytes + 3

\* The A0 begins with a byte more than the length (avaliable > 2).
HeaderBytes == IF board = "a0" THEN LenBytes + 1 ELSE LenBytes

\* At least need bytes are there: the length is read.
Begins(r, s, need) == ~r.reading /\ Len(s) >= need

Begun(s) == {[reading |-> TRUE, target |-> n, buf |-> <<>>] : n \in Lengths(s[1], s[2])}

\* Mutant: all that has come is taken for the message.
PieceAll(r, s) == Len(s)

\* How many bytes are read of those that are there.
Piece(r, s) == AtMost(Len(s), r.target - Len(r.buf))

Grown(r, s) == [r EXCEPT !.buf = @ \o TakeN(s, Piece(r, s))]
-----------------------------------------------------------------------------
(* The driver *)

\* Part of a message is written, the rest is not.
Partly(out) == out # <<>> /\ out[1].k # 1

\* open_conn, when the threads before have dropped the port: what has come and
\* what has not gone out is cleared.
Open ==
  /\ Followed /\ session = "none" /\ wOut = <<>> /\ opens < MaxSessions
  /\ session' = "hello" /\ opens' = opens + 1
  /\ sent' = sent + 1 /\ rOut' = Message(sent + 1, LenBytes + StatusBytes)
  /\ up' = <<>> /\ host' = NotReading /\ cutUp' = Partly(devOut)
  /\ \E n \in 0 .. Len(down) :
       /\ down' = TakeN(down, n)
       /\ cutDown' = Partly(DropN(down, n))
  /\ got' = <<>> /\ taken' = <<>>
  /\ UNCHANGED <<board, wOut, devVars>>

\* A thread writes some of its bytes, with nothing that keeps the other from it.
Written(out, other, n) ==
  /\ Followed /\ n \in 1 .. AtMost(Len(out), Room - Len(down))
  /\ down' = down \o TakeN(out, n) /\ cutDown' = Partly(other)

\* write_all gives up after 10 ms in which nothing could be written.
GivesUp(out) == Followed /\ out # <<>> /\ Len(down) = Room /\ cutDown' = Partly(out)

\* The hello or the goodbye is written or given up: a session without its
\* hello ends at once.
ReaderWrites ==
  /\ \/ \E n \in 1 .. Len(rOut) :
          /\ Written(rOut, wOut, n) /\ rOut' = DropN(rOut, n)
          /\ session' = IF n < Len(rOut) THEN session
                        ELSE IF session = "hello" THEN "up" ELSE "none"
     \/ GivesUp(rOut) /\ rOut' = <<>> /\ session' = "none" /\ UNCHANGED down
  /\ got' = <<>> /\ taken' = <<>>
  /\ UNCHANGED <<board, opens, wOut, sent, devVars, up, host, cutUp>>

\* stop: the reader thread leaves its loop and says goodbye, the writer thread
\* finishes what it has taken from its queue.
Close ==
  /\ Followed /\ session = "up" /\ session' = "bye"
  /\ sent' = sent + 1 /\ rOut' = Message(sent + 1, LenBytes + StatusBytes)
  /\ got' = <<>> /\ taken' = <<>>
  /\ UNCHANGED <<board, opens, wOut, devVars, down, up, host, cutDown, cutUp>>

\* The writer thread takes a message of a call.
WriterTakes ==
  /\ Followed /\ session = "up" /\ wOut = <<>> /\ sent < MaxDown + 2 * opens - 1
  /\ sent' = sent + 1 /\ \E n \in Sizes : wOut' = Message(sent + 1, LenBytes + n)
  /\ got' = <<>> /\ taken' = <<>>
  /\ UNCHANGED <<board, session, opens, rOut, devVars, down, up, host, cutDown, cutUp>>

WriterWrites ==
  /\ \/ \E n \in 1 .. Len(wOut) : Written(wOut, rOut, n) /\ wOut' = DropN(wOut, n)
     \/ GivesUp(wOut) /\ wOut' = <<>> /\ UNCHANGED down
  /\ got' = <<>> /\ taken' = <<>>
  /\ UNCHANGED <<board, session, opens, rOut, sent, devVars, up, host, cutUp>>

\* Mutant: one record at a time.
RecordsOne(s) ==
  LET n == IF Len(s) >= Record THEN Record ELSE 0
  IN  [whole |-> TakeN(s, n), rest |-> DropN(s, n)]

\* The buffer of the M2's driver: the records in it, and what begins the next.
Records(s) == [whole |-> TakeN(s, Record * (Len(s) \div Record)),
               rest  |-> DropN(s, Record * (Len(s) \div Record))]

HostReadsM2 ==
  /\ board = "m2" /\ session = "up"
  /\ up # <<>>
  /\ LET n == AtMost(Len(up), Record * Buffered - Len(host.buf))
         r == Records(host.buf \o TakeN(up, n))
     IN  up' = DropN(up, n) /\ taken' = r.whole /\ host' = [host EXCEPT !.buf = r.rest]
  /\ got' = <<>>
  /\ UNCHANGED <<board, hostVars, devVars, down, cutDown, cutUp>>

HostReadsA0 ==
  /\ board = "a0" /\ session = "up"
  /\ \/ /\ Begins(host, up, LenBytes)
        /\ host' \in Begun(up) /\ up' = DropN(up, LenBytes) /\ taken' = <<>>
     \/ /\ host.reading /\ up # <<>>
        /\ up' = DropN(up, Piece(host, up))
        /\ LET r == Grown(host, up)
           IN  IF Len(r.buf) >= r.target
               THEN taken' = r.buf /\ host' = NotReading
               ELSE taken' = <<>> /\ host' = r
  /\ got' = <<>>
  /\ UNCHANGED <<board, hostVars, devVars, down, cutDown, cutUp>>
-----------------------------------------------------------------------------
(* The device: one loop, which reads while it has nothing to send *)

\* read_message; what is handled is got.
DevReads ==
  /\ Followed /\ devOut = <<>>
  /\ \/ /\ Begins(dev, down, HeaderBytes)
        /\ dev' \in Begun(down) /\ down' = DropN(down, LenBytes) /\ got' = <<>>
     \/ /\ dev.reading /\ down # <<>>
        /\ down' = DropN(down, Piece(dev, down))
        /\ LET r == Grown(dev, down)
           IN  IF Len(r.buf) >= r.target
               THEN got' = r.buf /\ dev' = NotReading
               ELSE got' = <<>> /\ dev' = r
  /\ taken' = <<>>
  /\ UNCHANGED <<board, hostVars, devOut, ups, up, host, cutDown, cutUp>>

\* send_message, of a response, of received data or of a log line.
DevSends ==
  /\ Followed /\ devOut = <<>> /\ ups < MaxUp /\ ups' = ups + 1
  /\ IF board = "m2"
     THEN devOut' = Message(ups + 1, Record)
     ELSE \E n \in Sizes : devOut' = Message(ups + 1, LenBytes + n)
  /\ got' = <<>> /\ taken' = <<>>
  /\ UNCHANGED <<board, hostVars, dev, down, up, host, cutDown, cutUp>>

DevWrites ==
  /\ \E n \in 1 .. AtMost(Len(devOut), Room - Len(up)) :
       up' = up \o TakeN(devOut, n) /\ devOut' = DropN(devOut, n)
  /\ got' = <<>> /\ taken' = <<>>
  /\ UNCHANGED <<board, hostVars, dev, ups, down, host, cutDown, cutUp>>

FramingNext ==
  \/ Open \/ ReaderWrites \/ Close \/ WriterTakes \/ WriterWrites \/ HostReadsM2 \/ HostReadsA0
  \/ DevReads \/ DevSends \/ DevWrites

FramingSpec == FramingInit /\ [][FramingNext]_vars

\* Both ends loop, and a write goes on while there is room or gives up.
FairFramingSpec ==
  /\ FramingSpec
  /\ WF_vars(ReaderWrites) /\ WF_vars(WriterWrites) /\ WF_vars(HostReadsM2)
  /\ WF_vars(HostReadsA0) /\ WF_vars(DevReads) /\ WF_vars(DevWrites)
-----------------------------------------------------------------------------
Bytes == [msg : 1 .. MaxDown + 2 * MaxSessions + MaxUp, k : Nat \ {0}, of : Nat \ {0}]

\* The bytes read of a message are fewer than its length says, or than a record
\* has on the M2's driver: no read is past tempbuf or read_buffer.
FramingTypeOK ==
  /\ board \in Boards /\ session \in {"none", "hello", "up", "bye"}
  /\ opens \in 0 .. MaxSessions /\ sent \in 0 .. MaxDown + 2 * MaxSessions /\ ups \in 0 .. MaxUp
  /\ \A s \in {rOut, wOut, down, up, devOut, dev.buf, host.buf, got, taken} : s \in Seq(Bytes)
  /\ Len(down) <= Room /\ Len(up) <= Room
  /\ dev.reading => Len(dev.buf) < dev.target
  /\ IF board = "m2" THEN Len(host.buf) < Record ELSE host.reading => Len(host.buf) < host.target
  /\ cutDown \in BOOLEAN /\ cutUp \in BOOLEAN

\* s is one message from its byte b to its end.
Whole(s, b) ==
  /\ Len(s) = s[1].of - b + 1
  /\ \A i \in DOMAIN s : s[i] = [msg |-> s[1].msg, k |-> b + i - 1, of |-> s[1].of]

\* In whatever pieces the bytes of the two threads come, over sessions and over
\* goodbyes that follow a call's message: while none of the driver's messages was
\* given up half-way, cleared half-way or mixed with one of the other thread,
\* the device takes whole messages (read_message finds the beginning of each).
DeviceTakesWhole == got # <<>> /\ ~cutDown => Whole(got, LenBytes + 1)

\* The reader thread takes whole messages, on the M2 every record of its buffer,
\* when the session did not begin while the device was sending one.
HostTakesWhole ==
  taken # <<>> /\ ~cutUp =>
    IF board = "m2"
    THEN \A i \in 0 .. Len(taken) \div Record - 1 :
           Whole(SubSeq(taken, Record * i + 1, Record * (i + 1)), 1)
    ELSE Whole(taken, LenBytes + 1)

\* Both ends agree where a message begins, whatever pieces a read returns: neither
\* ever looks for the beginning of one again.
TakenWhole == DeviceTakesWhole /\ HostTakesWhole

\* The device comes to the end of what was written: it never waits, with a whole
\* message there, for bytes that come only with the next one.
AllRead ==
  down # <<>> ~> (down = <<>> \/ cutDown \/ session # "up")
=============================================================================
