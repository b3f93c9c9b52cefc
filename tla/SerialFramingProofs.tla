------------------------ MODULE SerialFramingProofs ------------------------
(***************************************************************************)
(* For any board, message sizes, records, room on the line and bounds:     *)
(* the types of SerialFraming, no read past a buffer among them, and that  *)
(* both ends take whole messages (TakenWhole).                             *)
(*                                                                         *)
(* Neither end ever looks for the beginning of a message, so that what it  *)
(* has read, what is on the line and what is still to be written must fit  *)
(* together.  In each direction these are one stream (Stream) in which     *)
(* every message that has a byte has all that follow it (Closed), and the  *)
(* reader stands at the byte that its own state says (InStep).             *)
(***************************************************************************)
EXTENDS SerialFraming, SequenceTheorems, TLAPS

-----------------------------------------------------------------------------
(* Sequences *)

\* The first n and the rest of s.
LEMMA TakeDrop ==
  ASSUME NEW S, NEW s \in Seq(S), NEW n \in 0 .. Len(s)
  PROVE  /\ TakeN(s, n) \in Seq(S) /\ Len(TakeN(s, n)) = n
         /\ \A i \in 1 .. n : TakeN(s, n)[i] = s[i]
         /\ DropN(s, n) \in Seq(S) /\ Len(DropN(s, n)) = Len(s) - n
         /\ \A i \in 1 .. Len(s) - n : DropN(s, n)[i] = s[i + n]
<1>1. \A i \in 1 .. n : s[i] \in S  OBVIOUS
<1>2. \A i \in n + 1 .. Len(s) : s[i] \in S  OBVIOUS
<1>3. /\ TakeN(s, n) \in Seq(S) /\ Len(TakeN(s, n)) = n
      /\ \A i \in 1 .. n : TakeN(s, n)[i] = s[i]
  BY <1>1, SubSeqProperties DEF TakeN
<1>4. Len(s) \in Nat /\ n \in Nat /\ n <= Len(s)  OBVIOUS
<1>5. /\ SubSeq(s, n + 1, Len(s)) \in Seq(S)
      /\ Len(SubSeq(s, n + 1, Len(s))) = IF n + 1 <= Len(s) THEN Len(s) - (n + 1) + 1 ELSE 0
      /\ \A i \in 1 .. Len(s) - (n + 1) + 1 : SubSeq(s, n + 1, Len(s))[i] = s[n + 1 + i - 1]
  BY <1>2, <1>4, SubSeqProperties
<1>6. DropN(s, n) \in Seq(S) /\ Len(DropN(s, n)) = Len(s) - n  BY <1>4, <1>5 DEF DropN
<1>7. \A i \in 1 .. Len(s) - n : DropN(s, n)[i] = s[i + n]
  <2> TAKE i \in 1 .. Len(s) - n
  <2>1. i \in 1 .. Len(s) - (n + 1) + 1 /\ n + 1 + i - 1 = i + n  BY <1>4
  <2> QED  BY <2>1, <1>5 DEF DropN
<1> QED  BY <1>3, <1>6, <1>7

\* What is taken and what is left are the whole.
LEMMA TakeThenDrop ==
  ASSUME NEW S, NEW s \in Seq(S), NEW n \in 0 .. Len(s)
  PROVE  TakeN(s, n) \o DropN(s, n) = s
<1> DEFINE u == TakeN(s, n) \o DropN(s, n)
<1>1. /\ TakeN(s, n) \in Seq(S) /\ DropN(s, n) \in Seq(S)
      /\ Len(TakeN(s, n)) = n /\ Len(DropN(s, n)) = Len(s) - n /\ Len(s) \in Nat
      /\ \A i \in 1 .. n : TakeN(s, n)[i] = s[i]
      /\ \A i \in 1 .. Len(s) - n : DropN(s, n)[i] = s[i + n]
  BY TakeDrop
<1>2. u \in Seq(S) /\ Len(u) = Len(s)  BY <1>1, ConcatProperties
<1>3. ASSUME NEW i \in 1 .. Len(s) PROVE u[i] = s[i]
  <2>1. u[i] = IF i <= n THEN TakeN(s, n)[i] ELSE DropN(s, n)[i - n]  BY <1>1, ConcatProperties
  <2>2. i <= n => i \in 1 .. n  OBVIOUS
  <2>3. ~(i <= n) => i - n \in 1 .. Len(s) - n /\ (i - n) + n = i  BY <1>1
  <2> QED  BY <2>1, <2>2, <2>3, <1>1
<1> QED  BY <1>2, <1>3, SeqEqual

\* Dropping from a concatenation what its first part has.
LEMMA DropConcat ==
  ASSUME NEW S, NEW s \in Seq(S), NEW t \in Seq(S), NEW n \in 0 .. Len(s)
  PROVE  DropN(s, n) \o t = DropN(s \o t, n)
<1>1. Len(s) \in Nat /\ Len(t) \in Nat  OBVIOUS
<1>2. s \o t \in Seq(S) /\ Len(s \o t) = Len(s) + Len(t)  BY ConcatProperties
<1>3. n \in 0 .. Len(s \o t)  BY <1>1, <1>2
<1>4. /\ DropN(s, n) \in Seq(S) /\ Len(DropN(s, n)) = Len(s) - n
      /\ \A i \in 1 .. Len(s) - n : DropN(s, n)[i] = s[i + n]
  BY TakeDrop
<1>5. /\ DropN(s \o t, n) \in Seq(S) /\ Len(DropN(s \o t, n)) = Len(s) + Len(t) - n
      /\ \A i \in 1 .. Len(s) + Len(t) - n : DropN(s \o t, n)[i] = (s \o t)[i + n]
  <2> DEFINE u == s \o t
  <2>1. u \in Seq(S) /\ Len(u) = Len(s) + Len(t) /\ n \in 0 .. Len(u)  BY <1>2, <1>3
  <2> HIDE DEF u
  <2>2. /\ DropN(u, n) \in Seq(S) /\ Len(DropN(u, n)) = Len(u) - n
        /\ \A i \in 1 .. Len(u) - n : DropN(u, n)[i] = u[i + n]
    BY <2>1, TakeDrop
  <2>3. /\ DropN(u, n) \in Seq(S) /\ Len(DropN(u, n)) = Len(s) + Len(t) - n
        /\ \A i \in 1 .. Len(s) + Len(t) - n : DropN(u, n)[i] = u[i + n]
    BY <2>1, <2>2
  <2> QED  BY <2>3 DEF u
<1>6. DropN(s, n) \o t \in Seq(S) /\ Len(DropN(s, n) \o t) = Len(s) - n + Len(t)
  BY <1>4, ConcatProperties
<1>7. ASSUME NEW i \in 1 .. Len(s) + Len(t) - n
      PROVE  (DropN(s, n) \o t)[i] = DropN(s \o t, n)[i]
  <2>1. i \in 1 .. Len(DropN(s, n)) + Len(t)  BY <1>1, <1>4
  <2>2. (DropN(s, n) \o t)[i] = IF i <= Len(s) - n THEN s[i + n] ELSE t[i - (Len(s) - n)]
    <3>1. (DropN(s, n) \o t)[i] = IF i <= Len(DropN(s, n)) THEN DropN(s, n)[i]
                                                       ELSE t[i - Len(DropN(s, n))]
      BY <1>4, <2>1, ConcatProperties
    <3> QED  BY <3>1, <1>4
  <2>3. i + n \in 1 .. Len(s) + Len(t)  BY <1>1
  <2>4. (s \o t)[i + n] = IF i + n <= Len(s) THEN s[i + n] ELSE t[i + n - Len(s)]
    BY <2>3, ConcatProperties
  <2>5. i - (Len(s) - n) = i + n - Len(s) /\ (i <= Len(s) - n <=> i + n <= Len(s))  BY <1>1
  <2> QED  BY <2>2, <2>4, <2>5, <1>5
<1>8. Len(s) - n + Len(t) = Len(s) + Len(t) - n  BY <1>1
<1> DEFINE a == DropN(s, n) \o t
           b == DropN(s \o t, n)
<1>9. a \in Seq(S) /\ b \in Seq(S) /\ Len(a) = Len(b) /\ \A i \in 1 .. Len(a) : a[i] = b[i]
  BY <1>5, <1>6, <1>7, <1>8
<1> HIDE DEF a, b
<1>10. a = b  BY <1>9, SeqEqual
<1> QED  BY <1>10 DEF a, b

\* Elements of a concatenation.
LEMMA ConcatAt ==
  ASSUME NEW S, NEW s \in Seq(S), NEW t \in Seq(S)
  PROVE  /\ s \o t \in Seq(S) /\ Len(s \o t) = Len(s) + Len(t)
         /\ Len(s) \in Nat /\ Len(t) \in Nat
         /\ \A i \in 1 .. Len(s) : (s \o t)[i] = s[i]
         /\ \A i \in Len(s) + 1 .. Len(s) + Len(t) : (s \o t)[i] = t[i - Len(s)]
<1>1. Len(s) \in Nat /\ Len(t) \in Nat  OBVIOUS
<1> QED  BY <1>1, ConcatProperties
-----------------------------------------------------------------------------
(* Streams of messages *)

\* The byte d bytes after b, of the same message.
After(b, d) == [msg |-> b.msg, k |-> b.k + d, of |-> b.of]

\* Every message with a byte in s has all that follow it in s, one after the other,
\* and after its last byte the next message begins.
Closed(s) ==
  \A i \in 1 .. Len(s) :
    /\ s[i].k <= s[i].of
    /\ \A d \in 0 .. s[i].of - s[i].k : i + d <= Len(s) /\ s[i + d] = After(s[i], d)
    /\ i + (s[i].of - s[i].k) < Len(s) => s[i + (s[i].of - s[i].k) + 1].k = 1

\* s is the end of a message, or nothing.
Rest(s) == s # <<>> => Whole(s, s[1].k)

LEMMA Numbers == \A b \in Bytes : b.k \in Nat /\ b.of \in Nat /\ b.k > 0 /\ b.of > 0
BY DEF Bytes

\* The end of a message is a stream.
LEMMA RestClosed ==
  ASSUME NEW s \in Seq(Bytes), Rest(s)
  PROVE  Closed(s)
<1> SUFFICES ASSUME NEW i \in 1 .. Len(s)
             PROVE  /\ s[i].k <= s[i].of
                    /\ \A d \in 0 .. s[i].of - s[i].k : i + d <= Len(s) /\ s[i + d] = After(s[i], d)
                    /\ i + (s[i].of - s[i].k) < Len(s) => s[i + (s[i].of - s[i].k) + 1].k = 1
  BY DEF Closed
<1>1. Len(s) \in Nat /\ DOMAIN s = 1 .. Len(s) /\ s # <<>> /\ 1 \in 1 .. Len(s)  OBVIOUS
<1>2. s[1] \in Bytes  BY <1>1, ElementOfSeq
<1> DEFINE b == s[1].k
           n == s[1].of
<1>3. b \in Nat /\ n \in Nat /\ b > 0 /\ Len(s) = n - b + 1  BY <1>1, <1>2, Numbers DEF Rest, Whole
<1>4. \A j \in 1 .. Len(s) : s[j] = [msg |-> s[1].msg, k |-> b + j - 1, of |-> n]
  BY <1>1 DEF Rest, Whole
<1> HIDE DEF b, n
<1>5. s[i].k = b + i - 1 /\ s[i].of = n /\ s[i].msg = s[1].msg
  <2>1. s[i] = [msg |-> s[1].msg, k |-> b + i - 1, of |-> n]  BY <1>4
  <2> QED  BY <2>1
<1>6. s[i].k <= s[i].of  BY <1>1, <1>3, <1>5
<1>7. ASSUME NEW d \in 0 .. s[i].of - s[i].k
      PROVE  i + d <= Len(s) /\ s[i + d] = After(s[i], d)
  <2>1. d \in 0 .. n - (b + i - 1)  BY <1>5
  <2>2. i + d \in 1 .. Len(s)  BY <1>1, <1>3, <2>1
  <2>3. s[i + d] = [msg |-> s[1].msg, k |-> b + (i + d) - 1, of |-> n]  BY <1>4, <2>2
  <2>4. b + (i + d) - 1 = (b + i - 1) + d  BY <1>3, <2>1
  <2> QED  BY <1>1, <1>5, <2>2, <2>3, <2>4 DEF After
<1>8. ~(i + (s[i].of - s[i].k) < Len(s))  BY <1>1, <1>3, <1>5
<1> QED  BY <1>6, <1>7, <1>8

\* A stream and one that begins with a message.
LEMMA ClosedConcat ==
  ASSUME NEW s \in Seq(Bytes), NEW t \in Seq(Bytes), Closed(s), Closed(t), t # <<>> => t[1].k = 1
  PROVE  Closed(s \o t)
<1> DEFINE u == s \o t
<1>0. /\ u \in Seq(Bytes) /\ Len(u) = Len(s) + Len(t) /\ Len(s) \in Nat /\ Len(t) \in Nat
      /\ \A i \in 1 .. Len(s) : u[i] = s[i]
      /\ \A i \in Len(s) + 1 .. Len(s) + Len(t) : u[i] = t[i - Len(s)]
  BY ConcatAt
<1>n. \A i \in 1 .. Len(u) : u[i].k \in Nat /\ u[i].of \in Nat
  BY <1>0, ElementOfSeq, Numbers
<1> HIDE DEF u
<1> SUFFICES ASSUME NEW i \in 1 .. Len(u)
             PROVE  /\ u[i].k <= u[i].of
                    /\ \A d \in 0 .. u[i].of - u[i].k : i + d <= Len(u) /\ u[i + d] = After(u[i], d)
                    /\ i + (u[i].of - u[i].k) < Len(u) => u[i + (u[i].of - u[i].k) + 1].k = 1
  BY DEF Closed, u
<1>1. CASE i \in 1 .. Len(s)
  <2> DEFINE n == s[i].of - s[i].k
  <2>a. u[i] = s[i] /\ i \in Nat /\ i > 0  BY <1>0, <1>1
  <2>b. /\ s[i].k <= s[i].of
        /\ \A d \in 0 .. n : i + d <= Len(s) /\ s[i + d] = After(s[i], d)
        /\ i + n < Len(s) => s[i + n + 1].k = 1
    BY <1>1 DEF Closed
  <2>c. n \in Nat  BY <2>a, <2>b, <1>n
  <2> HIDE DEF n
  <2>d. n \in 0 .. n  BY <2>c
  <2>1. /\ u[i] = s[i] /\ s[i].k <= s[i].of /\ n \in Nat /\ i + n <= Len(s)
        /\ \A d \in 0 .. n : i + d <= Len(s) /\ s[i + d] = After(s[i], d)
        /\ i + n < Len(s) => s[i + n + 1].k = 1
    BY <2>a, <2>b, <2>c, <2>d
  <2>2. ASSUME NEW d \in 0 .. n PROVE i + d <= Len(u) /\ u[i + d] = After(u[i], d)
    <3>0. i + d <= Len(s) /\ s[i + d] = After(s[i], d)  BY <2>1
    <3>1. i + d \in 1 .. Len(s)  BY <3>0, <2>1, <2>a, <1>0
    <3>2. u[i + d] = s[i + d]  BY <3>1, <1>0
    <3>3. After(u[i], d) = After(s[i], d)  BY <2>a
    <3>4. i + d <= Len(u)  BY <3>1, <1>0
    <3> QED  BY <3>0, <3>2, <3>3, <3>4
  <2>3. i + n < Len(u) => u[i + n + 1].k = 1
    <3>1. i + n \in 1 .. Len(s)  BY <2>1, <2>a, <1>0
    <3>2. CASE i + n < Len(s)
      <4>1. i + n + 1 \in 1 .. Len(s)  BY <3>1, <3>2, <1>0
      <4> QED  BY <4>1, <3>2, <2>1, <1>0
    <3>3. CASE i + n = Len(s) /\ i + n < Len(u)
      <4>1. Len(t) > 0 /\ t # <<>>  BY <3>3, <1>0
      <4>2. i + n + 1 \in Len(s) + 1 .. Len(s) + Len(t) /\ (i + n + 1) - Len(s) = 1
        BY <3>3, <4>1, <1>0
      <4> QED  BY <4>1, <4>2, <1>0
    <3> QED  BY <3>1, <3>2, <3>3, <1>0
  <2> QED  BY <2>1, <2>2, <2>3 DEF n
<1>2. CASE i \in Len(s) + 1 .. Len(s) + Len(t)
  <2> DEFINE j == i - Len(s)
             n == t[j].of - t[j].k
  <2>1. j \in 1 .. Len(t) /\ u[i] = t[j] /\ i = Len(s) + j  BY <1>0, <1>2
  <2> HIDE DEF j
  <2>2. /\ t[j].k <= t[j].of /\ n \in Nat
        /\ \A d \in 0 .. n : j + d <= Len(t) /\ t[j + d] = After(t[j], d)
        /\ j + n < Len(t) => t[j + n + 1].k = 1
    BY <2>1, <1>n DEF Closed
  <2> HIDE DEF n
  <2>3. ASSUME NEW d \in 0 .. n PROVE i + d <= Len(u) /\ u[i + d] = After(u[i], d)
    <3>1. j + d <= Len(t) /\ t[j + d] = After(t[j], d)  BY <2>2
    <3>2. /\ i + d \in Len(s) + 1 .. Len(s) + Len(t) /\ (i + d) - Len(s) = j + d
      BY <2>1, <2>2, <3>1, <1>0
    <3>3. u[i + d] = t[j + d]  BY <3>2, <1>0
    <3>4. After(u[i], d) = After(t[j], d)  BY <2>1
    <3>5. i + d <= Len(u)  BY <3>2, <1>0
    <3> QED  BY <3>1, <3>3, <3>4, <3>5
  <2>4. i + n < Len(u) => u[i + n + 1].k = 1
    <3> SUFFICES ASSUME i + n < Len(u) PROVE u[i + n + 1].k = 1  OBVIOUS
    <3>1. /\ i + n + 1 \in Len(s) + 1 .. Len(s) + Len(t) /\ (i + n + 1) - Len(s) = j + n + 1
          /\ j + n < Len(t)
      BY <2>1, <2>2, <1>0
    <3> QED  BY <3>1, <2>2, <1>0
  <2> QED  BY <2>1, <2>2, <2>3, <2>4 DEF n
<1> QED  BY <1>0, <1>1, <1>2

\* What a reader leaves is a stream.
LEMMA ClosedDrop ==
  ASSUME NEW s \in Seq(Bytes), Closed(s), NEW n \in 0 .. Len(s)
  PROVE  Closed(DropN(s, n))
<1> DEFINE u == DropN(s, n)
<1>l. Len(s) \in Nat  OBVIOUS
<1>0. /\ Len(s) \in Nat /\ u \in Seq(Bytes) /\ Len(u) = Len(s) - n
      /\ \A i \in 1 .. Len(s) - n : u[i] = s[i + n]
  BY <1>l, TakeDrop
<1>n. \A i \in 1 .. Len(s) : s[i].k \in Nat /\ s[i].of \in Nat
  BY ElementOfSeq, Numbers
<1> HIDE DEF u
<1> SUFFICES ASSUME NEW i \in 1 .. Len(u)
             PROVE  /\ u[i].k <= u[i].of
                    /\ \A d \in 0 .. u[i].of - u[i].k : i + d <= Len(u) /\ u[i + d] = After(u[i], d)
                    /\ i + (u[i].of - u[i].k) < Len(u) => u[i + (u[i].of - u[i].k) + 1].k = 1
  BY DEF Closed, u
<1> DEFINE j == i + n
           m == s[j].of - s[j].k
<1>1. j \in 1 .. Len(s) /\ u[i] = s[j]  BY <1>0
<1> HIDE DEF j
<1>2. /\ s[j].k <= s[j].of /\ m \in Nat
      /\ \A d \in 0 .. m : j + d <= Len(s) /\ s[j + d] = After(s[j], d)
      /\ j + m < Len(s) => s[j + m + 1].k = 1
  BY <1>1, <1>n DEF Closed
<1> HIDE DEF m
<1>j. j = i + n  BY DEF j
<1>3. ASSUME NEW d \in 0 .. m PROVE i + d <= Len(u) /\ u[i + d] = After(u[i], d)
  <2>1. j + d <= Len(s) /\ s[j + d] = After(s[j], d)  BY <1>2
  <2>2. i + d \in 1 .. Len(s) - n /\ (i + d) + n = j + d  BY <2>1, <1>0, <1>j
  <2>3. u[i + d] = s[j + d]
    <3>1. u[i + d] = s[(i + d) + n]  BY <2>2, <1>0
    <3> QED  BY <3>1, <2>2
  <2> QED  BY <2>1, <2>2, <2>3, <1>0, <1>1
<1>4. i + m < Len(u) => u[i + m + 1].k = 1
  <2> SUFFICES ASSUME i + m < Len(u) PROVE u[i + m + 1].k = 1  OBVIOUS
  <2>1. i + m + 1 \in 1 .. Len(s) - n /\ (i + m + 1) + n = j + m + 1 /\ j + m < Len(s)
    BY <1>0, <1>2, <1>j
  <2> QED  BY <2>1, <1>0, <1>2
<1> QED  BY <1>1, <1>2, <1>3, <1>4 DEF m

\* So is what comes before the beginning of a message.
LEMMA ClosedTake ==
  ASSUME NEW s \in Seq(Bytes), Closed(s), NEW n \in 0 .. Len(s), n < Len(s) => s[n + 1].k = 1
  PROVE  Closed(TakeN(s, n))
<1> DEFINE u == TakeN(s, n)
<1>l. Len(s) \in Nat  OBVIOUS
<1>0. /\ Len(s) \in Nat /\ u \in Seq(Bytes) /\ Len(u) = n
      /\ \A i \in 1 .. n : u[i] = s[i]
  BY <1>l, TakeDrop
<1>n. \A i \in 1 .. Len(s) : s[i].k \in Nat /\ s[i].of \in Nat /\ s[i].k > 0
  BY ElementOfSeq, Numbers
<1> HIDE DEF u
<1> SUFFICES ASSUME NEW i \in 1 .. Len(u)
             PROVE  /\ u[i].k <= u[i].of
                    /\ \A d \in 0 .. u[i].of - u[i].k : i + d <= Len(u) /\ u[i + d] = After(u[i], d)
                    /\ i + (u[i].of - u[i].k) < Len(u) => u[i + (u[i].of - u[i].k) + 1].k = 1
  BY DEF Closed, u
<1> DEFINE m == s[i].of - s[i].k
<1>1. i \in 1 .. Len(s) /\ u[i] = s[i]  BY <1>0
<1>2. /\ s[i].k <= s[i].of /\ m \in Nat
      /\ \A d \in 0 .. m : i + d <= Len(s) /\ s[i + d] = After(s[i], d)
      /\ i + m < Len(s) => s[i + m + 1].k = 1
  BY <1>1, <1>n DEF Closed
<1> HIDE DEF m
<1>3. ASSUME NEW d \in 0 .. m PROVE i + d <= n
  <2> SUFFICES ASSUME i + d > n PROVE FALSE  BY <1>0, <1>3
  <2> DEFINE e == n + 1 - i
  <2>0. d \in Nat /\ d <= m /\ i \in Nat /\ i <= n /\ n \in Nat  BY <1>0, <1>3, <1>2
  <2>1. e \in 0 .. m /\ e > 0 /\ i + e = n + 1  BY <2>0, <1>2
  <2>2. n + 1 <= Len(s) /\ s[n + 1] = After(s[i], e)  BY <2>1, <1>2
  <2>3. s[n + 1].k = s[i].k + e  BY <2>2 DEF After
  <2>4. s[n + 1].k = 1  BY <2>2, <1>0
  <2>5. s[i].k > 0 /\ s[i].k \in Nat  BY <1>1, <1>n
  <2> HIDE DEF e
  <2> QED  BY <2>1, <2>3, <2>4, <2>5
<1>4. ASSUME NEW d \in 0 .. m PROVE i + d <= Len(u) /\ u[i + d] = After(u[i], d)
  <2>1. i + d \in 1 .. n  BY <1>3, <1>0
  <2> QED  BY <2>1, <1>0, <1>1, <1>2
<1>5. i + m < Len(u) => u[i + m + 1].k = 1
  <2> SUFFICES ASSUME i + m < Len(u) PROVE u[i + m + 1].k = 1  OBVIOUS
  <2>1. i + m + 1 \in 1 .. n /\ i + m < Len(s)  BY <1>0, <1>2
  <2> QED  BY <2>1, <1>0, <1>2
<1> QED  BY <1>1, <1>2, <1>4, <1>5 DEF m
-----------------------------------------------------------------------------
(* Reading a length first, as the device and the driver of the A0 do *)

\* Bytes of messages that have a length before them.
Long == {b \in Bytes : b.of > LenBytes}

\* A reader of bytes of S.
Reader(S) == [reading : BOOLEAN, target : Nat, buf : Seq(S)]

\* It has read less than it asks for.
Below(r) == IF r.reading THEN Len(r.buf) < r.target ELSE r.buf = <<>>

\* What r has read is what its message has before the byte with which s begins.
InStep(r, s) ==
  IF r.reading
  THEN /\ s # <<>> /\ s[1].of = r.target + LenBytes /\ s[1].k = LenBytes + Len(r.buf) + 1
       /\ \A i \in 1 .. Len(r.buf) : r.buf[i] = [msg |-> s[1].msg, k |-> LenBytes + i, of |-> s[1].of]
  ELSE s # <<>> => s[1].k = 1

\* A length is read: whatever the bytes are, it asks for some.
LEMMA BegunType ==
  ASSUME NEW s \in Seq(Long), Len(s) >= LenBytes, NEW r \in Begun(s)
  PROVE  r \in Reader(Long) /\ Below(r)
<1>1. PICK n \in Lengths(s[1], s[2]) : r = [reading |-> TRUE, target |-> n, buf |-> <<>>]
  BY DEF Begun
<1>2. s[1] \in Long  BY DEF LenBytes
<1>3. s[1].of \in Nat /\ s[1].of > LenBytes  BY <1>2 DEF Long, Bytes
<1>4. n \in Nat /\ n > 0
  <2>1. n = s[1].of - 2 \/ n \in Sizes \/ n = 3  BY DEF Lengths, LenBytes, StatusBytes
  <2>2. \A z \in Sizes : z \in Nat /\ z >= 2  BY FramingAssumption
  <2> QED  BY <1>3, <2>1, <2>2 DEF LenBytes
<1> QED  BY <1>1, <1>4 DEF Reader, Below

LEMMA Refilled ==
  ASSUME NEW S, NEW r \in Reader(S), NEW w
  PROVE  [r EXCEPT !.buf = w] = [reading |-> r.reading, target |-> r.target, buf |-> w]
BY DEF Reader

\* A piece of what follows is read.
LEMMA GrownType ==
  ASSUME NEW r \in Reader(Long), r.reading, Below(r), NEW s \in Seq(Long), s # <<>>
  PROVE  /\ Piece(r, s) \in 1 .. Len(s) /\ Piece(r, s) <= r.target - Len(r.buf)
         /\ Piece(r, s) = Len(s) \/ Piece(r, s) = r.target - Len(r.buf)
         /\ Grown(r, s) = [reading |-> TRUE, target |-> r.target, buf |-> r.buf \o TakeN(s, Piece(r, s))]
         /\ Grown(r, s) \in Reader(Long)
         /\ Len(Grown(r, s).buf) = Len(r.buf) + Piece(r, s)
         /\ \A i \in 1 .. Len(r.buf) : Grown(r, s).buf[i] = r.buf[i]
         /\ \A i \in Len(r.buf) + 1 .. Len(r.buf) + Piece(r, s) : Grown(r, s).buf[i] = s[i - Len(r.buf)]
<1>0. /\ r.buf \in Seq(Long) /\ r.target \in Nat /\ Len(r.buf) \in Nat /\ Len(r.buf) < r.target
      /\ Len(s) \in Nat /\ Len(s) > 0 /\ r.reading = TRUE
      /\ r = [reading |-> r.reading, target |-> r.target, buf |-> r.buf]
  BY DEF Reader, Below
<1> DEFINE p == Piece(r, s)
<1>1. p \in 1 .. Len(s) /\ p <= r.target - Len(r.buf) /\ (p = Len(s) \/ p = r.target - Len(r.buf))
  BY <1>0 DEF Piece, AtMost
<1>2. Grown(r, s) = [reading |-> TRUE, target |-> r.target, buf |-> r.buf \o TakeN(s, p)]
  <2> DEFINE w == r.buf \o TakeN(s, p)
  <2>1. Grown(r, s) = [r EXCEPT !.buf = w]  BY DEF Grown
  <2> HIDE DEF w
  <2>2. [r EXCEPT !.buf = w] = [reading |-> r.reading, target |-> r.target, buf |-> w]
    BY Refilled
  <2> QED  BY <1>0, <2>1, <2>2 DEF w
<1> HIDE DEF p
<1>3. TakeN(s, p) \in Seq(Long) /\ Len(TakeN(s, p)) = p /\ \A i \in 1 .. p : TakeN(s, p)[i] = s[i]
  BY <1>1, TakeDrop
<1> DEFINE v == TakeN(s, p)
           w == r.buf \o v
<1>4. /\ w \in Seq(Long) /\ Len(w) = Len(r.buf) + Len(v)
      /\ \A i \in 1 .. Len(r.buf) : w[i] = r.buf[i]
      /\ \A i \in Len(r.buf) + 1 .. Len(r.buf) + Len(v) : w[i] = v[i - Len(r.buf)]
  <2>1. v \in Seq(Long)  BY <1>3
  <2> HIDE DEF v
  <2> QED  BY <1>0, <2>1, ConcatAt
<1>5. Len(v) = p /\ \A i \in 1 .. p : v[i] = s[i]  BY <1>3
<1>6. Grown(r, s) = [reading |-> TRUE, target |-> r.target, buf |-> w]  BY <1>2
<1> HIDE DEF w, v
<1>7. Grown(r, s) \in Reader(Long) /\ Len(Grown(r, s).buf) = Len(r.buf) + p /\ Grown(r, s).buf = w
  BY <1>0, <1>4, <1>5, <1>6 DEF Reader
<1>8. ASSUME NEW i \in Len(r.buf) + 1 .. Len(r.buf) + p PROVE w[i] = s[i - Len(r.buf)]
  <2>1. i - Len(r.buf) \in 1 .. p  BY <1>0, <1>1
  <2> QED  BY <2>1, <1>4, <1>5
<1> QED  BY <1>1, <1>2, <1>4, <1>7, <1>8 DEF p

\* The reader that begins where a message begins asks for what follows its length.
LEMMA ReadBegins ==
  ASSUME NEW r, ~r.reading, NEW s \in Seq(Long), Len(s) >= LenBytes, NEW r2 \in Begun(s),
         NEW t \in Seq(Long), Closed(s \o t), InStep(r, s \o t)
  PROVE  InStep(r2, DropN(s, LenBytes) \o t) /\ Closed(DropN(s, LenBytes) \o t)
<1> DEFINE u == s \o t
<1>0. LenBytes = 2 /\ Len(s) \in Nat /\ Len(t) \in Nat /\ Len(s) >= 2 BY DEF LenBytes
<1>1. /\ u \in Seq(Long) /\ Len(u) = Len(s) + Len(t)
      /\ \A i \in 1 .. Len(s) : u[i] = s[i]
  BY ConcatAt
<1>2. u[1] = s[1] /\ u[2] = s[2] /\ 1 \in 1 .. Len(u)  BY <1>0, <1>1
<1>3. DropN(s, LenBytes) \o t = DropN(u, 2)  BY <1>0, DropConcat
<1>c. Closed(u) /\ u # <<>> /\ u[1].k = 1
  <2>1. u # <<>>  BY <1>0, <1>1
  <2> QED  BY <2>1 DEF InStep
<1> HIDE DEF u
<1>4. u[1] \in Long  BY <1>1, <1>2, ElementOfSeq
<1>5. u[1].of \in Nat /\ u[1].of > 2  BY <1>0, <1>4 DEF Long, Bytes
<1>6. /\ \A d \in 0 .. u[1].of - u[1].k : 1 + d <= Len(u) /\ u[1 + d] = After(u[1], d)
  BY <1>2, <1>c DEF Closed
<1>7. u[2] = After(u[1], 1) /\ u[3] = After(u[1], 2) /\ 3 <= Len(u)
  <2>1. 1 \in 0 .. u[1].of - u[1].k /\ 2 \in 0 .. u[1].of - u[1].k  BY <1>5, <1>c
  <2>2. u[1 + 1] = After(u[1], 1) /\ u[1 + 2] = After(u[1], 2) /\ 1 + 2 <= Len(u)  BY <1>6, <2>1
  <2> QED  BY <2>2
<1>8. r2 = [reading |-> TRUE, target |-> u[1].of - 2, buf |-> <<>>]
  BY <1>0, <1>2, <1>7, <1>c DEF Begun, Lengths, After
<1> DEFINE v == DropN(u, 2)
<1>9. Len(v) = Len(u) - 2 /\ \A i \in 1 .. Len(u) - 2 : v[i] = u[i + 2]
  <2>1. 2 \in 0 .. Len(u) /\ u \in Seq(Long)  BY <1>0, <1>1, <1>7
  <2> DEFINE n == 2
  <2>2. n \in 0 .. Len(u)  BY <2>1
  <2> HIDE DEF n
  <2>3. Len(DropN(u, n)) = Len(u) - n /\ \A i \in 1 .. Len(u) - n : DropN(u, n)[i] = u[i + n]
    BY <2>1, <2>2, TakeDrop
  <2> QED  BY <2>3 DEF n
<1>10. v # <<>> /\ v[1] = u[3]
  <2>1. Len(u) - 2 > 0 /\ 1 \in 1 .. Len(u) - 2 BY <1>7, <1>0, <1>1
  <2>2. v[1] = u[1 + 2]  BY <1>9, <2>1
  <2> QED  BY <1>9, <2>1, <2>2
<1>11. InStep(r2, v)
  <2> HIDE DEF v
  <2>1. v[1].of = u[1].of /\ v[1].k = 3 BY <1>7, <1>10, <1>c DEF After
  <2>2. Len(r2.buf) = 0 /\ r2.target = u[1].of - 2 /\ r2.reading BY <1>8
  <2> QED  BY <1>0, <1>5, <1>10, <2>1, <2>2 DEF InStep
<1>12. Closed(v)
  <2>1. \A b \in Long : b \in Bytes  BY DEF Long
  <2>2. u \in Seq(Bytes) /\ 2 \in 0 .. Len(u)  BY <1>0, <1>1, <2>1
  <2> QED  BY <2>2, <1>c, ClosedDrop
<1> QED  BY <1>3, <1>11, <1>12

\* The reader in the middle of a message goes on in it, and no further.
LEMMA ReadGrows ==
  ASSUME NEW r \in Reader(Long), r.reading, Below(r), NEW s \in Seq(Long), s # <<>>,
         NEW t \in Seq(Long), Closed(s \o t), InStep(r, s \o t)
  PROVE  /\ Closed(DropN(s, Piece(r, s)) \o t)
         /\ Len(Grown(r, s).buf) >= r.target =>
              Whole(Grown(r, s).buf, LenBytes + 1) /\ InStep(NotReading, DropN(s, Piece(r, s)) \o t)
         /\ ~(Len(Grown(r, s).buf) >= r.target) => InStep(Grown(r, s), DropN(s, Piece(r, s)) \o t)
<1> DEFINE u == s \o t
           p == Piece(r, s)
           g == Grown(r, s).buf
           v == DropN(u, p)
           l == Len(r.buf)
<1>0. /\ LenBytes = 2 /\ Len(s) \in Nat /\ Len(t) \in Nat /\ Len(s) > 0 /\ l \in Nat
      /\ r.target \in Nat /\ l < r.target
  BY DEF LenBytes, Reader, Below
<1>1. /\ u \in Seq(Long) /\ Len(u) = Len(s) + Len(t)
      /\ \A i \in 1 .. Len(s) : u[i] = s[i]
  BY ConcatAt
<1>2. /\ p \in 1 .. Len(s) /\ p <= r.target - l /\ (p = Len(s) \/ p = r.target - l)
      /\ g \in Seq(Long) /\ Len(g) = l + p
      /\ Grown(r, s) = [reading |-> TRUE, target |-> r.target, buf |-> g]
      /\ \A i \in 1 .. l : g[i] = r.buf[i]
      /\ \A i \in l + 1 .. l + p : g[i] = s[i - l]
  BY GrownType DEF Reader
<1>3. DropN(s, p) \o t = v
  <2>1. p \in 0 .. Len(s)  BY <1>0, <1>2
  <2> HIDE DEF p
  <2> QED  BY <2>1, DropConcat
<1>4. /\ Closed(u) /\ u # <<>> /\ u[1].of = r.target + 2 /\ u[1].k = 2 + l + 1
      /\ \A i \in 1 .. l : r.buf[i] = [msg |-> u[1].msg, k |-> 2 + i, of |-> u[1].of]
  BY <1>0 DEF InStep
<1> HIDE DEF u, p, g
<1>5. u \in Seq(Bytes) /\ p \in 0 .. Len(u)
  <2>1. \A b \in Long : b \in Bytes  BY DEF Long
  <2> QED  BY <1>0, <1>1, <1>2, <2>1
<1>6. Closed(v)  BY <1>4, <1>5, ClosedDrop
<1>7. Len(v) = Len(u) - p /\ \A i \in 1 .. Len(u) - p : v[i] = u[i + p]
  BY <1>5, TakeDrop
<1> HIDE DEF v
<1>8. 1 \in 1 .. Len(u)  BY <1>0, <1>1
<1>9. /\ \A d \in 0 .. r.target - l - 1 : 1 + d <= Len(u) /\ u[1 + d] = After(u[1], d)
      /\ r.target - l < Len(u) => u[r.target - l + 1].k = 1
  <2>1. u[1].of - u[1].k = r.target - l - 1 /\ 1 + (r.target - l - 1) = r.target - l
        /\ 1 + (r.target - l - 1) + 1 = r.target - l + 1
    BY SMTT(20), <1>0, <1>4
  <2>2. /\ \A d \in 0 .. u[1].of - u[1].k : 1 + d <= Len(u) /\ u[1 + d] = After(u[1], d)
        /\ 1 + (u[1].of - u[1].k) < Len(u) => u[1 + (u[1].of - u[1].k) + 1].k = 1
    BY <1>4, <1>8 DEF Closed
  <2>3. PICK e : e = u[1].of - u[1].k  OBVIOUS
  <2>4. r.target - l - 1 = e /\ r.target - l = 1 + e /\ r.target - l + 1 = 1 + e + 1  BY <2>1, <2>3
  <2>5. /\ \A d \in 0 .. e : 1 + d <= Len(u) /\ u[1 + d] = After(u[1], d)
        /\ 1 + e < Len(u) => u[1 + e + 1].k = 1
    BY <2>2, <2>3
  <2> QED  BY <2>4, <2>5
\* What was read so far is the beginning of the message.
<1>10. ASSUME NEW i \in 1 .. l + p
       PROVE  g[i] = [msg |-> u[1].msg, k |-> 2 + i, of |-> u[1].of]
  <2>1. CASE i \in 1 .. l  BY <2>1, <1>2, <1>4
  <2>2. CASE i \in l + 1 .. l + p
    <3> DEFINE d == i - l - 1
    <3>0. i \in Nat /\ i >= l + 1 /\ i <= l + p /\ p \in Nat /\ p <= Len(s) /\ p <= r.target - l
      BY <2>2, <1>0, <1>2
    <3>1. d \in 0 .. r.target - l - 1 /\ 1 + d = i - l /\ i - l \in 1 .. Len(s)
      BY <3>0, <1>0
    <3>2. u[i - l] = After(u[1], d)  BY <3>1, <1>9
    <3>3. u[1].k + d = 2 + i
      <4>0. i \in Int /\ l \in Int  BY <3>0, <1>0
      <4> HIDE DEF l
      <4>1. (2 + l + 1) + (i - l - 1) = 2 + i  BY <4>0
      <4> QED  BY <4>1, <1>4
    <3> HIDE DEF d
    <3>4. After(u[1], d) = [msg |-> u[1].msg, k |-> 2 + i, of |-> u[1].of]  BY <3>3 DEF After
    <3>5. g[i] = u[i - l]  BY <2>2, <3>1, <1>1, <1>2
    <3> QED  BY <3>2, <3>4, <3>5
  <2> QED  BY <2>1, <2>2, <1>0, <1>2
<1>11. CASE l + p >= r.target
  <2>1. p = r.target - l  BY <1>11, <1>0, <1>2
  <2>2. Whole(g, 2 + 1)
    <3>1. 1 \in 1 .. l + p /\ DOMAIN g = 1 .. l + p  BY <1>0, <1>2
    <3>2. g[1].msg = u[1].msg /\ g[1].of = u[1].of
      <4>1. g[1] = [msg |-> u[1].msg, k |-> 2 + 1, of |-> u[1].of]  BY <3>1, <1>10
      <4> QED  BY <4>1
    <3>3. Len(g) = g[1].of - (2 + 1) + 1
      <4>1. Len(g) = l + p /\ l + p = r.target  BY <2>1, <1>0, <1>2
      <4>2. g[1].of = r.target + 2  BY <3>2, <1>4
      <4>3. r.target \in Int  BY <1>0
      <4> HIDE DEF l, p
      <4> QED  BY <4>1, <4>2, <4>3
    <3>4. ASSUME NEW i \in DOMAIN g
          PROVE  g[i] = [msg |-> g[1].msg, k |-> (2 + 1) + i - 1, of |-> g[1].of]
      <4>1. i \in 1 .. l + p /\ (2 + 1) + i - 1 = 2 + i  BY <3>1, <1>0, <1>2
      <4> QED  BY <4>1, <3>2, <1>10
    <3> QED  BY <3>3, <3>4 DEF Whole
  <2>3. InStep(NotReading, v)
    <3> SUFFICES ASSUME v # <<>> PROVE v[1].k = 1  BY DEF InStep, NotReading
    <3>1. Len(v) > 0 /\ Len(v) \in Nat
      <4>1. v \in Seq(Bytes)  BY <1>5, TakeDrop DEF v
      <4> QED  BY <4>1
    <3>2. 1 \in 1 .. Len(u) - p /\ p < Len(u)  BY <3>1, <1>7, <1>0, <1>1, <1>2
    <3>3. v[1] = u[1 + p] /\ 1 + p = r.target - l + 1  BY <3>2, <1>7, <2>1, <1>0, <1>2
    <3> QED  BY <3>2, <3>3, <1>9, <2>1
  <2> QED  BY <1>3, <1>6, <2>2, <2>3, <1>11, <1>2, <1>0 DEF p, g
<1>12. CASE ~(l + p >= r.target)
  <2>1. p \in 0 .. r.target - l - 1  BY <1>12, <1>0, <1>2
  <2>2. 1 + p <= Len(u) /\ u[1 + p] = After(u[1], p)  BY <2>1, <1>9
  <2>3. v # <<>> /\ v[1] = u[1 + p]
    <3>1. 1 \in 1 .. Len(u) - p  BY <2>2, <1>0, <1>1, <1>2
    <3>2. v[1] = u[1 + p]  BY <3>1, <1>7
    <3> QED  BY <3>1, <3>2, <1>7
  <2>4. v[1].msg = u[1].msg /\ v[1].of = u[1].of /\ v[1].k = 2 + (l + p) + 1
    BY <2>2, <2>3, <1>0, <1>2, <1>4 DEF After
  <2> DEFINE r2 == [reading |-> TRUE, target |-> r.target, buf |-> g]
  <2>5. InStep(r2, v)
    <3>1. Len(r2.buf) = l + p /\ r2.reading /\ r2.target = r.target /\ r2.buf = g  BY <1>2
    <3> HIDE DEF r2
    <3>2. \A i \in 1 .. Len(r2.buf) : r2.buf[i] = [msg |-> v[1].msg, k |-> 2 + i, of |-> v[1].of]
      BY <3>1, <2>4, <1>10
    <3> QED  BY <3>1, <3>2, <2>3, <2>4, <1>0, <1>4 DEF InStep
  <2> QED  BY <1>3, <1>6, <2>5, <1>12, <1>2 DEF p, g
<1> QED  BY <1>11, <1>12
-----------------------------------------------------------------------------
(* The types, by the groups of variables that actions leave alone *)

\* The bytes a board sends.
OfBoard(bd) == {b \in Bytes : IF bd = "m2" THEN b.of = Record ELSE b.of > LenBytes}

\* What the driver has to write.  A hello and a goodbye come with every session.
WritingOK ==
  /\ board \in Boards /\ session \in {"none", "hello", "up", "bye"}
  /\ opens \in 0 .. MaxSessions /\ sent \in Nat /\ sent <= MaxDown + 2 * opens
  /\ session \in {"hello", "up"} => sent < MaxDown + 2 * opens
  /\ rOut \in Seq(Long) /\ wOut \in Seq(Long) /\ Rest(rOut) /\ Rest(wOut)
  /\ rOut # <<>> <=> session \in {"hello", "bye"}

DownOK ==
  /\ down \in Seq(Long) /\ Len(down) <= Room /\ dev \in Reader(Long) /\ Below(dev)
  /\ got \in Seq(Long) /\ cutDown \in BOOLEAN

UpOK ==
  /\ ups \in 0 .. MaxUp /\ up \in Seq(OfBoard(board)) /\ Len(up) <= Room
  /\ devOut \in Seq(OfBoard(board)) /\ Rest(devOut)
  /\ host \in Reader(OfBoard(board))
  /\ IF board = "m2" THEN ~host.reading /\ Len(host.buf) < Record ELSE Below(host)
  /\ taken \in Seq(OfBoard(board)) /\ cutUp \in BOOLEAN

Types == WritingOK /\ DownOK /\ UpOK

LEMMA Subsets ==
  /\ Long \subseteq Bytes /\ (\A bd \in {"m2", "a0"} : OfBoard(bd) \subseteq Bytes)
  /\ OfBoard("a0") = Long /\ Boards \subseteq {"m2", "a0"}
BY FramingAssumption DEF Long, OfBoard

LEMMA SeqSubset == ASSUME NEW S, NEW T, S \subseteq T PROVE Seq(S) \subseteq Seq(T)
OBVIOUS

\* They are at least the types of SerialFraming.
LEMMA TypesType == Types => FramingTypeOK
<1> SUFFICES ASSUME Types PROVE FramingTypeOK  OBVIOUS
<1> USE DEF Types
<1>1. board \in {"m2", "a0"}  BY Subsets DEF WritingOK
<1>2. Seq(Long) \subseteq Seq(Bytes) /\ Seq(OfBoard(board)) \subseteq Seq(Bytes)
  BY <1>1, Subsets, SeqSubset
<1>3. /\ rOut \in Seq(Bytes) /\ wOut \in Seq(Bytes) /\ down \in Seq(Bytes) /\ up \in Seq(Bytes)
      /\ devOut \in Seq(Bytes) /\ dev.buf \in Seq(Bytes) /\ host.buf \in Seq(Bytes)
      /\ got \in Seq(Bytes) /\ taken \in Seq(Bytes)
  <2>1. dev.buf \in Seq(Long) /\ host.buf \in Seq(OfBoard(board))  BY DEF DownOK, UpOK, Reader
  <2> QED  BY <1>2, <2>1 DEF WritingOK, DownOK, UpOK
<1>4. \A s \in {rOut, wOut, down, up, devOut, dev.buf, host.buf, got, taken} : s \in Seq(Bytes)
  BY <1>3
<1>5. sent \in 0 .. MaxDown + 2 * MaxSessions
  <2>1. MaxDown \in Nat /\ MaxSessions \in Nat  BY FramingAssumption
  <2> QED  BY <2>1 DEF WritingOK
<1>6. /\ dev.reading => Len(dev.buf) < dev.target
      /\ IF board = "m2" THEN Len(host.buf) < Record
                         ELSE host.reading => Len(host.buf) < host.target
  BY DEF DownOK, UpOK, Below
<1>7. Len(down) <= Room /\ Len(up) <= Room /\ ups \in 0 .. MaxUp /\ cutDown \in BOOLEAN /\ cutUp \in BOOLEAN
  BY DEF DownOK, UpOK
<1>8. board \in Boards /\ session \in {"none", "hello", "up", "bye"} /\ opens \in 0 .. MaxSessions
  BY DEF WritingOK
<1> QED  BY <1>4, <1>5, <1>6, <1>7, <1>8 DEF FramingTypeOK

LEMMA NotReadingType == ASSUME NEW S PROVE NotReading \in Reader(S) /\ Below(NotReading)
BY DEF NotReading, Reader, Below

LEMMA InitTypes == FramingInit => Types
<1> SUFFICES ASSUME FramingInit PROVE Types  OBVIOUS
<1>0. <<>> \in Seq(Long) /\ <<>> \in Seq(OfBoard(board)) /\ Len(<<>>) = 0  OBVIOUS
<1>1. /\ MaxDown \in Nat /\ MaxSessions \in Nat /\ MaxUp \in Nat /\ Room \in Nat /\ Record \in Nat
      /\ Record > 0
  BY FramingAssumption
<1>2. WritingOK  BY <1>0, <1>1 DEF FramingInit, WritingOK, Rest
<1>d. NotReading \in Reader(Long) /\ NotReading \in Reader(OfBoard(board)) /\ Below(NotReading)
  BY NotReadingType
<1>3. DownOK
  <2>1. down = <<>> /\ got = <<>> /\ dev = NotReading /\ cutDown = FALSE  BY DEF FramingInit
  <2>2. dev \in Reader(Long) /\ Below(dev)  BY <2>1, <1>d
  <2>3. Len(down) <= Room  BY <2>1, <1>0, <1>1
  <2> QED  BY <2>1, <2>2, <2>3, <1>0 DEF DownOK
<1>4. NotReading.buf = <<>> /\ ~NotReading.reading  BY DEF NotReading
<1>5. UpOK
  <2>1. /\ up = <<>> /\ devOut = <<>> /\ taken = <<>> /\ host = NotReading /\ cutUp = FALSE
        /\ ups = 0
    BY DEF FramingInit
  <2>2. /\ host \in Reader(OfBoard(board)) /\ Below(host) /\ ~host.reading
        /\ Len(host.buf) < Record
    BY <2>1, <1>0, <1>1, <1>4, <1>d
  <2>3. Len(up) <= Room /\ Rest(devOut)  BY <2>1, <1>0, <1>1 DEF Rest
  <2>4. /\ up \in Seq(OfBoard(board)) /\ devOut \in Seq(OfBoard(board))
        /\ taken \in Seq(OfBoard(board))
    BY <2>1, <1>0
  <2>5. ups \in 0 .. MaxUp  BY <2>1, <1>1
  <2>6. cutUp \in BOOLEAN  BY <2>1
  <2> QED  BY <2>2, <2>3, <2>4, <2>5, <2>6 DEF UpOK
<1> QED  BY <1>2, <1>3, <1>5 DEF Types

\* A message that is begun.
LEMMA MessageFacts ==
  ASSUME NEW m \in 1 .. MaxDown + 2 * MaxSessions + MaxUp, NEW n \in Nat, n > 0
  PROVE  /\ Message(m, n) \in Seq({b \in Bytes : b.of = n}) /\ Len(Message(m, n)) = n
         /\ Message(m, n) # <<>> /\ Message(m, n)[1].k = 1 /\ Rest(Message(m, n))
<1> DEFINE s == Message(m, n)
<1>1. \A k \in 1 .. n : [msg |-> m, k |-> k, of |-> n] \in {b \in Bytes : b.of = n}
  BY DEF Bytes
<1>2. s \in [1 .. n -> {b \in Bytes : b.of = n}]  BY <1>1 DEF Message
<1>3. s \in Seq({b \in Bytes : b.of = n}) /\ Len(s) = n  BY <1>2, SeqDef
<1>4. DOMAIN s = 1 .. n /\ 1 \in 1 .. n /\ s # <<>>  BY <1>2, <1>3
<1>5. \A k \in 1 .. n : s[k] = [msg |-> m, k |-> k, of |-> n]  BY DEF Message
<1> HIDE DEF s
<1>6. s[1] = [msg |-> m, k |-> 1, of |-> n]  BY <1>4, <1>5
<1>7. Whole(s, 1)
  <2>1. Len(s) = n - 1 + 1  BY <1>3
  <2>2. ASSUME NEW i \in DOMAIN s PROVE s[i] = [msg |-> m, k |-> 1 + i - 1, of |-> n]
    <3>1. i \in 1 .. n /\ 1 + i - 1 = i  BY <1>4
    <3> QED  BY <3>1, <1>5
  <2>3. s[1].msg = m /\ s[1].of = n  BY <1>6
  <2> QED  BY <2>1, <2>2, <2>3 DEF Whole
<1>8. s[1].k = 1  BY <1>6
<1>9. Rest(s)  BY <1>7, <1>8 DEF Rest
<1> QED  BY <1>3, <1>4, <1>8, <1>9 DEF s

\* What is left of a message when n bytes of it are written.
LEMMA RestDrop ==
  ASSUME NEW s \in Seq(Bytes), Rest(s), NEW n \in 0 .. Len(s)
  PROVE  /\ Rest(DropN(s, n)) /\ (DropN(s, n) = <<>> <=> n = Len(s))
         /\ n < Len(s) => DropN(s, n)[1].k = s[1].k + n
<1> DEFINE u == DropN(s, n)
<1>0. Len(s) \in Nat  OBVIOUS
<1>1. /\ u \in Seq(Bytes) /\ Len(u) = Len(s) - n
      /\ \A i \in 1 .. Len(s) - n : u[i] = s[i + n]
  BY <1>0, TakeDrop
<1> HIDE DEF u
<1>2. u = <<>> <=> n = Len(s)  BY <1>0, <1>1
<1>3. ASSUME n < Len(s) PROVE Rest(u) /\ u[1].k = s[1].k + n
  <2>1. s # <<>> /\ 1 \in 1 .. Len(s) /\ 1 \in 1 .. Len(s) - n  BY <1>0, <1>3
  <2>2. s[1].k \in Nat /\ s[1].of \in Nat  BY <2>1, ElementOfSeq, Numbers
  <2>3. /\ Len(s) = s[1].of - s[1].k + 1
        /\ \A i \in 1 .. Len(s) : s[i] = [msg |-> s[1].msg, k |-> s[1].k + i - 1, of |-> s[1].of]
    BY <2>1 DEF Rest, Whole
  <2>4. u[1] = s[1 + n] /\ 1 + n \in 1 .. Len(s)  BY <1>0, <1>1, <1>3, <2>1
  <2>5. u[1] = [msg |-> s[1].msg, k |-> s[1].k + (1 + n) - 1, of |-> s[1].of]  BY <2>3, <2>4
  <2>6. u[1].msg = s[1].msg /\ u[1].of = s[1].of /\ u[1].k = s[1].k + n
    <3>1. s[1].k + (1 + n) - 1 = s[1].k + n  BY <2>2, <1>0
    <3> QED  BY <2>5, <3>1
  <2>7. Len(u) = u[1].of - u[1].k + 1  BY <2>2, <2>3, <2>6, <1>0, <1>1
  <2>8. ASSUME NEW i \in DOMAIN u
        PROVE  u[i] = [msg |-> u[1].msg, k |-> u[1].k + i - 1, of |-> u[1].of]
    <3>1. i \in 1 .. Len(s) - n /\ i + n \in 1 .. Len(s)  BY <1>0, <1>1
    <3>2. u[i] = [msg |-> s[1].msg, k |-> s[1].k + (i + n) - 1, of |-> s[1].of]
      BY <3>1, <1>1, <2>3
    <3>3. s[1].k + (i + n) - 1 = (s[1].k + n) + i - 1  BY <3>1, <2>2, <1>0
    <3> QED  BY <3>2, <3>3, <2>6
  <2> QED  BY <2>6, <2>7, <2>8 DEF Rest, Whole
<1>4. CASE n = Len(s)  BY <1>2, <1>4 DEF Rest, u
<1> QED  BY <1>2, <1>3, <1>4, <1>0 DEF u
-----------------------------------------------------------------------------
(* Every step keeps the types *)

LEMMA Consts ==
  /\ MaxDown \in Nat /\ MaxSessions \in Nat /\ MaxUp \in Nat /\ Room \in Nat /\ Room > 0
  /\ Record \in Nat /\ Record > 0 /\ Buffered \in Nat /\ Buffered > 0
  /\ \A z \in Sizes : z \in Nat /\ z >= 2
BY FramingAssumption

\* What a thread of the driver writes.
LEMMA WrittenType ==
  ASSUME DownOK, NEW out \in Seq(Long), NEW other, NEW n, Written(out, other, n)
  PROVE  /\ n \in 1 .. Len(out) /\ down' \in Seq(Long) /\ Len(down') <= Room
         /\ cutDown' \in BOOLEAN /\ ~cutDown
<1>1. Len(down) \in Nat /\ Len(down) <= Room /\ Len(out) \in Nat /\ down \in Seq(Long) /\ Room \in Nat
  BY Consts DEF DownOK
<1>2. n \in 1 .. Len(out) /\ n <= Room - Len(down)
  BY <1>1 DEF Written, AtMost
<1>3. TakeN(out, n) \in Seq(Long) /\ Len(TakeN(out, n)) = n
  <2>1. n \in 0 .. Len(out)  BY <1>1, <1>2
  <2> QED  BY <2>1, TakeDrop
<1>4. down' = down \o TakeN(out, n)  BY DEF Written
<1> DEFINE v == TakeN(out, n)
<1> HIDE DEF v
<1>5. v \in Seq(Long) /\ Len(v) = n  BY <1>3 DEF v
<1>6. down \o v \in Seq(Long) /\ Len(down \o v) = Len(down) + Len(v)  BY <1>1, <1>5, ConcatProperties
<1>7. cutDown' \in BOOLEAN /\ ~cutDown  BY DEF Written, Partly, Followed
<1> QED  BY <1>1, <1>2, <1>4, <1>5, <1>6, <1>7 DEF v

\* A status message and one of a call.
LEMMA NewMessage ==
  ASSUME Types, NEW n \in Nat, n >= 2, sent + 1 <= MaxDown + 2 * MaxSessions
  PROVE  /\ Message(sent + 1, LenBytes + n) \in Seq(Long) /\ Rest(Message(sent + 1, LenBytes + n))
         /\ Message(sent + 1, LenBytes + n) # <<>> /\ Message(sent + 1, LenBytes + n)[1].k = 1
<1>1. sent \in Nat  BY DEF Types, WritingOK
<1>2. sent + 1 \in 1 .. MaxDown + 2 * MaxSessions + MaxUp  BY <1>1, Consts
<1>3. LenBytes + n \in Nat /\ LenBytes + n > 0 /\ LenBytes + n > LenBytes  BY DEF LenBytes
<1>4. {b \in Bytes : b.of = LenBytes + n} \subseteq Long  BY <1>3 DEF Long
<1>5. Seq({b \in Bytes : b.of = LenBytes + n}) \subseteq Seq(Long)  BY <1>4, SeqSubset
<1> QED  BY <1>2, <1>3, <1>5, MessageFacts

LEMMA RestOfLong ==
  ASSUME NEW s \in Seq(Long), Rest(s), NEW n \in 0 .. Len(s)
  PROVE  DropN(s, n) \in Seq(Long) /\ Rest(DropN(s, n)) /\ (DropN(s, n) = <<>> <=> n = Len(s))
<1>1. s \in Seq(Bytes)  BY Subsets, SeqSubset
<1> QED  BY <1>1, TakeDrop, RestDrop

\* Steps of the driver.
LEMMA OpenTypes == ASSUME Types, Open PROVE Types'
<1> USE DEF Types
<1>0. opens \in Nat /\ opens + 1 <= MaxSessions /\ opens' = opens + 1 /\ sent' = sent + 1
  BY Consts DEF Open, WritingOK
<1>1. sent \in Nat /\ sent <= MaxDown + 2 * opens  BY DEF WritingOK
<1>2. sent + 1 < MaxDown + 2 * (opens + 1) /\ sent + 1 <= MaxDown + 2 * MaxSessions
  BY <1>0, <1>1, Consts
<1>3. StatusBytes \in Nat /\ StatusBytes >= 2  BY DEF StatusBytes
<1>4. rOut' \in Seq(Long) /\ Rest(rOut') /\ rOut' # <<>>
  BY <1>2, <1>3, NewMessage DEF Open
<1>5. WritingOK'
  <2>1. board' = board /\ session' = "hello" /\ wOut' = wOut  BY DEF Open
  <2>2. Rest(rOut)'  BY <1>4 DEF Rest, Whole
  <2> QED  BY <1>0, <1>1, <1>2, <1>4, <2>1, <2>2, Consts DEF WritingOK, Rest, Whole
<1>6. DownOK'
  <2>1. PICK n \in 0 .. Len(down) : down' = TakeN(down, n) /\ cutDown' = Partly(DropN(down, n))
    BY DEF Open
  <2>2. down' \in Seq(Long) /\ Len(down') = n  BY <2>1, TakeDrop DEF DownOK
  <2>3. Len(down') <= Room  BY <2>2, Consts DEF DownOK
  <2>4. cutDown' \in BOOLEAN /\ got' = <<>> /\ dev' = dev  BY <2>1 DEF Open, Partly, devVars
  <2> QED  BY <2>2, <2>3, <2>4 DEF DownOK, Below
<1>7. UpOK'
  <2>1. /\ up' = <<>> /\ host' = NotReading /\ cutUp' \in BOOLEAN /\ taken' = <<>>
        /\ UNCHANGED <<board, devOut, ups>>
    BY DEF Open, Partly, devVars
  <2>2. NotReading \in Reader(OfBoard(board)) /\ Below(NotReading) /\ Len(NotReading.buf) = 0
        /\ ~NotReading.reading /\ NotReading.buf = <<>>
    BY NotReadingType DEF NotReading
  <2> QED  BY <2>1, <2>2, Consts DEF UpOK, Rest, Whole, Below
<1> QED  BY <1>5, <1>6, <1>7

LEMMA DriverTypes ==
  ASSUME Types, ReaderWrites \/ Close \/ WriterTakes \/ WriterWrites
  PROVE  Types'
<1> USE DEF Types
<1>u. UpOK'
  <2>1. UNCHANGED <<board, ups, up, devOut, host, cutUp>> /\ taken' = <<>>
    BY DEF ReaderWrites, Close, WriterTakes, WriterWrites, devVars
  <2>2. UpOK /\ taken' \in Seq(OfBoard(board))  BY <2>1
  <2> QED  BY <2>1, <2>2 DEF UpOK, Rest, Whole, Below
<1>t. /\ rOut \in Seq(Long) /\ wOut \in Seq(Long) /\ Rest(rOut) /\ Rest(wOut) /\ sent \in Nat
      /\ sent <= MaxDown + 2 * opens /\ opens \in Nat /\ opens <= MaxSessions
  BY Consts DEF WritingOK
<1>1. CASE ReaderWrites
  <2>1. /\ UNCHANGED <<board, opens, wOut, sent, dev>> /\ got' = <<>>
    BY <1>1 DEF ReaderWrites, devVars
  <2>2. ASSUME NEW n \in 1 .. Len(rOut), Written(rOut, wOut, n), rOut' = DropN(rOut, n),
               session' = IF n < Len(rOut) THEN session
                          ELSE IF session = "hello" THEN "up" ELSE "none"
        PROVE  WritingOK' /\ DownOK'
    <3>1. n \in 1 .. Len(rOut) /\ down' \in Seq(Long) /\ Len(down') <= Room /\ cutDown' \in BOOLEAN
      BY <1>t, <2>2, WrittenType
    <3>2. rOut' \in Seq(Long) /\ Rest(rOut') /\ (rOut' = <<>> <=> n = Len(rOut))
      <4>1. n \in 0 .. Len(rOut)  BY <3>1
      <4> QED  BY <1>t, <2>2, <4>1, RestOfLong
    <3>3. rOut # <<>> /\ session \in {"hello", "bye"}
      <4>1. rOut # <<>>  BY <3>1
      <4> QED  BY <4>1 DEF WritingOK
    <3>4. rOut' # <<>> <=> session' \in {"hello", "bye"}
      <4>1. n < Len(rOut) \/ n = Len(rOut)  BY <3>1
      <4>2. ~(Len(rOut) < Len(rOut))  BY <1>t
      <4> QED  BY <2>2, <3>2, <3>3, <4>1, <4>2
    <3>5. session' \in {"hello", "up"} => sent < MaxDown + 2 * opens
      BY <2>2, <3>3 DEF WritingOK
    <3>6. session' \in {"none", "hello", "up", "bye"}  BY <2>2, <3>3
    <3>7. WritingOK'
      BY <1>t, <2>1, <3>2, <3>4, <3>5, <3>6 DEF WritingOK, Rest, Whole
    <3>8. DownOK'  BY <2>1, <3>1 DEF DownOK, Below
    <3> QED  BY <3>7, <3>8
  <2>3. CASE GivesUp(rOut) /\ rOut' = <<>> /\ session' = "none" /\ UNCHANGED down
    <3>1. WritingOK'  BY <1>t, <2>1, <2>3 DEF WritingOK, Rest, Whole
    <3>2. cutDown' \in BOOLEAN  BY <2>3 DEF GivesUp, Partly
    <3>3. DownOK'  BY <2>1, <2>3, <3>2 DEF DownOK, Below
    <3> QED  BY <3>1, <3>3, <1>u
  <2> QED  BY <1>1, <1>u, <2>2, <2>3 DEF ReaderWrites
<1>2. CASE Close
  <2>1. /\ session = "up" /\ session' = "bye" /\ sent' = sent + 1
        /\ rOut' = Message(sent + 1, LenBytes + StatusBytes)
        /\ UNCHANGED <<board, opens, wOut, dev, down, cutDown>> /\ got' = <<>>
    BY <1>2 DEF Close, devVars
  <2>2. sent + 1 <= MaxDown + 2 * opens /\ sent + 1 <= MaxDown + 2 * MaxSessions
    <3>1. sent < MaxDown + 2 * opens  BY <2>1 DEF WritingOK
    <3> QED  BY <3>1, <1>t, Consts
  <2>3. rOut' \in Seq(Long) /\ Rest(rOut') /\ rOut' # <<>>
    BY <2>1, <2>2, NewMessage DEF StatusBytes
  <2>4. WritingOK'  BY <1>t, <2>1, <2>2, <2>3 DEF WritingOK, Rest, Whole
  <2>5. DownOK'  BY <2>1 DEF DownOK, Below
  <2> QED  BY <1>u, <2>4, <2>5
<1>3. CASE WriterTakes
  <2>1. PICK n \in Sizes : wOut' = Message(sent + 1, LenBytes + n)  BY <1>3 DEF WriterTakes
  <2>2. /\ session = "up" /\ sent < MaxDown + 2 * opens - 1 /\ sent' = sent + 1
        /\ UNCHANGED <<board, session, opens, rOut, dev, down, cutDown>> /\ got' = <<>>
    BY <1>3 DEF WriterTakes, devVars
  <2>3. sent + 1 < MaxDown + 2 * opens /\ sent + 1 <= MaxDown + 2 * MaxSessions
    BY <2>2, <1>t, Consts
  <2>4. wOut' \in Seq(Long) /\ Rest(wOut')  BY <2>1, <2>3, NewMessage, Consts
  <2>5. WritingOK'  BY <1>t, <2>2, <2>3, <2>4, Consts DEF WritingOK, Rest, Whole
  <2>6. DownOK'  BY <2>2 DEF DownOK, Below
  <2> QED  BY <1>u, <2>5, <2>6
<1>4. CASE WriterWrites
  <2>1. /\ UNCHANGED <<board, session, opens, rOut, sent, dev>> /\ got' = <<>>
    BY <1>4 DEF WriterWrites, devVars
  <2>2. ASSUME NEW n \in 1 .. Len(wOut), Written(wOut, rOut, n), wOut' = DropN(wOut, n)
        PROVE  WritingOK' /\ DownOK'
    <3>1. n \in 1 .. Len(wOut) /\ down' \in Seq(Long) /\ Len(down') <= Room /\ cutDown' \in BOOLEAN
      BY <1>t, <2>2, WrittenType
    <3>2. wOut' \in Seq(Long) /\ Rest(wOut')
      <4>1. n \in 0 .. Len(wOut)  BY <3>1
      <4> QED  BY <1>t, <2>2, <4>1, RestOfLong
    <3>3. WritingOK'  BY <1>t, <2>1, <3>2 DEF WritingOK, Rest, Whole
    <3>4. DownOK'  BY <2>1, <3>1 DEF DownOK, Below
    <3> QED  BY <3>3, <3>4
  <2>3. CASE GivesUp(wOut) /\ wOut' = <<>> /\ UNCHANGED down
    <3>1. WritingOK'  BY <1>t, <2>1, <2>3 DEF WritingOK, Rest, Whole
    <3>2. cutDown' \in BOOLEAN  BY <2>3 DEF GivesUp, Partly
    <3>3. DownOK'  BY <2>1, <2>3, <3>2 DEF DownOK, Below
    <3> QED  BY <3>1, <3>3, <1>u
  <2> QED  BY <1>4, <1>u, <2>2, <2>3 DEF WriterWrites
<1> QED  BY <1>1, <1>2, <1>3, <1>4

\* Steps of the two readers and of the device.
LEMMA HostTypes ==
  ASSUME Types, HostReadsM2 \/ HostReadsA0
  PROVE  Types'
<1> USE DEF Types
<1>w. WritingOK' /\ DownOK'
  <2>1. UNCHANGED <<board, session, opens, rOut, wOut, sent, dev, down, cutDown>> /\ got' = <<>>
    BY DEF HostReadsM2, HostReadsA0, hostVars, devVars
  <2>2. WritingOK'  BY <2>1 DEF WritingOK, Rest, Whole
  <2>3. DownOK'  BY <2>1 DEF DownOK, Below
  <2> QED  BY <2>2, <2>3
<1>t. /\ UNCHANGED <<board, ups, devOut, cutUp>>
      /\ up \in Seq(OfBoard(board)) /\ Len(up) \in Nat /\ Len(up) <= Room
      /\ host \in Reader(OfBoard(board)) /\ host.buf \in Seq(OfBoard(board)) /\ Len(host.buf) \in Nat
  BY DEF HostReadsM2, HostReadsA0, devVars, UpOK, Reader
<1>1. CASE HostReadsM2
  <2> DEFINE n == AtMost(Len(up), Record * Buffered - Len(host.buf))
             v == host.buf \o TakeN(up, n)
             c == Len(v) \div Record
  <2>0. board = "m2" /\ ~host.reading /\ Len(host.buf) < Record  BY <1>1 DEF HostReadsM2, UpOK
  <2>1. n \in 0 .. Len(up)
    <3>1. Record * Buffered \in Nat /\ Record * Buffered >= Record  BY Consts
    <3> DEFINE room == Record * Buffered
    <3> HIDE DEF room
    <3>2. room \in Nat /\ room >= Record  BY <3>1 DEF room
    <3>3. AtMost(Len(up), room - Len(host.buf)) \in 0 .. Len(up)
      BY <3>2, <2>0, <1>t, Consts DEF AtMost
    <3> QED  BY <3>3 DEF room
  <2>2. up' = DropN(up, n) /\ taken' = Records(v).whole /\ host' = [host EXCEPT !.buf = Records(v).rest]
    BY <1>1 DEF HostReadsM2
  <2> HIDE DEF n
  <2>3. TakeN(up, n) \in Seq(OfBoard(board)) /\ up' \in Seq(OfBoard(board)) /\ Len(up') <= Room
    BY <2>1, <2>2, <1>t, TakeDrop, Consts
  <2>4. v \in Seq(OfBoard(board)) /\ Len(v) \in Nat  BY <2>3, <1>t, ConcatProperties
  <2> HIDE DEF v
  <2>5. c \in Nat /\ Record * c \in 0 .. Len(v) /\ Len(v) - Record * c < Record
    BY <2>4, Consts
  <2> HIDE DEF c
  <2>6. Records(v) = [whole |-> TakeN(v, Record * c), rest |-> DropN(v, Record * c)]
    BY DEF Records, c
  <2> DEFINE a == Record * c
  <2>7. a \in 0 .. Len(v) /\ Len(v) - a < Record  BY <2>5
  <2> HIDE DEF a
  <2>8. /\ TakeN(v, a) \in Seq(OfBoard(board)) /\ DropN(v, a) \in Seq(OfBoard(board))
        /\ Len(DropN(v, a)) < Record
    BY <2>4, <2>7, TakeDrop
  <2>9. taken' = TakeN(v, a) /\ host' = [host EXCEPT !.buf = DropN(v, a)]
    BY <2>2, <2>6 DEF a
  <2>10. host' = [reading |-> host.reading, target |-> host.target, buf |-> DropN(v, a)]
    BY <2>9, <1>t, Refilled
  <2>11. host' \in Reader(OfBoard(board)) /\ host'.buf = DropN(v, a) /\ host'.reading = host.reading
    BY <2>8, <2>10, <1>t DEF Reader
  <2>12. UpOK'
    BY <1>t, <2>0, <2>3, <2>8, <2>9, <2>11 DEF UpOK, Rest, Whole
  <2> QED  BY <1>w, <2>12
<1>2. CASE HostReadsA0
  <2>0. board = "a0" /\ OfBoard(board) = Long /\ Below(host)
    BY <1>2, Subsets DEF HostReadsA0, UpOK
  <2>1. ASSUME Begins(host, up, LenBytes), host' \in Begun(up), up' = DropN(up, LenBytes), taken' = <<>>
        PROVE  UpOK'
    <3>1. Len(up) >= LenBytes  BY <2>1 DEF Begins
    <3>2. host' \in Reader(Long) /\ Below(host')  BY <2>0, <2>1, <3>1, <1>t, BegunType
    <3>3. LenBytes \in 0 .. Len(up)  BY <3>1, <1>t DEF LenBytes
    <3>4. up' \in Seq(Long) /\ Len(up') <= Room
      BY <2>0, <2>1, <3>3, <1>t, TakeDrop, Consts
    <3> QED  BY <1>t, <2>0, <2>1, <3>2, <3>4 DEF UpOK, Rest, Whole, Below
  <2>2. ASSUME host.reading, up # <<>>, up' = DropN(up, Piece(host, up)),
               IF Len(Grown(host, up).buf) >= Grown(host, up).target
               THEN taken' = Grown(host, up).buf /\ host' = NotReading
               ELSE taken' = <<>> /\ host' = Grown(host, up)
        PROVE  UpOK'
    <3> DEFINE p == Piece(host, up)
               g == Grown(host, up)
    <3>1. p \in 1 .. Len(up) /\ g \in Reader(Long) /\ g.reading
      BY <2>0, <2>2, <1>t, GrownType
    <3>2. g.buf \in Seq(Long) /\ g.target \in Nat /\ Len(g.buf) \in Nat  BY <3>1 DEF Reader
    <3>3. up' = DropN(up, p)  BY <2>2
    <3>4. IF Len(g.buf) >= g.target THEN taken' = g.buf /\ host' = NotReading
                                    ELSE taken' = <<>> /\ host' = g
      BY <2>2
    <3> HIDE DEF p, g
    <3>5. up' \in Seq(Long) /\ Len(up') <= Room
      <4>1. p \in 0 .. Len(up)  BY <3>1
      <4> QED  BY <4>1, <3>3, <2>0, <1>t, TakeDrop, Consts
    <3>6. host' \in Reader(Long) /\ Below(host') /\ taken' \in Seq(Long)
      <4>1. CASE Len(g.buf) >= g.target
        BY <4>1, <3>2, <3>4, NotReadingType
      <4>2. CASE ~(Len(g.buf) >= g.target)
        <5>1. Below(g)  BY <4>2, <3>1, <3>2 DEF Below
        <5> QED  BY <4>2, <5>1, <3>1, <3>4
      <4> QED  BY <4>1, <4>2
    <3> QED  BY <1>t, <2>0, <3>5, <3>6 DEF UpOK, Rest, Whole, Below
  <2>3. UpOK'  BY <1>2, <2>1, <2>2 DEF HostReadsA0
  <2> QED  BY <1>w, <2>3
<1> QED  BY <1>1, <1>2

LEMMA DeviceTypes ==
  ASSUME Types, DevReads \/ DevSends \/ DevWrites
  PROVE  Types'
<1> USE DEF Types
<1>w. WritingOK'
  <2>1. UNCHANGED <<board, session, opens, rOut, wOut, sent>>
    BY DEF DevReads, DevSends, DevWrites, hostVars
  <2> QED  BY <2>1 DEF WritingOK, Rest, Whole
<1>b. board' = board /\ board \in {"m2", "a0"}
  BY Subsets DEF DevReads, DevSends, DevWrites, WritingOK
<1>1. CASE DevReads
  <2>t. /\ UNCHANGED <<board, ups, up, devOut, host, cutUp, cutDown>> /\ taken' = <<>>
        /\ down \in Seq(Long) /\ Len(down) \in Nat /\ Len(down) <= Room
        /\ dev \in Reader(Long) /\ Below(dev) /\ cutDown \in BOOLEAN
    BY <1>1 DEF DevReads, DownOK
  <2>u. UpOK'  BY <2>t DEF UpOK, Rest, Whole, Below
  <2>1. ASSUME Begins(dev, down, HeaderBytes), dev' \in Begun(down), down' = DropN(down, LenBytes),
               got' = <<>>
        PROVE  DownOK'
    <3>1. Len(down) >= LenBytes  BY <2>1, <2>t DEF Begins, HeaderBytes, LenBytes
    <3>2. dev' \in Reader(Long) /\ Below(dev')  BY <2>1, <3>1, <2>t, BegunType
    <3>3. LenBytes \in 0 .. Len(down)  BY <3>1, <2>t DEF LenBytes
    <3>4. down' \in Seq(Long) /\ Len(down') <= Room
      BY <2>1, <3>3, <2>t, TakeDrop, Consts
    <3> QED  BY <2>t, <2>1, <3>2, <3>4 DEF DownOK, Below
  <2>2. ASSUME dev.reading, down # <<>>, down' = DropN(down, Piece(dev, down)),
               IF Len(Grown(dev, down).buf) >= Grown(dev, down).target
               THEN got' = Grown(dev, down).buf /\ dev' = NotReading
               ELSE got' = <<>> /\ dev' = Grown(dev, down)
        PROVE  DownOK'
    <3> DEFINE p == Piece(dev, down)
               g == Grown(dev, down)
    <3>1. p \in 1 .. Len(down) /\ g \in Reader(Long) /\ g.reading
      BY <2>2, <2>t, GrownType
    <3>2. g.buf \in Seq(Long) /\ g.target \in Nat /\ Len(g.buf) \in Nat  BY <3>1 DEF Reader
    <3>3. down' = DropN(down, p)  BY <2>2
    <3>4. IF Len(g.buf) >= g.target THEN got' = g.buf /\ dev' = NotReading
                                    ELSE got' = <<>> /\ dev' = g
      BY <2>2
    <3> HIDE DEF p, g
    <3>5. down' \in Seq(Long) /\ Len(down') <= Room
      <4>1. p \in 0 .. Len(down)  BY <3>1
      <4> QED  BY <4>1, <3>3, <2>t, TakeDrop, Consts
    <3>6. dev' \in Reader(Long) /\ Below(dev') /\ got' \in Seq(Long)
      <4>1. CASE Len(g.buf) >= g.target
        BY <4>1, <3>2, <3>4, NotReadingType
      <4>2. CASE ~(Len(g.buf) >= g.target)
        <5>1. Below(g)  BY <4>2, <3>1, <3>2 DEF Below
        <5> QED  BY <4>2, <5>1, <3>1, <3>4
      <4> QED  BY <4>1, <4>2
    <3> QED  BY <2>t, <3>5, <3>6 DEF DownOK, Below
  <2>3. DownOK'  BY <1>1, <2>1, <2>2 DEF DevReads
  <2> QED  BY <1>w, <2>u, <2>3
<1>2. CASE DevSends
  <2>t. /\ UNCHANGED <<dev, down, up, host, cutDown, cutUp>> /\ got' = <<>> /\ taken' = <<>>
        /\ ups' = ups + 1 /\ ups \in Nat /\ ups < MaxUp
    BY <1>2, Consts DEF DevSends, UpOK
  <2>1. DownOK'  BY <2>t DEF DownOK, Below
  <2>2. ups + 1 \in 1 .. MaxDown + 2 * MaxSessions + MaxUp /\ ups + 1 \in 0 .. MaxUp
    BY <2>t, Consts
  <2>3. devOut' \in Seq(OfBoard(board)) /\ Rest(devOut')
    <3>1. CASE board = "m2"
      <4>1. devOut' = Message(ups + 1, Record)  BY <1>2, <3>1 DEF DevSends
      <4>2. {b \in Bytes : b.of = Record} \subseteq OfBoard(board)  BY <3>1 DEF OfBoard
      <4>3. Seq({b \in Bytes : b.of = Record}) \subseteq Seq(OfBoard(board))  BY <4>2, SeqSubset
      <4> QED  BY <4>1, <4>3, <2>2, Consts, MessageFacts
    <3>2. CASE board # "m2"
      <4>1. PICK n \in Sizes : devOut' = Message(ups + 1, LenBytes + n)
        BY <1>2, <3>2 DEF DevSends
      <4>2. LenBytes + n \in Nat /\ LenBytes + n > 0 /\ LenBytes + n > LenBytes
        BY Consts DEF LenBytes
      <4>3. {b \in Bytes : b.of = LenBytes + n} \subseteq OfBoard(board)
        BY <3>2, <4>2 DEF OfBoard
      <4>4. Seq({b \in Bytes : b.of = LenBytes + n}) \subseteq Seq(OfBoard(board))
        BY <4>3, SeqSubset
      <4> QED  BY <4>1, <4>2, <4>4, <2>2, MessageFacts
    <3> QED  BY <3>1, <3>2
  <2>4. UpOK'  BY <1>b, <2>t, <2>2, <2>3 DEF UpOK, Rest, Whole, Below
  <2> QED  BY <1>w, <2>1, <2>4
<1>3. CASE DevWrites
  <2>t. /\ UNCHANGED <<dev, down, ups, host, cutDown, cutUp>> /\ got' = <<>> /\ taken' = <<>>
        /\ up \in Seq(OfBoard(board)) /\ Len(up) \in Nat /\ Len(up) <= Room
        /\ devOut \in Seq(OfBoard(board)) /\ Rest(devOut) /\ Len(devOut) \in Nat
    BY <1>3 DEF DevWrites, UpOK
  <2>1. DownOK'  BY <2>t DEF DownOK, Below
  <2>2. PICK n \in 1 .. AtMost(Len(devOut), Room - Len(up)) :
          up' = up \o TakeN(devOut, n) /\ devOut' = DropN(devOut, n)
    BY <1>3 DEF DevWrites
  <2>3. n \in 0 .. Len(devOut) /\ n <= Room - Len(up)  BY <2>2, <2>t, Consts DEF AtMost
  <2>4. TakeN(devOut, n) \in Seq(OfBoard(board)) /\ Len(TakeN(devOut, n)) = n
        /\ devOut' \in Seq(OfBoard(board))
    BY <2>2, <2>3, <2>t, TakeDrop
  <2>5. devOut \in Seq(Bytes)  BY <1>b, <2>t, Subsets, SeqSubset
  <2>6. Rest(devOut')  BY <2>2, <2>3, <2>5, <2>t, RestDrop
  <2>7. up' \in Seq(OfBoard(board)) /\ Len(up') <= Room
    <3> DEFINE v == TakeN(devOut, n)
    <3>1. v \in Seq(OfBoard(board)) /\ Len(v) = n  BY <2>4
    <3>2. up' = up \o v  BY <2>2
    <3> HIDE DEF v
    <3>3. up' \in Seq(OfBoard(board)) /\ Len(up') = Len(up) + Len(v)
      BY <3>1, <3>2, <2>t, ConcatProperties
    <3> QED  BY <3>1, <3>3, <2>3, <2>t, Consts
  <2>8. UpOK'  BY <1>b, <2>t, <2>4, <2>6, <2>7 DEF UpOK, Rest, Whole, Below
  <2> QED  BY <1>w, <2>1, <2>8
<1> QED  BY <1>1, <1>2, <1>3

LEMMA StepTypes == Types /\ [FramingNext]_vars => Types'
<1> SUFFICES ASSUME Types, [FramingNext]_vars PROVE Types'  OBVIOUS
<1>1. CASE UNCHANGED vars
  BY <1>1 DEF vars, hostVars, devVars, Types, WritingOK, DownOK, UpOK, Rest, Whole, Below
<1> QED  BY <1>1, OpenTypes, DriverTypes, HostTypes, DeviceTypes DEF FramingNext

\* In every reachable state each end has read less than the length, or the record,
\* that it waits for: no read is past tempbuf or read_buffer, whatever the bytes say,
\* also when they are not those of one message.
THEOREM FramingTypes == FramingSpec => []FramingTypeOK
BY InitTypes, StepTypes, TypesType, PTL DEF FramingSpec
-----------------------------------------------------------------------------
(* To the device *)

\* What a thread has still to write of a message that it has begun to write.
Rests(a, b) == IF Partly(a) THEN a ELSE IF Partly(b) THEN b ELSE <<>>

\* The bytes the device has still to read, before the next message is begun.
ToDevice == down \o Rests(rOut, wOut)

DownStream ==
  ~cutDown => /\ ~(Partly(rOut) /\ Partly(wOut))
              /\ Closed(ToDevice) /\ InStep(dev, ToDevice)

DownInv == DownStream /\ DeviceTakesWhole

LEMMA Streams ==
  ASSUME Types
  PROVE  /\ rOut \in Seq(Bytes) /\ wOut \in Seq(Bytes) /\ down \in Seq(Bytes)
         /\ Rests(rOut, wOut) \in Seq(Long) /\ down \in Seq(Long)
         /\ ToDevice \in Seq(Long) /\ ToDevice \in Seq(Bytes)
<1>1. rOut \in Seq(Long) /\ wOut \in Seq(Long) /\ down \in Seq(Long)
  BY DEF Types, WritingOK, DownOK
<1>2. Rests(rOut, wOut) \in Seq(Long)  BY <1>1 DEF Rests
<1>3. ToDevice \in Seq(Long)  BY <1>1, <1>2, ConcatProperties DEF ToDevice
<1>4. Seq(Long) \subseteq Seq(Bytes)  BY Subsets, SeqSubset
<1> QED  BY <1>1, <1>2, <1>3, <1>4

\* A message more at the end of what a reader has before it.
LEMMA MoreInStep ==
  ASSUME NEW r, NEW s \in Seq(Bytes), NEW t \in Seq(Bytes), InStep(r, s), t # <<>>, t[1].k = 1
  PROVE  InStep(r, s \o t)
<1> DEFINE u == s \o t
<1>1. /\ Len(u) = Len(s) + Len(t) /\ Len(s) \in Nat /\ u \in Seq(Bytes)
      /\ \A i \in 1 .. Len(s) : u[i] = s[i]
  BY ConcatAt
<1>2. CASE s = <<>>
  <2>1. u = t  BY <1>2, ConcatEmptySeq
  <2>2. ~r.reading  BY <1>2 DEF InStep
  <2> QED  BY <2>1, <2>2 DEF InStep
<1>3. CASE s # <<>>
  <2>1. 1 \in 1 .. Len(s)  BY <1>3, <1>1
  <2>2. u[1] = s[1]  BY <2>1, <1>1
  <2>3. u # <<>>  BY <2>1, <1>1
  <2> HIDE DEF u
  <2>4. InStep(r, u)  BY <1>3, <2>2, <2>3 DEF InStep
  <2> QED  BY <2>4 DEF u
<1> QED  BY <1>2, <1>3

\* A thread writes some of its bytes: they come after those of its message that are
\* on the line, or begin a message where one has ended.
LEMMA WriteStream ==
  ASSUME Types, ~cutDown, Closed(ToDevice), InStep(dev, ToDevice),
         NEW out \in Seq(Long), Rest(out), NEW other, ~Partly(other),
         Rests(rOut, wOut) = IF Partly(out) THEN out ELSE <<>>,
         NEW n \in 1 .. Len(out), Written(out, other, n)
  PROVE  LET rest == IF Partly(DropN(out, n)) THEN DropN(out, n) ELSE <<>>
         IN  Closed(down' \o rest) /\ InStep(dev, down' \o rest)
<1> DEFINE v == DropN(out, n)
           rest == IF Partly(v) THEN v ELSE <<>>
<1>0. /\ down \in Seq(Bytes) /\ out \in Seq(Bytes) /\ n \in 0 .. Len(out) /\ Len(out) \in Nat
      /\ down \in Seq(Long)
  BY Streams, Subsets, SeqSubset
<1>1. /\ TakeN(out, n) \in Seq(Bytes) /\ v \in Seq(Bytes) /\ Len(v) = Len(out) - n
      /\ TakeN(out, n) \o v = out
      /\ v = <<>> <=> n = Len(out)
      /\ n < Len(out) => v[1].k = out[1].k + n
  <2>1. /\ TakeN(out, n) \in Seq(Bytes) /\ v \in Seq(Bytes) /\ Len(v) = Len(out) - n
    BY <1>0, TakeDrop
  <2>2. TakeN(out, n) \o v = out  BY <1>0, TakeThenDrop
  <2>3. /\ v = <<>> <=> n = Len(out)
        /\ n < Len(out) => v[1].k = out[1].k + n
    BY <1>0, RestDrop
  <2> QED  BY <2>1, <2>2, <2>3
<1>2. out[1].k \in Nat /\ out[1].k > 0
  <2>1. 1 \in 1 .. Len(out)  BY <1>0
  <2> QED  BY <2>1, <1>0, ElementOfSeq, Numbers
<1>3. rest = v
  <2> HIDE DEF v
  <2>1. CASE n = Len(out)  BY <2>1, <1>1 DEF Partly
  <2>2. CASE n < Len(out)
    <3>1. v[1].k # 1 /\ v # <<>>  BY <2>2, <1>0, <1>1, <1>2
    <3> QED  BY <3>1 DEF Partly
  <2> QED  BY <2>1, <2>2, <1>0
<1> HIDE DEF rest, v
<1>4. down' = down \o TakeN(out, n)  BY DEF Written
<1>5. down' \o v = down \o out
  <2> DEFINE w == TakeN(out, n)
  <2>1. w \in Seq(Bytes) /\ w \o v = out /\ down' = down \o w  BY <1>1, <1>4
  <2> HIDE DEF w
  <2>2. (down \o w) \o v = down \o (w \o v)
    <3>1. down \in Seq(Bytes) /\ v \in Seq(Bytes) /\ w \in Seq(Bytes)  BY <1>0, <1>1, <2>1
    <3> QED  BY SMTT(20), <3>1, ConcatAssociative
  <2> QED  BY <2>1, <2>2
<1>6. CASE Partly(out)
  <2>1. ToDevice = down \o out  BY <1>6 DEF ToDevice
  <2> QED  BY <2>1, <1>3, <1>5 DEF rest, v
<1>7. CASE ~Partly(out)
  <2>1. ToDevice = down  BY <1>7, <1>0, ConcatEmptySeq DEF ToDevice
  <2>2. out # <<>> /\ out[1].k = 1
    <3>1. out # <<>>  BY <1>0
    <3> QED  BY <3>1, <1>7 DEF Partly
  <2>3. Closed(out)  BY <1>0, RestClosed
  <2>4. Closed(down \o out)  BY <2>1, <2>2, <2>3, <1>0, ClosedConcat
  <2>5. InStep(dev, down \o out)
    BY <2>1, <2>2, <1>0, MoreInStep
  <2> QED  BY <2>4, <2>5, <1>3, <1>5 DEF rest, v
<1> QED  BY <1>6, <1>7

\* A step that leaves the bytes to the device and the reader of them alone.
LEMMA DownSame ==
  ASSUME DownInv, Rests(rOut', wOut') = Rests(rOut, wOut),
         Partly(rOut') /\ Partly(wOut') => Partly(rOut) /\ Partly(wOut),
         UNCHANGED <<down, dev, cutDown>>, got' = <<>> \/ got' = got
  PROVE  DownInv'
<1>1. ToDevice' = ToDevice  BY DEF ToDevice
<1>2. DownStream'
  <2>1. Closed(ToDevice) <=> Closed(ToDevice)'  BY <1>1 DEF Closed, After
  <2>2. InStep(dev, ToDevice) <=> InStep(dev, ToDevice)'  BY <1>1 DEF InStep
  <2>3. Partly(rOut)' <=> Partly(rOut')  BY DEF Partly
  <2>4. Partly(wOut)' <=> Partly(wOut')  BY DEF Partly
  <2> QED  BY <2>1, <2>2, <2>3, <2>4 DEF DownInv, DownStream
<1>3. DeviceTakesWhole'  BY DEF DownInv, DeviceTakesWhole, Whole
<1> QED  BY <1>2, <1>3 DEF DownInv

LEMMA InitDown == FramingInit => DownInv
<1> SUFFICES ASSUME FramingInit PROVE DownInv  OBVIOUS
<1>1. down = <<>> /\ rOut = <<>> /\ wOut = <<>> /\ got = <<>> /\ dev = NotReading
  BY DEF FramingInit
<1>2. Rests(rOut, wOut) = <<>> /\ ~Partly(rOut)  BY <1>1 DEF Rests, Partly
<1>3. ToDevice = <<>>
  <2>1. <<>> \in Seq(Bytes)  OBVIOUS
  <2>2. <<>> \o <<>> = <<>>  BY <2>1, ConcatEmptySeq
  <2> QED  BY <1>1, <1>2, <2>2 DEF ToDevice
<1>4. Closed(<<>>)  BY DEF Closed
<1>5. InStep(NotReading, <<>>)  BY DEF InStep, NotReading
<1> QED  BY <1>1, <1>2, <1>3, <1>4, <1>5 DEF DownInv, DownStream, DeviceTakesWhole

\* A session begins: what is cleared of the line ends where a message begins.
LEMMA OpenDown == ASSUME Types, DownInv, Open PROVE DownInv'
<1>1. /\ ~cutDown /\ session = "none" /\ wOut = <<>> /\ wOut' = wOut /\ dev' = dev /\ got' = <<>>
      /\ rOut' = Message(sent + 1, LenBytes + StatusBytes)
  BY DEF Open, Followed, devVars
<1>2. PICK n \in 0 .. Len(down) : down' = TakeN(down, n) /\ cutDown' = Partly(DropN(down, n))
  BY DEF Open
<1>3. rOut = <<>>  BY <1>1 DEF Types, WritingOK
<1>4. ToDevice = down
  <2>1. Rests(rOut, wOut) = <<>>  BY <1>1, <1>3 DEF Rests, Partly
  <2> QED  BY <2>1, Streams, ConcatEmptySeq DEF ToDevice
<1>5. ~Partly(rOut')
  <2>1. sent + 1 <= MaxDown + 2 * MaxSessions
    <3>1. opens \in Nat /\ opens < MaxSessions /\ sent \in Nat /\ sent <= MaxDown + 2 * opens
      BY Consts DEF Open, Types, WritingOK
    <3> QED  BY <3>1, Consts
  <2>2. rOut'[1].k = 1  BY <1>1, <2>1, NewMessage DEF StatusBytes
  <2> QED  BY <2>2 DEF Partly
<1>6. /\ down' \in Seq(Bytes) /\ Len(down') = n /\ down \in Seq(Bytes) /\ Len(down) \in Nat
      /\ \A i \in 1 .. n : down'[i] = down[i]
      /\ Len(DropN(down, n)) = Len(down) - n /\ DropN(down, n) \in Seq(Bytes)
      /\ \A i \in 1 .. Len(down) - n : DropN(down, n)[i] = down[i + n]
  <2>1. down \in Seq(Bytes)  BY Streams
  <2>2. Len(down) \in Nat  BY <2>1
  <2>3. /\ TakeN(down, n) \in Seq(Bytes) /\ Len(TakeN(down, n)) = n
        /\ \A i \in 1 .. n : TakeN(down, n)[i] = down[i]
    BY <2>1, TakeDrop
  <2>4. /\ Len(DropN(down, n)) = Len(down) - n /\ DropN(down, n) \in Seq(Bytes)
        /\ \A i \in 1 .. Len(down) - n : DropN(down, n)[i] = down[i + n]
    BY <2>1, TakeDrop
  <2>5. down' = TakeN(down, n)  BY <1>2
  <2> QED  BY <2>1, <2>2, <2>3, <2>4, <2>5
<1>7. ToDevice' = down'
  <2>1. Rests(rOut', wOut') = <<>>  BY <1>1, <1>5 DEF Rests, Partly
  <2> QED  BY <2>1, <1>6, ConcatEmptySeq DEF ToDevice
<1>8. ASSUME ~cutDown' PROVE Closed(down') /\ InStep(dev, down')
  <2>1. n < Len(down) => down[n + 1].k = 1
    <3> SUFFICES ASSUME n < Len(down) PROVE down[n + 1].k = 1  OBVIOUS
    <3>1. 1 \in 1 .. Len(down) - n /\ DropN(down, n) # <<>>  BY <1>6
    <3>2. DropN(down, n)[1] = down[1 + n] /\ 1 + n = n + 1  BY <3>1, <1>6
    <3> QED  BY <3>1, <3>2, <1>2, <1>8 DEF Partly
  <2>2. Closed(down) /\ InStep(dev, down)  BY <1>1, <1>4 DEF DownInv, DownStream
  <2>3. Closed(down')  BY <2>1, <2>2, <1>2, <1>6, ClosedTake
  <2>4. InStep(dev, down')
    <3>1. CASE n = 0
      <4>1. down' = <<>>  BY <3>1, <1>6
      <4>2. ~dev.reading
        <5> SUFFICES ASSUME dev.reading PROVE FALSE  OBVIOUS
        <5>1. down # <<>> /\ down[1].k = LenBytes + Len(dev.buf) + 1  BY <2>2 DEF InStep
        <5>2. Len(dev.buf) \in Nat  BY DEF Types, DownOK, Reader
        <5>3. 0 < Len(down)  BY <5>1, <1>6
        <5>4. 0 + 1 = 1 /\ LenBytes + Len(dev.buf) + 1 # 1  BY <5>2 DEF LenBytes
        <5> QED  BY <5>1, <5>3, <5>4, <2>1, <3>1
      <4> QED  BY <4>1, <4>2 DEF InStep
    <3>2. CASE n # 0
      <4>1. 1 \in 1 .. n /\ down' # <<>> /\ down # <<>>  BY <3>2, <1>6
      <4>2. down'[1] = down[1]  BY <4>1, <1>6
      <4> QED  BY <4>1, <4>2, <2>2 DEF InStep
    <3> QED  BY <3>1, <3>2
  <2> QED  BY <2>3, <2>4
<1>9. DownStream'
  <2>1. ~cutDown' => Closed(ToDevice') /\ InStep(dev', ToDevice')  BY <1>1, <1>7, <1>8
  <2>2. ~Partly(wOut')  BY <1>1 DEF Partly
  <2> QED  BY <2>1, <2>2 DEF DownStream, Partly, Closed, InStep, After
<1> QED  BY <1>1, <1>9 DEF DownInv, DeviceTakesWhole

\* The two threads of the driver.
LEMMA DriverDown ==
  ASSUME Types, DownInv, ReaderWrites \/ Close \/ WriterTakes \/ WriterWrites
  PROVE  DownInv'
<1>t. rOut \in Seq(Long) /\ wOut \in Seq(Long) /\ Rest(rOut) /\ Rest(wOut) /\ sent \in Nat
  BY DEF Types, WritingOK
<1>g. dev' = dev /\ got' = <<>>
  BY DEF ReaderWrites, Close, WriterTakes, WriterWrites, devVars
<1>p. \A s : Partly(s)' <=> Partly(s)  BY DEF Partly
<1>c. \A s : Closed(s)' <=> Closed(s)  BY DEF Closed, After
<1>1. ASSUME ReaderWrites, ~cutDown'
      PROVE  /\ ~(Partly(rOut') /\ Partly(wOut'))
             /\ Closed(ToDevice') /\ InStep(dev', ToDevice')
  <2>1. wOut' = wOut  BY <1>1 DEF ReaderWrites
  <2>2. ASSUME NEW n \in 1 .. Len(rOut), Written(rOut, wOut, n), rOut' = DropN(rOut, n)
        PROVE  /\ ~(Partly(rOut') /\ Partly(wOut'))
               /\ Closed(ToDevice') /\ InStep(dev', ToDevice')
    <3>1. ~Partly(wOut) /\ ~cutDown  BY <1>1, <2>2 DEF Written, Followed
    <3>2. Closed(ToDevice) /\ InStep(dev, ToDevice)  BY <3>1 DEF DownInv, DownStream
    <3>3. Rests(rOut, wOut) = IF Partly(rOut) THEN rOut ELSE <<>>  BY <3>1 DEF Rests
    <3>4. Rests(rOut', wOut') = IF Partly(rOut') THEN rOut' ELSE <<>>  BY <3>1, <2>1 DEF Rests
    <3>5. ToDevice' = down' \o (IF Partly(rOut') THEN rOut' ELSE <<>>)  BY <3>4 DEF ToDevice
    <3>6. LET rest == IF Partly(DropN(rOut, n)) THEN DropN(rOut, n) ELSE <<>>
          IN  Closed(down' \o rest) /\ InStep(dev, down' \o rest)
      BY <3>1, <3>2, <3>3, <2>2, <1>t, WriteStream
    <3> QED  BY <3>1, <3>5, <3>6, <2>1, <2>2, <1>g
  <2>3. CASE GivesUp(rOut) /\ rOut' = <<>> /\ UNCHANGED down
    <3>1. ~Partly(rOut) /\ ~cutDown /\ ~Partly(rOut')
      BY <1>1, <2>3 DEF GivesUp, Followed, Partly
    <3>2. Rests(rOut', wOut') = Rests(rOut, wOut)  BY <3>1, <2>1 DEF Rests
    <3>3. ToDevice' = ToDevice  BY <3>2, <2>3 DEF ToDevice
    <3> QED  BY <3>1, <3>3, <1>g DEF DownInv, DownStream
  <2> QED  BY <1>1, <2>2, <2>3 DEF ReaderWrites
<1>2. ASSUME WriterWrites, ~cutDown'
      PROVE  /\ ~(Partly(rOut') /\ Partly(wOut'))
             /\ Closed(ToDevice') /\ InStep(dev', ToDevice')
  <2>1. rOut' = rOut  BY <1>2 DEF WriterWrites
  <2>2. ASSUME NEW n \in 1 .. Len(wOut), Written(wOut, rOut, n), wOut' = DropN(wOut, n)
        PROVE  /\ ~(Partly(rOut') /\ Partly(wOut'))
               /\ Closed(ToDevice') /\ InStep(dev', ToDevice')
    <3>1. ~Partly(rOut) /\ ~cutDown  BY <1>2, <2>2 DEF Written, Followed
    <3>2. Closed(ToDevice) /\ InStep(dev, ToDevice)  BY <3>1 DEF DownInv, DownStream
    <3>3. Rests(rOut, wOut) = IF Partly(wOut) THEN wOut ELSE <<>>  BY <3>1 DEF Rests
    <3>4. Rests(rOut', wOut') = IF Partly(wOut') THEN wOut' ELSE <<>>  BY <3>1, <2>1 DEF Rests
    <3>5. ToDevice' = down' \o (IF Partly(wOut') THEN wOut' ELSE <<>>)  BY <3>4 DEF ToDevice
    <3>6. LET rest == IF Partly(DropN(wOut, n)) THEN DropN(wOut, n) ELSE <<>>
          IN  Closed(down' \o rest) /\ InStep(dev, down' \o rest)
      BY <3>1, <3>2, <3>3, <2>2, <1>t, WriteStream
    <3> QED  BY <3>1, <3>5, <3>6, <2>1, <2>2, <1>g
  <2>3. CASE GivesUp(wOut) /\ wOut' = <<>> /\ UNCHANGED down
    <3>1. ~Partly(wOut) /\ ~cutDown /\ ~Partly(wOut')
      BY <1>2, <2>3 DEF GivesUp, Followed, Partly
    <3>2. Rests(rOut', wOut') = Rests(rOut, wOut)  BY <3>1, <2>1 DEF Rests
    <3>3. ToDevice' = ToDevice  BY <3>2, <2>3 DEF ToDevice
    <3> QED  BY <3>1, <3>3, <1>g DEF DownInv, DownStream
  <2> QED  BY <1>2, <2>2, <2>3 DEF WriterWrites
<1>3. CASE ReaderWrites \/ WriterWrites
  <2>1. DownStream'  BY <1>1, <1>2, <1>3 DEF DownStream, Partly, Closed, After, InStep
  <2> QED  BY <2>1, <1>g DEF DownInv, DeviceTakesWhole
<1>4. CASE Close
  <2>1. /\ session = "up" /\ wOut' = wOut /\ rOut' = Message(sent + 1, LenBytes + StatusBytes)
        /\ UNCHANGED <<down, dev, cutDown>>
    BY <1>4 DEF Close, devVars
  <2>2. sent + 1 <= MaxDown + 2 * MaxSessions
    <3>1. opens \in 0 .. MaxSessions /\ sent < MaxDown + 2 * opens
      BY <2>1 DEF Types, WritingOK
    <3> QED  BY <3>1, <1>t, Consts
  <2>3. ~Partly(rOut) /\ ~Partly(rOut')
    <3>1. rOut = <<>>  BY <2>1 DEF Types, WritingOK
    <3>2. rOut'[1].k = 1  BY <2>1, <2>2, NewMessage DEF StatusBytes
    <3> QED  BY <3>1, <3>2 DEF Partly
  <2>4. Rests(rOut', wOut') = Rests(rOut, wOut)  BY <2>1, <2>3 DEF Rests
  <2> QED  BY <2>1, <2>3, <2>4, <1>g, DownSame
<1>5. CASE WriterTakes
  <2>1. PICK n \in Sizes : wOut' = Message(sent + 1, LenBytes + n)  BY <1>5 DEF WriterTakes
  <2>2. /\ session = "up" /\ wOut = <<>> /\ rOut' = rOut /\ sent < MaxDown + 2 * opens - 1
        /\ UNCHANGED <<down, dev, cutDown>>
    BY <1>5 DEF WriterTakes, devVars
  <2>3. sent + 1 <= MaxDown + 2 * MaxSessions
    <3>1. opens \in 0 .. MaxSessions  BY DEF Types, WritingOK
    <3> QED  BY <3>1, <2>2, <1>t, Consts
  <2>4. ~Partly(wOut) /\ ~Partly(wOut')
    <3>1. wOut'[1].k = 1  BY <2>1, <2>3, Consts, NewMessage
    <3> QED  BY <3>1, <2>2 DEF Partly
  <2>5. Rests(rOut', wOut') = Rests(rOut, wOut)  BY <2>2, <2>4 DEF Rests
  <2> QED  BY <2>2, <2>4, <2>5, <1>g, DownSame
<1> QED  BY <1>3, <1>4, <1>5

\* The device reads.
LEMMA ReadDown == ASSUME Types, DownInv, DevReads PROVE DownInv'
<1> DEFINE t == Rests(rOut, wOut)
<1>1. /\ ~cutDown /\ UNCHANGED <<rOut, wOut, cutDown>>
      /\ down \in Seq(Long) /\ t \in Seq(Long) /\ dev \in Reader(Long) /\ Below(dev)
  BY Streams DEF DevReads, Followed, hostVars, Types, DownOK
<1>2. Closed(down \o t) /\ InStep(dev, down \o t) /\ ~(Partly(rOut) /\ Partly(wOut))
  BY <1>1 DEF DownInv, DownStream, ToDevice
<1>3. ToDevice' = down' \o t  BY <1>1 DEF ToDevice
<1> HIDE DEF t
<1>4. ASSUME Closed(down' \o t), InStep(dev', down' \o t), got' # <<>> => Whole(got', LenBytes + 1)
      PROVE  DownInv'
  <2>1. DownStream'
    BY <1>1, <1>2, <1>3, <1>4 DEF DownStream, Partly, Closed, After, InStep
  <2> QED  BY <2>1, <1>4 DEF DownInv, DeviceTakesWhole, Whole
<1>5. CASE /\ Begins(dev, down, HeaderBytes)
           /\ dev' \in Begun(down) /\ down' = DropN(down, LenBytes) /\ got' = <<>>
  <2>1. ~dev.reading /\ Len(down) >= LenBytes
    <3>1. Len(down) \in Nat  BY <1>1
    <3> QED  BY <3>1, <1>5 DEF Begins, HeaderBytes, LenBytes
  <2>2. InStep(dev', DropN(down, LenBytes) \o t) /\ Closed(DropN(down, LenBytes) \o t)
    BY <2>1, <1>1, <1>2, <1>5, ReadBegins
  <2> QED  BY <2>2, <1>4, <1>5
<1>6. CASE /\ dev.reading /\ down # <<>> /\ down' = DropN(down, Piece(dev, down))
           /\ LET r == Grown(dev, down)
              IN  IF Len(r.buf) >= r.target
                  THEN got' = r.buf /\ dev' = NotReading
                  ELSE got' = <<>> /\ dev' = r
  <2> DEFINE g == Grown(dev, down)
  <2>1. g.target = dev.target
    <3>1. g = [reading |-> TRUE, target |-> dev.target, buf |-> dev.buf \o TakeN(down, Piece(dev, down))]
      BY <1>1, <1>6, GrownType
    <3> HIDE DEF g
    <3> QED  BY <3>1
  <2>2. /\ Closed(down' \o t)
        /\ Len(g.buf) >= dev.target => Whole(g.buf, LenBytes + 1) /\ InStep(NotReading, down' \o t)
        /\ ~(Len(g.buf) >= dev.target) => InStep(g, down' \o t)
    BY <1>1, <1>2, <1>6, ReadGrows
  <2>3. IF Len(g.buf) >= g.target THEN got' = g.buf /\ dev' = NotReading ELSE got' = <<>> /\ dev' = g
    BY <1>6
  <2> HIDE DEF g
  <2>4. CASE Len(g.buf) >= dev.target  BY <2>1, <2>2, <2>3, <2>4, <1>4
  <2>5. CASE ~(Len(g.buf) >= dev.target)  BY <2>1, <2>2, <2>3, <2>5, <1>4
  <2> QED  BY <2>4, <2>5
<1> QED  BY <1>5, <1>6 DEF DevReads

LEMMA StepDown == Types /\ DownInv /\ [FramingNext]_vars => DownInv'
<1> SUFFICES ASSUME Types, DownInv, [FramingNext]_vars PROVE DownInv'  OBVIOUS
<1>1. HostReadsM2 \/ HostReadsA0 \/ DevSends \/ DevWrites \/ UNCHANGED vars =>
        UNCHANGED <<rOut, wOut, down, dev, cutDown>> /\ (got' = <<>> \/ got' = got)
  BY DEF HostReadsM2, HostReadsA0, DevSends, DevWrites, vars, hostVars, devVars
<1>2. UNCHANGED <<rOut, wOut, down, dev, cutDown>> /\ (got' = <<>> \/ got' = got) => DownInv'
  BY DownSame
<1> QED  BY <1>1, <1>2, OpenDown, DriverDown, ReadDown DEF FramingNext
-----------------------------------------------------------------------------
(* From the device *)

\* The bytes that come from the device, on the line or still to be sent.
FromDevice == up \o devOut

\* Records, one after the other, all of them whole.
RecordsIn(s) ==
  /\ Closed(s) /\ \E c \in Nat : Len(s) = Record * c
  /\ \A q \in Nat : Record * q < Len(s) => s[Record * q + 1].k = 1

UpStream ==
  ~cutUp => IF board = "m2" THEN RecordsIn(host.buf \o FromDevice)
                            ELSE Closed(FromDevice) /\ InStep(host, FromDevice)

UpInv == UpStream /\ HostTakesWhole

LEMMA Multiples ==
  ASSUME NEW R \in Nat, R > 0, NEW a \in Nat, NEW b \in Nat
  PROVE  /\ R * a \in Nat /\ R * (a + b) = R * a + R * b /\ R * (a + 1) = R * a + R
         /\ R * a < R * b => a < b /\ R * (a + 1) <= R * b
         /\ a < b => R * a + R <= R * b
<1>1. R * a \in Nat /\ R * b \in Nat  OBVIOUS
<1>2. R * (a + b) = R * a + R * b  OBVIOUS
<1>3. R * (a + 1) = R * a + R  OBVIOUS
<1>4. ASSUME a < b PROVE R * a + R <= R * b
  <2>1. PICK d \in Nat : b = a + 1 + d
    <3>1. b - a - 1 \in Nat /\ b = a + 1 + (b - a - 1)  BY <1>4
    <3> QED  BY <3>1
  <2>2. R * b = R * a + R + R * d /\ R * d \in Nat  BY <2>1
  <2> QED  BY <2>2, <1>1
<1>5. ASSUME R * a < R * b PROVE a < b
  <2> SUFFICES ASSUME b <= a PROVE FALSE  OBVIOUS
  <2>1. PICK d \in Nat : a = b + d
    <3>1. a - b \in Nat /\ a = b + (a - b)  OBVIOUS
    <3> QED  BY <3>1
  <2>2. R * a = R * b + R * d /\ R * d \in Nat  BY <2>1
  <2> QED  BY <2>2, <1>1, <1>5
<1> QED  BY <1>1, <1>2, <1>3, <1>4, <1>5

LEMMA DivOfMultiple ==
  ASSUME NEW R \in Nat, R > 0, NEW c \in Nat
  PROVE  (R * c) \div R = c
<1> DEFINE q == (R * c) \div R
<1>1. q \in Nat /\ R * q <= R * c /\ R * c < R * (q + 1)  OBVIOUS
<1> HIDE DEF q
<1>2. c < q + 1  BY <1>1, Multiples
<1>3. R * q < R * (c + 1)  BY <1>1
<1>4. q < c + 1  BY <1>1, <1>3, Multiples
<1> QED  BY <1>1, <1>2, <1>4 DEF q

LEMMA FromStreams ==
  ASSUME Types
  PROVE  /\ board \in {"m2", "a0"} /\ up \in Seq(Bytes) /\ devOut \in Seq(Bytes)
         /\ host.buf \in Seq(Bytes) /\ FromDevice \in Seq(Bytes) /\ host.buf \o FromDevice \in Seq(Bytes)
         /\ FromDevice \in Seq(OfBoard(board)) /\ host.buf \in Seq(OfBoard(board))
         /\ up \in Seq(OfBoard(board)) /\ devOut \in Seq(OfBoard(board))
<1>1. board \in {"m2", "a0"}  BY Subsets DEF Types, WritingOK
<1>2. Seq(OfBoard(board)) \subseteq Seq(Bytes)  BY <1>1, Subsets, SeqSubset
<1>3. up \in Seq(OfBoard(board)) /\ devOut \in Seq(OfBoard(board))
      /\ host.buf \in Seq(OfBoard(board))
  BY DEF Types, UpOK, Reader
<1>4. FromDevice \in Seq(OfBoard(board))  BY <1>3, ConcatProperties DEF FromDevice
<1>5. host.buf \o FromDevice \in Seq(OfBoard(board))  BY <1>3, <1>4, ConcatProperties
<1> QED  BY <1>1, <1>2, <1>3, <1>4, <1>5

\* What is there of the stream, the reader and what it took decide.
LEMMA UpSame ==
  ASSUME UpInv, UNCHANGED <<board, host, cutUp>>, FromDevice' = FromDevice,
         taken' = <<>> \/ taken' = taken
  PROVE  UpInv'
<1>1. UpStream'
  <2>1. RecordsIn(host.buf \o FromDevice) <=> RecordsIn(host.buf \o FromDevice)'
    BY DEF RecordsIn, Closed, After
  <2>2. Closed(FromDevice) <=> Closed(FromDevice)'  BY DEF Closed, After
  <2>3. InStep(host, FromDevice) <=> InStep(host, FromDevice)'  BY DEF InStep
  <2> QED  BY <2>1, <2>2, <2>3 DEF UpInv, UpStream
<1>2. HostTakesWhole'
  <2>1. CASE taken' = <<>>  BY <2>1 DEF HostTakesWhole
  <2>2. CASE taken' = taken  BY <2>2 DEF UpInv, HostTakesWhole, Whole
  <2> QED  BY <2>1, <2>2
<1> QED  BY <1>1, <1>2 DEF UpInv

LEMMA NoRecords == RecordsIn(<<>>) /\ Closed(<<>>)
<1>1. Closed(<<>>)  BY DEF Closed
<1>2. Len(<<>>) = Record * 0 /\ 0 \in Nat  BY Consts
<1>3. \A q \in Nat : Record * q \in Nat  BY Consts, Multiples
<1> QED  BY <1>1, <1>2, <1>3 DEF RecordsIn

LEMMA InitUp == FramingInit => UpInv
<1> SUFFICES ASSUME FramingInit PROVE UpInv  OBVIOUS
<1>1. up = <<>> /\ devOut = <<>> /\ host = NotReading /\ taken = <<>>
  BY DEF FramingInit
<1>e. <<>> \o <<>> = <<>>
  <2>1. <<>> \in Seq(Bytes)  OBVIOUS
  <2> QED  BY <2>1, ConcatEmptySeq
<1>2. FromDevice = <<>>  BY <1>1, <1>e DEF FromDevice
<1>3. host.buf \o FromDevice = <<>>  BY <1>1, <1>2, <1>e DEF NotReading
<1>4. InStep(host, <<>>)  BY <1>1 DEF InStep, NotReading
<1> QED  BY <1>1, <1>2, <1>3, <1>4, NoRecords DEF UpInv, UpStream, HostTakesWhole

\* A record more.
LEMMA RecordsConcat ==
  ASSUME NEW s \in Seq(Bytes), RecordsIn(s), NEW t \in Seq(Bytes), Closed(t), Len(t) = Record,
         t[1].k = 1
  PROVE  RecordsIn(s \o t)
<1> DEFINE u == s \o t
<1>1. /\ Len(u) = Len(s) + Record /\ Len(s) \in Nat
      /\ \A i \in 1 .. Len(s) : u[i] = s[i]
      /\ \A i \in Len(s) + 1 .. Len(s) + Record : u[i] = t[i - Len(s)]
  BY ConcatAt
<1>2. Closed(u)
  <2>1. Closed(s)  BY DEF RecordsIn
  <2> QED  BY <2>1, ClosedConcat
<1>3. PICK c \in Nat : Len(s) = Record * c  BY DEF RecordsIn
<1> HIDE DEF u
<1>4. Len(u) = Record * (c + 1)  BY <1>1, <1>3, Consts, Multiples
<1>5. ASSUME NEW q \in Nat, Record * q < Len(u) PROVE u[Record * q + 1].k = 1
  <2> DEFINE a == Record * q
  <2>0. a \in Nat /\ c + 1 \in Nat  BY Consts, Multiples
  <2>1. q < c + 1  BY <1>4, <1>5, <2>0, Consts, Multiples
  <2>2. CASE q < c
    <3>1. a + Record <= Len(s)  BY <2>2, <1>3, Consts, Multiples
    <3>2. s[a + 1].k = 1
      <4>1. Record * q < Len(s)  BY <3>1, <2>0, <1>1, Consts
      <4> QED  BY <4>1 DEF RecordsIn
    <3> HIDE DEF a
    <3>3. a + 1 \in 1 .. Len(s)  BY <3>1, <2>0, <1>1, Consts
    <3>4. u[a + 1].k = 1  BY <3>2, <3>3, <1>1
    <3> QED  BY <3>4 DEF a
  <2>3. CASE q = c
    <3>1. a = Len(s)  BY <2>3, <1>3
    <3> HIDE DEF a
    <3>2. a + 1 \in Len(s) + 1 .. Len(s) + Record /\ (a + 1) - Len(s) = 1
      BY <3>1, <1>1, Consts
    <3>3. u[a + 1] = t[1]  BY <3>2, <1>1
    <3> QED  BY <3>3 DEF a
  <2> QED  BY <2>1, <2>2, <2>3
<1>6. RecordsIn(u)
  <2>1. c + 1 \in Nat  OBVIOUS
  <2> QED  BY <1>2, <1>4, <1>5, <2>1 DEF RecordsIn
<1> QED  BY <1>6 DEF u

\* Records are taken.
LEMMA RecordsDrop ==
  ASSUME NEW s \in Seq(Bytes), RecordsIn(s), NEW c \in Nat, Record * c <= Len(s)
  PROVE  RecordsIn(DropN(s, Record * c))
<1> DEFINE a == Record * c
           u == DropN(s, a)
<1>0. a \in 0 .. Len(s) /\ Len(s) \in Nat
  <2>1. Len(s) \in Nat  OBVIOUS
  <2> QED  BY <2>1, Consts, Multiples
<1>a. a = Record * c  OBVIOUS
<1> HIDE DEF a
<1>1. /\ Len(u) = Len(s) - a /\ \A i \in 1 .. Len(s) - a : u[i] = s[i + a]
  BY <1>0, TakeDrop
<1>2. Closed(u)
  <2>1. Closed(s)  BY DEF RecordsIn
  <2> QED  BY <2>1, <1>0, ClosedDrop
<1> HIDE DEF u
<1>3. PICK b \in Nat : Len(s) = Record * b  BY DEF RecordsIn
<1>4. \E d \in Nat : Len(u) = Record * d
  <2>1. c <= b
    <3> SUFFICES ASSUME b < c PROVE FALSE  OBVIOUS
    <3>1. Record * b + Record <= Record * c  BY Consts, Multiples
    <3> QED  BY <3>1, <1>0, <1>3, <1>a, Consts
  <2>2. PICK d \in Nat : b = c + d
    <3>1. b - c \in Nat /\ b = c + (b - c)  BY <2>1
    <3> QED  BY <3>1
  <2>3. Record * b = Record * c + Record * d /\ Record * d \in Nat
    BY <2>2, Consts, Multiples
  <2> QED  BY <2>3, <1>0, <1>1, <1>3, <1>a
<1>5. ASSUME NEW q \in Nat, Record * q < Len(u) PROVE u[Record * q + 1].k = 1
  <2> DEFINE e == Record * q
  <2>1. e \in Nat /\ Record * (c + q) = a + e  BY <1>a, Consts, Multiples
  <2>2. e < Len(u)  BY <1>5
  <2> HIDE DEF e
  <2>3. e + 1 \in 1 .. Len(s) - a /\ (e + 1) + a = (a + e) + 1 /\ a + e < Len(s)
    BY <2>1, <2>2, <1>0, <1>1
  <2>4. s[(a + e) + 1].k = 1
    <3>1. c + q \in Nat /\ Record * (c + q) < Len(s)  BY <2>1, <2>3
    <3>2. s[Record * (c + q) + 1].k = 1  BY <3>1 DEF RecordsIn
    <3> QED  BY <3>2, <2>1
  <2>5. u[e + 1].k = 1
    <3>1. u[e + 1] = s[(e + 1) + a]  BY <2>3, <1>1
    <3> QED  BY <3>1, <2>3, <2>4
  <2> QED  BY <2>5 DEF e
<1>6. RecordsIn(u)  BY <1>2, <1>4, <1>5 DEF RecordsIn
<1> QED  BY <1>6, <1>a DEF u

\* Each of them is a whole message.
LEMMA RecordsWhole ==
  ASSUME NEW s \in Seq(OfBoard("m2")), RecordsIn(s), NEW c \in Nat, Record * c <= Len(s),
         NEW i \in Nat, i < c
  PROVE  Whole(SubSeq(TakeN(s, Record * c), Record * i + 1, Record * (i + 1)), 1)
<1> DEFINE a == Record * c
           b == Record * i
           t == TakeN(s, a)
           u == SubSeq(t, b + 1, b + Record)
<1>0. /\ a \in 0 .. Len(s) /\ Len(s) \in Nat /\ b \in Nat /\ Record * (i + 1) = b + Record
      /\ b + Record <= a
  <2>1. Len(s) \in Nat  OBVIOUS
  <2>2. Record * c \in Nat /\ Record * i \in Nat /\ Record * (i + 1) = Record * i + Record
        /\ Record * i + Record <= Record * c
    BY Consts, Multiples
  <2> QED  BY <2>1, <2>2
<1>k. Closed(s) /\ (Record * i < Len(s) => s[Record * i + 1].k = 1)  BY DEF RecordsIn
<1>l. b < Len(s) => s[b + 1].k = 1  BY <1>k
<1> SUFFICES Whole(u, 1)  BY <1>0
<1> HIDE DEF a, b
<1>1. /\ t \in Seq(OfBoard("m2")) /\ Len(t) = a /\ \A j \in 1 .. a : t[j] = s[j]
  BY <1>0, TakeDrop
<1> HIDE DEF t
<1>2. Len(u) = Record /\ DOMAIN u = 1 .. Record /\ \A j \in 1 .. Record : u[j] = t[b + j]
  <2>1. \A j \in b + 1 .. b + Record : t[j] \in OfBoard("m2")
    <3> TAKE j \in b + 1 .. b + Record
    <3>1. j \in 1 .. Len(t)  BY <1>0, <1>1, Consts
    <3> QED  BY <3>1, <1>1, ElementOfSeq
  <2>2. b + 1 \in Int /\ b + Record \in Int /\ Record \in Nat /\ Record > 0  BY <1>0, Consts
  <2>3. PICK m \in Int : m = b + 1  BY <2>2
  <2>4. PICK n \in Int : n = b + Record  BY <2>2
  <2>5. \A j \in m .. n : t[j] \in OfBoard("m2")  BY <2>1, <2>3, <2>4
  <2>6. u = SubSeq(t, m, n)  BY <2>3, <2>4
  <2> HIDE DEF u
  <2>7. /\ u \in Seq(OfBoard("m2")) /\ Len(u) = IF m <= n THEN n - m + 1 ELSE 0
        /\ \A j \in 1 .. n - m + 1 : u[j] = t[m + j - 1]
    BY <2>5, <2>6, SubSeqProperties
  <2>8. n - m + 1 = Record /\ m <= n  BY <2>2, <2>3, <2>4, <1>0
  <2>9. Len(u) = Record /\ DOMAIN u = 1 .. Record  BY <2>7, <2>8
  <2>10. ASSUME NEW j \in 1 .. Record PROVE u[j] = t[b + j]
    <3>1. m + j - 1 = b + j  BY <1>0, <2>2, <2>3
    <3>2. u[j] = t[m + j - 1]  BY <2>7, <2>8
    <3> QED  BY <3>1, <3>2
  <2> QED  BY <2>9, <2>10
<1> HIDE DEF u
<1>3. b + 1 \in 1 .. Len(s) /\ s[b + 1].k = 1  BY <1>0, <1>l, Consts
<1>4. s[b + 1].of = Record
  <2>1. s[b + 1] \in OfBoard("m2")  BY <1>3, ElementOfSeq
  <2> QED  BY <2>1 DEF OfBoard
<1>5. \A d \in 0 .. Record - 1 : s[b + 1 + d] = After(s[b + 1], d)
  <2>1. \A d \in 0 .. s[b + 1].of - s[b + 1].k : s[b + 1 + d] = After(s[b + 1], d)
    BY <1>k, <1>3 DEF Closed
  <2> QED  BY <2>1, <1>3, <1>4
<1>6. ASSUME NEW j \in 1 .. Record
      PROVE  u[j] = [msg |-> s[b + 1].msg, k |-> j, of |-> Record]
  <2>1. b + j \in 1 .. a /\ j - 1 \in 0 .. Record - 1 /\ b + 1 + (j - 1) = b + j /\ 1 + (j - 1) = j
    BY <1>0, Consts
  <2>2. u[j] = s[b + j]  BY <2>1, <1>1, <1>2
  <2>3. s[b + 1 + (j - 1)] = After(s[b + 1], j - 1)  BY <2>1, <1>5
  <2>4. After(s[b + 1], j - 1) = [msg |-> s[b + 1].msg, k |-> j, of |-> Record]
    BY <2>1, <1>3, <1>4 DEF After
  <2> QED  BY <2>1, <2>2, <2>3, <2>4
<1>7. u[1].msg = s[b + 1].msg /\ u[1].of = Record
  <2>1. 1 \in 1 .. Record  BY Consts
  <2>2. u[1] = [msg |-> s[b + 1].msg, k |-> 1, of |-> Record]  BY <2>1, <1>6
  <2> QED  BY <2>2
<1>8. Len(u) = u[1].of - 1 + 1  BY <1>2, <1>7, Consts
<1>9. ASSUME NEW j \in DOMAIN u PROVE u[j] = [msg |-> u[1].msg, k |-> 1 + j - 1, of |-> u[1].of]
  <2>1. j \in 1 .. Record /\ 1 + j - 1 = j  BY <1>2, Consts
  <2> QED  BY <2>1, <1>6, <1>7
<1> QED  BY <1>8, <1>9 DEF Whole

\* A session begins: nothing of the one before is left, and what is still to be sent
\* is a message from its beginning when none was cut.
LEMMA OpenUp == ASSUME Types, UpInv, Open PROVE UpInv'
<1>1. /\ UNCHANGED <<board, devOut>> /\ up' = <<>> /\ host' = NotReading /\ taken' = <<>>
      /\ cutUp' = Partly(devOut)
  BY DEF Open, devVars
<1>2. devOut \in Seq(Bytes) /\ Rest(devOut) /\ board \in {"m2", "a0"} /\ devOut \in Seq(OfBoard(board))
  BY FromStreams DEF Types, UpOK
<1>3. FromDevice' = devOut  BY <1>1, <1>2, ConcatEmptySeq DEF FromDevice
<1>4. host'.buf \o FromDevice' = devOut  BY <1>1, <1>2, <1>3, ConcatEmptySeq DEF NotReading
<1>5. Closed(devOut)  BY <1>2, RestClosed
<1>6. ASSUME ~cutUp' PROVE InStep(NotReading, devOut)
  BY <1>1, <1>6 DEF InStep, NotReading, Partly
<1>7. ASSUME ~cutUp', board = "m2" PROVE RecordsIn(devOut)
  <2>1. CASE devOut = <<>>  BY <2>1, NoRecords
  <2>2. CASE devOut # <<>>
    <3>0. 1 \in 1 .. Len(devOut) /\ Len(devOut) \in Nat  BY <2>2, <1>2
    <3>1. devOut[1].k = 1  BY <1>1, <1>7, <2>2 DEF Partly
    <3>2. devOut[1].of = Record
      <4>1. devOut[1] \in OfBoard(board)  BY <3>0, <1>2, ElementOfSeq
      <4> QED  BY <4>1, <1>7 DEF OfBoard
    <3>3. Len(devOut) = Record  BY <1>2, <2>2, <3>1, <3>2, Consts DEF Rest, Whole
    <3>4. Len(devOut) = Record * 1 /\ 1 \in Nat  BY <3>3, Consts
    <3>5. ASSUME NEW q \in Nat, Record * q < Len(devOut) PROVE devOut[Record * q + 1].k = 1
      <4>1. Record * q < Record * 1  BY <3>4, <3>5
      <4>2. q < 1  BY <4>1, Consts, Multiples
      <4>3. q = 0 /\ Record * 0 + 1 = 1  BY <4>2, Consts
      <4> QED  BY <4>3, <3>1
    <3> QED  BY <1>5, <3>4, <3>5 DEF RecordsIn
  <2> QED  BY <2>1, <2>2
<1>8. UpStream'
  <2>1. ~cutUp' => IF board = "m2" THEN RecordsIn(host'.buf \o FromDevice')
                                   ELSE Closed(FromDevice') /\ InStep(host', FromDevice')
    BY <1>1, <1>3, <1>4, <1>5, <1>6, <1>7
  <2> QED  BY <2>1, <1>1 DEF UpStream, RecordsIn, Closed, After, InStep
<1> QED  BY <1>1, <1>8 DEF UpInv, HostTakesWhole

\* The device begins to send a message, when all of the one before is sent.
LEMMA SendUp == ASSUME Types, UpInv, DevSends PROVE UpInv'
<1>1. /\ UNCHANGED <<board, up, host, cutUp>> /\ taken' = <<>> /\ devOut = <<>>
      /\ ups \in Nat /\ ups < MaxUp
  BY Consts DEF DevSends, Types, UpOK
<1>2. PICK n \in Nat : /\ n > 0 /\ devOut' = Message(ups + 1, n) /\ (board = "m2" => n = Record)
  <2>1. CASE board = "m2"  BY <2>1, Consts DEF DevSends
  <2>2. CASE board # "m2"
    <3>1. PICK z \in Sizes : devOut' = Message(ups + 1, LenBytes + z)  BY <2>2 DEF DevSends
    <3>2. LenBytes + z \in Nat /\ LenBytes + z > 0  BY Consts DEF LenBytes
    <3> QED  BY <2>2, <3>1, <3>2
  <2> QED  BY <2>1, <2>2
<1> DEFINE t == devOut'
<1>3. t \in Seq(Bytes) /\ Len(t) = n /\ t # <<>> /\ t[1].k = 1 /\ Closed(t)
  <2>1. ups + 1 \in 1 .. MaxDown + 2 * MaxSessions + MaxUp  BY <1>1, Consts
  <2>2. /\ t \in Seq({b \in Bytes : b.of = n}) /\ Len(t) = n /\ t # <<>> /\ t[1].k = 1 /\ Rest(t)
    BY <1>2, <2>1, MessageFacts
  <2>3. {b \in Bytes : b.of = n} \subseteq Bytes  OBVIOUS
  <2>4. t \in Seq(Bytes)  BY <2>2, <2>3, SeqSubset
  <2> QED  BY <2>2, <2>4, RestClosed
<1> HIDE DEF t
<1>4. up \in Seq(Bytes) /\ host.buf \in Seq(Bytes)  BY FromStreams
<1>5. FromDevice = up  BY <1>1, <1>4, ConcatEmptySeq DEF FromDevice
<1>6. FromDevice' = up \o t  BY <1>1 DEF FromDevice, t
<1>7. ASSUME ~cutUp, board = "m2" PROVE RecordsIn(host.buf \o (up \o t))
  <2>1. RecordsIn(host.buf \o up)  BY <1>5, <1>7 DEF UpInv, UpStream
  <2>2. Len(t) = Record  BY <1>2, <1>3, <1>7
  <2>3. host.buf \o up \in Seq(Bytes)  BY <1>4, ConcatProperties
  <2>4. RecordsIn((host.buf \o up) \o t)  BY <1>3, <2>1, <2>2, <2>3, RecordsConcat
  <2> DEFINE h == host.buf
  <2>5. h \in Seq(Bytes) /\ up \in Seq(Bytes) /\ t \in Seq(Bytes)  BY <1>3, <1>4
  <2> HIDE DEF h
  <2>6. (h \o up) \o t = h \o (up \o t)  BY <2>5, ConcatAssociative
  <2> QED  BY <2>4, <2>6 DEF h
<1>8. ASSUME ~cutUp, board # "m2" PROVE Closed(up \o t) /\ InStep(host, up \o t)
  <2>1. Closed(up) /\ InStep(host, up)  BY <1>5, <1>8 DEF UpInv, UpStream
  <2> QED  BY <2>1, <1>3, <1>4, ClosedConcat, MoreInStep
<1>9. UpStream'
  <2>1. ~cutUp' => IF board = "m2" THEN RecordsIn(host'.buf \o FromDevice')
                                   ELSE Closed(FromDevice') /\ InStep(host', FromDevice')
    BY <1>1, <1>6, <1>7, <1>8
  <2> QED  BY <2>1, <1>1 DEF UpStream, RecordsIn, Closed, After, InStep
<1> QED  BY <1>1, <1>9 DEF UpInv, HostTakesWhole

\* The device sends some of it.
LEMMA WriteUp == ASSUME Types, UpInv, DevWrites PROVE UpInv'
<1>1. UNCHANGED <<board, host, cutUp>> /\ taken' = <<>>  BY DEF DevWrites
<1>2. PICK n \in 1 .. AtMost(Len(devOut), Room - Len(up)) :
        up' = up \o TakeN(devOut, n) /\ devOut' = DropN(devOut, n)
  BY DEF DevWrites
<1>3. up \in Seq(Bytes) /\ devOut \in Seq(Bytes)  BY FromStreams
<1>4. n \in 0 .. Len(devOut)
  <2>1. Len(devOut) \in Nat /\ Len(up) \in Nat /\ Len(up) <= Room  BY <1>3 DEF Types, UpOK
  <2> QED  BY <2>1, <1>2, Consts DEF AtMost
<1> DEFINE v == TakeN(devOut, n)
           w == DropN(devOut, n)
<1>5. v \in Seq(Bytes) /\ w \in Seq(Bytes)  BY <1>3, <1>4, TakeDrop
<1>6. v \o w = devOut  BY <1>3, <1>4, TakeThenDrop
<1>7. up' = up \o v /\ devOut' = w  BY <1>2
<1> HIDE DEF v, w
<1>8. (up \o v) \o w = up \o (v \o w)
  <2>1. up \in Seq(Bytes) /\ v \in Seq(Bytes) /\ w \in Seq(Bytes)  BY <1>3, <1>5
  <2> QED  BY SMTT(20), <2>1, ConcatAssociative
<1>9. FromDevice' = FromDevice  BY <1>6, <1>7, <1>8 DEF FromDevice
<1> QED  BY <1>1, <1>9, UpSame

\* The driver of the A0 reads.
LEMMA ReadUpA0 == ASSUME Types, UpInv, HostReadsA0 PROVE UpInv'
<1>1. /\ board = "a0" /\ UNCHANGED <<board, devOut, cutUp>>
      /\ up \in Seq(Long) /\ devOut \in Seq(Long) /\ host \in Reader(Long) /\ Below(host)
  BY Subsets DEF HostReadsA0, devVars, Types, UpOK
<1>2. FromDevice' = up' \o devOut  BY <1>1 DEF FromDevice
<1>3. ASSUME ~cutUp => /\ Closed(up' \o devOut) /\ InStep(host', up' \o devOut)
                       /\ taken' # <<>> => Whole(taken', LenBytes + 1)
      PROVE  UpInv'
  <2>1. UpStream'
    BY <1>1, <1>2, <1>3 DEF UpStream, Closed, After, InStep
  <2>2. HostTakesWhole'
    BY <1>1, <1>3 DEF HostTakesWhole, Whole
  <2> QED  BY <2>1, <2>2 DEF UpInv
<1>4. ~cutUp => Closed(up \o devOut) /\ InStep(host, up \o devOut)
  BY <1>1 DEF UpInv, UpStream, FromDevice
<1>5. CASE /\ Begins(host, up, LenBytes)
           /\ host' \in Begun(up) /\ up' = DropN(up, LenBytes) /\ taken' = <<>>
  <2>1. ~host.reading /\ Len(up) >= LenBytes  BY <1>5 DEF Begins
  <2>2. ~cutUp => InStep(host', DropN(up, LenBytes) \o devOut) /\ Closed(DropN(up, LenBytes) \o devOut)
    BY <2>1, <1>1, <1>4, <1>5, ReadBegins
  <2> QED  BY <2>2, <1>3, <1>5
<1>6. CASE /\ host.reading /\ up # <<>> /\ up' = DropN(up, Piece(host, up))
           /\ LET r == Grown(host, up)
              IN  IF Len(r.buf) >= r.target
                  THEN taken' = r.buf /\ host' = NotReading
                  ELSE taken' = <<>> /\ host' = r
  <2> DEFINE g == Grown(host, up)
  <2>1. g.target = host.target
    <3>1. g = [reading |-> TRUE, target |-> host.target, buf |-> host.buf \o TakeN(up, Piece(host, up))]
      BY <1>1, <1>6, GrownType
    <3> HIDE DEF g
    <3> QED  BY <3>1
  <2>2. ~cutUp =>
        /\ Closed(up' \o devOut)
        /\ Len(g.buf) >= host.target => Whole(g.buf, LenBytes + 1) /\ InStep(NotReading, up' \o devOut)
        /\ ~(Len(g.buf) >= host.target) => InStep(g, up' \o devOut)
    BY <1>1, <1>4, <1>6, ReadGrows
  <2>3. IF Len(g.buf) >= g.target THEN taken' = g.buf /\ host' = NotReading
                                  ELSE taken' = <<>> /\ host' = g
    BY <1>6
  <2> HIDE DEF g
  <2>4. CASE Len(g.buf) >= host.target  BY <2>1, <2>2, <2>3, <2>4, <1>3
  <2>5. CASE ~(Len(g.buf) >= host.target)  BY <2>1, <2>2, <2>3, <2>5, <1>3
  <2> QED  BY <2>4, <2>5
<1> QED  BY <1>5, <1>6 DEF HostReadsA0

\* The driver of the M2 reads, and takes the records of its buffer.
LEMMA ReadUpM2 == ASSUME Types, UpInv, HostReadsM2 PROVE UpInv'
<1> DEFINE n == AtMost(Len(up), Record * Buffered - Len(host.buf))
           v == host.buf \o TakeN(up, n)
           c == Len(v) \div Record
           x == DropN(up, n) \o devOut
<1>1. /\ board = "m2" /\ UNCHANGED <<board, devOut, cutUp>>
      /\ up \in Seq(Bytes) /\ devOut \in Seq(Bytes) /\ host.buf \in Seq(Bytes)
      /\ up \in Seq(OfBoard("m2")) /\ devOut \in Seq(OfBoard("m2")) /\ host.buf \in Seq(OfBoard("m2"))
      /\ Len(up) \in Nat /\ Len(host.buf) \in Nat /\ Len(host.buf) < Record
      /\ host \in Reader(OfBoard("m2"))
  <2>1. board = "m2"  BY DEF HostReadsM2
  <2>2. UNCHANGED <<board, devOut, cutUp>>  BY DEF HostReadsM2, devVars
  <2>3. /\ up \in Seq(Bytes) /\ devOut \in Seq(Bytes) /\ host.buf \in Seq(Bytes)
        /\ up \in Seq(OfBoard("m2")) /\ devOut \in Seq(OfBoard("m2")) /\ host.buf \in Seq(OfBoard("m2"))
    BY <2>1, FromStreams
  <2>4. Len(host.buf) < Record /\ host \in Reader(OfBoard("m2"))  BY <2>1 DEF Types, UpOK
  <2>5. Len(up) \in Nat /\ Len(host.buf) \in Nat  BY <2>3
  <2> QED  BY <2>1, <2>2, <2>3, <2>4, <2>5
<1>2. /\ up' = DropN(up, n) /\ taken' = Records(v).whole
      /\ host' = [host EXCEPT !.buf = Records(v).rest]
  BY DEF HostReadsM2
<1>3. n \in 0 .. Len(up)
  <2> DEFINE room == Record * Buffered
  <2>1. room \in Nat /\ room >= Record  BY Consts
  <2> HIDE DEF room
  <2>2. Len(up) \in Nat /\ Len(host.buf) \in Nat /\ Len(host.buf) < Record /\ Record \in Nat
    BY <1>1, Consts
  <2>3. AtMost(Len(up), room - Len(host.buf)) \in 0 .. Len(up)  BY <2>1, <2>2 DEF AtMost
  <2> QED  BY <2>3 DEF room
<1> HIDE DEF n
\* The stream before the step: what is in the buffer now, and what is still to come.
<1>4. /\ TakeN(up, n) \in Seq(OfBoard("m2")) /\ DropN(up, n) \in Seq(OfBoard("m2"))
  BY <1>1, <1>3, TakeDrop
<1>5. TakeN(up, n) \o DropN(up, n) = up  BY <1>1, <1>3, TakeThenDrop
<1>6. v \in Seq(OfBoard("m2")) /\ x \in Seq(OfBoard("m2"))  BY <1>1, <1>4, ConcatProperties
<1>7. host.buf \o FromDevice = v \o x
  <2> DEFINE h == host.buf
             p == TakeN(up, n)
             q == DropN(up, n)
             S == OfBoard("m2")
  <2>1. /\ h \in Seq(S) /\ p \in Seq(S) /\ q \in Seq(S) /\ devOut \in Seq(S)
        /\ p \o q = up
    BY <1>1, <1>4, <1>5
  <2>2. FromDevice = up \o devOut  BY DEF FromDevice
  <2> HIDE DEF h, p, q, S
  <2>a. p \in Seq(S) /\ q \in Seq(S) /\ devOut \in Seq(S)  BY <2>1
  <2>3. (p \o q) \o devOut = p \o (q \o devOut)  BY <2>a, ConcatAssociative
  <2>4. q \o devOut \in Seq(S)  BY <2>1, ConcatProperties
  <2>5. (h \o p) \o (q \o devOut) = h \o (p \o (q \o devOut))
    <3> DEFINE z == q \o devOut
    <3>1. h \in Seq(S) /\ p \in Seq(S) /\ z \in Seq(S)  BY <2>1, <2>4
    <3> HIDE DEF z
    <3>2. (h \o p) \o z = h \o (p \o z)  BY <3>1, ConcatAssociative
    <3> QED  BY <3>2 DEF z
  <2>6. h \o FromDevice = (h \o p) \o (q \o devOut)  BY <2>1, <2>2, <2>3, <2>5
  <2> QED  BY <2>6 DEF h, p, q
<1>x. x = DropN(up, n) \o devOut  OBVIOUS
<1> HIDE DEF v, x
<1>8. OfBoard("m2") \subseteq Bytes  BY Subsets
<1>9. /\ v \in Seq(Bytes) /\ x \in Seq(Bytes) /\ v \o x \in Seq(OfBoard("m2"))
      /\ v \o x \in Seq(Bytes)
  <2>1. v \in Seq(Bytes) /\ x \in Seq(Bytes)  BY <1>6, <1>8, SeqSubset
  <2> QED  BY <1>6, <2>1, ConcatProperties
<1>10. /\ Len(v) \in Nat /\ Len(v \o x) = Len(v) + Len(x) /\ Len(x) \in Nat
       /\ \A i \in 1 .. Len(v) : (v \o x)[i] = v[i]
  BY <1>9, ConcatAt
<1>11. c \in Nat /\ Record * c \in 0 .. Len(v) /\ Record * c \in Nat
  <2>1. Len(v) \in Nat  BY <1>10
  <2> QED  BY <2>1, Consts
<1>12. Records(v) = [whole |-> TakeN(v, Record * c), rest |-> DropN(v, Record * c)]
  BY DEF Records
<1> HIDE DEF c
<1>13. taken' = TakeN(v, Record * c) /\ host'.buf = DropN(v, Record * c)
  <2> DEFINE w == DropN(v, Record * c)
  <2>1. taken' = TakeN(v, Record * c) /\ host' = [host EXCEPT !.buf = w]  BY <1>2, <1>12
  <2> HIDE DEF w
  <2>2. host' = [reading |-> host.reading, target |-> host.target, buf |-> w]
    BY <2>1, <1>1, Refilled
  <2>3. host'.buf = w  BY <2>2
  <2> QED  BY <2>1, <2>3 DEF w
<1>14. host'.buf \o FromDevice' = DropN(v \o x, Record * c)
  <2>1. FromDevice' = x  BY <1>1, <1>2, <1>x DEF FromDevice
  <2>2. DropN(v, Record * c) \o x = DropN(v \o x, Record * c)  BY <1>9, <1>11, DropConcat
  <2> QED  BY <1>13, <2>1, <2>2
<1>15. UpStream'
  <2>1. ASSUME ~cutUp PROVE RecordsIn(DropN(v \o x, Record * c))
    <3>1. RecordsIn(v \o x)  BY <2>1, <1>1, <1>7 DEF UpInv, UpStream
    <3>2. Record * c <= Len(v \o x)  BY <1>10, <1>11
    <3> QED  BY <3>1, <3>2, <1>9, <1>11, RecordsDrop
  <2>2. ~cutUp' => RecordsIn(host'.buf \o FromDevice')  BY <2>1, <1>1, <1>14
  <2> QED  BY <2>2, <1>1 DEF UpStream, RecordsIn, Closed, After
<1>16. HostTakesWhole'
  <2> SUFFICES ASSUME ~cutUp
               PROVE  \A i \in 0 .. Len(taken') \div Record - 1 :
                        Whole(SubSeq(taken', Record * i + 1, Record * (i + 1)), 1)
    BY <1>1 DEF HostTakesWhole, Whole
  <2>1. RecordsIn(v \o x)  BY <1>1, <1>7 DEF UpInv, UpStream
  <2>2. TakeN(v \o x, Record * c) = TakeN(v, Record * c)
    <3> DEFINE a == Record * c
               y == v \o x
    <3>1. a \in 0 .. Len(v) /\ a \in 0 .. Len(y)  BY <1>10, <1>11
    <3>2. y \in Seq(Bytes) /\ v \in Seq(Bytes) /\ \A i \in 1 .. Len(v) : y[i] = v[i]
      BY <1>9, <1>10
    <3> HIDE DEF a, y
    <3>3. TakeN(v, a) \in Seq(Bytes) /\ Len(TakeN(v, a)) = a /\ \A i \in 1 .. a : TakeN(v, a)[i] = v[i]
      BY <3>1, <3>2, TakeDrop
    <3>4. TakeN(y, a) \in Seq(Bytes) /\ Len(TakeN(y, a)) = a /\ \A i \in 1 .. a : TakeN(y, a)[i] = y[i]
      BY <3>1, <3>2, TakeDrop
    <3>5. \A i \in 1 .. a : i \in 1 .. Len(v)  BY <3>1
    <3>6. TakeN(y, a) = TakeN(v, a)  BY <3>2, <3>3, <3>4, <3>5, SeqEqual
    <3> QED  BY <3>6 DEF a, y
  <2>3. Len(taken') = Record * c
    <3>1. v \in Seq(Bytes) /\ Record * c \in 0 .. Len(v)  BY <1>9, <1>11
    <3> DEFINE a == Record * c
    <3> HIDE DEF a
    <3>2. a \in 0 .. Len(v)  BY <3>1 DEF a
    <3>3. Len(TakeN(v, a)) = a  BY <3>1, <3>2, TakeDrop
    <3> QED  BY <3>3, <1>13 DEF a
  <2>4. Len(taken') \div Record = c  BY <2>3, <1>11, Consts, DivOfMultiple
  <2>5. ASSUME NEW i \in 0 .. c - 1
        PROVE  Whole(SubSeq(taken', Record * i + 1, Record * (i + 1)), 1)
    <3>1. i \in Nat /\ i < c  BY <1>11
    <3>2. Record * c <= Len(v \o x)  BY <1>10, <1>11
    <3>3. Whole(SubSeq(TakeN(v \o x, Record * c), Record * i + 1, Record * (i + 1)), 1)
      BY <3>1, <3>2, <2>1, <1>9, <1>11, RecordsWhole
    <3> QED  BY <3>3, <2>2, <1>13
  <2> QED  BY <2>4, <2>5
<1> QED  BY <1>15, <1>16 DEF UpInv

LEMMA StepUp == Types /\ UpInv /\ [FramingNext]_vars => UpInv'
<1> SUFFICES ASSUME Types, UpInv, [FramingNext]_vars PROVE UpInv'  OBVIOUS
<1>1. ReaderWrites \/ Close \/ WriterTakes \/ WriterWrites \/ DevReads \/ UNCHANGED vars =>
        /\ UNCHANGED <<board, host, cutUp, up, devOut>> /\ (taken' = <<>> \/ taken' = taken)
  BY DEF ReaderWrites, Close, WriterTakes, WriterWrites, DevReads, vars, hostVars, devVars
<1>2. UNCHANGED <<board, host, cutUp, up, devOut>> /\ (taken' = <<>> \/ taken' = taken) => UpInv'
  <2> SUFFICES ASSUME UNCHANGED <<board, host, cutUp, up, devOut>>, taken' = <<>> \/ taken' = taken
               PROVE  UpInv'
    OBVIOUS
  <2>1. FromDevice' = FromDevice  BY DEF FromDevice
  <2> QED  BY <2>1, UpSame
<1> QED  BY <1>1, <1>2, OpenUp, SendUp, WriteUp, ReadUpA0, ReadUpM2 DEF FramingNext

\* While none of a direction's messages was cut off or mixed with another, whoever reads
\* takes whole messages, in whatever pieces the bytes come: the streams below both ends
\* are closed, and each reader stands where its own state says.
THEOREM FramingTakenWhole == FramingSpec => []TakenWhole
<1>1. FramingInit => Types /\ DownInv /\ UpInv  BY InitTypes, InitDown, InitUp
<1>2. Types /\ DownInv /\ UpInv /\ [FramingNext]_vars => (Types /\ DownInv /\ UpInv)'
  BY StepTypes, StepDown, StepUp
<1>3. Types /\ DownInv /\ UpInv => TakenWhole  BY DEF DownInv, UpInv, TakenWhole
<1> QED  BY <1>1, <1>2, <1>3, PTL DEF FramingSpec
=============================================================================
