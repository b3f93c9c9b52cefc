---------------------------- MODULE RxRingProofs ----------------------------
(***************************************************************************)
(* For every ring size: the types of RxRing, that callbacks belong to      *)
(* filters, and that the ring with its interrupt implements FilterQueue.   *)
(*                                                                         *)
(* The invariant says what the loop may have still to do ("todo" is one of *)
(* a few sequences) and, for each, where the callback is set, the ring     *)
(* empty and the mailbox programmed for its filter.                        *)
(***************************************************************************)
EXTENDS RxRing, SequenceTheorems, TLAPS

\* What is left of a call: of setup, of destroy and delete (on a mailbox that
\* disableCanBus clears, and on one it does not), of removeFilter, of addFilter.
Opening == {<<"init", "mask", "head", "tail", "unhook", "new">>,
            <<"mask", "head", "tail", "unhook", "new">>, <<"head", "tail", "unhook", "new">>,
            <<"tail", "unhook", "new">>, <<"unhook", "new">>, <<"new">>, <<"fail">>}

Masking == {<<"off", "mask", "head", "tail", "unhook", "delete">>,
            <<"mask", "head", "tail", "unhook", "delete">>,
            <<"head", "tail", "unhook", "delete">>, <<"tail", "unhook", "delete">>,
            <<"unhook", "delete">>}

Deleting == {<<"off", "delete">>, <<"delete">>}

Removing == {<<"mask", "head", "tail", "unhook">>, <<"head", "tail", "unhook">>,
             <<"tail", "unhook">>, <<"unhook">>}

Setting == {<<"mask", "id", "head", "tail", "unhook", "head", "tail", "hook", "use">>,
            <<"id", "head", "tail", "unhook", "head", "tail", "hook", "use">>,
            <<"head", "tail", "unhook", "head", "tail", "hook", "use">>,
            <<"tail", "unhook", "head", "tail", "hook", "use">>,
            <<"unhook", "head", "tail", "hook", "use">>, <<"head", "tail", "hook", "use">>,
            <<"tail", "hook", "use">>, <<"hook", "use">>, <<"use">>}

Todos == Opening \cup Masking \cup Deleting \cup Removing \cup Setting \cup {<<>>, <<"advance">>}

Last(t) == t[Len(t)]

\* How far the call is.  That of addFilter is followed closely: the mailbox
\* gets its filter ("tuning"), the old ring is emptied ("emptying"), the new
\* one's head and tail are reset, the callback is set ("hook").
Kind(t) ==
  IF Len(t) = 0 THEN "idle"
  ELSE IF Last(t) \in {"new", "fail"} THEN "opening"
  ELSE IF Last(t) = "delete" THEN IF t \in Deleting THEN "deleting" ELSE "masking"
  ELSE IF Last(t) = "unhook" THEN "removing"
  ELSE IF Last(t) = "advance" THEN "popping"
  ELSE IF Len(t) = 1 THEN "hooked" ELSE IF Len(t) = 2 THEN "hook"
  ELSE IF Len(t) = 3 THEN "tail" ELSE IF Len(t) = 4 THEN "head"
  ELSE IF Len(t) \in 5 .. 7 THEN "emptying" ELSE "tuning"

Adding == {"tuning", "emptying", "head", "tail", "hook", "hooked"}

Calls ==
  /\ todo \in Todos
  /\ Kind(todo) = "opening" => ~chan
  /\ Kind(todo) \in Adding => chan /\ ~used /\ sets > 0
  /\ Kind(todo) = "removing" => chan /\ ~used
  /\ Kind(todo) = "popping" => chan /\ used /\ head # tail /\ frame = buf[tail]
  /\ used => chan

Programmed == Kind(todo) \in Adding \ {"tuning"} \/ Filtered => accept = sets /\ sets > 0

Emptied ==
  /\ Kind(todo) \in {"head", "tail", "hook"} => ~hook
  /\ Kind(todo) \in {"tail", "hook"} => head = 0
  /\ Kind(todo) = "hook" => tail = 0

Hooked == hook /\ board # "a0high" => Filtered \/ Kind(todo) \in {"masking", "removing"}

RInv == RingTypeOK /\ Calls /\ Programmed /\ Emptied /\ Hooked

\* Writing w, a call of kind k becomes one of kind l.
Move(w, k, l) ==
  \/ w \in {"init", "mask", "head", "tail", "unhook"} /\ k = "opening" /\ l = "opening"
  \/ w \in {"new", "fail"} /\ k = "opening" /\ l = "idle"
  \/ w \in {"off", "mask", "head", "tail"} /\ k = "masking" /\ l = "masking"
  \/ w = "unhook" /\ k = "masking" /\ l = "deleting"
  \/ w = "off" /\ k = "deleting" /\ l = "deleting"
  \/ w = "delete" /\ k = "deleting" /\ l = "idle"
  \/ w \in {"mask", "head", "tail"} /\ k = "removing" /\ l = "removing"
  \/ w = "unhook" /\ k = "removing" /\ l = "idle"
  \/ w = "mask" /\ k = "tuning" /\ l = "tuning"
  \/ w = "id" /\ k = "tuning" /\ l = "emptying"
  \/ w \in {"head", "tail"} /\ k = "emptying" /\ l = "emptying"
  \/ w = "unhook" /\ k = "emptying" /\ l = "head"
  \/ w = "head" /\ k = "head" /\ l = "tail"
  \/ w = "tail" /\ k = "tail" /\ l = "hook"
  \/ w = "hook" /\ k = "hook" /\ l = "hooked"
  \/ w = "use" /\ k = "hooked" /\ l = "idle"
  \/ w = "advance" /\ k = "popping" /\ l = "idle"
-----------------------------------------------------------------------------
(* The sequences of the calls *)

Words == {"init", "mask", "id", "head", "tail", "unhook", "hook", "new", "fail", "off", "delete",
          "use", "advance"}

LEMMA Concatenations ==
  /\ <<"mask", "id">> \o <<"head", "tail", "unhook">>
       = <<"mask", "id", "head", "tail", "unhook">>
  /\ <<"mask", "id", "head", "tail", "unhook">> \o <<"head", "tail", "hook">>
       = <<"mask", "id", "head", "tail", "unhook", "head", "tail", "hook">>
  /\ <<"mask", "id", "head", "tail", "unhook", "head", "tail", "hook">> \o <<"use">>
       = <<"mask", "id", "head", "tail", "unhook", "head", "tail", "hook", "use">>
  /\ <<"mask">> \o <<"head", "tail", "unhook">> = <<"mask", "head", "tail", "unhook">>
  /\ <<"init", "mask">> \o <<"head", "tail", "unhook">>
       = <<"init", "mask", "head", "tail", "unhook">>
  /\ <<"init", "mask", "head", "tail", "unhook">> \o <<"new">>
       = <<"init", "mask", "head", "tail", "unhook", "new">>
  /\ <<"off">> \o <<"mask", "head", "tail", "unhook">>
       = <<"off", "mask", "head", "tail", "unhook">>
  /\ <<"off", "mask", "head", "tail", "unhook">> \o <<"delete">>
       = <<"off", "mask", "head", "tail", "unhook", "delete">>
  /\ <<"off">> \o <<"delete">> = <<"off", "delete">>
  /\ <<"off">> \o <<>> = <<"off">>
<1>1. <<"mask", "id">> \o <<"head", "tail", "unhook">>
       = <<"mask", "id", "head", "tail", "unhook">>
  <2> DEFINE v == <<"mask", "id">> \o <<"head", "tail", "unhook">>
  <2>1. v \in Seq(Words) /\ Len(v) = 5
    BY ConcatProperties DEF Words
  <2>2. v[1] = "mask" /\ v[2] = "id" /\ v[3] = "head" /\ v[4] = "tail" /\ v[5] = "unhook"
    BY ConcatProperties DEF Words
  <2> HIDE DEF v
  <2>3. v = <<"mask", "id", "head", "tail", "unhook">>
    BY <2>1, <2>2
  <2> QED BY <2>3 DEF v
<1>2. <<"mask", "id", "head", "tail", "unhook">> \o <<"head", "tail", "hook">>
       = <<"mask", "id", "head", "tail", "unhook", "head", "tail", "hook">>
  <2> DEFINE v == <<"mask", "id", "head", "tail", "unhook">> \o <<"head", "tail", "hook">>
  <2>1. v \in Seq(Words) /\ Len(v) = 8
    BY ConcatProperties DEF Words
  <2>2. v[1] = "mask" /\ v[2] = "id" /\ v[3] = "head" /\ v[4] = "tail" /\ v[5] = "unhook" /\
        v[6] = "head" /\ v[7] = "tail" /\ v[8] = "hook"
    BY ConcatProperties DEF Words
  <2> HIDE DEF v
  <2>3. v = <<"mask", "id", "head", "tail", "unhook", "head", "tail", "hook">>
    BY <2>1, <2>2
  <2> QED BY <2>3 DEF v
<1>3. <<"mask", "id", "head", "tail", "unhook", "head", "tail", "hook">> \o <<"use">>
       = <<"mask", "id", "head", "tail", "unhook", "head", "tail", "hook", "use">>
  <2> DEFINE v == <<"mask", "id", "head", "tail", "unhook", "head", "tail", "hook">> \o <<"use">>
  <2>1. v \in Seq(Words) /\ Len(v) = 9
    BY ConcatProperties DEF Words
  <2>2. v[1] = "mask" /\ v[2] = "id" /\ v[3] = "head" /\ v[4] = "tail" /\ v[5] = "unhook" /\
        v[6] = "head" /\ v[7] = "tail" /\ v[8] = "hook" /\ v[9] = "use"
    BY ConcatProperties DEF Words
  <2> HIDE DEF v
  <2>3. v = <<"mask", "id", "head", "tail", "unhook", "head", "tail", "hook", "use">>
    BY <2>1, <2>2
  <2> QED BY <2>3 DEF v
<1>4. <<"mask">> \o <<"head", "tail", "unhook">> = <<"mask", "head", "tail", "unhook">>
  <2> DEFINE v == <<"mask">> \o <<"head", "tail", "unhook">>
  <2>1. v \in Seq(Words) /\ Len(v) = 4
    BY ConcatProperties DEF Words
  <2>2. v[1] = "mask" /\ v[2] = "head" /\ v[3] = "tail" /\ v[4] = "unhook"
    BY ConcatProperties DEF Words
  <2> HIDE DEF v
  <2>3. v = <<"mask", "head", "tail", "unhook">>
    BY <2>1, <2>2
  <2> QED BY <2>3 DEF v
<1>5. <<"init", "mask">> \o <<"head", "tail", "unhook">>
       = <<"init", "mask", "head", "tail", "unhook">>
  <2> DEFINE v == <<"init", "mask">> \o <<"head", "tail", "unhook">>
  <2>1. v \in Seq(Words) /\ Len(v) = 5
    BY ConcatProperties DEF Words
  <2>2. v[1] = "init" /\ v[2] = "mask" /\ v[3] = "head" /\ v[4] = "tail" /\ v[5] = "unhook"
    BY ConcatProperties DEF Words
  <2> HIDE DEF v
  <2>3. v = <<"init", "mask", "head", "tail", "unhook">>
    BY <2>1, <2>2
  <2> QED BY <2>3 DEF v
<1>6. <<"init", "mask", "head", "tail", "unhook">> \o <<"new">>
       = <<"init", "mask", "head", "tail", "unhook", "new">>
  <2> DEFINE v == <<"init", "mask", "head", "tail", "unhook">> \o <<"new">>
  <2>1. v \in Seq(Words) /\ Len(v) = 6
    BY ConcatProperties DEF Words
  <2>2. v[1] = "init" /\ v[2] = "mask" /\ v[3] = "head" /\ v[4] = "tail" /\ v[5] = "unhook" /\
        v[6] = "new"
    BY ConcatProperties DEF Words
  <2> HIDE DEF v
  <2>3. v = <<"init", "mask", "head", "tail", "unhook", "new">>
    BY <2>1, <2>2
  <2> QED BY <2>3 DEF v
<1>7. <<"off">> \o <<"mask", "head", "tail", "unhook">>
       = <<"off", "mask", "head", "tail", "unhook">>
  <2> DEFINE v == <<"off">> \o <<"mask", "head", "tail", "unhook">>
  <2>1. v \in Seq(Words) /\ Len(v) = 5
    BY ConcatProperties DEF Words
  <2>2. v[1] = "off" /\ v[2] = "mask" /\ v[3] = "head" /\ v[4] = "tail" /\ v[5] = "unhook"
    BY ConcatProperties DEF Words
  <2> HIDE DEF v
  <2>3. v = <<"off", "mask", "head", "tail", "unhook">>
    BY <2>1, <2>2
  <2> QED BY <2>3 DEF v
<1>8. <<"off", "mask", "head", "tail", "unhook">> \o <<"delete">>
       = <<"off", "mask", "head", "tail", "unhook", "delete">>
  <2> DEFINE v == <<"off", "mask", "head", "tail", "unhook">> \o <<"delete">>
  <2>1. v \in Seq(Words) /\ Len(v) = 6
    BY ConcatProperties DEF Words
  <2>2. v[1] = "off" /\ v[2] = "mask" /\ v[3] = "head" /\ v[4] = "tail" /\ v[5] = "unhook" /\
        v[6] = "delete"
    BY ConcatProperties DEF Words
  <2> HIDE DEF v
  <2>3. v = <<"off", "mask", "head", "tail", "unhook", "delete">>
    BY <2>1, <2>2
  <2> QED BY <2>3 DEF v
<1>9. <<"off">> \o <<"delete">> = <<"off", "delete">>
  <2> DEFINE v == <<"off">> \o <<"delete">>
  <2>1. v \in Seq(Words) /\ Len(v) = 2
    BY ConcatProperties DEF Words
  <2>2. v[1] = "off" /\ v[2] = "delete"
    BY ConcatProperties DEF Words
  <2> HIDE DEF v
  <2>3. v = <<"off", "delete">>
    BY <2>1, <2>2
  <2> QED BY <2>3 DEF v
<1>10. <<"off">> \o <<>> = <<"off">>
  BY ConcatEmptySeq DEF Words
<1> QED BY <1>1, <1>2, <1>3, <1>4, <1>5, <1>6, <1>7, <1>8, <1>9, <1>10

LEMMA CallSequences ==
  /\ EnableCanFilter \o <<"use">>
       = <<"mask", "id", "head", "tail", "unhook", "head", "tail", "hook", "use">>
  /\ DisableCanFilter = <<"mask", "head", "tail", "unhook">>
  /\ EnableCanBus \o <<"new">> = <<"init", "mask", "head", "tail", "unhook", "new">>
  /\ DisableCanBus \o <<"delete">> =
       IF board = "a0high" THEN <<"off", "delete">>
       ELSE <<"off", "mask", "head", "tail", "unhook", "delete">>
BY Concatenations
   DEF EnableCanFilter, DisableCanFilter, EnableCanBus, DisableCanBus, DeleteRing, CreateRing

LEMMA OpeningKinds ==
  /\ Kind(<<"init", "mask", "head", "tail", "unhook", "new">>) = "opening"
  /\ Kind(<<"mask", "head", "tail", "unhook", "new">>) = "opening"
  /\ Kind(<<"head", "tail", "unhook", "new">>) = "opening"
  /\ Kind(<<"tail", "unhook", "new">>) = "opening"
  /\ Kind(<<"unhook", "new">>) = "opening"
  /\ Kind(<<"new">>) = "opening"
  /\ Kind(<<"fail">>) = "opening"
BY DEF Kind, Last

LEMMA OpeningSteps ==
  /\ Head(<<"init", "mask", "head", "tail", "unhook", "new">>) = "init"
  /\ Tail(<<"init", "mask", "head", "tail", "unhook", "new">>)
       = <<"mask", "head", "tail", "unhook", "new">>
  /\ Head(<<"mask", "head", "tail", "unhook", "new">>) = "mask"
  /\ Tail(<<"mask", "head", "tail", "unhook", "new">>) = <<"head", "tail", "unhook", "new">>
  /\ Head(<<"head", "tail", "unhook", "new">>) = "head"
  /\ Tail(<<"head", "tail", "unhook", "new">>) = <<"tail", "unhook", "new">>
  /\ Head(<<"tail", "unhook", "new">>) = "tail"
  /\ Tail(<<"tail", "unhook", "new">>) = <<"unhook", "new">>
  /\ Head(<<"unhook", "new">>) = "unhook"
  /\ Tail(<<"unhook", "new">>) = <<"new">>
  /\ Head(<<"new">>) = "new"
  /\ Tail(<<"new">>) = <<>>
  /\ Head(<<"fail">>) = "fail"
  /\ Tail(<<"fail">>) = <<>>
OBVIOUS

LEMMA MaskingKinds ==
  /\ Kind(<<"off", "mask", "head", "tail", "unhook", "delete">>) = "masking"
  /\ Kind(<<"mask", "head", "tail", "unhook", "delete">>) = "masking"
  /\ Kind(<<"head", "tail", "unhook", "delete">>) = "masking"
  /\ Kind(<<"tail", "unhook", "delete">>) = "masking"
  /\ Kind(<<"unhook", "delete">>) = "masking"
BY DEF Kind, Last, Deleting

LEMMA MaskingSteps ==
  /\ Head(<<"off", "mask", "head", "tail", "unhook", "delete">>) = "off"
  /\ Tail(<<"off", "mask", "head", "tail", "unhook", "delete">>)
       = <<"mask", "head", "tail", "unhook", "delete">>
  /\ Head(<<"mask", "head", "tail", "unhook", "delete">>) = "mask"
  /\ Tail(<<"mask", "head", "tail", "unhook", "delete">>)
       = <<"head", "tail", "unhook", "delete">>
  /\ Head(<<"head", "tail", "unhook", "delete">>) = "head"
  /\ Tail(<<"head", "tail", "unhook", "delete">>) = <<"tail", "unhook", "delete">>
  /\ Head(<<"tail", "unhook", "delete">>) = "tail"
  /\ Tail(<<"tail", "unhook", "delete">>) = <<"unhook", "delete">>
  /\ Head(<<"unhook", "delete">>) = "unhook"
  /\ Tail(<<"unhook", "delete">>) = <<"delete">>
OBVIOUS

LEMMA DeletingKinds ==
  /\ Kind(<<"off", "delete">>) = "deleting"
  /\ Kind(<<"delete">>) = "deleting"
BY DEF Kind, Last, Deleting

LEMMA DeletingSteps ==
  /\ Head(<<"off", "delete">>) = "off"
  /\ Tail(<<"off", "delete">>) = <<"delete">>
  /\ Head(<<"delete">>) = "delete"
  /\ Tail(<<"delete">>) = <<>>
OBVIOUS

LEMMA RemovingKinds ==
  /\ Kind(<<"mask", "head", "tail", "unhook">>) = "removing"
  /\ Kind(<<"head", "tail", "unhook">>) = "removing"
  /\ Kind(<<"tail", "unhook">>) = "removing"
  /\ Kind(<<"unhook">>) = "removing"
BY DEF Kind, Last

LEMMA RemovingSteps ==
  /\ Head(<<"mask", "head", "tail", "unhook">>) = "mask"
  /\ Tail(<<"mask", "head", "tail", "unhook">>) = <<"head", "tail", "unhook">>
  /\ Head(<<"head", "tail", "unhook">>) = "head"
  /\ Tail(<<"head", "tail", "unhook">>) = <<"tail", "unhook">>
  /\ Head(<<"tail", "unhook">>) = "tail"
  /\ Tail(<<"tail", "unhook">>) = <<"unhook">>
  /\ Head(<<"unhook">>) = "unhook"
  /\ Tail(<<"unhook">>) = <<>>
OBVIOUS

LEMMA SettingKinds ==
  /\ Kind(<<"mask", "id", "head", "tail", "unhook", "head", "tail", "hook", "use">>) = "tuning"
  /\ Kind(<<"id", "head", "tail", "unhook", "head", "tail", "hook", "use">>) = "tuning"
  /\ Kind(<<"head", "tail", "unhook", "head", "tail", "hook", "use">>) = "emptying"
  /\ Kind(<<"tail", "unhook", "head", "tail", "hook", "use">>) = "emptying"
  /\ Kind(<<"unhook", "head", "tail", "hook", "use">>) = "emptying"
  /\ Kind(<<"head", "tail", "hook", "use">>) = "head"
  /\ Kind(<<"tail", "hook", "use">>) = "tail"
  /\ Kind(<<"hook", "use">>) = "hook"
  /\ Kind(<<"use">>) = "hooked"
BY DEF Kind, Last

LEMMA SettingSteps ==
  /\ Head(<<"mask", "id", "head", "tail", "unhook", "head", "tail", "hook", "use">>) = "mask"
  /\ Tail(<<"mask", "id", "head", "tail", "unhook", "head", "tail", "hook", "use">>)
       = <<"id", "head", "tail", "unhook", "head", "tail", "hook", "use">>
  /\ Head(<<"id", "head", "tail", "unhook", "head", "tail", "hook", "use">>) = "id"
  /\ Tail(<<"id", "head", "tail", "unhook", "head", "tail", "hook", "use">>)
       = <<"head", "tail", "unhook", "head", "tail", "hook", "use">>
  /\ Head(<<"head", "tail", "unhook", "head", "tail", "hook", "use">>) = "head"
  /\ Tail(<<"head", "tail", "unhook", "head", "tail", "hook", "use">>)
       = <<"tail", "unhook", "head", "tail", "hook", "use">>
  /\ Head(<<"tail", "unhook", "head", "tail", "hook", "use">>) = "tail"
  /\ Tail(<<"tail", "unhook", "head", "tail", "hook", "use">>)
       = <<"unhook", "head", "tail", "hook", "use">>
  /\ Head(<<"unhook", "head", "tail", "hook", "use">>) = "unhook"
  /\ Tail(<<"unhook", "head", "tail", "hook", "use">>) = <<"head", "tail", "hook", "use">>
  /\ Head(<<"head", "tail", "hook", "use">>) = "head"
  /\ Tail(<<"head", "tail", "hook", "use">>) = <<"tail", "hook", "use">>
  /\ Head(<<"tail", "hook", "use">>) = "tail"
  /\ Tail(<<"tail", "hook", "use">>) = <<"hook", "use">>
  /\ Head(<<"hook", "use">>) = "hook"
  /\ Tail(<<"hook", "use">>) = <<"use">>
  /\ Head(<<"use">>) = "use"
  /\ Tail(<<"use">>) = <<>>
OBVIOUS

LEMMA ShortKinds ==
  /\ Kind(<<>>) = "idle" /\ Kind(<<"advance">>) = "popping"
  /\ Head(<<"advance">>) = "advance" /\ Tail(<<"advance">>) = <<>>
BY DEF Kind, Last

LEMMA Begins ==
  /\ Kind(EnableCanFilter \o <<"use">>) = "tuning" /\ EnableCanFilter \o <<"use">> \in Todos
  /\ Kind(DisableCanFilter) = "removing" /\ DisableCanFilter \in Todos
  /\ Kind(EnableCanBus \o <<"new">>) = "opening" /\ EnableCanBus \o <<"new">> \in Todos
  /\ Kind(<<"fail">>) = "opening" /\ <<"fail">> \in Todos
  /\ Kind(DisableCanBus \o <<"delete">>) = (IF board = "a0high" THEN "deleting" ELSE "masking")
  /\ DisableCanBus \o <<"delete">> \in Todos
  /\ Kind(<<"advance">>) = "popping" /\ <<"advance">> \in Todos
<1>1. Kind(EnableCanFilter \o <<"use">>) = "tuning" /\ EnableCanFilter \o <<"use">> \in Todos
  BY CallSequences, SettingKinds DEF Todos, Setting
<1>2. Kind(DisableCanFilter) = "removing" /\ DisableCanFilter \in Todos
  BY CallSequences, RemovingKinds DEF Todos, Removing
<1>3. Kind(EnableCanBus \o <<"new">>) = "opening" /\ EnableCanBus \o <<"new">> \in Todos
  BY CallSequences, OpeningKinds DEF Todos, Opening
<1>4. Kind(<<"fail">>) = "opening" /\ <<"fail">> \in Todos
  BY OpeningKinds DEF Todos, Opening
<1>5. /\ Kind(DisableCanBus \o <<"delete">>) = (IF board = "a0high" THEN "deleting" ELSE "masking")
      /\ DisableCanBus \o <<"delete">> \in Todos
  BY CallSequences, DeletingKinds, MaskingKinds DEF Todos, Deleting, Masking
<1>6. Kind(<<"advance">>) = "popping" /\ <<"advance">> \in Todos
  BY ShortKinds DEF Todos
<1> QED BY <1>1, <1>2, <1>3, <1>4, <1>5, <1>6

LEMMA Goes ==
  ASSUME NEW t \in Todos, t # <<>>
  PROVE  Tail(t) \in Todos /\ Move(Head(t), Kind(t), Kind(Tail(t)))
<1>1. CASE t \in Opening
  BY <1>1, OpeningKinds, OpeningSteps, ShortKinds DEF Opening, Todos, Move
<1>2. CASE t \in Masking
  BY <1>2, MaskingKinds, DeletingKinds, MaskingSteps DEF Masking, Deleting, Todos, Move
<1>3. CASE t \in Deleting
  BY <1>3, DeletingKinds, DeletingSteps, ShortKinds DEF Deleting, Todos, Move
<1>4. CASE t \in Removing
  BY <1>4, RemovingKinds, RemovingSteps, ShortKinds DEF Removing, Todos, Move
<1>5. CASE t \in Setting
  BY <1>5, SettingKinds, SettingSteps, ShortKinds, ZenonT(30) DEF Setting, Todos, Move
<1>6. CASE t = <<"advance">>
  BY <1>6, ShortKinds DEF Todos, Move
<1> QED BY <1>1, <1>2, <1>3, <1>4, <1>5, <1>6 DEF Todos

LEMMA KindOf ==
  ASSUME NEW t \in Todos
  PROVE  /\ Kind(t) = "idle" <=> t = <<>>
         /\ Kind(t) = "popping" <=> t = <<"advance">>
         /\ Kind(t) = "hooked" <=> t = <<"use">>
<1>1. Kind(<<"use">>) = "hooked"
  BY SettingKinds
<1>2. CASE t \in Opening
  BY <1>1, <1>2, OpeningKinds, ShortKinds DEF Opening
<1>3. CASE t \in Masking
  BY <1>1, <1>3, MaskingKinds, ShortKinds DEF Masking
<1>4. CASE t \in Deleting
  BY <1>1, <1>4, DeletingKinds, ShortKinds DEF Deleting
<1>5. CASE t \in Removing
  BY <1>1, <1>5, RemovingKinds, ShortKinds DEF Removing
<1>6. CASE t \in Setting
  BY <1>1, <1>6, SettingKinds, ShortKinds DEF Setting
<1>7. CASE t \in {<<>>, <<"advance">>}
  BY <1>1, <1>7, ShortKinds
<1> QED BY <1>2, <1>3, <1>4, <1>5, <1>6, <1>7 DEF Todos
-----------------------------------------------------------------------------
(* The ring as a sequence *)

WaitingOf(h, t) == (h + RingSize - t) % RingSize
Slot(t, k) == (t + k - 1) % RingSize
ContentsOf(h, t, b) == [k \in 1 .. WaitingOf(h, t) |-> b[Slot(t, k)]]

\* Modulo RingSize, below twice RingSize.
LEMMA Wrap ==
  ASSUME NEW x \in 0 .. 2 * RingSize - 1
  PROVE  x % RingSize = IF x < RingSize THEN x ELSE x - RingSize
<1>1. CASE x < RingSize
  BY <1>1, RingAssumption
<1>2. CASE ~(x < RingSize)
  <2> DEFINE y == x - RingSize
  <2>1. y \in 0 .. RingSize - 1 /\ x = y + RingSize
    BY <1>2, RingAssumption
  <2>2. (y + RingSize) % RingSize = y
    BY <2>1, RingAssumption
  <2> QED BY <1>2, <2>1, <2>2
<1> QED BY <1>1, <1>2

LEMMA SuccIs ==
  ASSUME NEW i \in Index
  PROVE  Succ(i) \in Index /\ Succ(i) = IF i = RingSize - 1 THEN 0 ELSE i + 1
BY RingAssumption, Wrap DEF Succ, Index

LEMMA WaitingIs ==
  ASSUME NEW h \in Index, NEW t \in Index
  PROVE  /\ WaitingOf(h, t) = IF t <= h THEN h - t ELSE h + RingSize - t
         /\ WaitingOf(h, t) \in Index
BY RingAssumption, Wrap DEF WaitingOf, Index

LEMMA SlotIs ==
  ASSUME NEW t \in Index, NEW k \in 1 .. RingSize
  PROVE  /\ Slot(t, k) = IF t + k - 1 < RingSize THEN t + k - 1 ELSE t + k - 1 - RingSize
         /\ Slot(t, k) \in Index
<1>1. t + k - 1 \in 0 .. 2 * RingSize - 1
  BY RingAssumption DEF Index
<1> QED BY <1>1, RingAssumption, Wrap DEF Slot, Index

LEMMA WaitingBelow ==
  ASSUME NEW h \in Index, NEW t \in Index
  PROVE  /\ WaitingOf(h, t) \in Nat /\ WaitingOf(h, t) < RingSize
         /\ \A k \in 1 .. WaitingOf(h, t) : Slot(t, k) \in Index
<1>1. WaitingOf(h, t) \in Nat /\ WaitingOf(h, t) < RingSize
  BY WaitingIs, RingAssumption DEF Index
<1> QED BY <1>1, SlotIs, RingAssumption

LEMMA PushSlots ==
  ASSUME NEW h \in Index, NEW t \in Index, Succ(h) # t
  PROVE  /\ WaitingOf(h, t) < RingSize - 1
         /\ WaitingOf(Succ(h), t) = WaitingOf(h, t) + 1
         /\ Slot(t, WaitingOf(h, t) + 1) = h
         /\ \A k \in 1 .. WaitingOf(h, t) : Slot(t, k) # h
<1> DEFINE n == WaitingOf(h, t)
<1>a. Succ(h) \in Index /\ Succ(h) = IF h = RingSize - 1 THEN 0 ELSE h + 1
  BY SuccIs
<1>b. n = IF t <= h THEN h - t ELSE h + RingSize - t
  BY WaitingIs
<1>c. WaitingOf(Succ(h), t) = IF t <= Succ(h) THEN Succ(h) - t ELSE Succ(h) + RingSize - t
  BY <1>a, WaitingIs
<1>1. n \in Nat /\ n < RingSize - 1 /\ WaitingOf(Succ(h), t) = n + 1
  BY <1>a, <1>b, <1>c, RingAssumption DEF Index
<1> HIDE DEF n
<1>d. ASSUME NEW k \in 1 .. n + 1
      PROVE  Slot(t, k) = IF t + k - 1 < RingSize THEN t + k - 1 ELSE t + k - 1 - RingSize
  BY <1>1, SlotIs, RingAssumption
<1>2. Slot(t, n + 1) = h
  BY <1>1, <1>b, <1>d, RingAssumption DEF Index
<1>3. ASSUME NEW k \in 1 .. n PROVE Slot(t, k) # h
  <2>1. Slot(t, k) = IF t + k - 1 < RingSize THEN t + k - 1 ELSE t + k - 1 - RingSize
    BY <1>1, <1>d
  <2> QED BY <1>1, <1>b, <2>1, RingAssumption DEF Index
<1> USE DEF n
<1> QED BY <1>1, <1>2, <1>3

LEMMA PopSlots ==
  ASSUME NEW h \in Index, NEW t \in Index, h # t
  PROVE  /\ WaitingOf(h, t) > 0
         /\ WaitingOf(h, Succ(t)) = WaitingOf(h, t) - 1
         /\ Slot(t, 1) = t
         /\ \A k \in 1 .. WaitingOf(h, t) - 1 : Slot(Succ(t), k) = Slot(t, k + 1)
<1>a. Succ(t) \in Index /\ Succ(t) = IF t = RingSize - 1 THEN 0 ELSE t + 1
  BY SuccIs
<1>b. WaitingOf(h, t) = IF t <= h THEN h - t ELSE h + RingSize - t
  BY WaitingIs
<1>c. WaitingOf(h, Succ(t)) = IF Succ(t) <= h THEN h - Succ(t) ELSE h + RingSize - Succ(t)
  BY <1>a, WaitingIs
<1>1. /\ WaitingOf(h, t) > 0 /\ WaitingOf(h, t) \in Nat /\ WaitingOf(h, t) < RingSize
      /\ WaitingOf(h, Succ(t)) = WaitingOf(h, t) - 1
  BY <1>a, <1>b, <1>c, RingAssumption DEF Index
<1>2. Slot(t, 1) = t
  BY SlotIs, RingAssumption DEF Index
<1>3. ASSUME NEW k \in 1 .. WaitingOf(h, t) - 1 PROVE Slot(Succ(t), k) = Slot(t, k + 1)
  <2>1. k \in 1 .. RingSize /\ k + 1 \in 1 .. RingSize
    BY <1>1, RingAssumption
  <2>2. Slot(t, k + 1) = IF t + k < RingSize THEN t + k ELSE t + k - RingSize
    <3>1. t + (k + 1) - 1 = t + k
      BY <2>1 DEF Index
    <3> QED BY <2>1, <3>1, SlotIs
  <2>3. Slot(Succ(t), k) = IF Succ(t) + k - 1 < RingSize THEN Succ(t) + k - 1
                           ELSE Succ(t) + k - 1 - RingSize
    BY <1>a, <2>1, SlotIs
  <2> QED BY <1>a, <2>1, <2>2, <2>3, RingAssumption DEF Index
<1> QED BY <1>1, <1>2, <1>3

LEMMA ContentsSeq ==
  ASSUME NEW h \in Index, NEW t \in Index, NEW b \in [Index -> Frames]
  PROVE  /\ ContentsOf(h, t, b) \in Seq(Frames)
         /\ Len(ContentsOf(h, t, b)) = WaitingOf(h, t)
         /\ \A k \in 1 .. WaitingOf(h, t) : ContentsOf(h, t, b)[k] = b[Slot(t, k)]
<1> DEFINE n == WaitingOf(h, t)
<1> DEFINE c == ContentsOf(h, t, b)
<1>1. n \in Nat /\ \A k \in 1 .. n : Slot(t, k) \in Index
  BY WaitingBelow
<1>2. c = [k \in 1 .. n |-> b[Slot(t, k)]]
  BY DEF ContentsOf
<1>3. c \in [1 .. n -> Frames]
  BY <1>1, <1>2
<1>4. c \in Seq(Frames)
  BY <1>1, <1>3, SeqDef
<1> HIDE DEF n, c
<1>5. DOMAIN c = 1 .. Len(c) /\ Len(c) \in Nat
  BY <1>4, LenProperties
<1>6. Len(c) = n
  BY <1>1, <1>3, <1>5
<1>7. \A k \in 1 .. n : c[k] = b[Slot(t, k)]
  BY <1>2
<1> QED BY <1>4, <1>6, <1>7 DEF n, c

LEMMA Pushing ==
  ASSUME NEW h \in Index, NEW t \in Index, NEW b \in [Index -> Frames], NEW f \in Frames,
         Succ(h) # t
  PROVE  /\ Len(ContentsOf(h, t, b)) < RingSize - 1
         /\ ContentsOf(Succ(h), t, [b EXCEPT ![h] = f]) = Append(ContentsOf(h, t, b), f)
<1> DEFINE n == WaitingOf(h, t)
<1> DEFINE d == [b EXCEPT ![h] = f]
<1> DEFINE c == ContentsOf(h, t, b)
<1> DEFINE e == ContentsOf(Succ(h), t, d)
<1>1. /\ n \in Nat /\ n < RingSize - 1 /\ WaitingOf(Succ(h), t) = n + 1 /\ Slot(t, n + 1) = h
      /\ \A k \in 1 .. n : Slot(t, k) \in Index /\ Slot(t, k) # h
  BY WaitingBelow, PushSlots
<1>2. d \in [Index -> Frames] /\ Succ(h) \in Index
  BY SuccIs
<1>3. c \in Seq(Frames) /\ Len(c) = n /\ \A k \in 1 .. n : c[k] = b[Slot(t, k)]
  BY ContentsSeq
<1>4. /\ e \in Seq(Frames) /\ Len(e) = WaitingOf(Succ(h), t)
      /\ \A k \in 1 .. WaitingOf(Succ(h), t) : e[k] = d[Slot(t, k)]
  BY <1>2, ContentsSeq, ZenonT(30)
<1>5. d[h] = f /\ \A i \in Index : i # h => d[i] = b[i]
  OBVIOUS
<1> HIDE DEF n, d, c, e
<1>6. \A k \in 1 .. n : e[k] = c[k]
  BY <1>1, <1>3, <1>4, <1>5
<1>7. e[n + 1] = f /\ Len(e) = n + 1
  BY <1>1, <1>4, <1>5
<1>8. /\ Append(c, f) \in Seq(Frames) /\ Len(Append(c, f)) = n + 1
      /\ Append(c, f)[n + 1] = f
      /\ \A k \in 1 .. n : Append(c, f)[k] = c[k]
  BY <1>3, AppendProperties
<1>9. \A k \in 1 .. n + 1 : e[k] = Append(c, f)[k]
  BY <1>1, <1>6, <1>7, <1>8
<1>10. e = Append(c, f)
  BY <1>4, <1>7, <1>8, <1>9, SeqEqual
<1> QED BY <1>1, <1>3, <1>10 DEF d, c, e

LEMMA Full ==
  ASSUME NEW h \in Index, NEW t \in Index, NEW b \in [Index -> Frames], Succ(h) = t
  PROVE  Len(ContentsOf(h, t, b)) = RingSize - 1
<1>1. ASSUME NEW i \in Index, NEW j \in Index, Succ(i) = j PROVE WaitingOf(i, j) = RingSize - 1
  <2>1. j = IF i = RingSize - 1 THEN 0 ELSE i + 1
    BY <1>1, SuccIs
  <2>2. WaitingOf(i, j) = IF j <= i THEN i - j ELSE i + RingSize - j
    BY WaitingIs
  <2> QED BY <2>1, <2>2, RingAssumption DEF Index
<1> QED BY <1>1, ContentsSeq

LEMMA Empty ==
  ASSUME NEW h \in Index, NEW b \in [Index -> Frames]
  PROVE  ContentsOf(h, h, b) = <<>>
<1>1. \A i \in Index : WaitingOf(i, i) = 0
  BY WaitingIs, RingAssumption DEF Index
<1>2. ContentsOf(h, h, b) \in Seq(Frames) /\ Len(ContentsOf(h, h, b)) = 0
  BY <1>1, ContentsSeq
<1> QED BY <1>2, EmptySeq

LEMMA Popping ==
  ASSUME NEW h \in Index, NEW t \in Index, NEW b \in [Index -> Frames], h # t
  PROVE  /\ ContentsOf(h, t, b) # <<>>
         /\ Head(ContentsOf(h, t, b)) = b[t]
         /\ ContentsOf(h, Succ(t), b) = Tail(ContentsOf(h, t, b))
<1> DEFINE n == WaitingOf(h, t)
<1> DEFINE c == ContentsOf(h, t, b)
<1> DEFINE e == ContentsOf(h, Succ(t), b)
<1>1. /\ n \in Nat /\ n > 0 /\ WaitingOf(h, Succ(t)) = n - 1 /\ Slot(t, 1) = t
      /\ \A k \in 1 .. n - 1 : Slot(Succ(t), k) = Slot(t, k + 1)
  BY WaitingBelow, PopSlots
<1>2. Succ(t) \in Index
  BY SuccIs
<1>3. c \in Seq(Frames) /\ Len(c) = n /\ \A k \in 1 .. n : c[k] = b[Slot(t, k)]
  BY ContentsSeq
<1>4. /\ e \in Seq(Frames) /\ Len(e) = WaitingOf(h, Succ(t))
      /\ \A k \in 1 .. WaitingOf(h, Succ(t)) : e[k] = b[Slot(Succ(t), k)]
  BY <1>2, ContentsSeq
<1> HIDE DEF n, c, e
<1>5. c[1] = b[t]
  BY <1>1, <1>3
<1>6. \A k \in 1 .. n - 1 : e[k] = c[k + 1]
  BY <1>1, <1>3, <1>4
<1>7. c # <<>> /\ Head(c) = c[1]
  BY <1>1, <1>3
<1>8. /\ Tail(c) \in Seq(Frames) /\ Len(Tail(c)) = n - 1
      /\ \A k \in 1 .. n - 1 : Tail(c)[k] = c[k + 1]
  BY <1>1, <1>3, <1>7, HeadTailProperties
<1>9. \A k \in 1 .. n - 1 : e[k] = Tail(c)[k]
  BY <1>6, <1>8
<1>10. e = Tail(c)
  BY <1>1, <1>4, <1>8, <1>9, SeqEqual
<1> QED BY <1>5, <1>7, <1>10 DEF c, e
-----------------------------------------------------------------------------
(* Types *)

LEMMA TypesNext ==
  ASSUME RingTypeOK, [RingNext]_vars
  PROVE  RingTypeOK'
<1> USE RingAssumption DEF RingTypeOK
<1>1. CASE Interrupt
  <2>1. frames' = frames + 1 /\ frames' \in 0 .. MaxFrames
    BY <1>1 DEF Interrupt
  <2>2. Frame(frames + 1, accept) \in Frames
    BY <2>1 DEF Frame, Frames
  <2>3. head' \in Index /\ buf' \in [Index -> Frames]
    BY <1>1, <2>2, SuccIs DEF Interrupt, Push
  <2> QED BY <1>1, <2>1, <2>3 DEF Interrupt, useVars
<1>2. CASE Open
  BY <1>2 DEF Open, ringVars, useVars
<1>3. CASE Delete
  BY <1>3 DEF Delete, ctlVars, ringVars, useVars
<1>4. CASE AddFilter
  BY <1>4 DEF AddFilter, ringVars, useVars
<1>5. CASE RemoveFilter
  BY <1>5 DEF RemoveFilter, ctlVars, ringVars
<1>6. CASE Poll
  BY <1>6 DEF Poll, ctlVars, ringVars
<1>7. CASE ResetHead
  BY <1>7 DEF ResetHead, Index, ctlVars, useVars
<1>8. CASE ResetTail
  BY <1>8 DEF ResetTail, Index, ctlVars, useVars
<1>9. CASE SetHook
  BY <1>9 DEF SetHook, ctlVars, useVars
<1>10. CASE SetAccept
  BY <1>10 DEF SetAccept, ringVars, useVars
<1>11. CASE InitBus
  <2>1. bus' \in BOOLEAN /\ accept' = 0
    BY <1>11 DEF InitBus
  <2>2. hook' = (hook /\ board # "m2")
    BY <1>11 DEF InitBus
  <2>3. hook' \in BOOLEAN
    BY <2>2
  <2> QED BY <1>11, <2>1, <2>3 DEF InitBus, useVars
<1>12. CASE BusOff
  BY <1>12 DEF BusOff, ringVars, useVars
<1>13. CASE SetChan
  BY <1>13 DEF SetChan, ringVars
<1>14. CASE Use
  BY <1>14 DEF Use, ctlVars, ringVars
<1>15. CASE Advance
  BY <1>15, SuccIs DEF Advance, ctlVars
<1>16. CASE UNCHANGED vars
  BY <1>16 DEF vars, ctlVars, ringVars, useVars
<1> QED
  BY <1>1, <1>2, <1>3, <1>4, <1>5, <1>6, <1>7, <1>8, <1>9, <1>10, <1>11, <1>12, <1>13, <1>14,
     <1>15, <1>16 DEF RingNext, Write
-----------------------------------------------------------------------------
(* The invariant *)

\* RInv without the types.
Control == Calls /\ Programmed /\ Emptied /\ Hooked

\* What the proofs below need to know of a call that has begun, or gone on.
LEMMA Begun ==
  ASSUME NEW seq \in Todos, Starts(seq)
  PROVE  /\ todo = <<>> /\ Kind(todo) = "idle" /\ todo' \in Todos /\ Kind(todo') = Kind(seq)
         /\ Kind(todo') = "popping" <=> todo' = <<"advance">>
         /\ Kind(todo') = "hooked" <=> todo' = <<"use">>
         /\ Kind(todo') = "idle" <=> todo' = <<>>
BY ShortKinds, KindOf DEF Starts, Idle

LEMMA Gone ==
  ASSUME Calls, NEW w, Step(w)
  PROVE  /\ todo' \in Todos /\ Move(w, Kind(todo), Kind(todo'))
         /\ Kind(todo) = "popping" <=> todo = <<"advance">>
         /\ Kind(todo) = "hooked" <=> todo = <<"use">>
         /\ Kind(todo) # "idle" /\ todo # <<>>
         /\ Kind(todo') # "popping" /\ todo' # <<"advance">>
         /\ Kind(todo') = "hooked" <=> todo' = <<"use">>
         /\ Kind(todo') = "idle" <=> todo' = <<>>
<1>1. todo \in Todos /\ todo # <<>> /\ w = Head(todo) /\ todo' = Tail(todo)
  BY DEF Calls, Step
<1>2. todo' \in Todos /\ Move(w, Kind(todo), Kind(todo'))
  BY <1>1, Goes
<1>3. Kind(todo') # "popping"
  BY <1>2 DEF Move
<1> QED BY <1>1, <1>2, <1>3, KindOf

LEMMA ControlNext ==
  ASSUME RingTypeOK, Control, [RingNext]_vars
  PROVE  Control'
<1> USE DEF Control, Calls, Programmed, Emptied, Hooked, Filtered, Adding
<1>0. sets \in Nat
  BY RingAssumption DEF RingTypeOK
<1>1. CASE Interrupt
  <2>1. /\ hook /\ UNCHANGED <<tail, todo, board, accept, chan, sets, hook, used, frame>>
        /\ head' = head \/ (head' = Succ(head) /\ Succ(head) # tail)
        /\ buf' = buf \/ buf' = [buf EXCEPT ![head] = Frame(frames + 1, accept)]
    BY <1>1 DEF Interrupt, Push, useVars
  <2>2. head # tail => head' # tail' /\ buf'[tail'] = buf[tail]
    BY <1>1 DEF Interrupt, Push, useVars, RingTypeOK
  <2> QED BY <2>1, <2>2
<1>2. CASE Open
  <2>1. PICK seq \in {EnableCanBus \o <<"new">>, <<"fail">>} : Starts(seq)
    BY <1>2 DEF Open
  <2>2. seq \in Todos /\ Kind(seq) = "opening"
    BY Begins
  <2>3. Kind(todo) = "idle" /\ todo' \in Todos /\ Kind(todo') = "opening" /\ ~used
        /\ todo' \notin {<<>>, <<"use">>, <<"advance">>} /\ todo = <<>>
    BY <1>2, <2>1, <2>2, Begun DEF Open
  <2> QED BY <1>2, <2>3 DEF Open, ringVars, useVars
<1>3. CASE Delete
  <2>1. /\ Kind(todo) = "idle" /\ todo = <<>> /\ todo' \in Todos
        /\ Kind(todo') = (IF board = "a0high" THEN "deleting" ELSE "masking")
        /\ todo' \notin {<<>>, <<"use">>, <<"advance">>}
    BY <1>3, Begins, Begun DEF Delete
  <2> QED BY <1>3, <2>1 DEF Delete, ctlVars, ringVars, useVars
<1>4. CASE AddFilter
  <2>1. /\ Kind(todo) = "idle" /\ todo = <<>> /\ todo' \in Todos /\ Kind(todo') = "tuning"
        /\ todo' \notin {<<>>, <<"use">>, <<"advance">>}
    BY <1>4, Begins, Begun DEF AddFilter
  <2>2. sets' > 0
    BY <1>0, <1>4 DEF AddFilter
  <2> QED BY <1>4, <2>1, <2>2 DEF AddFilter, ringVars, useVars
<1>5. CASE RemoveFilter
  <2>1. /\ Kind(todo) = "idle" /\ todo = <<>> /\ todo' \in Todos /\ Kind(todo') = "removing"
        /\ todo' \notin {<<>>, <<"use">>, <<"advance">>}
    BY <1>5, Begins, Begun DEF RemoveFilter
  <2> QED BY <1>5, <2>1 DEF RemoveFilter, ctlVars, ringVars
<1>6. CASE Poll
  <2>1. /\ Kind(todo) = "idle" /\ todo = <<>> /\ todo' \in Todos /\ Kind(todo') = "popping"
        /\ todo' = <<"advance">>
    BY <1>6, Begins, Begun DEF Poll
  <2> QED BY <1>6, <2>1 DEF Poll, ctlVars, ringVars
<1>7. CASE ResetHead
  <2>1. Step("head") /\ head' = 0 /\ UNCHANGED <<ctlVars, tail, buf, hook, useVars>>
    BY <1>7 DEF ResetHead
  <2> QED BY <2>1, Gone DEF Move, ctlVars, useVars
<1>8. CASE ResetTail
  <2>1. Step("tail") /\ tail' = 0 /\ UNCHANGED <<ctlVars, head, buf, hook, useVars>>
    BY <1>8 DEF ResetTail
  <2> QED BY <2>1, Gone DEF Move, ctlVars, useVars
<1>9. CASE SetHook
  <2> USE DEF Move, ctlVars, useVars
  <2>1. CASE Step("unhook") /\ hook' = FALSE
    BY <1>9, <2>1, Gone DEF SetHook
  <2>2. CASE Step("hook") /\ hook' = TRUE
    BY <1>9, <2>2, Gone DEF SetHook
  <2> QED BY <1>9, <2>1, <2>2 DEF SetHook
<1>10. CASE SetAccept
  <2> USE DEF Move, ringVars, useVars
  <2>1. CASE Step("mask") /\ accept' = 0
    BY <1>10, <2>1, Gone DEF SetAccept
  <2>2. CASE Step("id") /\ accept' = sets
    BY <1>10, <2>2, Gone DEF SetAccept
  <2> QED BY <1>10, <2>1, <2>2 DEF SetAccept
<1>11. CASE InitBus
  <2>1. PICK w \in {"init", "fail"} : Step(w)
    BY <1>11 DEF InitBus
  <2>2. Kind(todo) = "opening" /\ Kind(todo') \in {"opening", "idle"}
    BY <2>1, Gone DEF Move
  <2> QED BY <1>11, <2>1, <2>2, Gone DEF InitBus, useVars
<1>12. CASE BusOff
  BY <1>12, Gone DEF BusOff, Move, ringVars, useVars
<1>13. CASE SetChan
  <2> USE DEF Move, ringVars
  <2>1. CASE Step("new") /\ chan' = TRUE
    BY <1>13, <2>1, Gone DEF SetChan
  <2>2. CASE Step("delete") /\ chan' = FALSE
    BY <1>13, <2>2, Gone DEF SetChan
  <2> QED BY <1>13, <2>1, <2>2 DEF SetChan
<1>14. CASE Use
  BY <1>14, Gone DEF Use, Move, ctlVars, ringVars
<1>15. CASE Advance
  BY <1>15, Gone DEF Advance, Move, ctlVars
<1>16. CASE UNCHANGED vars
  BY <1>16 DEF vars, ctlVars, ringVars, useVars
<1> QED
  BY <1>1, <1>2, <1>3, <1>4, <1>5, <1>6, <1>7, <1>8, <1>9, <1>10, <1>11, <1>12, <1>13, <1>14,
     <1>15, <1>16 DEF RingNext, Write

LEMMA InvInit == RingInit => RInv
<1> SUFFICES ASSUME RingInit PROVE RInv
  OBVIOUS
<1>1. RingTypeOK
  <2>1. NoFrame \in Frames
    BY RingAssumption DEF NoFrame, Frame, Frames
  <2>2. 0 \in Index /\ [i \in Index |-> NoFrame] \in [Index -> Frames]
    BY <2>1, RingAssumption DEF Index
  <2> QED BY <2>1, <2>2, RingAssumption DEF RingInit, RingTypeOK
<1>2. Kind(todo) = "idle" /\ todo = <<>> /\ todo \in Todos
  BY ShortKinds DEF RingInit, Todos
<1>3. Calls /\ Programmed /\ Emptied /\ Hooked
  BY <1>2 DEF RingInit, Calls, Programmed, Emptied, Hooked, Filtered, Adding
<1> QED BY <1>1, <1>3 DEF RInv

LEMMA InvNext == RInv /\ [RingNext]_vars => RInv'
BY TypesNext, ControlNext DEF RInv, Control

\* What the three theorems below rest on: what the loop may have still to do, and
\* the state of the mailbox at each point of a call.
THEOREM RingInvariant == RingSpec => []RInv
BY InvInit, InvNext, PTL DEF RingSpec

\* The types of RxRing, of which the one that matters is that head, tail and
\* every index made of them stay within the ring, whatever its size.
THEOREM RingTypes == RingSpec => []RingTypeOK
<1>1. RInv => RingTypeOK
  BY DEF RInv
<1> QED BY <1>1, RingInvariant, PTL

\* A callback is set only while the channel uses the mailbox (custom_can.h:77),
\* on every mailbox that disableCanBus clears.
THEOREM RingHooked == RingSpec => []HookedIsFiltered
<1>1. RInv => HookedIsFiltered
  BY ShortKinds DEF RInv, Hooked, HookedIsFiltered, Idle, Filtered
<1> QED BY <1>1, RingInvariant, PTL
-----------------------------------------------------------------------------
(* The ring implements the queue *)

LEMMA ContentsIs == Contents = ContentsOf(head, tail, buf) /\ Contents' = ContentsOf(head', tail', buf')
BY DEF Contents, ContentsOf, Waiting, WaitingOf, Slot

\* The frames of the two modules are the same records.
LEMMA SameFrames == \A n, f : Queue!Frame(n, f) = Frame(n, f)
BY DEF Queue!Frame, Frame

\* The writes that leave the mailbox without a filter, before and after.
LEMMA Unfiltered ==
  ASSUME ~Filtered, ~Filtered', frames' = frames, out' = out
  PROVE  UNCHANGED Queue!queueVars
BY DEF Queue!queueVars

LEMMA QueueStep ==
  ASSUME RInv, RInv', [RingNext]_vars
  PROVE  [Queue!Set \/ Queue!Clear \/ Queue!Arrive \/ Queue!Take]_(Queue!queueVars)
<1> USE DEF RInv, Calls
<1>0. /\ head \in Index /\ tail \in Index /\ buf \in [Index -> Frames]
      /\ sets \in 0 .. MaxSets /\ frames \in 0 .. MaxFrames
  BY DEF RingTypeOK
<1>1. CASE Interrupt
  <2> DEFINE c == ContentsOf(head, tail, buf)
  <2> DEFINE f == Frame(frames + 1, accept)
  <2>1. /\ frames' = frames + 1 /\ Filtered' = Filtered /\ sets' = sets /\ out' = out /\ tail' = tail
        /\ f \in Frames
    <3>1. f \in Frames
      BY <1>0, <1>1, RingAssumption DEF Interrupt, Frame, Frames, RingTypeOK
    <3> QED BY <1>1, <3>1 DEF Interrupt, Filtered, useVars
  <2>2. CASE ~Filtered
    BY <2>1, <2>2 DEF Queue!Arrive
  <2>3. CASE Filtered /\ Succ(head) = tail
    <3>1. Contents' = Contents /\ ~(Len(Contents) < RingSize - 1)
      BY <1>0, <1>1, <2>1, <2>3, Full, ContentsIs, RingAssumption DEF Interrupt, Push
    <3> QED BY <2>1, <2>3, <3>1 DEF Queue!Arrive
  <2>4. CASE Filtered /\ Succ(head) # tail
    <3>1. accept = sets /\ sets # 0
      BY <1>0, <2>4, RingAssumption DEF Programmed
    <3>2. head' = Succ(head) /\ buf' = [buf EXCEPT ![head] = f]
      BY <1>1, <2>4 DEF Interrupt, Push
    <3>3. Contents' = Append(Contents, f) /\ Len(Contents) < RingSize - 1
      BY <1>0, <2>1, <2>4, <3>2, Pushing, ContentsIs
    <3>4. f = Queue!Frame(frames', sets)
      BY <2>1, <3>1, SameFrames
    <3> QED BY <2>1, <2>4, <3>1, <3>3, <3>4 DEF Queue!Arrive
  <2> QED BY <2>2, <2>3, <2>4
<1>2. CASE Open
  <2>1. PICK seq \in {EnableCanBus \o <<"new">>, <<"fail">>} : Starts(seq)
    BY <1>2 DEF Open
  <2>2. seq \in Todos /\ Kind(seq) = "opening"
    BY Begins
  <2>3. ~Filtered /\ ~Filtered'
    BY <1>2, <2>1, <2>2, Begun DEF Open, Filtered, useVars
  <2> QED BY <1>2, <2>3, Unfiltered DEF Open, useVars
<1>3. CASE Delete
  <2>1. ~Filtered' /\ (Filtered <=> used)
    BY <1>3, Begins, Begun DEF Delete, Filtered
  <2>2. frames' = frames /\ out' = out /\ (Filtered => sets # 0)
    BY <1>0, <1>3, RingAssumption DEF Delete, ctlVars, useVars, Programmed
  <2> QED BY <2>1, <2>2, Unfiltered DEF Queue!Clear
<1>4. CASE AddFilter
  <2>1. ~Filtered /\ ~Filtered'
    BY <1>4, Begins, Begun DEF AddFilter, Filtered, useVars
  <2> QED BY <1>4, <2>1, Unfiltered DEF AddFilter, useVars
<1>5. CASE RemoveFilter
  <2>1. ~Filtered' /\ Filtered
    BY <1>5, Begins, Begun DEF RemoveFilter, Filtered
  <2>2. frames' = frames /\ out' = out /\ (Filtered => sets # 0)
    BY <1>0, <1>5, RingAssumption DEF RemoveFilter, ctlVars, Programmed
  <2> QED BY <2>1, <2>2 DEF Queue!Clear
<1>6. CASE Poll
  <2>1. Filtered /\ Filtered'
    BY <1>6, Begins, Begun DEF Poll, Filtered
  <2>2. UNCHANGED <<sets, head, tail, buf, frames, out>>
    BY <1>6 DEF Poll, ctlVars, ringVars
  <2> QED BY <2>1, <2>2, ContentsIs DEF Queue!queueVars
<1>7. CASE ResetHead
  <2>1. ~Filtered /\ ~Filtered'
    BY <1>7, Gone DEF ResetHead, Move, Filtered
  <2> QED BY <1>7, <2>1, Unfiltered DEF ResetHead, ctlVars, useVars
<1>8. CASE ResetTail
  <2>1. ~Filtered /\ ~Filtered'
    BY <1>8, Gone DEF ResetTail, Move, Filtered
  <2> QED BY <1>8, <2>1, Unfiltered DEF ResetTail, ctlVars, useVars
<1>9. CASE SetHook
  <2>1. CASE Step("unhook")
    <3>1. ~Filtered /\ ~Filtered'
      BY <1>9, <2>1, Gone DEF SetHook, useVars, Move, Filtered
    <3> QED BY <1>9, <3>1, Unfiltered DEF SetHook, ctlVars, useVars
  <2>2. CASE Step("hook")
    <3>1. Kind(todo) = "hook" /\ ~Filtered /\ Filtered'
      BY <2>2, Gone DEF Move, Filtered
    <3>2. head' = 0 /\ tail' = 0 /\ buf' = buf /\ sets' = sets /\ frames' = frames /\ out' = out
      BY <1>9, <3>1 DEF SetHook, ctlVars, useVars, Emptied
    <3>3. Contents' = <<>>
      BY <1>0, <3>2, Empty, ContentsIs, RingAssumption DEF Index
    <3>4. sets \in 1 .. MaxSets
      BY <1>0, <3>1, RingAssumption DEF Adding
    <3> QED BY <3>1, <3>2, <3>3, <3>4 DEF Queue!Set
  <2> QED BY <1>9, <2>1, <2>2 DEF SetHook
<1>10. CASE SetAccept
  <2>1. PICK w \in {"mask", "id"} : Step(w)
    BY <1>10 DEF SetAccept
  <2>2. ~Filtered /\ ~Filtered'
    BY <2>1, Gone DEF Move, Filtered
  <2> QED BY <1>10, <2>2, Unfiltered DEF SetAccept, useVars
<1>11. CASE InitBus
  <2>1. PICK w \in {"init", "fail"} : Step(w)
    BY <1>11 DEF InitBus
  <2>2. ~Filtered /\ ~Filtered'
    BY <1>11, <2>1, Gone DEF InitBus, useVars, Move, Filtered
  <2> QED BY <1>11, <2>2, Unfiltered DEF InitBus, useVars
<1>12. CASE BusOff
  <2>1. ~Filtered /\ ~Filtered'
    BY <1>12, Gone DEF BusOff, Move, Filtered
  <2> QED BY <1>12, <2>1, Unfiltered DEF BusOff, useVars
<1>13. CASE SetChan
  <2>1. PICK w \in {"new", "delete"} : Step(w)
    BY <1>13 DEF SetChan
  <2>2. ~Filtered /\ ~Filtered'
    BY <1>13, <2>1, Gone DEF SetChan, Move, Filtered
  <2> QED BY <1>13, <2>2, Unfiltered DEF SetChan
<1>14. CASE Use
  <2>1. Filtered /\ Filtered'
    BY <1>14, Gone DEF Use, Move, Filtered
  <2>2. UNCHANGED <<sets, head, tail, buf, frames, out>>
    BY <1>14 DEF Use, ctlVars, ringVars
  <2> QED BY <2>1, <2>2, ContentsIs DEF Queue!queueVars
<1>15. CASE Advance
  <2>1. /\ Kind(todo) = "popping" /\ used /\ todo = <<"advance">> /\ todo' = <<>>
    BY <1>15, Gone DEF Advance, Move
  <2>2. Filtered /\ Filtered'
    BY <1>15, <2>1 DEF Advance, Filtered
  <2>3. head # tail /\ out' = buf[tail] /\ tail' = Succ(tail) /\ UNCHANGED <<sets, head, buf, frames>>
    BY <1>15, <2>1 DEF Advance, ctlVars
  <2>4. Contents # <<>> /\ Head(Contents) = buf[tail] /\ Contents' = Tail(Contents)
    BY <1>0, <2>3, Popping, ContentsIs
  <2> QED BY <2>2, <2>3, <2>4 DEF Queue!Take
<1>16. CASE UNCHANGED vars
  <2>1. Filtered' = Filtered /\ UNCHANGED <<sets, head, tail, buf, frames, out>>
    BY <1>16 DEF vars, ctlVars, ringVars, useVars, Filtered
  <2> QED BY <2>1, ContentsIs DEF Queue!queueVars
<1> QED
  BY <1>1, <1>2, <1>3, <1>4, <1>5, <1>6, <1>7, <1>8, <1>9, <1>10, <1>11, <1>12, <1>13, <1>14,
     <1>15, <1>16 DEF RingNext, Write

\* The ring with its interrupt is a queue of RingSize - 1 frames per filter, for
\* every size of the ring.
THEOREM RingImplementsQueue == RingSpec => ImplementsQueue
<1>1. RingInit => Queue!QueueInit
  BY SameFrames DEF RingInit, Filtered, Queue!QueueInit, Queue!NoFrame, NoFrame
<1>2. RInv /\ RInv' /\ [RingNext]_vars
        => [Queue!Set \/ Queue!Clear \/ Queue!Arrive \/ Queue!Take]_(Queue!queueVars)
  BY QueueStep
<1> QED BY <1>1, <1>2, RingInvariant, PTL DEF RingSpec, ImplementsQueue, Queue!QueueSpec
=============================================================================
