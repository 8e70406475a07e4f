--------------------------- MODULE Console_proofs ---------------------------
(***************************************************************************)
(* For a buffer of any size, any characters, frames and line: the ring of  *)
(* the two indices hands out every character it took, once and in order,   *)
(* whatever its producer and its consumer do at the same time; and what    *)
(* reaches the parser is what was sent, line by line.                      *)
(*                                                                         *)
(* And for tables of any size, and pages that come and go in any order: a  *)
(* console holds one slot and keeps it, and a page of the simulator's host *)
(* is sent every line and shown every frame; its texts and the documents   *)
(* it is sent arrive whole, however their packets were cut.                *)
(***************************************************************************)
EXTENDS Console, WebBackends, SequenceTheorems, FiniteSetTheorems, WellFoundedInduction, TLAPS

\* What either side has found and not acted on yet is still so when it does.
StillAsSeen ==
  /\ written => HasRoom /\ slots[head] \in Char
  /\ taken => ~IsInjectEmpty /\ held = slots[tail]

RingInv == RingTypeOK /\ StillAsSeen

-----------------------------------------------------------------------------
(* Lemmas about the indices *)

\* The indices stay inside the buffer, and a step round it is injective.
LEMMA NextIndexFacts ==
  ASSUME NEW i \in Slots, NEW j \in Slots
  PROVE  /\ NextIndex(i) \in Slots
         /\ NextIndex(i) # i
         /\ NextIndex(i) = NextIndex(j) => i = j
  BY RingAssumption DEF NextIndex, Slots

\* There is always one slot the unread characters do not use, and there is room for one
\* more exactly when they leave two (WordclockSerial::Inject()).
LEMMA CountFacts ==
  ASSUME RingTypeOK
  PROVE  /\ Count \in 0 .. Size - 1
         /\ IsInjectEmpty <=> Count = 0
         /\ HasRoom <=> Count < Size - 1
  BY RingAssumption DEF RingTypeOK, Slots, Count, IsInjectEmpty, HasRoom, NextIndex

\* The first unread character is at the tail, the next one goes to the head, and none of
\* the unread ones is there.
LEMMA AtFacts ==
  ASSUME RingTypeOK
  PROVE  /\ At(0) = tail
         /\ At(Count) = head
         /\ \A i \in 0 .. Count : At(i) \in Slots
         /\ \A i \in 0 .. Count - 1 : At(i) # head
  BY RingAssumption DEF RingTypeOK, Slots, Count, At

LEMMA UnreadType ==
  ASSUME RingTypeOK
  PROVE  Unread \in Seq(Char \union {Nul}) /\ Len(Unread) = Count
<1>1. Count \in Nat /\ \A i \in 1 .. Count : i - 1 \in 0 .. Count
  BY CountFacts
<1>2. \A i \in 1 .. Count : slots[At(i - 1)] \in Char \union {Nul}
  BY <1>1, AtFacts DEF RingTypeOK
<1>. QED  BY <1>1, <1>2 DEF Unread

-----------------------------------------------------------------------------
(* The invariant *)

LEMMA InitRing == RingInit => RingInv
<1>1. 0 \in Slots
  BY RingAssumption DEF Slots
<1>. QED  BY <1>1 DEF RingInit, RingInv, RingTypeOK, StillAsSeen

LEMMA StepRing ==
  ASSUME RingInv, [RingNext]_ringVars
  PROVE  RingInv'
<1>. USE DEF RingInv, StillAsSeen, RingTypeOK
<1>1. ASSUME NEW c \in Char, Write(c)  PROVE RingInv'
  BY <1>1 DEF Write, HasRoom, IsInjectEmpty
<1>2. CASE Publish
  BY <1>2, NextIndexFacts DEF Publish, HasRoom, IsInjectEmpty
<1>3. CASE ReadSlot
  BY <1>3 DEF ReadSlot, HasRoom, IsInjectEmpty
<1>4. CASE Release
  BY <1>4, NextIndexFacts DEF Release, HasRoom, IsInjectEmpty
<1>5. CASE UNCHANGED ringVars
  BY <1>5 DEF ringVars, HasRoom, IsInjectEmpty
<1>. QED  BY <1>1, <1>2, <1>3, <1>4, <1>5 DEF RingNext

\* The indices, the slots and what is held of them keep their types, and neither side's
\* step takes away what the other one has found.
THEOREM RingInvariance == RingSpec => []RingInv
<1>1. RingInv /\ [RingNext]_ringVars => RingInv'
  BY StepRing
<1>. QED  BY InitRing, <1>1, PTL DEF RingSpec

-----------------------------------------------------------------------------
(* The refinement *)

LEMMA InitImplements == RingInit => I!InboxInit
<1>. SUFFICES ASSUME RingInit PROVE I!InboxInit
  OBVIOUS
<1>1. RingTypeOK /\ Count = 0
  BY InitRing DEF RingInv, RingInit, Count
<1>2. Unread = << >>
  BY <1>1, UnreadType
<1>. QED  BY <1>2 DEF RingInit, I!InboxInit

\* The slot at the head is not one of the unread ones, so filling it shows nothing.
LEMMA WriteIsHidden ==
  ASSUME RingInv, NEW c \in Char, Write(c)
  PROVE  UNCHANGED << Unread, out >>
<1>. USE DEF RingInv, Write
<1>1. Count' = Count /\ \A i : At(i)' = At(i)
  BY DEF Count, At
<1>2. Count \in Nat
  BY CountFacts
<1>3. \A i \in 1 .. Count : slots'[At(i - 1)] = slots[At(i - 1)]
  <2>. SUFFICES ASSUME NEW i \in 1 .. Count
                PROVE  slots'[At(i - 1)] = slots[At(i - 1)]
    OBVIOUS
  <2>1. i - 1 \in 0 .. Count - 1 /\ i - 1 \in 0 .. Count
    BY <1>2
  <2>. QED  BY <2>1, AtFacts DEF RingTypeOK
<1>. QED  BY <1>1, <1>3 DEF Unread

\* Storing the producer's index appends what it has written.
LEMMA PublishPuts ==
  ASSUME RingInv, Publish
  PROVE  I!Put(slots[head])
<1>. USE DEF RingInv
<1>1. Count \in 0 .. Size - 1 /\ Count < Size - 1 /\ Len(Unread) = Count
  BY CountFacts, UnreadType DEF Publish, StillAsSeen
<1>2. Count' = Count + 1 /\ \A i : At(i)' = At(i)
  BY <1>1, RingAssumption DEF Publish, Count, At, NextIndex, RingTypeOK, Slots
<1>3. Unread' = Append(Unread, slots[head])
  <2>1. Unread' = [i \in 1 .. Count + 1 |-> slots[At(i - 1)]]
    BY <1>2 DEF Unread, Publish
  <2>2. slots[At(Count)] = slots[head]
    BY AtFacts
  <2>3. Append(Unread, slots[head])
          = [i \in 1 .. Count + 1 |-> IF i = Count + 1 THEN slots[head] ELSE Unread[i]]
    BY <1>1, UnreadType
  <2>4. ASSUME NEW i \in 1 .. Count + 1
        PROVE  slots[At(i - 1)] = IF i = Count + 1 THEN slots[head] ELSE Unread[i]
    <3>1. CASE i = Count + 1
      <4>1. i - 1 = Count
        BY <1>1, <3>1
      <4>. QED  BY <3>1, <4>1, <2>2
    <3>2. CASE i # Count + 1
      BY <1>1, <3>2 DEF Unread
    <3>. QED  BY <3>1, <3>2
  <2>. QED  BY <2>1, <2>3, <2>4
<1>. QED  BY <1>1, <1>3 DEF I!Put, Publish

\* Storing the consumer's index hands out the oldest character.
LEMMA ReleaseTakes ==
  ASSUME RingInv, Release
  PROVE  I!Take
<1>. USE DEF RingInv
<1>1. Count \in 1 .. Size - 1 /\ Len(Unread) = Count /\ Unread \in Seq(Char \union {Nul})
  BY CountFacts, UnreadType DEF Release, StillAsSeen
<1>2. Count' = Count - 1
  BY <1>1, RingAssumption DEF Release, Count, NextIndex, RingTypeOK, Slots
<1>3. \A i \in 0 .. Count - 2 : At(i)' = At(i + 1)
  BY <1>1, RingAssumption DEF Release, At, Count, NextIndex, RingTypeOK, Slots
<1>4. out' = Head(Unread) /\ Unread # << >>
  <2>1. Unread[1] = slots[At(0)]
    BY <1>1 DEF Unread
  <2>2. Head(Unread) = Unread[1] /\ Unread # << >>
    BY <1>1
  <2>. QED  BY <2>1, <2>2, AtFacts DEF Release, StillAsSeen
<1>5. Unread' = Tail(Unread)
  <2>1. Unread' = [i \in 1 .. Count - 1 |-> slots[At(i)]]
    <3>1. \A i \in 1 .. Count - 1 : At(i - 1)' = At(i)
      <4>. SUFFICES ASSUME NEW i \in 1 .. Count - 1 PROVE At(i - 1)' = At(i)
        OBVIOUS
      <4>1. i - 1 \in 0 .. Count - 2 /\ (i - 1) + 1 = i
        BY <1>1
      <4>. QED  BY <4>1, <1>3
    <3>. QED  BY <1>2, <3>1 DEF Unread, Release
  <2>2. Tail(Unread) = [i \in 1 .. Count - 1 |-> Unread[i + 1]]
    <3>1. /\ Len(Tail(Unread)) = Count - 1
          /\ Tail(Unread) \in [1 .. Len(Tail(Unread)) -> Char \union {Nul}]
          /\ \A i \in 1 .. Len(Tail(Unread)) : Tail(Unread)[i] = Unread[i + 1]
      BY <1>1, <1>4, HeadTailProperties, LenProperties
    <3>. QED  BY <3>1
  <2>3. \A i \in 1 .. Count - 1 : Unread[i + 1] = slots[At(i)]
    BY <1>1 DEF Unread
  <2>. QED  BY <2>1, <2>2, <2>3
<1>. QED  BY <1>4, <1>5 DEF I!Take

\* Two tasks that share the buffer and no lock make of it a queue: nothing is lost,
\* doubled, reordered or overwritten (WordclockSerial::Inject(), ReadInjected()).
THEOREM RingKeepsTheInbox == RingSpec => KeepsTheInbox
<1>1. RingInv /\ [RingNext]_ringVars => [I!InboxNext]_I!inboxVars
  <2>. SUFFICES ASSUME RingInv, [RingNext]_ringVars
                PROVE  [I!InboxNext]_I!inboxVars
    OBVIOUS
  <2>1. ASSUME NEW c \in Char, Write(c)  PROVE UNCHANGED I!inboxVars
    BY <2>1, WriteIsHidden DEF I!inboxVars
  <2>2. CASE Publish
    BY <2>2, PublishPuts DEF I!InboxNext, RingInv, StillAsSeen, Publish
  <2>3. CASE ReadSlot
    BY <2>3 DEF ReadSlot, I!inboxVars, Unread, Count, At
  <2>4. CASE Release
    BY <2>4, ReleaseTakes DEF I!InboxNext
  <2>5. CASE UNCHANGED ringVars
    BY <2>5 DEF ringVars, I!inboxVars, Unread, Count, At
  <2>. QED  BY <2>1, <2>2, <2>3, <2>4, <2>5 DEF RingNext
<1>. QED
  BY InitImplements, RingInvariance, <1>1, PTL DEF RingSpec, KeepsTheInbox, I!InboxSpec
-----------------------------------------------------------------------------
(* Largest elements *)

\* Of the sets of those above an element, one has no other of them inside it; it belongs
\* to the largest.
LEMMA LargestExists ==
  ASSUME NEW n \in Nat, NEW S \in SUBSET (0 .. n), S # {}
  PROVE  \E x \in S : \A y \in S : x >= y
<1>. DEFINE above(x) == {y \in S : y > x}
            family == {above(x) : x \in S}
<1>1. IsFiniteSet(S)
  <2>1. IsFiniteSet(0 .. n)
    BY FS_Interval
  <2>. QED  BY <2>1, FS_Subset
<1>2. IsWellFoundedOn(StrictSubsetOrdering(S), SUBSET S)
  BY <1>1, FS_StrictSubsetOrderingWellFounded, FS_FiniteSubsetsOfFinite
<1>3. family \subseteq SUBSET S /\ family # {}
  OBVIOUS
<1>4. PICK u \in family : \A v \in family : << v, u >> \notin StrictSubsetOrdering(S)
  <2>. HIDE DEF family
  <2>. QED  BY <1>2, <1>3, WFMin
<1>5. PICK x \in S : u = above(x)
  BY <1>4
<1>6. \A y \in S : x >= y
  <2>. SUFFICES ASSUME NEW y \in S, y > x  PROVE FALSE
    OBVIOUS
  <2>1. x \in Int /\ y \in Int /\ (\A z \in S : z \in Int)
    OBVIOUS
  <2>2. above(y) \subseteq u /\ y \in u /\ y \notin above(y)
    <3>1. \A z \in S : z > y => z > x
      BY ONLY <2>1, y > x, SMT
    <3>2. ~(y > y)
      BY ONLY <2>1, SMT
    <3>. QED  BY <1>5, <3>1, <3>2
  <2>3. above(y) \in family
    OBVIOUS
  <2>4. << above(y), u >> \in StrictSubsetOrdering(S)
    <3>. HIDE DEF above
    <3>1. above(y) \in SUBSET S /\ u \in SUBSET S
      BY <1>3, <1>4, <2>3
    <3>. QED  BY <2>2, <3>1 DEF StrictSubsetOrdering
  <2>. QED  BY <1>4, <2>3, <2>4
<1>. QED  BY <1>6

-----------------------------------------------------------------------------
(* Lines of a stream *)

\* The ends of a stream are finitely many of its places.
LEMMA EndsFacts ==
  ASSUME NEW s \in Seq(Char)
  PROVE  Ends(s) \subseteq 1 .. Len(s) /\ IsFiniteSet(Ends(s))
<1>1. Ends(s) \subseteq 1 .. Len(s)
  BY LenProperties DEF Ends
<1>2. IsFiniteSet(1 .. Len(s))
  BY LenProperties, FS_Interval
<1>. QED  BY <1>1, <1>2, FS_Subset

\* One more character is one more end if it ends a line.
LEMMA EndsOfAppend ==
  ASSUME NEW s \in Seq(Char), NEW c \in Char
  PROVE  Ends(Append(s, c)) = Ends(s) \union (IF c = End THEN {Len(s) + 1} ELSE {})
<1>1. /\ DOMAIN s = 1 .. Len(s) /\ Len(s) \in Nat
      /\ DOMAIN Append(s, c) = 1 .. Len(s) + 1
      /\ \A i \in 1 .. Len(s) : Append(s, c)[i] = s[i]
      /\ Append(s, c)[Len(s) + 1] = c
  BY AppendProperties, LenProperties
<1>. QED  BY <1>1 DEF Ends

\* The last end before a place is the one that no other follows.
LEMMA EndBeforeIs ==
  ASSUME NEW s \in Seq(Char), NEW place \in 1 .. Len(s) + 2,
         NEW last \in 0 .. place - 1, last = 0 \/ last \in Ends(s),
         \A i \in Ends(s) : i < place => i <= last
  PROVE  EndBefore(s, place) = last
<1>. DEFINE before == {0} \union {i \in Ends(s) : i < place}
<1>1. Len(s) \in Nat /\ place \in Nat /\ last \in Nat /\ last < place
  BY LenProperties
<1>2. before \subseteq Int
  BY <1>1, EndsFacts
<1>3. last \in before /\ \A y \in before : last >= y
  BY <1>1, <1>2
<1>. HIDE DEF before
<1>4. Max(before) \in before /\ \A y \in before : Max(before) >= y
  BY <1>3 DEF Max
<1>5. Max(before) \in Int /\ Max(before) >= last /\ last >= Max(before)
  BY <1>2, <1>3, <1>4
<1>6. Max(before) = last
  BY <1>1, <1>5
<1>. QED  BY <1>6, Zenon DEF EndBefore, before

\* There is such an end, or none at all.
LEMMA EndBeforeFacts ==
  ASSUME NEW s \in Seq(Char), NEW place \in 1 .. Len(s) + 1
  PROVE  /\ EndBefore(s, place) \in 0 .. place - 1
         /\ EndBefore(s, place) = 0 \/ EndBefore(s, place) \in Ends(s)
         /\ \A i \in Ends(s) : i < place => i <= EndBefore(s, place)
<1>. DEFINE before == {0} \union {i \in Ends(s) : i < place}
<1>1. place - 1 \in Nat /\ place \in Nat
  BY LenProperties
<1>2. before \in SUBSET (0 .. place - 1) /\ before # {}
  BY <1>1, EndsFacts
<1>3. \A i \in Ends(s) : i < place => i \in before
  OBVIOUS
<1>4. \A i \in before : i = 0 \/ i \in Ends(s)
  OBVIOUS
<1>5. EndBefore(s, place) = Max(before)
  BY Zenon DEF EndBefore
<1>. HIDE DEF before
<1>6. \E x \in before : \A y \in before : x >= y
  BY <1>1, <1>2, LargestExists
<1>7. Max(before) \in before /\ \A y \in before : Max(before) >= y
  BY <1>6 DEF Max
<1>. QED  BY <1>1, <1>2, <1>3, <1>4, <1>5, <1>7

\* Of a longer stream the line up to a place it had before is still the same.
LEMMA LineIsKept ==
  ASSUME NEW s \in Seq(Char), NEW c \in Char, NEW place \in 1 .. Len(s) + 1
  PROVE  LineUpTo(Append(s, c), place) = LineUpTo(s, place)
<1>. DEFINE last == EndBefore(s, place)
            t == Append(s, c)
<1>1. Len(s) \in Nat /\ place \in Nat /\ Ends(s) \subseteq 1 .. Len(s)
  BY LenProperties, EndsFacts
<1>2. /\ last \in 0 .. place - 1
      /\ last = 0 \/ last \in Ends(s)
      /\ \A i \in Ends(s) : i < place => i <= last
  BY EndBeforeFacts
<1>3. /\ t \in Seq(Char) /\ Len(t) = Len(s) + 1
      /\ \A i \in 1 .. Len(s) : t[i] = s[i]
  BY AppendProperties
<1>4. Ends(t) = Ends(s) \union (IF c = End THEN {Len(s) + 1} ELSE {})
  BY EndsOfAppend
<1>. HIDE DEF last, t
<1>5. EndBefore(t, place) = last
  <2>1. last = 0 \/ last \in Ends(t)
    BY <1>2, <1>4
  <2>2. \A i \in Ends(t) : i < place => i <= last
    BY <1>1, <1>2, <1>4
  <2>3. place \in 1 .. Len(t) + 2
    BY <1>1, <1>3
  <2>. QED  BY <1>2, <1>3, <2>1, <2>2, <2>3, EndBeforeIs
<1>. DEFINE begin == last + 1
            end == place - 1
<1>6. begin \in Int /\ end \in Int /\ begin >= 1 /\ begin <= end + 1 /\ end <= Len(s)
  BY <1>1, <1>2
<1>7. LineUpTo(t, place) = SubSeq(t, begin, end) /\ LineUpTo(s, place) = SubSeq(s, begin, end)
  BY <1>5, Zenon DEF LineUpTo, last
<1>. HIDE DEF begin, end
<1>8. SubSeq(t, begin, end) = SubSeq(s, begin, end)
  <2>. DEFINE a == SubSeq(t, begin, end)
              b == SubSeq(s, begin, end)
  <2>1. \A i \in begin .. end : t[i] = s[i] /\ s[i] \in Char
    BY <1>1, <1>3, <1>6, ElementOfSeq
  <2>2. /\ a \in Seq(Char) /\ b \in Seq(Char) /\ Len(a) = Len(b)
        /\ Len(a) = IF begin <= end THEN end - begin + 1 ELSE 0
        /\ \A i \in 1 .. end - begin + 1 : a[i] = t[begin + i - 1]
        /\ \A i \in 1 .. end - begin + 1 : b[i] = s[begin + i - 1]
    BY <1>6, <2>1, SubSeqProperties
  <2>. HIDE DEF a, b
  <2>3. \A i \in 1 .. Len(a) : a[i] = b[i]
    <3>. TAKE i \in 1 .. Len(a)
    <3>1. i \in 1 .. end - begin + 1 /\ begin + i - 1 \in begin .. end
      BY <1>6, <2>2
    <3>2. a[i] = t[begin + i - 1] /\ b[i] = s[begin + i - 1]
      BY <2>2, <3>1
    <3>. QED  BY <2>1, <3>1, <3>2
  <2>4. a = b
    BY <2>2, <2>3, SeqEqual
  <2>. QED  BY <2>4 DEF a, b
<1>. QED  BY <1>7, <1>8 DEF t

\* The open line of a longer stream is empty after an end, and else has the character.
LEMMA OpenLine ==
  ASSUME NEW s \in Seq(Char), NEW c \in Char
  PROVE  /\ LineUpTo(s, Len(s) + 1) \in Seq(Char)
         /\ LineUpTo(Append(s, c), Len(s) + 2)
              = IF c = End THEN << >> ELSE Append(LineUpTo(s, Len(s) + 1), c)
<1>. DEFINE n == Len(s)
            last == EndBefore(s, n + 1)
            t == Append(s, c)
<1>1. n \in Nat /\ Ends(s) \subseteq 1 .. n
  BY LenProperties, EndsFacts
<1>2. /\ last \in 0 .. n
      /\ last = 0 \/ last \in Ends(s)
      /\ \A i \in Ends(s) : i <= last
  BY <1>1, EndBeforeFacts
<1>3. t \in Seq(Char) /\ Len(t) = n + 1 /\ (\A i \in 1 .. n : t[i] = s[i]) /\ t[n + 1] = c
  BY AppendProperties
<1>4. Ends(t) = Ends(s) \union (IF c = End THEN {n + 1} ELSE {})
  BY EndsOfAppend
<1>5. \A i \in 1 .. n : s[i] \in Char
  BY ElementOfSeq
<1>6. LineUpTo(s, n + 1) = SubSeq(s, last + 1, n)
  <2>1. (n + 1) - 1 = n
    BY <1>1
  <2>2. LineUpTo(s, n + 1) = SubSeq(s, last + 1, (n + 1) - 1)
    <3>. HIDE DEF n
    <3>. QED  BY Zenon DEF LineUpTo, last
  <2>. QED  BY <2>1, <2>2
<1>7. LineUpTo(t, n + 2) = SubSeq(t, EndBefore(t, n + 2) + 1, n + 1)
  <2>1. (n + 2) - 1 = n + 1
    BY <1>1
  <2>2. LineUpTo(t, n + 2) = SubSeq(t, EndBefore(t, n + 2) + 1, (n + 2) - 1)
    <3>. HIDE DEF n, t
    <3>. QED  BY Zenon DEF LineUpTo
  <2>. QED  BY <2>1, <2>2
<1>. SUFFICES /\ LineUpTo(s, n + 1) \in Seq(Char)
              /\ LineUpTo(t, n + 2) = IF c = End THEN << >> ELSE Append(LineUpTo(s, n + 1), c)
  BY Zenon DEF n, t
<1>. HIDE DEF n, last, t
<1>8. /\ SubSeq(s, last + 1, n) \in Seq(Char)
      /\ Len(SubSeq(s, last + 1, n)) = n - last
      /\ \A i \in 1 .. n - last : SubSeq(s, last + 1, n)[i] = s[last + i]
  <2>1. last + 1 \in Int /\ n \in Int /\ (\A i \in last + 1 .. n : s[i] \in Char)
    BY <1>1, <1>2, <1>5
  <2>2. /\ SubSeq(s, last + 1, n) \in Seq(Char)
        /\ Len(SubSeq(s, last + 1, n)) = IF last + 1 <= n THEN n - (last + 1) + 1 ELSE 0
        /\ \A i \in 1 .. n - (last + 1) + 1 : SubSeq(s, last + 1, n)[i] = s[(last + 1) + i - 1]
    BY <2>1, SubSeqProperties
  <2>3. n - (last + 1) + 1 = n - last /\ (IF last + 1 <= n THEN n - (last + 1) + 1 ELSE 0) = n - last
    BY <1>1, <1>2
  <2>4. \A i \in 1 .. n - last : (last + 1) + i - 1 = last + i
    BY <1>1, <1>2
  <2>. QED  BY <2>2, <2>3, <2>4
<1>9. CASE c = End
  <2>1. EndBefore(t, n + 2) = n + 1
    <3>1. /\ n + 1 \in Ends(t) /\ n + 1 \in 0 .. (n + 2) - 1
          /\ \A i \in Ends(t) : i < n + 2 => i <= n + 1
      BY <1>1, <1>4, <1>9
    <3>2. n + 2 \in 1 .. Len(t) + 2
      BY <1>1, <1>3
    <3>. QED  BY <1>3, <3>1, <3>2, EndBeforeIs
  <2>2. SubSeq(t, n + 1 + 1, n + 1) = << >>
    BY <1>1, SubSeqEmpty
  <2>. QED  BY <1>6, <1>7, <1>8, <1>9, <2>1, <2>2
<1>10. CASE c # End
  <2>1. EndBefore(t, n + 2) = last
    <3>1. /\ last = 0 \/ last \in Ends(t)
          /\ last \in 0 .. (n + 2) - 1
          /\ \A i \in Ends(t) : i < n + 2 => i <= last
      BY <1>1, <1>2, <1>4, <1>10
    <3>2. n + 2 \in 1 .. Len(t) + 2
      BY <1>1, <1>3
    <3>. QED  BY <1>3, <3>1, <3>2, EndBeforeIs
  <2>. DEFINE a == SubSeq(t, last + 1, n + 1)
              b == SubSeq(s, last + 1, n)
  <2>2. /\ a \in Seq(Char) /\ Len(a) = n - last + 1
        /\ \A i \in 1 .. n - last + 1 : a[i] = t[last + i]
    <3>1. last + 1 \in Int /\ n + 1 \in Int /\ (\A i \in last + 1 .. n + 1 : t[i] \in Char)
      BY <1>1, <1>2, <1>3, <1>5
    <3>2. /\ a \in Seq(Char)
          /\ Len(a) = IF last + 1 <= n + 1 THEN (n + 1) - (last + 1) + 1 ELSE 0
          /\ \A i \in 1 .. (n + 1) - (last + 1) + 1 : a[i] = t[(last + 1) + i - 1]
      BY <3>1, SubSeqProperties
    <3>3. (n + 1) - (last + 1) + 1 = n - last + 1 /\ last + 1 <= n + 1
      BY <1>1, <1>2
    <3>4. \A i \in 1 .. n - last + 1 : (last + 1) + i - 1 = last + i
      BY <1>1, <1>2
    <3>. HIDE DEF a
    <3>. QED  BY <3>2, <3>3, <3>4
  <2>3. /\ Append(b, c) \in Seq(Char) /\ Len(Append(b, c)) = n - last + 1
        /\ \A i \in 1 .. n - last : Append(b, c)[i] = b[i]
        /\ Append(b, c)[n - last + 1] = c
    BY <1>8, AppendProperties
  <2>. HIDE DEF a, b
  <2>4. \A i \in 1 .. Len(a) : a[i] = Append(b, c)[i]
    <3>. TAKE i \in 1 .. Len(a)
    <3>1. CASE i \in 1 .. n - last
      <4>1. last + i \in 1 .. n /\ i \in 1 .. n - last + 1
        BY <1>1, <1>2, <3>1
      <4>2. a[i] = s[last + i]
        BY <1>3, <2>2, <4>1
      <4>3. b[i] = s[last + i]
        BY <1>8, <3>1 DEF b
      <4>. QED  BY <2>3, <3>1, <4>2, <4>3
    <3>2. CASE i = n - last + 1
      <4>1. last + i = n + 1 /\ i \in 1 .. n - last + 1
        BY <1>1, <1>2, <3>2
      <4>. QED  BY <1>3, <2>2, <2>3, <3>2, <4>1
    <3>3. i \in 1 .. n - last \/ i = n - last + 1
      BY <1>1, <1>2, <2>2
    <3>. QED  BY <3>1, <3>2, <3>3
  <2>5. a = Append(b, c)
    BY <2>2, <2>3, <2>4, SeqEqual
  <2>. QED  BY <1>6, <1>7, <1>8, <1>10, <2>1, <2>5 DEF a, b
<1>. QED  BY <1>9, <1>10

-----------------------------------------------------------------------------
(* The invariant *)

\* A frame needs one call or two, and none of no characters.
AreCalls(calls) ==
  calls \in Seq(Seq(Char)) /\ Len(calls) <= 2 /\ \A i \in DOMAIN calls : calls[i] # << >>

\* The characters of calls.
Pending(calls) ==
  IF calls = << >> THEN << >> ELSE IF Len(calls) = 1 THEN calls[1] ELSE calls[1] \o calls[2]

\* The line that is open, or complete and not parsed yet.
Current == LineUpTo(heard, IF complete THEN Len(heard) ELSE Len(heard) + 1)

\* A call has a character, and a step between two shared stores is what it was begun as.
Control ==
  /\ AreCalls(todo)
  /\ Unread \in Seq(Char)
  /\ written => todo # << >> /\ slots[head] = Head(Head(todo))
  /\ taken => reading
  /\ complete => ~reading /\ Len(heard) \in Ends(heard)
  /\ typed = 0 => port = << >>

\* Nothing is lost or reordered between the frames and the parser.
NothingIsLost == (~dropped /\ typed = 0) => sent = heard \o (Unread \o Pending(todo))

\* The line holds what stands before its place, unless that does not fit.
LineIsWhatWasHeard ==
  /\ tooLong <=> Len(Current) > LineLength
  /\ ~tooLong => line = Current

CInv ==
  /\ TypeOK
  /\ StillAsSeen
  /\ Control
  /\ NothingIsLost
  /\ LineIsWhatWasHeard
  /\ EveryLineIsAnsweredOnce

-----------------------------------------------------------------------------
(* The calls of a frame *)

LEMMA Singles ==
  ASSUME NEW S, NEW a \in S
  PROVE  /\ << a >> \in Seq(S) /\ Len(<< a >>) = 1 /\ DOMAIN << a >> = {1} /\ << a >>[1] = a
         /\ Head(<< a >>) = a
         /\ Tail(<< a >>) = << >>
         /\ << a >> \o << >> = << a >>
<1>1. << a >> \in Seq(S) /\ Len(<< a >>) = 1 /\ DOMAIN << a >> = {1} /\ << a >>[1] = a
  OBVIOUS
<1>2. Head(<< a >>) = a /\ Tail(<< a >>) = << >>
  OBVIOUS
<1>3. << a >> \o << >> = << a >>
  OBVIOUS
<1>. QED  BY <1>1, <1>2, <1>3

LEMMA Pairs ==
  ASSUME NEW S, NEW a \in S, NEW b \in S
  PROVE  /\ << a, b >> \in Seq(S) /\ Len(<< a, b >>) = 2 /\ DOMAIN << a, b >> = {1, 2}
         /\ << a, b >>[1] = a /\ << a, b >>[2] = b
         /\ Head(<< a, b >>) = a
         /\ Tail(<< a, b >>) = << b >>
         /\ << a >> \o << b >> = << a, b >>
<1>1. << a, b >> \in Seq(S) /\ Len(<< a, b >>) = 2 /\ DOMAIN << a, b >> = {1, 2}
  OBVIOUS
<1>2. << a, b >>[1] = a /\ << a, b >>[2] = b
  OBVIOUS
<1>3. Head(<< a, b >>) = a
  OBVIOUS
<1>4. Tail(<< a, b >>) = << b >>
  OBVIOUS
<1>5. << a >> \o << b >> = << a, b >>
  <2>1. << a >> \in Seq(S) /\ << b >> \in Seq(S) /\ Len(<< a >>) = 1 /\ Len(<< b >>) = 1
    OBVIOUS
  <2>2. << a >>[1] = a /\ << b >>[1] = b
    OBVIOUS
  <2>. DEFINE u == << a >> \o << b >>
  <2>3. /\ u \in Seq(S) /\ Len(u) = 2
        /\ u[1] = << a >>[1] /\ u[2] = << b >>[1]
    BY <2>1, ConcatProperties
  <2>. HIDE DEF u
  <2>4. \A i \in 1 .. Len(u) : u[i] = << a, b >>[i]
    BY <1>2, <2>2, <2>3
  <2>5. u = << a, b >>
    BY <1>1, <2>3, <2>4, SeqEqual
  <2>. QED  BY <2>5 DEF u
<1>. QED  BY <1>1, <1>2, <1>3, <1>4, <1>5

LEMMA OneOrTwo ==
  ASSUME NEW S, NEW s \in Seq(S), s # << >>, Len(s) <= 2
  PROVE  /\ Len(s) = 1 \/ Len(s) = 2
         /\ s[1] \in S /\ Head(s) = s[1] /\ 1 \in DOMAIN s
         /\ Len(s) = 1 => s = << s[1] >>
         /\ Len(s) = 2 => s = << s[1], s[2] >> /\ s[2] \in S /\ 2 \in DOMAIN s
<1>1. Len(s) = 1 \/ Len(s) = 2
  <2>. DEFINE k == Len(s)
  <2>1. k \in Nat \ {0} /\ k <= 2
    BY EmptySeq
  <2>. HIDE DEF k
  <2>2. k = 1 \/ k = 2
    BY ONLY <2>1, SMT
  <2>. QED  BY <2>2 DEF k
<1>2. DOMAIN s = 1 .. Len(s)
  BY LenProperties
<1>3. s[1] \in S /\ Head(s) = s[1] /\ 1 \in DOMAIN s
  BY <1>1, <1>2, ElementOfSeq
<1>4. Len(s) = 1 => s = << s[1] >>
  OBVIOUS
<1>5. Len(s) = 2 => s = << s[1], s[2] >> /\ s[2] \in S /\ 2 \in DOMAIN s
  <2>. SUFFICES ASSUME Len(s) = 2  PROVE s = << s[1], s[2] >> /\ s[2] \in S /\ 2 \in DOMAIN s
    OBVIOUS
  <2>1. s[2] \in S /\ 2 \in DOMAIN s
    BY <1>2, ElementOfSeq
  <2>. QED  BY <1>3, <2>1
<1>. QED  BY <1>1, <1>3, <1>4, <1>5

LEMMA NoCall == AreCalls(<< >>)
  BY EmptySeq DEF AreCalls

LEMMA OneCall ==
  ASSUME NEW a \in Seq(Char), a # << >>
  PROVE  AreCalls(<< a >>)
<1>. DEFINE s == << a >>
<1>1. s \in Seq(Seq(Char)) /\ Len(s) = 1 /\ DOMAIN s = {1} /\ s[1] = a
  BY Singles
<1>. HIDE DEF s
<1>2. AreCalls(s)
  BY <1>1 DEF AreCalls
<1>. QED  BY <1>2 DEF s

LEMMA TwoCalls ==
  ASSUME NEW a \in Seq(Char), a # << >>, NEW b \in Seq(Char), b # << >>
  PROVE  AreCalls(<< a, b >>)
<1>. DEFINE s == << a, b >>
<1>1. s \in Seq(Seq(Char)) /\ Len(s) = 2 /\ DOMAIN s = {1, 2} /\ s[1] = a /\ s[2] = b
  BY Pairs
<1>. HIDE DEF s
<1>2. AreCalls(s)
  BY <1>1 DEF AreCalls
<1>. QED  BY <1>2 DEF s

LEMMA HeadThenTail ==
  ASSUME NEW s \in Seq(Char), s # << >>
  PROVE  /\ Head(s) \in Char /\ Tail(s) \in Seq(Char) /\ << Head(s) >> \in Seq(Char)
         /\ s = << Head(s) >> \o Tail(s)
         /\ Len(s) = 1 <=> Tail(s) = << >>
<1>1. Head(s) \in Char /\ Tail(s) \in Seq(Char) /\ Len(Tail(s)) = Len(s) - 1 /\ Len(s) \in Nat
  BY HeadTailProperties, LenProperties
<1>2. << Head(s) >> \in Seq(Char)
  BY <1>1
<1>3. Len(s) = 1 <=> Tail(s) = << >>
  <2>1. Len(<< >>) = 0 /\ (Tail(s) # << >> => Len(Tail(s)) \in Nat \ {0})
    BY <1>1, EmptySeq
  <2>. DEFINE k == Len(s)
              r == Tail(s)
  <2>2. Len(r) = k - 1 /\ k \in Nat /\ Len(<< >>) = 0 /\ (r # << >> => Len(r) \in Nat \ {0})
    BY <1>1, <2>1
  <2>. HIDE DEF k, r
  <2>3. k = 1 <=> r = << >>
    <3>1. CASE r = << >>
      <4>1. k - 1 = 0
        BY <2>2, <3>1
      <4>. QED  BY <2>2, <3>1, <4>1
    <3>2. CASE r # << >>
      <4>1. k - 1 # 0
        BY <2>2, <3>2
      <4>. QED  BY <2>2, <3>2, <4>1
    <3>. QED  BY <3>1, <3>2
  <2>. QED  BY <2>3 DEF k, r
<1>4. s = << Head(s) >> \o Tail(s)
  OBVIOUS
<1>. QED  BY <1>1, <1>2, <1>3, <1>4

\* The calls of a frame are its characters, and the end it lacks.
LEMMA CallsFacts ==
  ASSUME NEW frame \in Seq(Char), frame # << >>
  PROVE  /\ AreCalls(Calls(frame))
         /\ Ended(frame) \in Seq(Char)
         /\ Pending(Calls(frame)) = Ended(frame)
<1>1. << End >> \in Seq(Char) /\ End \in Char /\ << End >> # << >>
  BY ConsoleAssumption
<1>2. CASE Last(frame) = End
  <2>1. Calls(frame) = << frame >> /\ Ended(frame) = frame
    BY <1>2 DEF Calls, Ended
  <2>2. Pending(<< frame >>) = frame
    BY DEF Pending
  <2>. QED  BY <2>1, <2>2, OneCall
<1>3. CASE Last(frame) # End
  <2>1. Calls(frame) = << frame, << End >> >> /\ Ended(frame) = Append(frame, End)
    BY <1>3 DEF Calls, Ended
  <2>2. Pending(<< frame, << End >> >>) = frame \o << End >>
    BY DEF Pending
  <2>3. Append(frame, End) = frame \o << End >> /\ Append(frame, End) \in Seq(Char)
    BY <1>1, AppendIsConcat, AppendProperties
  <2>4. AreCalls(<< frame, << End >> >>)
    BY <1>1, TwoCalls
  <2>. QED  BY <2>1, <2>2, <2>3, <2>4
<1>. QED  BY <1>2, <1>3

\* One character put is one character less to put.
LEMMA RestFacts ==
  ASSUME AreCalls(todo), todo # << >>
  PROVE  /\ Head(Head(todo)) \in Char
         /\ AreCalls(Rest(todo)) /\ AreCalls(Tail(todo))
         /\ Pending(todo) \in Seq(Char) /\ Pending(Rest(todo)) \in Seq(Char)
         /\ Pending(todo) = << Head(Head(todo)) >> \o Pending(Rest(todo))
<1>1. /\ Len(todo) = 1 \/ Len(todo) = 2
      /\ todo[1] \in Seq(Char) /\ Head(todo) = todo[1] /\ 1 \in DOMAIN todo
      /\ Len(todo) = 1 => todo = << todo[1] >>
      /\ Len(todo) = 2 => todo = << todo[1], todo[2] >> /\ todo[2] \in Seq(Char) /\ 2 \in DOMAIN todo
  BY OneOrTwo DEF AreCalls
<1>. DEFINE first == todo[1]
            c == Head(first)
            more == Tail(first)
<1>2. first \in Seq(Char) /\ first # << >> /\ Head(todo) = first
  BY <1>1 DEF AreCalls
<1>3. /\ c \in Char /\ more \in Seq(Char) /\ << c >> \in Seq(Char)
      /\ first = << c >> \o more
      /\ Len(first) = 1 <=> more = << >>
  BY <1>2, HeadThenTail
<1>. HIDE DEF first, c, more
<1>4. CASE Len(todo) = 1
  <2>1. todo = << first >>
    BY <1>1, <1>4 DEF first
  <2>2. Pending(todo) = first
    BY <2>1 DEF Pending
  <2>3. Rest(todo) = IF Len(first) = 1 THEN << >> ELSE << more >>
    BY <1>2, <2>1 DEF Rest, more
  <2>4. Pending(Rest(todo)) = more
    BY <1>3, <2>3 DEF Pending
  <2>5. AreCalls(Rest(todo))
    BY <1>3, <2>3, NoCall, OneCall
  <2>6. Tail(todo) = << >>
    BY <1>2, <2>1, Singles
  <2>. QED  BY <1>2, <1>3, <2>2, <2>4, <2>5, <2>6, NoCall DEF c
<1>5. CASE Len(todo) = 2
  <2>. DEFINE second == todo[2]
  <2>1. todo = << first, second >> /\ second \in Seq(Char) /\ second # << >>
    BY <1>1, <1>5 DEF first, AreCalls
  <2>. HIDE DEF second
  <2>2. Pending(todo) = first \o second
    BY <2>1 DEF Pending
  <2>3. Rest(todo) = IF Len(first) = 1 THEN << second >> ELSE << more, second >>
    <3>1. Tail(todo) = << second >>
      BY <1>2, <2>1, Pairs
    <3>2. << more >> \o << second >> = << more, second >>
      BY <1>3, <2>1, Pairs
    <3>. QED  BY <1>2, <3>1, <3>2 DEF Rest, more
  <2>4. Pending(Rest(todo)) = more \o second
    <3>1. CASE Len(first) = 1
      <4>1. Pending(<< second >>) = second
        BY DEF Pending
      <4>2. more \o second = second
        BY <1>3, <2>1, <3>1, ConcatEmptySeq
      <4>. QED  BY <2>3, <3>1, <4>1, <4>2
    <3>2. CASE Len(first) # 1
      <4>1. Pending(<< more, second >>) = more \o second
        BY DEF Pending
      <4>. QED  BY <2>3, <3>2, <4>1
    <3>. QED  BY <3>1, <3>2
  <2>5. first \o second = << c >> \o (more \o second)
    BY <1>3, <2>1, ConcatAssociative
  <2>6. first \o second \in Seq(Char) /\ more \o second \in Seq(Char)
    BY <1>2, <1>3, <2>1, ConcatProperties
  <2>7. AreCalls(Rest(todo))
    BY <1>3, <2>1, <2>3, OneCall, TwoCalls
  <2>8. AreCalls(Tail(todo))
    <3>1. Tail(todo) = << second >>
      BY <1>2, <2>1, Pairs
    <3>. QED  BY <2>1, <3>1, OneCall
  <2>. QED  BY <1>2, <1>3, <2>2, <2>4, <2>5, <2>6, <2>7, <2>8 DEF c
<1>. QED  BY <1>1, <1>4, <1>5

-----------------------------------------------------------------------------
(* The lines *)

\* The ends that are parsed are finitely many, and before the one that waits.
LEMMA ParsedFacts ==
  ASSUME heard \in Seq(Char)
  PROVE  /\ Len(heard) \in Nat
         /\ Parsed \subseteq Ends(heard) /\ Parsed \subseteq 1 .. Len(heard)
         /\ IsFiniteSet(Parsed)
         /\ complete => Len(heard) \notin Parsed
<1>1. Len(heard) \in Nat /\ Ends(heard) \subseteq 1 .. Len(heard) /\ IsFiniteSet(Ends(heard))
  BY LenProperties, EndsFacts
<1>2. Parsed \subseteq Ends(heard) /\ (complete => Len(heard) \notin Parsed)
  BY DEF Parsed
<1>. QED  BY <1>1, <1>2, FS_Subset

\* A character read is at the end of the stream and of the line, and answers nothing yet.
LEMMA AddKeepsTheLines ==
  ASSUME CInv, reading, NEW c \in Char, Add(c), UNCHANGED answers
  PROVE  LineIsWhatWasHeard' /\ EveryLineIsAnsweredOnce'
<1>. DEFINE n == Len(heard)
            started == LineUpTo(heard, n + 1)
<1>1. /\ heard \in Seq(Char) /\ line \in Seq(Char) /\ Len(line) <= LineLength
      /\ tooLong \in BOOLEAN /\ ~complete
  BY DEF CInv, TypeOK, Control
<1>2. /\ heard' = Append(heard, c)
      /\ complete' = (c = End)
      /\ line' = IF c = End THEN line ELSE AddChar(c)
      /\ tooLong' = (tooLong \/ (c # End /\ Len(line) >= LineLength))
  BY DEF Add
<1>3. n \in Nat /\ heard' \in Seq(Char) /\ Len(heard') = n + 1
  BY <1>1, <1>2, LenProperties, AppendProperties
<1>4. Ends(heard') = Ends(heard) \union (IF c = End THEN {n + 1} ELSE {})
  BY <1>1, <1>2, EndsOfAppend
<1>5. Parsed' = Parsed /\ Parsed \subseteq 1 .. n
  <2>1. Ends(heard) \subseteq 1 .. n
    BY <1>1, EndsFacts
  <2>2. Parsed = Ends(heard)
    BY <1>1 DEF Parsed
  <2>3. Parsed' = Ends(heard') \ (IF c = End THEN {n + 1} ELSE {})
    BY <1>2, <1>3 DEF Parsed
  <2>4. n + 1 \notin 1 .. n
    BY <1>3
  <2>. QED  BY <1>4, <2>1, <2>2, <2>3, <2>4
<1>6. EveryLineIsAnsweredOnce'
  <2>1. \A end \in Parsed : LineUpTo(heard', end) = LineUpTo(heard, end)
    <3>. TAKE end \in Parsed
    <3>1. end \in 1 .. n + 1
      BY <1>3, <1>5
    <3>. QED  BY <1>1, <1>2, <3>1, LineIsKept
  <2>2. EveryLineIsAnsweredOnce
    BY DEF CInv
  <2>. QED  BY <1>5, <2>1, <2>2 DEF EveryLineIsAnsweredOnce
<1>7. /\ started \in Seq(Char)
      /\ tooLong <=> Len(started) > LineLength
      /\ ~tooLong => line = started
  BY <1>1, OpenLine DEF CInv, LineIsWhatWasHeard, Current
<1>8. Current' = IF c = End THEN started ELSE Append(started, c)
  <2>1. CASE c = End
    <3>1. n + 1 \in 1 .. n + 1
      BY <1>3
    <3>2. LineUpTo(Append(heard, c), n + 1) = started
      BY <1>1, <3>1, LineIsKept
    <3>. QED  BY <1>2, <1>3, <2>1, <3>2 DEF Current
  <2>2. CASE c # End
    <3>1. (n + 1) + 1 = n + 2
      BY <1>3
    <3>2. LineUpTo(Append(heard, c), n + 2) = Append(started, c)
      BY <1>1, <2>2, OpenLine
    <3>. QED  BY <1>2, <1>3, <2>2, <3>1, <3>2 DEF Current
  <2>. QED  BY <2>1, <2>2
<1>. HIDE DEF n, started
<1>9. LineIsWhatWasHeard'
  <2>1. Len(started) \in Nat /\ Len(line) \in Nat /\ LineLength \in Nat
    BY <1>1, <1>7, LenProperties, ConsoleAssumption
  <2>2. CASE c = End
    BY <1>2, <1>7, <1>8, <2>2 DEF LineIsWhatWasHeard
  <2>3. CASE c # End
    <3>1. Len(Append(started, c)) = Len(started) + 1 /\ Current' = Append(started, c)
      BY <1>7, <1>8, <2>3, AppendProperties
    <3>2. CASE tooLong
      <4>1. tooLong' = TRUE /\ Len(started) > LineLength
        BY <1>2, <1>7, <3>2
      <4>2. Len(Current') > LineLength
        BY <2>1, <3>1, <4>1
      <4>. QED  BY <4>1, <4>2 DEF LineIsWhatWasHeard
    <3>3. CASE ~tooLong /\ Len(line) < LineLength
      <4>1. tooLong' = FALSE /\ line = started /\ line' = Append(started, c)
        <5>1. ~(Len(line) >= LineLength)
          BY <2>1, <3>3
        <5>2. tooLong' = FALSE
          BY <1>2, <3>3, <5>1, Zenon
        <5>. QED  BY <1>2, <1>7, <2>3, <3>3, <5>2, Zenon DEF AddChar
      <4>2. ~(Len(Current') > LineLength)
        BY <2>1, <3>1, <3>3, <4>1
      <4>. QED  BY <3>1, <4>1, <4>2 DEF LineIsWhatWasHeard
    <3>4. CASE ~tooLong /\ ~(Len(line) < LineLength)
      <4>1. tooLong' = TRUE /\ line = started
        <5>1. Len(line) >= LineLength
          BY <2>1, <3>4
        <5>2. tooLong' = TRUE
          BY <1>2, <2>3, <5>1, Zenon
        <5>. QED  BY <1>7, <3>4, <5>2
      <4>2. Len(Current') > LineLength
        BY <2>1, <3>1, <3>4, <4>1
      <4>. QED  BY <4>1, <4>2 DEF LineIsWhatWasHeard
    <3>. QED  BY <1>1, <3>2, <3>3, <3>4
  <2>. QED  BY <2>2, <2>3
<1>. QED  BY <1>6, <1>9

\* A line parsed is the next answer, and an empty line is open.
LEMMA ParseKeepsTheLines ==
  ASSUME CInv, TaskParses
  PROVE  LineIsWhatWasHeard' /\ EveryLineIsAnsweredOnce'
<1>. DEFINE n == Len(heard)
            answer == [ok |-> ~tooLong, text |-> IF tooLong THEN << >> ELSE line]
<1>1. /\ heard \in Seq(Char) /\ line \in Seq(Char) /\ tooLong \in BOOLEAN
      /\ complete /\ n \in Ends(heard)
      /\ answers \in Seq([ok: BOOLEAN, text: Seq(Char)])
  BY DEF CInv, TypeOK, Control, TaskParses
<1>2. /\ answers' = Append(answers, answer)
      /\ line' = << >> /\ complete' = FALSE /\ tooLong' = FALSE /\ heard' = heard
  BY DEF TaskParses, Cleared
<1>3. /\ n \in Nat /\ Parsed \subseteq 1 .. n /\ IsFiniteSet(Parsed) /\ n \notin Parsed
  BY <1>1, ParsedFacts
<1>4. Parsed' = Parsed \union {n}
  BY <1>1, <1>2 DEF Parsed
<1>5. LineIsWhatWasHeard'
  <2>1. LineUpTo(heard, n + 1) = << >>
    <3>1. EndBefore(heard, n + 1) = n
      <4>1. n \in 1 .. n /\ n + 1 \in 1 .. n + 2 /\ n \in 0 .. (n + 1) - 1
        BY <1>1, <1>3, EndsFacts
      <4>2. \A i \in Ends(heard) : i < n + 1 => i <= n
        BY <1>1, <1>3, EndsFacts
      <4>. QED  BY <1>1, <4>1, <4>2, EndBeforeIs
    <3>2. LineUpTo(heard, n + 1) = SubSeq(heard, n + 1, (n + 1) - 1)
      BY <3>1 DEF LineUpTo
    <3>3. n + 1 \in Int /\ (n + 1) - 1 \in Int /\ (n + 1) - 1 < n + 1
      BY <1>3
    <3>. QED  BY <3>2, <3>3, SubSeqEmpty
  <2>2. Current' = << >>
    BY <1>2, <2>1 DEF Current
  <2>3. ~(Len(<< >>) > LineLength)
    BY ConsoleAssumption, EmptySeq
  <2>. QED  BY <1>2, <2>2, <2>3 DEF LineIsWhatWasHeard
<1>6. answer = Answer(LineUpTo(heard, n))
  <2>1. (tooLong <=> Len(LineUpTo(heard, n)) > LineLength) /\ (~tooLong => line = LineUpTo(heard, n))
    BY <1>1 DEF CInv, LineIsWhatWasHeard, Current
  <2>. QED  BY <1>1, <2>1 DEF Answer
<1>7. /\ Len(answers) = Cardinality(Parsed)
      /\ \A end \in Parsed :
           answers[Cardinality({i \in Parsed : i <= end})] = Answer(LineUpTo(heard, end))
  BY DEF CInv, EveryLineIsAnsweredOnce
<1>8. Cardinality(Parsed) \in Nat
  BY <1>3, FS_CardinalityType
<1>9. Cardinality(Parsed') = Cardinality(Parsed) + 1
  BY <1>3, <1>4, FS_AddElement
<1>10. /\ Len(answers') = Len(answers) + 1
       /\ \A i \in 1 .. Len(answers) : answers'[i] = answers[i]
       /\ answers'[Len(answers) + 1] = answer
  <2>1. answer \in [ok: BOOLEAN, text: Seq(Char)]
    BY <1>1, EmptySeq
  <2>. HIDE DEF answer
  <2>. QED  BY <1>1, <1>2, <2>1, AppendProperties
<1>11. ASSUME NEW end \in Parsed
       PROVE  answers'[Cardinality({i \in Parsed' : i <= end})] = Answer(LineUpTo(heard, end))
  <2>. DEFINE upTo == {i \in Parsed : i <= end}
  <2>1. end \in 1 .. n /\ end # n
    BY <1>3, <1>11
  <2>2. {i \in Parsed' : i <= end} = upTo
    <3>1. ~(n <= end)
      BY <1>3, <2>1
    <3>. QED  BY <1>4, <3>1
  <2>3. IsFiniteSet(upTo) /\ Cardinality(upTo) <= Cardinality(Parsed)
    BY <1>3, FS_Subset
  <2>4. Cardinality(upTo) \in Nat /\ Cardinality(upTo) # 0
    <3>1. end \in upTo
      BY <1>11, <2>1
    <3>. HIDE DEF upTo
    <3>. QED  BY <2>3, <3>1, FS_CardinalityType, FS_EmptySet
  <2>5. Cardinality(upTo) \in 1 .. Len(answers)
    BY <1>7, <1>8, <2>3, <2>4
  <2>6. answers[Cardinality(upTo)] = Answer(LineUpTo(heard, end))
    BY <1>7, <1>11
  <2>. HIDE DEF upTo
  <2>. QED  BY <1>10, <2>2, <2>5, <2>6
<1>12. answers'[Cardinality({i \in Parsed' : i <= n})] = Answer(LineUpTo(heard, n))
  <2>1. {i \in Parsed' : i <= n} = Parsed'
    <3>1. \A i \in Parsed' : i <= n
      BY <1>3, <1>4
    <3>. HIDE DEF n
    <3>. QED  BY ONLY <3>1
  <2>2. Cardinality(Parsed') = Len(answers) + 1
    BY <1>7, <1>9
  <2>. QED  BY <1>6, <1>10, <2>1, <2>2
<1>13. EveryLineIsAnsweredOnce'
  <2>1. Len(answers') = Cardinality(Parsed')
    BY <1>7, <1>9, <1>10
  <2>2. \A end \in Parsed' :
          answers'[Cardinality({i \in Parsed' : i <= end})] = Answer(LineUpTo(heard', end))
    BY <1>2, <1>4, <1>11, <1>12
  <2>. QED  BY <2>1, <2>2, Zenon DEF EveryLineIsAnsweredOnce
<1>. QED  BY <1>5, <1>13

LEMMA OthersKeepTheLines ==
  ASSUME CInv, UNCHANGED << line, tooLong, complete, answers, heard >>
  PROVE  LineIsWhatWasHeard' /\ EveryLineIsAnsweredOnce'
<1>1. Parsed' = Parsed /\ Current' = Current
  BY DEF Parsed, Current
<1>. QED  BY <1>1 DEF CInv, LineIsWhatWasHeard, EveryLineIsAnsweredOnce

-----------------------------------------------------------------------------
(* The steps *)

LEMMA InitCInv == Init => CInv
<1>. SUFFICES ASSUME Init  PROVE CInv
  OBVIOUS
<1>. USE DEF Init
<1>1. RingTypeOK /\ StillAsSeen /\ Count = 0 /\ ~written /\ ~taken
  BY InitRing DEF RingInv, RingInit, Count
<1>2. Unread = << >>
  BY <1>1, UnreadType
<1>3. << >> \in Seq(Char) /\ << >> \in Seq(Seq(Char)) /\ Len(<< >>) = 0 /\ DOMAIN << >> = {}
  BY EmptySeq
<1>4. TypeOK
  <2>1. << >> \in Seq([ok: BOOLEAN, text: Seq(Char)])
    BY EmptySeq
  <2>2. Len(Typed) \in Nat
    BY ConsoleAssumption, LenProperties
  <2>3. 0 \in 0 .. Len(Typed) /\ 0 \in 0 .. MaxFrames /\ 0 <= LineLength /\ 0 <= 2
    BY <2>2, ConsoleAssumption
  <2>4. todo \in Seq(Seq(Char)) /\ Len(todo) <= 2 /\ line \in Seq(Char) /\ Len(line) <= LineLength
    BY <1>3, <2>3
  <2>. QED  BY <1>1, <1>3, <2>1, <2>3, <2>4, Zenon DEF TypeOK
<1>5. Control
  BY <1>1, <1>2, <1>3, NoCall DEF Control
<1>6. NothingIsLost
  <2>1. << >> \o (<< >> \o << >>) = << >>
    BY <1>3, ConcatEmptySeq
  <2>. QED  BY <1>2, <2>1 DEF NothingIsLost, Pending
<1>7. Ends(heard) = {} /\ Parsed = {}
  BY <1>3 DEF Ends, Parsed
<1>8. LineIsWhatWasHeard
  <2>1. EndBefore(heard, 1) = 0
    <3>1. 1 \in 1 .. Len(heard) + 2 /\ 0 \in 0 .. 1 - 1
      BY <1>3
    <3>. QED  BY <1>3, <1>7, <3>1, EndBeforeIs
  <2>2. LineUpTo(heard, 1) = SubSeq(heard, 0 + 1, 1 - 1)
    BY <2>1, Zenon DEF LineUpTo
  <2>3. SubSeq(heard, 0 + 1, 1 - 1) = << >>
    BY SubSeqEmpty
  <2>4. Current = << >>
    BY <1>3, <2>2, <2>3 DEF Current
  <2>. QED  BY <1>3, <2>4, ConsoleAssumption DEF LineIsWhatWasHeard
<1>9. EveryLineIsAnsweredOnce
  BY <1>3, <1>7, FS_EmptySet DEF EveryLineIsAnsweredOnce
<1>. QED  BY <1>1, <1>4, <1>5, <1>6, <1>8, <1>9 DEF CInv

\* What a step of the web task or of Communication does to the ring is a step of the ring.
LEMMA StepsOfTheRing ==
  ASSUME CInv, [Next]_vars
  PROVE  [RingNext]_ringVars
<1>1. ASSUME InjectWrites  PROVE RingNext
  <2>1. Head(Head(todo)) \in Char
    BY <1>1, RestFacts DEF CInv, Control, InjectWrites
  <2>. QED  BY <1>1, <2>1 DEF InjectWrites, RingNext
<1>2. CASE InjectPublishes
  BY <1>2 DEF InjectPublishes, RingNext
<1>3. CASE ReadInjected
  BY <1>3 DEF ReadInjected, RingNext
<1>4. CASE ReleaseInjected
  BY <1>4 DEF ReleaseInjected, RingNext
<1>5. CASE FrameArrives \/ InjectDrops \/ KeyTyped \/ TaskParses \/ TaskReads \/ NothingAvailable
           \/ ReadPort
  BY <1>5 DEF FrameArrives, InjectDrops, KeyTyped, TaskParses, TaskReads, NothingAvailable,
              ReadPort
<1>6. CASE UNCHANGED vars
  BY <1>6 DEF vars
<1>. QED  BY <1>1, <1>2, <1>3, <1>4, <1>5, <1>6 DEF Next, WebTask, Communication

LEMMA UnreadIsKept ==
  ASSUME UNCHANGED ringVars
  PROVE  Unread' = Unread
  BY DEF ringVars, Unread, Count, At

\* The character written is the next of the call, and appears at the end.
LEMMA PublishShows ==
  ASSUME CInv, InjectPublishes
  PROVE  /\ Unread' = Append(Unread, Head(Head(todo)))
         /\ Unread' \in Seq(Char)
         /\ todo # << >> /\ Head(Head(todo)) \in Char
<1>1. todo # << >> /\ slots[head] = Head(Head(todo))
  BY DEF CInv, Control, InjectPublishes, Publish
<1>2. Head(Head(todo)) \in Char
  BY <1>1, RestFacts DEF CInv, Control
<1>3. Unread' = Append(Unread, slots[head])
  BY PublishPuts DEF CInv, TypeOK, RingInv, InjectPublishes, I!Put
<1>. QED  BY <1>1, <1>2, <1>3, AppendProperties DEF CInv, Control

\* The character handed out is the oldest.
LEMMA ReleaseHands ==
  ASSUME CInv, ReleaseInjected
  PROVE  /\ Unread # << >> /\ held = Head(Unread) /\ held \in Char
         /\ Unread' = Tail(Unread) /\ Unread' \in Seq(Char)
<1>1. Unread # << >> /\ out' = Head(Unread) /\ Unread' = Tail(Unread) /\ out' = held
  BY ReleaseTakes DEF CInv, TypeOK, RingInv, ReleaseInjected, I!Take, Release
<1>. QED  BY <1>1, HeadTailProperties DEF CInv, Control

LEMMA StepType ==
  ASSUME CInv, [Next]_vars
  PROVE  TypeOK'
<1>. USE DEF TypeOK
<1>. DEFINE Reply == [ok: BOOLEAN, text: Seq(Char)]
<1>1. TypeOK /\ Control /\ AreCalls(todo)
  BY DEF CInv, Control
<1>2. RingTypeOK'
  <2>1. RingInv
    BY DEF CInv, RingInv
  <2>. QED  BY <2>1, StepRing, StepsOfTheRing DEF RingInv
<1>3. ASSUME NEW calls, AreCalls(calls)  PROVE calls \in Seq(Seq(Char)) /\ Len(calls) <= 2
  BY <1>3 DEF AreCalls
<1>. HIDE DEF TypeOK
<1>4. ASSUME FrameArrives  PROVE TypeOK'
  <2>1. PICK frame \in Frames : /\ Len(frame) \in 1 .. MaxFrameLength
                                /\ todo' = Calls(frame)
                                /\ sent' = sent \o Ended(frame)
    BY <1>4 DEF FrameArrives
  <2>2. frame \in Seq(Char) /\ frame # << >>
    BY <2>1, EmptySeq, ConsoleAssumption
  <2>3. todo' \in Seq(Seq(Char)) /\ Len(todo') <= 2
    BY <1>3, <2>1, <2>2, CallsFacts
  <2>4. sent' \in Seq(Char)
    BY <1>1, <2>1, <2>2, CallsFacts, ConcatProperties DEF TypeOK
  <2>5. frames' \in 0 .. MaxFrames
    BY <1>1, <1>4, ConsoleAssumption DEF FrameArrives, TypeOK
  <2>. QED  BY <1>1, <1>2, <1>4, <2>3, <2>4, <2>5 DEF FrameArrives, TypeOK
<1>5. ASSUME InjectWrites  PROVE TypeOK'
  BY <1>1, <1>2, <1>5 DEF InjectWrites, TypeOK, consoleVars
<1>6. ASSUME InjectPublishes  PROVE TypeOK'
  <2>1. AreCalls(Rest(todo))
    BY <1>1, <1>6, PublishShows, RestFacts
  <2>. QED  BY <1>1, <1>2, <1>3, <1>6, <2>1 DEF InjectPublishes, TypeOK
<1>7. ASSUME InjectDrops  PROVE TypeOK'
  <2>1. AreCalls(Tail(todo))
    BY <1>1, <1>7, RestFacts DEF InjectDrops
  <2>. QED  BY <1>1, <1>2, <1>3, <1>7, <2>1 DEF InjectDrops, TypeOK
<1>8. ASSUME KeyTyped  PROVE TypeOK'
  <2>1. Typed \in Seq(Char) /\ Len(Typed) \in Nat
    BY ConsoleAssumption, LenProperties
  <2>2. typed + 1 \in 1 .. Len(Typed)
    BY <1>1, <1>8, <2>1 DEF KeyTyped, TypeOK
  <2>3. port' \in Seq(Char)
    BY <1>1, <1>8, <2>1, <2>2, ElementOfSeq, AppendProperties DEF KeyTyped, TypeOK
  <2>4. typed' \in 0 .. Len(Typed)
    BY <1>8, <2>1, <2>2 DEF KeyTyped
  <2>. QED  BY <1>1, <1>2, <1>8, <2>3, <2>4 DEF KeyTyped, TypeOK
<1>9. ASSUME TaskParses  PROVE TypeOK'
  <2>1. answers' \in Seq(Reply)
    <3>. DEFINE answer == [ok |-> ~tooLong, text |-> IF tooLong THEN << >> ELSE line]
    <3>1. answer \in Reply
      BY <1>1, EmptySeq DEF TypeOK
    <3>2. answers \in Seq(Reply) /\ answers' = Append(answers, answer)
      BY <1>1, <1>9 DEF TypeOK, TaskParses
    <3>. HIDE DEF Reply, answer
    <3>. QED  BY <3>1, <3>2, AppendProperties
  <2>2. << >> \in Seq(Char) /\ Len(<< >>) <= LineLength
    BY EmptySeq, ConsoleAssumption
  <2>. QED  BY <1>1, <1>2, <1>9, <2>1, <2>2 DEF TaskParses, Cleared, TypeOK
<1>10. ASSUME TaskReads \/ NothingAvailable \/ ReadInjected  PROVE TypeOK'
  BY <1>1, <1>2, <1>10 DEF TaskReads, NothingAvailable, ReadInjected, TypeOK, consoleVars
<1>11. ASSUME NEW c \in Char, Add(c)
       PROVE  /\ heard' \in Seq(Char) /\ line' \in Seq(Char) /\ Len(line') <= LineLength
              /\ complete' \in BOOLEAN /\ tooLong' \in BOOLEAN /\ reading' \in BOOLEAN
  <2>1. heard \in Seq(Char) /\ line \in Seq(Char) /\ Len(line) <= LineLength /\ tooLong \in BOOLEAN
    BY <1>1 DEF TypeOK
  <2>2. heard' \in Seq(Char)
    BY <1>11, <2>1, AppendProperties DEF Add
  <2>3. line' \in Seq(Char) /\ Len(line') <= LineLength
    <3>1. Len(line) \in Nat /\ LineLength \in Nat
      BY <2>1, LenProperties, ConsoleAssumption
    <3>2. Append(line, c) \in Seq(Char) /\ Len(Append(line, c)) = Len(line) + 1
      BY <1>11, <2>1, AppendProperties
    <3>3. CASE c # End /\ Len(line) < LineLength
      <4>1. line' = Append(line, c)
        BY <1>11, <3>3 DEF Add, AddChar
      <4>2. Len(Append(line, c)) <= LineLength
        BY <3>1, <3>2, <3>3
      <4>. QED  BY <3>2, <4>1, <4>2
    <3>4. CASE ~(c # End /\ Len(line) < LineLength)
      <4>1. line' = line
        BY <1>11, <3>4 DEF Add, AddChar
      <4>. QED  BY <2>1, <4>1
    <3>. QED  BY <3>3, <3>4
  <2>4. complete' \in BOOLEAN /\ tooLong' \in BOOLEAN /\ reading' \in BOOLEAN
    BY <1>11, <2>1 DEF Add
  <2>. QED  BY <2>2, <2>3, <2>4
<1>12. ASSUME ReadPort  PROVE TypeOK'
  <2>1. Head(port) \in Char /\ Tail(port) \in Seq(Char)
    BY <1>1, <1>12, HeadTailProperties DEF ReadPort, TypeOK
  <2>2. Add(Head(port))
    BY <1>12 DEF ReadPort
  <2>3. /\ heard' \in Seq(Char) /\ line' \in Seq(Char) /\ Len(line') <= LineLength
        /\ complete' \in BOOLEAN /\ tooLong' \in BOOLEAN /\ reading' \in BOOLEAN
    BY <1>11, <2>1, <2>2
  <2>. QED  BY <1>1, <1>2, <1>12, <2>1, <2>3 DEF ReadPort, TypeOK
<1>13. ASSUME ReleaseInjected  PROVE TypeOK'
  <2>1. held \in Char /\ Add(held)
    BY <1>13, ReleaseHands DEF ReleaseInjected
  <2>2. /\ heard' \in Seq(Char) /\ line' \in Seq(Char) /\ Len(line') <= LineLength
        /\ complete' \in BOOLEAN /\ tooLong' \in BOOLEAN /\ reading' \in BOOLEAN
    BY <1>11, <2>1
  <2>. QED  BY <1>1, <1>2, <1>13, <2>2 DEF ReleaseInjected, TypeOK
<1>14. ASSUME UNCHANGED vars  PROVE TypeOK'
  BY <1>1, <1>2, <1>14 DEF vars, consoleVars, TypeOK
<1>. QED
  BY <1>4, <1>5, <1>6, <1>7, <1>8, <1>9, <1>10, <1>12, <1>13, <1>14
     DEF Next, WebTask, Communication

\* A step begun is what the other side's next step leaves it.
LEMMA StepControl ==
  ASSUME CInv, [Next]_vars
  PROVE  Control'
<1>. DEFINE Loop == /\ written => todo # << >> /\ slots[head] = Head(Head(todo))
                    /\ taken => reading
                    /\ complete => ~reading /\ Len(heard) \in Ends(heard)
                    /\ typed = 0 => port = << >>
<1>1. /\ TypeOK /\ Control /\ AreCalls(todo) /\ Unread \in Seq(Char) /\ StillAsSeen
      /\ Loop
  BY DEF CInv, Control
<1>2. AreCalls(todo')
  <2>1. CASE FrameArrives
    <3>1. PICK frame \in Frames : Len(frame) \in 1 .. MaxFrameLength /\ todo' = Calls(frame)
      BY <2>1 DEF FrameArrives
    <3>2. frame \in Seq(Char) /\ frame # << >>
      BY <3>1, EmptySeq, ConsoleAssumption
    <3>. QED  BY <3>1, <3>2, CallsFacts
  <2>2. CASE InjectPublishes
    BY <1>1, <2>2, PublishShows, RestFacts DEF InjectPublishes
  <2>3. CASE InjectDrops
    BY <1>1, <2>3, RestFacts DEF InjectDrops
  <2>4. CASE InjectWrites \/ KeyTyped \/ Communication \/ UNCHANGED vars
    BY <1>1, <2>4 DEF InjectWrites, KeyTyped, Communication, TaskParses, TaskReads,
       NothingAvailable, ReadPort, ReadInjected, ReleaseInjected, vars, consoleVars
  <2>. QED  BY <2>1, <2>2, <2>3, <2>4 DEF Next, WebTask
<1>3. Unread' \in Seq(Char)
  <2>1. CASE InjectWrites
    <3>1. Head(Head(todo)) \in Char /\ Write(Head(Head(todo)))
      BY <1>1, <2>1, RestFacts DEF InjectWrites
    <3>. QED  BY <1>1, <3>1, WriteIsHidden DEF RingInv, TypeOK
  <2>2. CASE InjectPublishes
    BY <2>2, PublishShows
  <2>3. CASE ReadInjected
    BY <1>1, <2>3 DEF ReadInjected, ReadSlot, Unread, Count, At
  <2>4. CASE ReleaseInjected
    BY <2>4, ReleaseHands
  <2>5. CASE FrameArrives \/ InjectDrops \/ KeyTyped \/ TaskParses \/ TaskReads
             \/ NothingAvailable \/ ReadPort \/ UNCHANGED vars
    <3>1. UNCHANGED ringVars
      BY <2>5 DEF FrameArrives, InjectDrops, KeyTyped, TaskParses, TaskReads, NothingAvailable,
                  ReadPort, vars
    <3>. QED  BY <1>1, <3>1, UnreadIsKept
  <2>. QED  BY <2>1, <2>2, <2>3, <2>4, <2>5 DEF Next, WebTask, Communication
<1>4. Loop'
  <2>1. CASE FrameArrives
    <3>1. ~written /\ UNCHANGED << written, taken, reading, complete, heard, typed, port >>
      BY <1>1, <2>1 DEF FrameArrives, ringVars
    <3>. QED  BY <1>1, <3>1 DEF Ends
  <2>2. CASE InjectWrites
    <3>1. slots'[head'] = Head(Head(todo'))
      BY <1>1, <2>2 DEF InjectWrites, Write, consoleVars, TypeOK, RingTypeOK
    <3>2. todo' # << >> /\ UNCHANGED << taken, reading, complete, heard, typed, port >>
      BY <2>2 DEF InjectWrites, Write, consoleVars
    <3>. QED  BY <1>1, <3>1, <3>2 DEF Ends
  <2>3. CASE InjectPublishes
    <3>1. ~written' /\ UNCHANGED << taken, reading, complete, heard, typed, port >>
      BY <2>3 DEF InjectPublishes, Publish
    <3>. QED  BY <1>1, <3>1 DEF Ends
  <2>4. CASE InjectDrops
    <3>1. ~written' /\ UNCHANGED << taken, reading, complete, heard, typed, port >>
      BY <2>4 DEF InjectDrops, ringVars
    <3>. QED  BY <1>1, <3>1 DEF Ends
  <2>5. CASE KeyTyped
    <3>1. typed' # 0
      BY <1>1, <2>5 DEF KeyTyped, TypeOK
    <3>2. UNCHANGED << written, slots, head, todo, taken, reading, complete, heard >>
      BY <2>5 DEF KeyTyped, ringVars
    <3>. QED  BY <1>1, <3>1, <3>2 DEF Ends
  <2>6. CASE TaskParses
    <3>1. ~complete' /\ UNCHANGED << written, slots, head, todo, taken, reading, typed, port >>
      BY <2>6 DEF TaskParses, Cleared, ringVars
    <3>. QED  BY <1>1, <3>1
  <2>7. CASE TaskReads
    <3>1. reading' /\ ~complete' /\ UNCHANGED << written, slots, head, todo, taken, typed, port >>
      BY <2>7 DEF TaskReads, ringVars
    <3>. QED  BY <1>1, <3>1
  <2>8. CASE NothingAvailable
    <3>1. ~taken' /\ ~complete' /\ UNCHANGED << written, slots, head, todo, typed, port >>
      BY <1>1, <2>8 DEF NothingAvailable, ringVars, StillAsSeen
    <3>. QED  BY <1>1, <3>1
  <2>9. CASE ReadInjected
    <3>1. reading' /\ ~complete'
          /\ UNCHANGED << written, slots, head, todo, typed, port >>
      BY <1>1, <2>9 DEF ReadInjected, ReadSlot, consoleVars
    <3>. QED  BY <1>1, <3>1
  <2>10. ASSUME NEW c \in Char, Add(c), ~taken'
         PROVE  (taken => reading)' /\ (complete => ~reading /\ Len(heard) \in Ends(heard))'
    <3>1. heard \in Seq(Char) /\ heard' = Append(heard, c)
      BY <1>1, <2>10 DEF TypeOK, Add
    <3>2. Len(heard') = Len(heard) + 1
          /\ Ends(heard') = Ends(heard) \union (IF c = End THEN {Len(heard) + 1} ELSE {})
      BY <3>1, EndsOfAppend, AppendProperties
    <3>3. c = End => Len(heard') \in Ends(heard')
      BY <3>2
    <3>4. complete' = (c = End) /\ reading' = (c # End)
      BY <2>10 DEF Add
    <3>. QED  BY <2>10, <3>3, <3>4, Zenon
  <2>11. CASE ReadPort
    <3>1. Head(port) \in Char /\ Add(Head(port)) /\ ~taken' /\ typed' = typed /\ port # << >>
      BY <1>1, <2>11, HeadTailProperties DEF ReadPort, TypeOK, ringVars
    <3>2. typed' # 0 /\ UNCHANGED << written, slots, head, todo >>
      BY <1>1, <2>11, <3>1 DEF ReadPort, ringVars
    <3>. QED  BY <1>1, <2>10, <3>1, <3>2
  <2>12. CASE ReleaseInjected
    <3>1. held \in Char /\ Add(held) /\ ~taken'
      BY <2>12, ReleaseHands DEF ReleaseInjected, Release
    <3>2. UNCHANGED << written, slots, head, todo, typed, port >>
      BY <2>12 DEF ReleaseInjected, Release
    <3>. QED  BY <1>1, <2>10, <3>1, <3>2
  <2>13. CASE UNCHANGED vars
    BY <1>1, <2>13 DEF vars, ringVars, consoleVars, Ends
  <2>. QED
    BY <2>1, <2>2, <2>3, <2>4, <2>5, <2>6, <2>7, <2>8, <2>9, <2>11, <2>12, <2>13
       DEF Next, WebTask, Communication
<1>. QED  BY <1>2, <1>3, <1>4, Zenon DEF Control

\* What is between the frames and the parser loses at one end what it hands on at the other.
LEMMA StepLosesNothing ==
  ASSUME CInv, [Next]_vars
  PROVE  NothingIsLost'
<1>1. /\ heard \in Seq(Char) /\ sent \in Seq(Char) /\ Unread \in Seq(Char)
      /\ AreCalls(todo) /\ NothingIsLost
      /\ typed \in Nat /\ (typed = 0 => port = << >>)
  BY DEF CInv, TypeOK, Control
<1>2. Pending(todo) \in Seq(Char)
  BY <1>1, RestFacts, EmptySeq DEF Pending
<1>3. ASSUME FrameArrives  PROVE NothingIsLost'
  <2>1. PICK frame \in Frames : /\ Len(frame) \in 1 .. MaxFrameLength
                                /\ todo' = Calls(frame)
                                /\ sent' = sent \o Ended(frame)
    BY <1>3 DEF FrameArrives
  <2>2. frame \in Seq(Char) /\ frame # << >>
    BY <2>1, EmptySeq, ConsoleAssumption
  <2>3. Pending(todo') = Ended(frame) /\ Ended(frame) \in Seq(Char)
    BY <2>1, <2>2, CallsFacts
  <2>4. todo = << >> /\ UNCHANGED << heard, Unread, dropped, typed >>
    BY <1>3, UnreadIsKept DEF FrameArrives
  <2>5. CASE ~dropped /\ typed = 0
    <3>1. sent = heard \o Unread
      BY <1>1, <2>4, <2>5, ConcatEmptySeq DEF NothingIsLost, Pending
    <3>2. (heard \o Unread) \o Ended(frame) = heard \o (Unread \o Ended(frame))
      BY <1>1, <2>3, ConcatAssociative
    <3>. QED  BY <2>1, <2>3, <2>4, <3>1, <3>2 DEF NothingIsLost
  <2>6. CASE ~(~dropped /\ typed = 0)
    BY <2>4, <2>6 DEF NothingIsLost
  <2>. QED  BY <2>5, <2>6
<1>4. ASSUME InjectWrites  PROVE NothingIsLost'
  <2>1. Head(Head(todo)) \in Char /\ Write(Head(Head(todo)))
    BY <1>1, <1>4, RestFacts DEF InjectWrites
  <2>2. Unread' = Unread
    BY <2>1, WriteIsHidden DEF RingInv, CInv, TypeOK
  <2>. QED  BY <1>1, <1>4, <2>2 DEF NothingIsLost, InjectWrites, consoleVars
<1>5. ASSUME InjectPublishes  PROVE NothingIsLost'
  <2>. DEFINE c == Head(Head(todo))
              p == Pending(Rest(todo))
  <2>1. todo # << >> /\ c \in Char /\ Unread' = Append(Unread, c)
    BY <1>5, PublishShows
  <2>2. Pending(todo) = << c >> \o p /\ p \in Seq(Char) /\ << c >> \in Seq(Char)
    BY <1>1, <2>1, RestFacts, Singles
  <2>3. Pending(todo') = p /\ UNCHANGED << heard, sent, dropped, typed >>
    BY <1>5 DEF InjectPublishes
  <2>. HIDE DEF c, p
  <2>4. Append(Unread, c) = Unread \o << c >>
    BY <1>1, <2>1, AppendIsConcat
  <2>5. (Unread \o << c >>) \o p = Unread \o (<< c >> \o p)
    BY <1>1, <2>2, ConcatAssociative
  <2>. QED  BY <1>1, <2>1, <2>2, <2>3, <2>4, <2>5 DEF NothingIsLost
<1>6. ASSUME InjectDrops  PROVE NothingIsLost'
  BY <1>6 DEF InjectDrops, NothingIsLost
<1>7. ASSUME KeyTyped  PROVE NothingIsLost'
  <2>1. typed' # 0
    BY <1>1, <1>7 DEF KeyTyped
  <2>. QED  BY <2>1 DEF NothingIsLost
<1>8. ASSUME TaskParses \/ TaskReads \/ NothingAvailable \/ UNCHANGED vars  PROVE NothingIsLost'
  <2>1. UNCHANGED << ringVars, todo, typed, sent, heard, dropped >>
    BY <1>8 DEF TaskParses, TaskReads, NothingAvailable, vars, consoleVars
  <2>2. Unread' = Unread
    BY <2>1, UnreadIsKept
  <2>. QED  BY <1>1, <2>1, <2>2 DEF NothingIsLost
<1>9. ASSUME ReadPort  PROVE NothingIsLost'
  <2>1. typed # 0 /\ typed' = typed
    BY <1>1, <1>9 DEF ReadPort
  <2>. QED  BY <2>1 DEF NothingIsLost
<1>10. ASSUME ReadInjected  PROVE NothingIsLost'
  <2>1. UNCHANGED << Unread, todo, typed, sent, heard, dropped >>
    BY <1>10 DEF ReadInjected, ReadSlot, consoleVars, Unread, Count, At
  <2>. QED  BY <1>1, <2>1 DEF NothingIsLost
<1>11. ASSUME ReleaseInjected  PROVE NothingIsLost'
  <2>. DEFINE p == Pending(todo)
  <2>1. /\ Unread # << >> /\ held = Head(Unread) /\ held \in Char
        /\ Unread' = Tail(Unread) /\ Unread' \in Seq(Char)
    BY <1>11, ReleaseHands
  <2>2. heard' = Append(heard, held) /\ UNCHANGED << todo, typed, sent, dropped >>
    BY <1>11 DEF ReleaseInjected, Add
  <2>3. Unread = << held >> \o Unread' /\ << held >> \in Seq(Char)
    BY <1>1, <2>1, HeadThenTail
  <2>4. Pending(todo') = p /\ p \in Seq(Char)
    BY <1>2, <2>2
  <2>. HIDE DEF p
  <2>5. Append(heard, held) = heard \o << held >>
    BY <1>1, <2>1, AppendIsConcat
  <2>6. (<< held >> \o Unread') \o p = << held >> \o (Unread' \o p) /\ Unread' \o p \in Seq(Char)
    BY <2>1, <2>3, <2>4, ConcatAssociative, ConcatProperties
  <2>7. (heard \o << held >>) \o (Unread' \o p) = heard \o (<< held >> \o (Unread' \o p))
    BY <1>1, <2>3, <2>6, ConcatAssociative
  <2>8. heard \o (Unread \o p) = heard' \o (Unread' \o p)
    BY <2>2, <2>3, <2>5, <2>6, <2>7
  <2>9. NothingIsLost => ((~dropped /\ typed = 0) => sent = heard \o (Unread \o p))
    BY DEF NothingIsLost, p
  <2>. QED  BY <1>1, <2>2, <2>4, <2>8, <2>9 DEF NothingIsLost
<1>. QED
  BY <1>3, <1>4, <1>5, <1>6, <1>7, <1>8, <1>9, <1>10, <1>11 DEF Next, WebTask, Communication

LEMMA StepLines ==
  ASSUME CInv, [Next]_vars
  PROVE  LineIsWhatWasHeard' /\ EveryLineIsAnsweredOnce'
<1>1. CASE TaskParses
  BY <1>1, ParseKeepsTheLines
<1>2. CASE ReadPort
  <2>1. Head(port) \in Char
    BY <1>2, HeadTailProperties DEF ReadPort, CInv, TypeOK
  <2>. QED  BY <1>2, <2>1, AddKeepsTheLines DEF ReadPort
<1>3. CASE ReleaseInjected
  <2>1. held \in Char /\ reading
    BY <1>3, ReleaseHands DEF CInv, Control, ReleaseInjected, Release
  <2>. QED  BY <1>3, <2>1, AddKeepsTheLines DEF ReleaseInjected
<1>4. CASE FrameArrives \/ WebTask \/ KeyTyped \/ TaskReads \/ NothingAvailable \/ ReadInjected
           \/ UNCHANGED vars
  <2>1. UNCHANGED << line, tooLong, complete, answers, heard >>
    BY <1>4 DEF FrameArrives, WebTask, InjectWrites, InjectPublishes, InjectDrops, KeyTyped,
       TaskReads, NothingAvailable, ReadInjected, vars, consoleVars
  <2>. QED  BY <2>1, OthersKeepTheLines
<1>. QED  BY <1>1, <1>2, <1>3, <1>4 DEF Next, Communication

LEMMA StepCInv ==
  ASSUME CInv, [Next]_vars
  PROVE  CInv'
<1>1. StillAsSeen'
  <2>1. RingInv
    BY DEF CInv, TypeOK, RingInv
  <2>. QED  BY <2>1, StepRing, StepsOfTheRing DEF RingInv
<1>. QED  BY <1>1, StepType, StepControl, StepLosesNothing, StepLines DEF CInv

-----------------------------------------------------------------------------
(* What reaches the parser *)

\* A stream that only lacks what is still on its way is a prefix.
LEMMA PrefixOfConcat ==
  ASSUME NEW s \in Seq(Char), NEW r \in Seq(Char)
  PROVE  IsPrefix(s, s \o r)
<1>1. Len(s) \in Nat /\ Len(r) \in Nat /\ Len(s \o r) = Len(s) + Len(r)
  BY LenProperties, ConcatProperties
<1>2. SubSeq(s, 1, Len(s)) = SubSeq(s \o r, 1, Len(s))
  <2>1. CASE Len(s) = 0
    BY <2>1, SubSeqEmpty
  <2>2. CASE Len(s) # 0
    <3>1. 1 \in 1 .. Len(s) /\ Len(s) \in 1 .. Len(s)
      BY <1>1, <2>2
    <3>. QED  BY <3>1, SubSeqOfConcat1
  <2>. QED  BY <2>1, <2>2
<1>3. Len(s) <= Len(s \o r)
  BY <1>1
<1>. QED  BY <1>2, <1>3 DEF IsPrefix

\* The types of the console and of the ring in it (Communication, WordclockSerial).
THEOREM ConsoleInvariance == Spec => []CInv
<1>1. CInv /\ [Next]_vars => CInv'
  BY StepCInv
<1>. QED  BY InitCInv, <1>1, PTL DEF Spec

\* Whatever the web task, the port and the tick do at the same time: every line that ends is
\* answered once, in order and whole or refused whole; and a browser's commands reach the
\* parser as they were sent, nothing lost, doubled, reordered or mixed, as long as the buffer
\* had room and nobody typed (Communication::Task(), WordclockSerial::Inject()).
THEOREM EveryLineIsHeardWhole == Spec => []EveryLineArrives
<1>1. CInv => EveryLineArrives
  <2>. SUFFICES ASSUME CInv  PROVE CommandsArriveWhole
    BY DEF EveryLineArrives, CInv
  <2>. SUFFICES ASSUME ~dropped, typed = 0  PROVE IsPrefix(heard, sent)
    BY DEF CommandsArriveWhole
  <2>1. heard \in Seq(Char) /\ Unread \in Seq(Char) /\ AreCalls(todo)
    BY DEF CInv, TypeOK, Control
  <2>2. Pending(todo) \in Seq(Char)
    BY <2>1, RestFacts, EmptySeq DEF Pending
  <2>3. Unread \o Pending(todo) \in Seq(Char)
    BY <2>1, <2>2, ConcatProperties
  <2>4. sent = heard \o (Unread \o Pending(todo))
    BY DEF CInv, NothingIsLost
  <2>. QED  BY <2>1, <2>3, <2>4, PrefixOfConcat
<1>. QED  BY ConsoleInvariance, <1>1, PTL

\* The web task and the tick only ever use the ring as its two sides may, so it stays the
\* queue it promises to be (WordclockSerial::Inject(), ReadInjected()).
THEOREM ConsoleKeepsTheInbox == Spec => KeepsTheInbox
<1>1. CInv /\ [Next]_vars => [RingNext]_ringVars
  BY StepsOfTheRing
<1>2. Init => RingInit
  BY DEF Init
<1>3. Spec => RingSpec
  BY ConsoleInvariance, <1>1, <1>2, PTL DEF Spec, RingSpec
<1>. QED  BY <1>3, RingKeepsTheInbox

-----------------------------------------------------------------------------
(***************************************************************************)
(* The clock's table of consoles.                                          *)
(***************************************************************************)

\* A socket is opened before it gets a slot, and closed after it lost it.
ClientsInv ==
  /\ clientSlots \in [TableSlots -> Descriptors \union {None}]
  /\ opening \in Descriptors \union {None}
  /\ open \subseteq Descriptors
  /\ opening # None => opening \in open
  /\ OneSlotPerConsole

\* Of the numbers that are due one comes first.
LEMMA SmallestOf ==
  ASSUME NEW T, T \subseteq Nat, T # {}
  PROVE  \E first \in T : \A n \in Nat : n < first => n \notin T
<1>1. IsWellFoundedOn(OpToRel(<, Nat), Nat)
  BY NatLessThanWellFounded
<1>2. PICK first \in T : \A n \in T : << n, first >> \notin OpToRel(<, Nat)
  BY <1>1, WFMin
<1>3. ASSUME NEW n \in Nat, n < first, n \in T PROVE FALSE
  <2>1. << n, first >> \in OpToRel(<, Nat)
    BY <1>3 DEF OpToRel
  <2> QED BY <1>2, <1>3, <2>1
<1> QED BY <1>3

\* The slot a newcomer gets is one nobody has.
LEMMA FreeSlotIsFree ==
  ASSUME ~IsFull
  PROVE  FreeSlot \in TableSlots /\ clientSlots[FreeSlot] = None
<1> DEFINE free == {s \in TableSlots : clientSlots[s] = None}
<1>1. free \subseteq Nat /\ free # {}
  BY WebClientsAssumption DEF IsFull, TableSlots
<1>2. PICK s \in free : \A n \in Nat : n < s => n \notin free
  <2> HIDE DEF free
  <2> QED BY <1>1, SmallestOf
<1>3. \A t \in 1 .. s - 1 : clientSlots[t] # None
  BY <1>1, <1>2, WebClientsAssumption DEF TableSlots
<1> QED BY <1>2, <1>3 DEF FreeSlot

\* A socket's slot is found, as no other slot is its.
LEMMA FirstSlotIsItsSlot ==
  ASSUME OneSlotPerConsole, NEW d \in Table
  PROVE  /\ FirstSlotOf(d) \in TableSlots /\ clientSlots[FirstSlotOf(d)] = d /\ d # None
         /\ \A s \in TableSlots : clientSlots[s] = d => s = FirstSlotOf(d)
<1>1. PICK s \in TableSlots : clientSlots[s] = d /\ d # None
  BY DEF Table
<1>2. \A t \in TableSlots : clientSlots[t] = d => t = s
  BY <1>1 DEF OneSlotPerConsole
<1>3. \A t \in 1 .. s - 1 : clientSlots[t] # d
  BY <1>1, <1>2, WebClientsAssumption DEF TableSlots
<1>4. FirstSlotOf(d) \in TableSlots /\ clientSlots[FirstSlotOf(d)] = d
  BY <1>1, <1>3 DEF FirstSlotOf
<1> QED BY <1>1, <1>2, <1>4

LEMMA InitClientsInv == ClientsInit => ClientsInv
BY WebClientsAssumption DEF ClientsInit, ClientsInv, OneSlotPerConsole, Table

\* The newcomer's slot was nobody's, and its socket was in no slot.
LEMMA StoredKeeps ==
  ASSUME ClientsInv, ClientStored
  PROVE  /\ ClientsInv'
         /\ \A s \in TableSlots : clientSlots[s] # None => clientSlots'[s] = clientSlots[s]
<1>1. opening # None /\ opening' = None /\ clientSlots' = Stored(opening) /\ open' = open
  BY DEF ClientStored
<1>2. CASE opening \in Table \/ IsFull
  <2>1. clientSlots' = clientSlots
    BY <1>1, <1>2 DEF Stored
  <2> QED BY <1>1, <2>1 DEF ClientsInv, OneSlotPerConsole, Table
<1>3. CASE ~(opening \in Table \/ IsFull)
  <2> DEFINE free == FreeSlot
  <2>1. free \in TableSlots /\ clientSlots[free] = None
    BY <1>3, FreeSlotIsFree
  <2>2. clientSlots' = [clientSlots EXCEPT ![free] = opening]
    BY <1>1, <1>3 DEF Stored
  <2> HIDE DEF free
  <2>3. \A s \in TableSlots : clientSlots'[s] = IF s = free THEN opening ELSE clientSlots[s]
    BY <2>1, <2>2 DEF ClientsInv
  <2>4. \A s \in TableSlots : clientSlots[s] # opening
    BY <1>1, <1>3 DEF Table
  <2>5. clientSlots' \in [TableSlots -> Descriptors \union {None}]
    BY <2>2, <2>1 DEF ClientsInv
  <2>6. \A s, t \in TableSlots :
          clientSlots'[s] = clientSlots'[t] /\ clientSlots'[s] # None => s = t
    BY <2>1, <2>3, <2>4 DEF ClientsInv, OneSlotPerConsole
  <2>7. Table' \subseteq open'
    BY <1>1, <2>3 DEF ClientsInv, OneSlotPerConsole, Table
  <2>8. \A s \in TableSlots : clientSlots[s] # None => clientSlots'[s] = clientSlots[s]
    BY <2>1, <2>3
  <2> QED BY <1>1, <2>5, <2>6, <2>7, <2>8 DEF ClientsInv, OneSlotPerConsole
<1> QED BY <1>2, <1>3

\* The slot of a socket that is left is cleared before the socket is closed.
LEMMA LeavesKeeps ==
  ASSUME ClientsInv, ClientLeaves
  PROVE  /\ ClientsInv'
         /\ opening = None
         /\ \A s \in TableSlots : clientSlots'[s] \in {clientSlots[s], None}
<1>1. opening = None /\ opening' = opening
  BY DEF ClientLeaves
<1>2. PICK d \in open : clientSlots' = SlotCleared(d) /\ open' \in {open, open \ {d}}
  BY DEF ClientLeaves
<1>3. CASE d \notin Table
  <2>1. clientSlots' = clientSlots
    BY <1>2, <1>3 DEF SlotCleared
  <2> QED BY <1>1, <1>2, <1>3, <2>1 DEF ClientsInv, OneSlotPerConsole, Table
<1>4. CASE d \in Table
  <2> DEFINE slot == FirstSlotOf(d)
  <2>1. /\ slot \in TableSlots /\ clientSlots[slot] = d /\ d # None
        /\ \A s \in TableSlots : clientSlots[s] = d => s = slot
    BY <1>4, FirstSlotIsItsSlot DEF ClientsInv
  <2>2. clientSlots' = [clientSlots EXCEPT ![slot] = None]
    BY <1>2, <1>4 DEF SlotCleared
  <2> HIDE DEF slot
  <2>3. \A s \in TableSlots : clientSlots'[s] = IF s = slot THEN None ELSE clientSlots[s]
    BY <2>1, <2>2 DEF ClientsInv
  <2>4. clientSlots' \in [TableSlots -> Descriptors \union {None}]
    BY <2>2 DEF ClientsInv
  <2>5. \A s, t \in TableSlots :
          clientSlots'[s] = clientSlots'[t] /\ clientSlots'[s] # None => s = t
    BY <2>3 DEF ClientsInv, OneSlotPerConsole
  <2>6. Table' \subseteq open'
    BY <1>2, <2>1, <2>3 DEF ClientsInv, OneSlotPerConsole, Table
  <2>7. \A s \in TableSlots : clientSlots'[s] \in {clientSlots[s], None}
    BY <2>3
  <2> QED BY <1>1, <1>2, <2>4, <2>5, <2>6, <2>7 DEF ClientsInv, OneSlotPerConsole
<1> QED BY <1>3, <1>4

\* What a step of the clock's server or of its tick may do to a slot.
SlotIsKept ==
  \A s \in TableSlots :
    clientSlots[s] # None /\ clientSlots'[s] # clientSlots[s] =>
      opening = None /\ clientSlots'[s] = None

LEMMA ClientsStep == ClientsInv /\ [ClientsNext]_clientsVars => ClientsInv' /\ SlotIsKept
<1> SUFFICES ASSUME ClientsInv, [ClientsNext]_clientsVars PROVE ClientsInv' /\ SlotIsKept
  OBVIOUS
<1>1. CASE ClientOpens
  <2>1. PICK d \in Descriptors \ open :
          opening' = d /\ open' = open \union {d} /\ clientSlots' = clientSlots
    BY <1>1 DEF ClientOpens
  <2> QED BY <2>1 DEF ClientsInv, OneSlotPerConsole, Table, SlotIsKept
<1>2. CASE ClientStored
  BY <1>2, StoredKeeps DEF SlotIsKept
<1>3. CASE ClientLeaves
  BY <1>3, LeavesKeeps DEF SlotIsKept
<1>4. CASE DisplayChanges \/ Answers \/ BroadcastFrame \/ UNCHANGED clientsVars
  <2>1. UNCHANGED << clientSlots, opening, open >>
    BY <1>4 DEF DisplayChanges, Answers, AnswerPrints, AnswerEnds, BroadcastFrame, FrameNotDue,
                FrameDue, HasClientsLooks, FrameIsCompared, FrameIsSent, clientsVars, serverVars
  <2> QED BY <2>1 DEF ClientsInv, OneSlotPerConsole, Table, SlotIsKept
<1> QED BY <1>1, <1>2, <1>3, <1>4 DEF ClientsNext

LEMMA WebStep == [WebNext]_webVars => [ClientsNext]_clientsVars /\ [HostNext]_hostVars
BY DEF WebNext, webVars, ClockStep, SimulatorStep

\* A console's socket holds one slot, whatever number the system gives it, and a slot that is
\* held is an open socket's, for any size of the table (WebInterface::OnClientOpened(),
\* OnClientClosed()).
THEOREM ConsolesHaveOneSlot == WebSpec => []OneSlotPerConsole
<1>1. WebInit => ClientsInit
  BY DEF WebInit
<1>2. ClientsInv => OneSlotPerConsole
  BY DEF ClientsInv
<1> QED BY InitClientsInv, ClientsStep, WebStep, <1>1, <1>2, PTL DEF WebSpec

\* A full table drops the newcomer and never whoever has a slot: a slot is cleared only when its
\* own socket goes (WebInterface::OnClientOpened()).
THEOREM ConsolesKeepTheirSlots == WebSpec => ConsoleKeepsItsSlot
<1>1. WebInit => ClientsInit
  BY DEF WebInit
<1>2. ClientsInv /\ [ClientsNext]_clientsVars => [SlotIsKept]_clientsVars
  BY ClientsStep
<1>3. WebSpec => [][SlotIsKept]_clientsVars
  BY InitClientsInv, ClientsStep, WebStep, <1>1, <1>2, PTL DEF WebSpec
<1> QED BY <1>3 DEF ConsoleKeepsItsSlot, SlotIsKept

-----------------------------------------------------------------------------
(***************************************************************************)
(* The simulator's host.                                                   *)
(***************************************************************************)

HostTypeOK ==
  /\ connection \in [Pages -> {"away", "waiting", "open", "closed"}]
  /\ backlog \in Seq(Pages \X Requests)
  /\ clients \in [ClientSlots -> Pages \union {Nobody}]
  /\ listening \in BOOLEAN
  /\ hostForce \in BOOLEAN
  /\ lines \in [Pages -> Seq(Nat)]
  /\ from \in [Pages -> Nat]
  /\ seen \in [Pages -> {Nobody, 0, 1}]
  /\ hostFrame \in {0, 1} /\ hostDisplay \in {0, 1}
  /\ printedLines \in Nat
  /\ tick \in {"between", "accept", "read", "firmware", "broadcast", "sending", "ended"}
                \X (Nat \ {0})

\* The system holds every connection once, and only what nobody has answered.
BacklogWaits ==
  /\ \A i \in DOMAIN backlog : connection[backlog[i][1]] = "waiting"
  /\ \A i, j \in DOMAIN backlog : backlog[i][1] = backlog[j][1] => i = j

\* A slot is a page's that is open, and no other slot is.
ClientsAreOpen ==
  /\ \A s \in ClientSlots : clients[s] # Nobody => connection[clients[s]] = "open"
  /\ \A s, t \in ClientSlots : clients[s] = clients[t] /\ clients[s] # Nobody => s = t

NothingBeforeTheAnswer ==
  \A p \in Pages : connection[p] \in {"away", "waiting"} => lines[p] = << >>

\* Where the tick is tells whether there is a port, what is sent and whether a page waits for
\* its first frame.
TickKnows ==
  /\ tick[1] = "read" => tick[2] \in ClientSlots
  /\ tick[1] = "sending" =>
       sending \in {<< "line", "accept" >>, << "line", "broadcast" >>, << "frame", "between" >>}
  /\ tick[1] \in {"accept", "read"} \/ (tick[1] = "sending" /\ sending[2] = "accept") => listening
  /\ ~listening => ~hostForce /\ \A s \in ClientSlots : clients[s] = Nobody
  /\ tick[1] \in {"between", "ended"} \/ (tick[1] = "sending" /\ sending[1] = "frame") => ~hostForce

IsReading(s) == clients[s] # Nobody /\ clients[s] \notin gone

\* While a line is sent, the slots the walk has not come to are one line behind.
LinesFor(s) ==
  IF tick[1] = "sending" /\ sending[1] = "line" /\ tick[2] <= s
    THEN printedLines - 1 ELSE printedLines

PagesHaveTheLines ==
  \A s \in ClientSlots : IsReading(s) =>
    LET p == clients[s]
    IN  /\ from[p] <= LinesFor(s)
        /\ lines[p] = [i \in 1 .. LinesFor(s) - from[p] |-> from[p] + i]

\* While a frame is sent, the slots the walk has passed have it; else every page has the last
\* one, unless one waits for its first.
PagesHaveTheFrame ==
  \A s \in ClientSlots : IsReading(s) =>
    IF tick[1] = "sending" /\ sending[1] = "frame"
      THEN s < tick[2] => seen[clients[s]] = hostFrame
      ELSE hostForce \/ seen[clients[s]] = hostFrame

HostInv ==
  /\ HostTypeOK
  /\ BacklogWaits
  /\ ClientsAreOpen
  /\ NothingBeforeTheAnswer
  /\ TickKnows
  /\ PagesHaveTheLines
  /\ PagesHaveTheFrame

LEMMA InitHostInv == HostInit => HostInv
<1> SUFFICES ASSUME HostInit PROVE HostInv
  OBVIOUS
<1>1. \A s \in ClientSlots : clients[s] = Nobody
  BY DEF HostInit
<1>2. HostTypeOK
  <2>1. << >> \in Seq(Pages \X Requests) /\ << >> \in Seq(Nat)
    OBVIOUS
  <2>2. /\ clients \in [ClientSlots -> Pages \union {Nobody}]
        /\ connection \in [Pages -> {"away", "waiting", "open", "closed"}]
        /\ lines \in [Pages -> Seq(Nat)] /\ from \in [Pages -> Nat]
        /\ seen \in [Pages -> {Nobody, 0, 1}]
    BY <2>1 DEF HostInit
  <2>3. tick \in {"between", "accept", "read", "firmware", "broadcast", "sending", "ended"}
                   \X (Nat \ {0})
    BY DEF HostInit
  <2> QED BY <2>1, <2>2, <2>3 DEF HostInit, HostTypeOK
<1>3. BacklogWaits /\ ClientsAreOpen /\ NothingBeforeTheAnswer /\ TickKnows
  BY <1>1 DEF HostInit, BacklogWaits, ClientsAreOpen, NothingBeforeTheAnswer, TickKnows
<1>4. PagesHaveTheLines /\ PagesHaveTheFrame
  BY <1>1 DEF PagesHaveTheLines, PagesHaveTheFrame, IsReading
<1> QED BY <1>2, <1>3, <1>4 DEF HostInv

\* A page that reads goes on reading from its slot, and nobody comes back.
LEMMA StillReading ==
  ASSUME UNCHANGED clients, gone \subseteq gone'
  PROVE  \A s \in ClientSlots : IsReading(s)' => IsReading(s) /\ clients'[s] = clients[s]
BY DEF IsReading

-----------------------------------------------------------------------------
(* The browsers *)

LEMMA ConnectsKeeps ==
  ASSUME HostInv, NEW p \in Pages, PageConnects(p),
         UNCHANGED << listening, socketVars, sendBuffer, frontVars, hostDisplay, tick, sending,
                      shownVars >>
  PROVE  HostInv'
<1>1. PICK request \in Requests : backlog' = Append(backlog, << p, request >>)
  BY DEF PageConnects
<1>2. /\ connection[p] = "away" /\ connection' = [connection EXCEPT ![p] = "waiting"]
      /\ UNCHANGED << gone, clients, hostForce, hostFrame, lines, from, seen, printedLines >>
  BY DEF PageConnects, socketVars, frontVars, shownVars
<1>3. /\ backlog \in Seq(Pages \X Requests) /\ << p, request >> \in Pages \X Requests
      /\ connection \in [Pages -> {"away", "waiting", "open", "closed"}]
  BY DEF HostInv, HostTypeOK
<1>4. /\ backlog' \in Seq(Pages \X Requests)
      /\ DOMAIN backlog' = DOMAIN backlog \union {Len(backlog) + 1}
      /\ Len(backlog) + 1 \notin DOMAIN backlog
      /\ \A i \in DOMAIN backlog : backlog'[i] = backlog[i]
      /\ backlog'[Len(backlog) + 1] = << p, request >>
  BY <1>1, <1>3
<1>5. \A i \in DOMAIN backlog : backlog[i][1] # p
  BY <1>2 DEF HostInv, BacklogWaits
<1>6. BacklogWaits'
  <2>1. \A i \in DOMAIN backlog : backlog[i][1] \in Pages
    BY <1>3
  <2> QED BY <1>2, <1>3, <1>4, <1>5, <2>1 DEF HostInv, BacklogWaits
<1>7. HostTypeOK'
  BY <1>2, <1>3, <1>4 DEF HostInv, HostTypeOK, socketVars, frontVars, shownVars
<1>8. ClientsAreOpen'
  BY <1>2, <1>3 DEF HostInv, ClientsAreOpen, HostTypeOK
<1>9. NothingBeforeTheAnswer'
  BY <1>2, <1>3 DEF HostInv, NothingBeforeTheAnswer
<1>10. TickKnows'
  BY <1>2 DEF HostInv, TickKnows
<1>11. PagesHaveTheLines' /\ PagesHaveTheFrame'
  BY <1>2 DEF HostInv, PagesHaveTheLines, PagesHaveTheFrame, IsReading, LinesFor
<1> QED BY <1>6, <1>7, <1>8, <1>9, <1>10, <1>11 DEF HostInv

\* What leaves all but the goodbyes and what the invariant does not know.
LEMMA QuietKeeps ==
  ASSUME HostInv, gone \subseteq gone',
         UNCHANGED << connection, backlog, clients, listening, frontVars, hostDisplay, lines, from,
                      seen, printedLines, tick, sending >>
  PROVE  HostInv'
<1>1. HostTypeOK' /\ BacklogWaits' /\ ClientsAreOpen' /\ NothingBeforeTheAnswer' /\ TickKnows'
  BY DEF HostInv, HostTypeOK, BacklogWaits, ClientsAreOpen, NothingBeforeTheAnswer, TickKnows,
         frontVars
<1>2. PagesHaveTheLines' /\ PagesHaveTheFrame'
  BY StillReading DEF HostInv, PagesHaveTheLines, PagesHaveTheFrame, LinesFor, frontVars
<1> QED BY <1>1, <1>2 DEF HostInv

LEMMA BrowsersKeep == HostInv /\ Browsers => HostInv'
<1> SUFFICES ASSUME HostInv, Browsers PROVE HostInv'
  OBVIOUS
<1>1. UNCHANGED << listening, socketVars, sendBuffer, frontVars, hostDisplay, tick, sending,
                   shownVars >>
  BY DEF Browsers
<1>2. PICK p \in Pages : PageConnects(p) \/ PageSends(p) \/ PageReads(p) \/ PageGoes(p)
  BY DEF Browsers
<1>3. CASE PageConnects(p)
  BY <1>1, <1>3, ConnectsKeeps
<1>4. CASE PageSends(p) \/ PageReads(p) \/ PageGoes(p)
  <2>1. UNCHANGED << connection, backlog >> /\ gone \subseteq gone'
    BY <1>4 DEF PageSends, PageReads, PageGoes
  <2> QED BY <1>1, <2>1, QuietKeeps DEF socketVars, shownVars
<1> QED BY <1>2, <1>3, <1>4

-----------------------------------------------------------------------------
(* The tick between its sends *)

\* The tick goes on; no page is sent anything, and none is behind.
LEMMA GoesOnKeeps ==
  ASSUME HostInv, NEW where \in {"between", "accept", "read", "firmware", "broadcast"},
         tick' = << where, 1 >>, UNCHANGED sending, tick[1] \notin {"sending", "ended"},
         where = "accept" \/ where = "read" => listening,
         where = "between" => ~hostForce',
         hostForce' = hostForce \/ (hostForce' = FALSE /\ \A s \in ClientSlots :
                                      IsReading(s) => seen[clients[s]] = hostFrame),
         hostDisplay' \in {0, 1}, UNCHANGED hostFrame,
         UNCHANGED << connection, gone, backlog, clients, listening, lines, from, seen,
                      printedLines >>
  PROVE  HostInv'
<1>1. tick'[1] = where /\ tick'[2] = 1 /\ 1 \in ClientSlots
  BY WebHostAssumption DEF ClientSlots
<1>2. hostForce' \in BOOLEAN
  BY DEF HostInv, HostTypeOK
<1>3. HostTypeOK'
  BY <1>2 DEF HostInv, HostTypeOK
<1>4. BacklogWaits' /\ ClientsAreOpen' /\ NothingBeforeTheAnswer'
  BY DEF HostInv, BacklogWaits, ClientsAreOpen, NothingBeforeTheAnswer
<1>5. TickKnows'
  BY <1>1 DEF HostInv, TickKnows
<1>6. PagesHaveTheLines'
  BY <1>1 DEF HostInv, PagesHaveTheLines, IsReading, LinesFor
<1>7. PagesHaveTheFrame'
  BY <1>1 DEF HostInv, PagesHaveTheFrame, IsReading
<1> QED BY <1>3, <1>4, <1>5, <1>6, <1>7 DEF HostInv

LEMMA BeginTickKeeps == HostInv /\ BeginTick => HostInv'
<1> SUFFICES ASSUME HostInv, BeginTick PROVE HostInv'
  OBVIOUS
<1>1. /\ tick' = << IF listening THEN "accept" ELSE "firmware", 1 >>
      /\ UNCHANGED << sending, printedLines >> /\ tick[1] = "between"
  BY DEF BeginTick, GoTo
<1>2. UNCHANGED << connection, gone, backlog, clients, listening, hostForce, hostFrame, hostDisplay,
                   lines, from, seen >>
  BY DEF BeginTick, browserVars, socketVars, frontVars
<1>3. hostDisplay' \in {0, 1}
  BY <1>2 DEF HostInv, HostTypeOK
<1>4. CASE listening
  BY <1>1, <1>2, <1>3, <1>4, GoesOnKeeps
<1>5. CASE ~listening
  BY <1>1, <1>2, <1>3, <1>5, GoesOnKeeps
<1> QED BY <1>4, <1>5

\* A line begins to be sent: every page is one behind.
LEMMA PrintsKeeps ==
  ASSUME HostInv, NEW then \in {"accept", "broadcast"}, PrintLine(then),
         tick[1] \notin {"sending", "ended"}, then = "accept" => listening,
         hostDisplay' \in {0, 1},
         UNCHANGED << connection, gone, backlog, clients, listening, frontVars, lines, from, seen >>
  PROVE  HostInv'
<1>1. /\ printedLines' = printedLines + 1
      /\ tick'[1] = "sending" /\ tick'[2] = 1 /\ tick' = << "sending", 1 >>
      /\ sending'[1] = "line" /\ sending'[2] = then /\ sending' = << "line", then >>
  BY DEF PrintLine
<1>2. HostTypeOK'
  BY <1>1 DEF HostInv, HostTypeOK, frontVars
<1>3. BacklogWaits' /\ ClientsAreOpen' /\ NothingBeforeTheAnswer'
  BY DEF HostInv, BacklogWaits, ClientsAreOpen, NothingBeforeTheAnswer
<1>4. TickKnows'
  BY <1>1 DEF HostInv, TickKnows, frontVars
<1>5. \A s \in ClientSlots : LinesFor(s)' = LinesFor(s)
  <2>1. printedLines \in Nat /\ \A s \in ClientSlots : 1 <= s
    BY DEF HostInv, HostTypeOK, ClientSlots
  <2>2. (printedLines + 1) - 1 = printedLines
    BY <2>1
  <2> QED BY <1>1, <2>1, <2>2 DEF LinesFor
<1>6. PagesHaveTheLines'
  BY <1>5 DEF HostInv, PagesHaveTheLines, IsReading
<1>7. PagesHaveTheFrame'
  BY <1>1 DEF HostInv, PagesHaveTheFrame, IsReading, frontVars
<1> QED BY <1>2, <1>3, <1>4, <1>6, <1>7 DEF HostInv

LEMMA FirmwareKeeps == HostInv /\ FirmwareTask => HostInv'
<1> SUFFICES ASSUME HostInv, FirmwareTask PROVE HostInv'
  OBVIOUS
<1>1. /\ tick[1] = "firmware"
      /\ GoTo("broadcast") \/ PrintLine("broadcast")
      /\ UNCHANGED << connection, gone, backlog, clients, listening, frontVars, lines, from, seen >>
  BY DEF FirmwareTask, browserVars, socketVars
<1>2. hostDisplay' \in {0, 1}
  <2>1. hostDisplay \in {0, 1} /\ (hostDisplay' = hostDisplay \/ hostDisplay' = 1 - hostDisplay)
    BY DEF FirmwareTask, HostInv, HostTypeOK
  <2> QED BY <2>1
<1>3. CASE GoTo("broadcast")
  BY <1>1, <1>2, <1>3, GoesOnKeeps DEF GoTo, frontVars
<1>4. CASE PrintLine("broadcast")
  BY <1>1, <1>2, <1>4, PrintsKeeps
<1> QED BY <1>1, <1>3, <1>4

\* A frame that is due is sent while the force is taken back; it is not sent where every page
\* has it.
LEMMA BroadcastKeeps == HostInv /\ BroadcastHostFrame => HostInv'
<1> SUFFICES ASSUME HostInv, BroadcastHostFrame PROVE HostInv'
  OBVIOUS
<1>1. /\ tick[1] = "broadcast"
      /\ UNCHANGED << connection, gone, backlog, clients, listening, hostDisplay, lines, from, seen,
                      printedLines >>
  BY DEF BroadcastHostFrame, browserVars, socketVars, shownVars, GoTo
<1>2. hostDisplay' \in {0, 1} /\ hostForce \in BOOLEAN
  BY <1>1 DEF HostInv, HostTypeOK
<1>3. CASE ~listening
  <2>1. /\ tick' = << "between", 1 >> /\ UNCHANGED << sending, hostForce, hostFrame >>
    BY <1>3 DEF BroadcastHostFrame, GoTo, frontVars
  <2>2. ~hostForce
    BY <1>3 DEF HostInv, TickKnows
  <2> QED BY <1>1, <1>2, <2>1, <2>2, GoesOnKeeps
<1>4. CASE listening
  <2> DEFINE isDue == hostForce \/ hostCountdown = 0
             sends == isDue /\ Connected # {} /\ (hostForce \/ hostFrame # hostDisplay)
  <2>1. hostForce' = FALSE
    BY <1>4 DEF BroadcastHostFrame
  <2>2. CASE ~sends
    <3>1. hostFrame' = hostFrame /\ tick' = << "between", 1 >> /\ UNCHANGED sending
      BY <1>4, <2>2 DEF BroadcastHostFrame
    <3>2. hostForce => Connected = {}
      BY <2>2
    <3>3. \A s \in ClientSlots : IsReading(s) => seen[clients[s]] = hostFrame
      BY <1>1, <3>2 DEF HostInv, PagesHaveTheFrame, IsReading, Connected
    <3> QED BY <1>1, <1>2, <2>1, <3>1, <3>3, GoesOnKeeps
  <2>3. CASE sends
    <3>1. /\ hostFrame' = hostDisplay /\ tick' = << "sending", 1 >>
          /\ sending' = << "frame", "between" >>
      BY <1>4, <2>3 DEF BroadcastHostFrame
    <3>2. tick'[1] = "sending" /\ tick'[2] = 1 /\ sending'[1] = "frame" /\ sending'[2] = "between"
      BY <3>1
    <3>3. HostTypeOK'
      <4>1. tick' \in {"between", "accept", "read", "firmware", "broadcast", "sending", "ended"}
                        \X (Nat \ {0})
        BY <3>1
      <4> QED BY <1>1, <2>1, <3>1, <4>1 DEF HostInv, HostTypeOK
    <3>4. BacklogWaits' /\ ClientsAreOpen' /\ NothingBeforeTheAnswer'
      BY <1>1 DEF HostInv, BacklogWaits, ClientsAreOpen, NothingBeforeTheAnswer
    <3>5. TickKnows'
      BY <1>1, <1>4, <2>1, <3>1, <3>2 DEF TickKnows
    <3>6. PagesHaveTheLines'
      BY <1>1, <3>2 DEF HostInv, PagesHaveTheLines, IsReading, LinesFor
    <3>7. PagesHaveTheFrame'
      <4>1. \A s \in ClientSlots : ~(s < 1)
        BY DEF ClientSlots
      <4> QED BY <3>2, <4>1 DEF PagesHaveTheFrame
    <3> QED BY <3>3, <3>4, <3>5, <3>6, <3>7 DEF HostInv
  <2> QED BY <2>2, <2>3
<1> QED BY <1>2, <1>3, <1>4

-----------------------------------------------------------------------------
(* A connection that waits is answered *)

\* The first of the connections that wait is nobody's that is open, and what is left still waits.
LEMMA FirstOfTheBacklog ==
  ASSUME HostInv, backlog # << >>
  PROVE  LET p == Head(backlog)[1]
         IN  /\ p \in Pages /\ p # Nobody
             /\ connection[p] = "waiting" /\ lines[p] = << >>
             /\ \A s \in ClientSlots : clients[s] # p
             /\ Tail(backlog) \in Seq(Pages \X Requests)
             /\ \A i \in DOMAIN Tail(backlog) :
                  /\ Tail(backlog)[i][1] \in Pages
                  /\ connection[Tail(backlog)[i][1]] = "waiting" /\ Tail(backlog)[i][1] # p
                  /\ \A j \in DOMAIN Tail(backlog) :
                       Tail(backlog)[i][1] = Tail(backlog)[j][1] => i = j
<1> DEFINE p == Head(backlog)[1]
           rest == Tail(backlog)
<1>1. backlog \in Seq(Pages \X Requests) /\ Len(backlog) \in Nat \ {0}
  BY DEF HostInv, HostTypeOK
<1>2. /\ Head(backlog) = backlog[1] /\ 1 \in DOMAIN backlog /\ backlog[1] \in Pages \X Requests
      /\ rest \in Seq(Pages \X Requests)
      /\ DOMAIN rest = 1 .. Len(backlog) - 1
      /\ \A i \in DOMAIN rest : rest[i] = backlog[i + 1] /\ i + 1 \in DOMAIN backlog
  BY <1>1
<1>3. p = backlog[1][1] /\ p \in Pages
  BY <1>2
<1>4. p # Nobody
  BY <1>3, WebHostAssumption DEF Pages
<1>5. connection[p] = "waiting"
  BY <1>2, <1>3 DEF HostInv, BacklogWaits
<1>6. lines[p] = << >> /\ \A s \in ClientSlots : clients[s] # p
  BY <1>3, <1>4, <1>5 DEF HostInv, NothingBeforeTheAnswer, ClientsAreOpen
<1>7. ASSUME NEW i \in DOMAIN rest
      PROVE  /\ rest[i][1] \in Pages
             /\ connection[rest[i][1]] = "waiting" /\ rest[i][1] # p
             /\ \A j \in DOMAIN rest : rest[i][1] = rest[j][1] => i = j
  <2>1. rest[i] = backlog[i + 1] /\ i + 1 \in DOMAIN backlog /\ i + 1 # 1 /\ i \in Nat
    BY <1>1, <1>2
  <2>2. backlog[i + 1] \in Pages \X Requests
    BY <1>1, <2>1
  <2>3. connection[rest[i][1]] = "waiting" /\ rest[i][1] # p
    BY <1>2, <1>3, <2>1 DEF HostInv, BacklogWaits
  <2>4. ASSUME NEW j \in DOMAIN rest, rest[i][1] = rest[j][1] PROVE i = j
    <3>1. rest[j] = backlog[j + 1] /\ j + 1 \in DOMAIN backlog /\ j \in Nat
      BY <1>1, <1>2
    <3>2. i + 1 = j + 1
      BY <2>1, <2>4, <3>1 DEF HostInv, BacklogWaits
    <3> QED BY <2>1, <3>1, <3>2
  <2> QED BY <2>1, <2>2, <2>3, <2>4
<1> QED BY <1>2, <1>3, <1>4, <1>5, <1>6, <1>7

\* Whether it is hung up on or becomes a client.
LEMMA AnsweredKeeps ==
  ASSUME HostInv, backlog # << >>, backlog' = Tail(backlog),
         NEW state \in {"open", "closed"},
         connection' = [connection EXCEPT ![Head(backlog)[1]] = state], UNCHANGED lines
  PROVE  BacklogWaits' /\ NothingBeforeTheAnswer'
<1> DEFINE p == Head(backlog)[1]
<1>1. connection' = [connection EXCEPT ![p] = state] /\ p \in Pages
  BY FirstOfTheBacklog
<1>2. /\ \A i \in DOMAIN backlog' :
           /\ backlog'[i][1] \in Pages /\ connection[backlog'[i][1]] = "waiting"
           /\ backlog'[i][1] # p
           /\ \A j \in DOMAIN backlog' : backlog'[i][1] = backlog'[j][1] => i = j
  BY FirstOfTheBacklog
<1> HIDE DEF p
<1>3. BacklogWaits'
  BY <1>1, <1>2 DEF BacklogWaits, HostInv, HostTypeOK
<1>4. NothingBeforeTheAnswer'
  BY <1>1 DEF HostInv, HostTypeOK, NothingBeforeTheAnswer
<1> QED BY <1>3, <1>4

\* A line that is about to be sent leaves every slot one line behind, and none as it was.
LEMMA LinesForStay ==
  ASSUME HostInv, tick[1] # "sending", GoTo("accept") \/ PrintLine("accept")
  PROVE  \A s \in ClientSlots : LinesFor(s)' = LinesFor(s)
<1>1. printedLines \in Nat /\ \A s \in ClientSlots : 1 <= s
  BY DEF HostInv, HostTypeOK, ClientSlots
<1>2. (printedLines + 1) - 1 = printedLines
  BY <1>1
<1>3. CASE GoTo("accept")
  <2>1. tick'[1] = "accept" /\ UNCHANGED printedLines
    BY <1>3 DEF GoTo
  <2> QED BY <2>1 DEF LinesFor
<1>4. CASE PrintLine("accept")
  <2>1. /\ tick'[1] = "sending" /\ tick'[2] = 1 /\ sending'[1] = "line"
        /\ printedLines' = printedLines + 1
    BY <1>4 DEF PrintLine
  <2> QED BY <1>1, <1>2, <2>1 DEF LinesFor
<1> QED BY <1>3, <1>4

LEMMA HangUpKeeps ==
  ASSUME HostInv, tick[1] = "accept", backlog # << >>, NEW answer,
         HangUp(Head(backlog)[1], answer), backlog' = Tail(backlog),
         GoTo("accept") \/ PrintLine("accept"),
         UNCHANGED << gone, listening, hostFrame, hostDisplay, lines, seen >>
  PROVE  HostInv'
<1> DEFINE p == Head(backlog)[1]
<1>1. /\ connection' = [connection EXCEPT ![p] = "closed"]
      /\ UNCHANGED << clients, hostForce, from >>
  BY DEF HangUp
<1>2. p \in Pages /\ backlog' \in Seq(Pages \X Requests) /\ \A s \in ClientSlots : clients[s] # p
  BY FirstOfTheBacklog
<1>3. BacklogWaits' /\ NothingBeforeTheAnswer'
  BY <1>1, AnsweredKeeps
<1> HIDE DEF p
<1>4. listening
  BY DEF HostInv, TickKnows
<1>5. \/ tick' = << "accept", 1 >> /\ tick'[1] = "accept" /\ UNCHANGED << printedLines, sending >>
      \/ /\ tick' = << "sending", 1 >> /\ tick'[1] = "sending" /\ tick'[2] = 1
         /\ sending' = << "line", "accept" >> /\ sending'[1] = "line" /\ sending'[2] = "accept"
         /\ printedLines' = printedLines + 1
  BY DEF GoTo, PrintLine
<1>6. tick' \in {"between", "accept", "read", "firmware", "broadcast", "sending", "ended"}
                  \X (Nat \ {0})
  BY <1>5
<1>7. HostTypeOK'
  BY <1>1, <1>2, <1>5, <1>6 DEF HostInv, HostTypeOK
<1>8. ClientsAreOpen'
  <2>1. \A s \in ClientSlots :
          clients[s] # Nobody => connection'[clients[s]] = connection[clients[s]]
    BY <1>1, <1>2 DEF HostInv, HostTypeOK
  <2> QED BY <1>1, <2>1 DEF HostInv, ClientsAreOpen
<1>9. TickKnows'
  BY <1>1, <1>4, <1>5 DEF TickKnows
<1>10. PagesHaveTheLines'
  BY <1>1, LinesForStay DEF HostInv, PagesHaveTheLines, IsReading
<1>11. PagesHaveTheFrame'
  BY <1>1, <1>5 DEF HostInv, PagesHaveTheFrame, IsReading
<1> QED BY <1>3, <1>7, <1>8, <1>9, <1>10, <1>11 DEF HostInv

\* The slot a page gets is one nobody has.
LEMMA FreeClientSlot ==
  ASSUME ~IsHostFull
  PROVE  FindFreeSlot \in ClientSlots /\ clients[FindFreeSlot] = Nobody
<1> DEFINE free == {s \in ClientSlots : clients[s] = Nobody}
<1>1. free \subseteq Nat /\ free # {}
  BY WebHostAssumption DEF IsHostFull, ClientSlots
<1>2. PICK s \in free : \A n \in Nat : n < s => n \notin free
  <2> HIDE DEF free
  <2> QED BY <1>1, SmallestOf
<1>3. \A t \in 1 .. s - 1 : clients[t] # Nobody
  BY <1>1, <1>2, WebHostAssumption DEF ClientSlots
<1> QED BY <1>2, <1>3 DEF FindFreeSlot

\* It has missed no line that is not from before, and waits for its first frame.
LEMMA BecomeClientKeeps ==
  ASSUME HostInv, tick[1] = "accept", backlog # << >>, ~IsHostFull,
         BecomeClient(Head(backlog)[1]), backlog' = Tail(backlog), GoTo("accept"),
         UNCHANGED << gone, listening, hostFrame, hostDisplay, lines, seen >>
  PROVE  HostInv'
<1> DEFINE p == Head(backlog)[1]
           free == FindFreeSlot
<1>1. /\ connection' = [connection EXCEPT ![p] = "open"]
      /\ clients' = [clients EXCEPT ![free] = p]
      /\ from' = [from EXCEPT ![p] = printedLines]
      /\ hostForce' = TRUE
  BY DEF BecomeClient
<1>2. /\ p \in Pages /\ p # Nobody /\ backlog' \in Seq(Pages \X Requests) /\ lines[p] = << >>
      /\ \A s \in ClientSlots : clients[s] # p
  BY FirstOfTheBacklog
<1>3. BacklogWaits' /\ NothingBeforeTheAnswer'
  BY <1>1, AnsweredKeeps
<1>4. free \in ClientSlots /\ clients[free] = Nobody
  BY FreeClientSlot
<1> HIDE DEF p, free
<1>5. listening /\ printedLines \in Nat
  BY DEF HostInv, HostTypeOK, TickKnows
<1>6. tick' = << "accept", 1 >> /\ tick'[1] = "accept" /\ UNCHANGED << printedLines, sending >>
  BY DEF GoTo
<1>7. tick' \in {"between", "accept", "read", "firmware", "broadcast", "sending", "ended"}
                  \X (Nat \ {0})
  BY <1>6
<1>8. HostTypeOK'
  BY <1>1, <1>2, <1>4, <1>6, <1>7 DEF HostInv, HostTypeOK
<1>9. \A s \in ClientSlots : clients'[s] = IF s = free THEN p ELSE clients[s]
  BY <1>1, <1>4 DEF HostInv, HostTypeOK
<1>10. \A q \in Pages : /\ connection'[q] = IF q = p THEN "open" ELSE connection[q]
                        /\ from'[q] = IF q = p THEN printedLines ELSE from[q]
  BY <1>1, <1>2 DEF HostInv, HostTypeOK
<1>11. \A s \in ClientSlots : clients[s] # Nobody => clients[s] \in Pages
  BY DEF HostInv, HostTypeOK
<1>12. ClientsAreOpen'
  <2>1. \A s \in ClientSlots : clients'[s] # Nobody => connection'[clients'[s]] = "open"
    BY <1>2, <1>9, <1>10, <1>11 DEF HostInv, ClientsAreOpen
  <2>2. \A s, t \in ClientSlots : clients'[s] = clients'[t] /\ clients'[s] # Nobody => s = t
    BY <1>2, <1>9 DEF HostInv, ClientsAreOpen
  <2> QED BY <2>1, <2>2 DEF ClientsAreOpen
<1>13. TickKnows'
  BY <1>5, <1>6 DEF TickKnows
<1>14. PagesHaveTheLines'
  <2>1. \A s \in ClientSlots : LinesFor(s)' = printedLines /\ LinesFor(s) = printedLines
    BY <1>6 DEF LinesFor
  <2> SUFFICES ASSUME NEW s \in ClientSlots, IsReading(s)'
               PROVE  /\ from'[clients'[s]] <= printedLines
                      /\ lines[clients'[s]]
                           = [i \in 1 .. printedLines - from'[clients'[s]]
                                |-> from'[clients'[s]] + i]
    BY <2>1 DEF PagesHaveTheLines
  <2>2. CASE s = free
    <3>1. clients'[s] = p /\ from'[p] = printedLines
      BY <1>2, <1>9, <1>10, <2>2
    <3>2. 1 .. printedLines - printedLines = {}
      BY <1>5
    <3>3. << >> = [i \in 1 .. printedLines - printedLines |-> printedLines + i]
      BY <3>2
    <3> QED BY <1>2, <1>5, <3>1, <3>3
  <2>3. CASE s # free
    <3>1. clients'[s] = clients[s] /\ IsReading(s)
      BY <1>9, <2>3 DEF IsReading
    <3>2. from'[clients[s]] = from[clients[s]]
      BY <1>2, <1>10, <1>11, <3>1 DEF IsReading
    <3> QED BY <2>1, <3>1, <3>2 DEF HostInv, PagesHaveTheLines
  <2> QED BY <2>2, <2>3
<1>15. PagesHaveTheFrame'
  BY <1>1, <1>6 DEF PagesHaveTheFrame
<1> QED BY <1>3, <1>8, <1>12, <1>13, <1>14, <1>15 DEF HostInv

LEMMA AcceptKeeps == HostInv /\ AcceptClients => HostInv'
<1> SUFFICES ASSUME HostInv, AcceptClients PROVE HostInv'
  OBVIOUS
<1>1. /\ tick[1] = "accept"
      /\ UNCHANGED << gone, listening, hostFrame, hostDisplay, lines, seen >>
  BY DEF AcceptClients
<1>2. CASE backlog = << >>
  <2>1. /\ tick' = << "read", 1 >> /\ UNCHANGED << printedLines, sending >>
        /\ UNCHANGED << connection, clients, hostForce, from, backlog >>
    BY <1>2 DEF AcceptClients, GoTo
  <2>2. listening /\ hostDisplay' \in {0, 1}
    BY <1>1 DEF HostInv, HostTypeOK, TickKnows
  <2> QED BY <1>1, <2>1, <2>2, GoesOnKeeps
<1>3. CASE backlog # << >>
  <2> DEFINE p == Head(backlog)[1]
             request == Head(backlog)[2]
  <2>1. PICK answer : Serve(p, request, answer)
    BY <1>3 DEF AcceptClients
  <2>2. /\ backlog' = Tail(backlog)
        /\ IF request = "image" /\ ~IsHostFull THEN PrintLine("accept") ELSE GoTo("accept")
    BY <1>3 DEF AcceptClients
  <2>3. HangUp(p, << "nothing", << >> >>) \/ HangUp(p, answer)
          \/ (~IsHostFull /\ request = "socket" /\ BecomeClient(p))
    BY <2>1 DEF Serve
  <2>4. CASE HangUp(p, << "nothing", << >> >>) \/ HangUp(p, answer)
    BY <1>1, <1>3, <2>2, <2>4, HangUpKeeps
  <2>5. CASE ~IsHostFull /\ request = "socket" /\ BecomeClient(p)
    BY <1>1, <1>3, <2>2, <2>5, BecomeClientKeeps
  <2> QED BY <2>3, <2>4, <2>5
<1> QED BY <1>2, <1>3

-----------------------------------------------------------------------------
(* The web sockets are read *)

\* A client that is dropped leaves its slot, and no other page's.
LEMMA DropKeeps ==
  ASSUME HostInv, NEW slot \in ClientSlots, clients[slot] # Nobody, DropClient(slot),
         tick[1] = "read", tick'[1] \in {"read", "firmware"},
         UNCHANGED << backlog, gone, lines, from, seen, printedLines, hostForce, hostFrame >>
  PROVE  /\ connection' \in [Pages -> {"away", "waiting", "open", "closed"}]
         /\ clients' \in [ClientSlots -> Pages \union {Nobody}]
         /\ BacklogWaits' /\ ClientsAreOpen' /\ NothingBeforeTheAnswer'
         /\ PagesHaveTheLines' /\ PagesHaveTheFrame'
         /\ \A s \in ClientSlots : clients'[s] \in {clients[s], Nobody}
<1> DEFINE p == clients[slot]
<1>1. /\ connection' = [connection EXCEPT ![p] = "closed"]
      /\ clients' = [clients EXCEPT ![slot] = Nobody]
  BY DEF DropClient
<1>2. /\ p \in Pages /\ connection[p] = "open"
      /\ \A s \in ClientSlots : s # slot => clients[s] # p
  BY DEF HostInv, HostTypeOK, ClientsAreOpen
<1> HIDE DEF p
<1>3. /\ connection' \in [Pages -> {"away", "waiting", "open", "closed"}]
      /\ clients' \in [ClientSlots -> Pages \union {Nobody}]
      /\ \A s \in ClientSlots : clients'[s] = IF s = slot THEN Nobody ELSE clients[s]
      /\ \A q \in Pages : connection'[q] = IF q = p THEN "closed" ELSE connection[q]
  BY <1>1 DEF HostInv, HostTypeOK
<1>4. BacklogWaits'
  <2>1. \A i \in DOMAIN backlog : backlog[i][1] \in Pages /\ connection[backlog[i][1]] = "waiting"
    BY DEF HostInv, HostTypeOK, BacklogWaits
  <2> QED BY <1>2, <1>3, <2>1 DEF HostInv, BacklogWaits
<1>5. ClientsAreOpen'
  <2>1. \A s \in ClientSlots : clients[s] # Nobody => clients[s] \in Pages
    BY DEF HostInv, HostTypeOK
  <2> QED BY <1>2, <1>3, <2>1 DEF HostInv, ClientsAreOpen
<1>6. NothingBeforeTheAnswer'
  BY <1>3 DEF HostInv, NothingBeforeTheAnswer
<1>7. \A s \in ClientSlots : IsReading(s)' => IsReading(s) /\ clients'[s] = clients[s]
  BY <1>3 DEF IsReading
<1>8. PagesHaveTheLines'
  BY <1>7 DEF HostInv, PagesHaveTheLines, LinesFor
<1>9. PagesHaveTheFrame'
  BY <1>7 DEF HostInv, PagesHaveTheFrame
<1> QED BY <1>3, <1>4, <1>5, <1>6, <1>8, <1>9

LEMMA ReadKeeps == HostInv /\ ReadClient => HostInv'
<1> SUFFICES ASSUME HostInv, ReadClient PROVE HostInv'
  OBVIOUS
<1> DEFINE slot == tick[2]
           p == clients[slot]
<1>1. /\ tick[1] = "read" /\ slot \in ClientSlots /\ listening
      /\ UNCHANGED << gone, listening, backlog, hostForce, hostFrame, hostDisplay, sending, from,
                      printedLines, lines, seen >>
  BY DEF ReadClient, HostInv, TickKnows, frontVars
<1>2. /\ tick' \in {"between", "accept", "read", "firmware", "broadcast", "sending", "ended"}
                    \X (Nat \ {0})
      /\ tick'[1] \in {"read", "firmware"}
      /\ tick'[1] = "read" => tick'[2] \in ClientSlots
  <2>1. HostSlots \in Nat \ {0} /\ slot \in Nat /\ slot >= 1 /\ slot <= HostSlots
    BY <1>1, WebHostAssumption DEF ClientSlots
  <2>2. CASE slot = HostSlots
    <3>1. tick' = << "firmware", 1 >>
      BY <2>2 DEF ReadClient, ReadNextSlot
    <3> QED BY <3>1
  <2>3. CASE slot # HostSlots
    <3>1. tick' = << "read", slot + 1 >>
      BY <2>3 DEF ReadClient, ReadNextSlot
    <3>2. slot + 1 \in Nat \ {0} /\ slot + 1 \in 1 .. HostSlots
      BY <2>1, <2>3
    <3> QED BY <3>1, <3>2 DEF ClientSlots
  <2> QED BY <2>2, <2>3
<1>3. UNCHANGED << clients, connection >> \/ (p # Nobody /\ DropClient(slot))
  <2>1. CASE ReadNothing
    BY <2>1 DEF ReadNothing
  <2>2. CASE p # Nobody /\ DropClient(slot)
    BY <2>2
  <2>3. CASE p # Nobody /\ \E buffer : Receive(slot, p, buffer)
    BY <2>3 DEF Receive
  <2>4. ReadNothing \/ (p # Nobody /\ (DropClient(slot) \/ \E buffer : Receive(slot, p, buffer)))
    BY DEF ReadClient
  <2> QED BY <2>1, <2>2, <2>3, <2>4
<1>4. TickKnows' <=> (~listening => ~hostForce /\ \A s \in ClientSlots : clients'[s] = Nobody)
  BY <1>1, <1>2 DEF TickKnows
<1>5. TickKnows'
  BY <1>1, <1>4
<1>6. CASE UNCHANGED << clients, connection >>
  <2>1. HostTypeOK' /\ BacklogWaits' /\ ClientsAreOpen' /\ NothingBeforeTheAnswer'
    BY <1>1, <1>2, <1>6
       DEF HostInv, HostTypeOK, BacklogWaits, ClientsAreOpen, NothingBeforeTheAnswer
  <2>2. PagesHaveTheLines' /\ PagesHaveTheFrame'
    BY <1>1, <1>2, <1>6 DEF HostInv, PagesHaveTheLines, PagesHaveTheFrame, IsReading, LinesFor
  <2> QED BY <1>5, <2>1, <2>2 DEF HostInv
<1>7. CASE p # Nobody /\ DropClient(slot)
  <2>1. /\ connection' \in [Pages -> {"away", "waiting", "open", "closed"}]
        /\ clients' \in [ClientSlots -> Pages \union {Nobody}]
        /\ BacklogWaits' /\ ClientsAreOpen' /\ NothingBeforeTheAnswer'
        /\ PagesHaveTheLines' /\ PagesHaveTheFrame'
    BY <1>1, <1>2, <1>7, DropKeeps
  <2>2. HostTypeOK'
    BY <1>1, <1>2, <2>1 DEF HostInv, HostTypeOK
  <2> QED BY <1>5, <2>1, <2>2 DEF HostInv
<1> QED BY <1>3, <1>6, <1>7

-----------------------------------------------------------------------------
(* Lines and frames are sent *)

\* A line that is the next one makes the stretch of lines one longer.
LEMMA OneLineMore ==
  ASSUME NEW first \in Nat, NEW n \in Nat, first <= n, NEW read,
         read = [i \in 1 .. n - first |-> first + i]
  PROVE  Append(read, n + 1) = [i \in 1 .. (n + 1) - first |-> first + i]
<1>1. n - first \in Nat /\ (n + 1) - first = (n - first) + 1 /\ first + ((n - first) + 1) = n + 1
  OBVIOUS
<1> DEFINE m == n - first
<1>2. /\ m \in Nat /\ (n + 1) - first = m + 1 /\ first + (m + 1) = n + 1
      /\ read = [i \in 1 .. m |-> first + i]
  BY <1>1
<1> HIDE DEF m
<1>3. read \in Seq(Nat) /\ Len(read) = m
  BY <1>2
<1>4. Append(read, n + 1) = [i \in 1 .. m + 1 |-> IF i = m + 1 THEN n + 1 ELSE read[i]]
  BY <1>2, <1>3
<1>5. \A i \in 1 .. m + 1 : (IF i = m + 1 THEN n + 1 ELSE read[i]) = first + i
  BY <1>2
<1> QED BY <1>2, <1>4, <1>5

\* The walk goes on by one slot, and the page in that slot, where one reads, is sent the message.
LEMMA SendsOneKeeps ==
  ASSUME HostInv, SendToEveryClient, tick[2] <= HostSlots, tick[1] = "sending"
  PROVE  HostInv'
<1>0. PICK slot \in ClientSlots : slot = tick[2] /\ slot \in Nat \ {0} /\ ~(slot > HostSlots)
  <2>1. tick[2] \in Nat \ {0} /\ HostSlots \in Nat
    BY WebHostAssumption DEF HostInv, HostTypeOK
  <2>2. tick[2] \in ClientSlots /\ ~(tick[2] > HostSlots)
    BY <2>1 DEF ClientSlots
  <2> QED BY <2>1, <2>2
<1> DEFINE p == clients[slot]
<1>1. /\ tick' = << "sending", slot + 1 >> /\ UNCHANGED sending
      /\ UNCHANGED << connection, gone, listening, backlog, clients, hostForce, hostFrame,
                      hostDisplay, from, printedLines >>
      /\ IF p = Nobody \/ p \in gone THEN UNCHANGED << lines, seen >> ELSE Deliver(p)
  BY <1>0 DEF SendToEveryClient, SlotAfter, socketVars, frontVars
<1>2. slot \in Nat \ {0} /\ slot \in ClientSlots /\ tick[2] = slot
  BY <1>0
<1>3. /\ tick'[1] = "sending" /\ tick'[2] = slot + 1 /\ slot + 1 \in Nat \ {0}
      /\ tick' \in {"between", "accept", "read", "firmware", "broadcast", "sending", "ended"}
                    \X (Nat \ {0})
  <2>1. slot + 1 \in Nat \ {0}
    BY <1>2
  <2> QED BY <1>1, <2>1
<1>4. BacklogWaits' /\ ClientsAreOpen'
  BY <1>1 DEF HostInv, BacklogWaits, ClientsAreOpen
<1>5. TickKnows'
  BY <1>1, <1>3 DEF HostInv, TickKnows
<1>6. sending[1] \in {"line", "frame"}
  BY DEF HostInv, TickKnows
<1>7. /\ printedLines \in Nat /\ from \in [Pages -> Nat] /\ hostFrame \in {0, 1}
      /\ lines \in [Pages -> Seq(Nat)] /\ seen \in [Pages -> {Nobody, 0, 1}]
      /\ \A s \in ClientSlots : s \in Nat
  BY DEF HostInv, HostTypeOK, ClientSlots
<1>8. \A s \in ClientSlots : IsReading(s)' <=> IsReading(s)
  BY <1>1 DEF IsReading
<1>9. \A s \in ClientSlots : s # slot /\ IsReading(s) => clients[s] # p
  BY <1>2 DEF HostInv, ClientsAreOpen, IsReading
<1>10. \A s \in ClientSlots : s # slot => /\ LinesFor(s)' = LinesFor(s)
                                          /\ s < tick'[2] <=> s < slot
  <2>1. \A s \in Nat : s # slot => /\ slot + 1 <= s <=> slot <= s
                                   /\ s < slot + 1 <=> s < slot
    <3> HIDE DEF p
    <3> QED BY <1>2
  <2> QED BY <1>1, <1>2, <1>3, <1>7, <2>1 DEF LinesFor
<1>11. CASE p = Nobody \/ p \in gone
  <2>1. UNCHANGED << lines, seen >> /\ ~IsReading(slot)
    BY <1>1, <1>11 DEF IsReading
  <2>2. HostTypeOK' /\ NothingBeforeTheAnswer'
    BY <1>1, <1>3, <2>1 DEF HostInv, HostTypeOK, NothingBeforeTheAnswer
  <2>3. PagesHaveTheLines'
    BY <1>1, <1>8, <1>10, <2>1 DEF HostInv, PagesHaveTheLines
  <2>4. PagesHaveTheFrame'
    BY <1>1, <1>2, <1>3, <1>8, <1>10, <2>1 DEF HostInv, PagesHaveTheFrame
  <2> QED BY <1>4, <1>5, <2>2, <2>3, <2>4 DEF HostInv
<1>12. CASE ~(p = Nobody \/ p \in gone)
  <2>1. IsReading(slot) /\ p \in Pages /\ connection[p] = "open" /\ Deliver(p)
    BY <1>1, <1>2, <1>12 DEF HostInv, HostTypeOK, ClientsAreOpen, IsReading
  <2>2. CASE sending[1] = "line"
    <3>1. lines' = [lines EXCEPT ![p] = Append(@, printedLines)] /\ UNCHANGED seen
      BY <2>1, <2>2 DEF Deliver
    <3>2. LinesFor(slot) = printedLines - 1 /\ LinesFor(slot)' = printedLines
      <4>1. slot <= slot /\ ~(slot + 1 <= slot)
        BY <1>2
      <4> QED BY <1>1, <1>2, <1>3, <2>2, <4>1 DEF LinesFor
    <3>3. from[p] \in Nat /\ from[p] <= printedLines - 1
          /\ lines[p] = [i \in 1 .. (printedLines - 1) - from[p] |-> from[p] + i]
      BY <1>2, <1>7, <2>1, <3>2 DEF HostInv, PagesHaveTheLines
    <3>4. printedLines - 1 \in Nat /\ (printedLines - 1) + 1 = printedLines
      <4>1. from[p] \in Nat /\ from[p] <= printedLines - 1 /\ printedLines \in Nat
        BY <1>7, <3>3
      <4> HIDE DEF p
      <4> QED BY <4>1
    <3>5. Append(lines[p], printedLines) = [i \in 1 .. printedLines - from[p] |-> from[p] + i]
      <4> DEFINE n == printedLines - 1
      <4>1. n \in Nat /\ n + 1 = printedLines
        BY <3>4
      <4>2. from[p] <= n /\ lines[p] = [i \in 1 .. n - from[p] |-> from[p] + i]
        BY <3>3
      <4> HIDE DEF n
      <4>3. Append(lines[p], n + 1) = [i \in 1 .. (n + 1) - from[p] |-> from[p] + i]
        BY <3>3, <4>1, <4>2, OneLineMore
      <4> QED BY <4>1, <4>3
    <3>6. /\ lines' \in [Pages -> Seq(Nat)]
          /\ \A q \in Pages : lines'[q] = IF q = p THEN Append(lines[p], printedLines) ELSE lines[q]
      <4>1. Append(lines[p], printedLines) \in Seq(Nat)
        BY <1>7, <2>1
      <4> QED BY <1>7, <2>1, <3>1, <4>1
    <3>7. HostTypeOK'
      BY <1>1, <1>3, <3>1, <3>6 DEF HostInv, HostTypeOK
    <3>8. NothingBeforeTheAnswer'
      BY <1>1, <2>1, <3>6 DEF HostInv, NothingBeforeTheAnswer
    <3>9. PagesHaveTheFrame'
      <4>1. sending[1] # "frame" /\ sending'[1] # "frame"
        BY <1>1, <2>2
      <4> QED BY <1>1, <1>8, <3>1, <4>1 DEF HostInv, PagesHaveTheFrame
    <3>10. PagesHaveTheLines'
      <4> SUFFICES ASSUME NEW s \in ClientSlots, IsReading(s)
                   PROVE  /\ from[clients[s]] <= LinesFor(s)'
                          /\ lines'[clients[s]] = [i \in 1 .. LinesFor(s)' - from[clients[s]]
                                                     |-> from[clients[s]] + i]
        BY <1>1, <1>8 DEF PagesHaveTheLines
      <4>1. CASE s = slot
        <5>1. from[p] <= printedLines
          BY <1>7, <3>3
        <5> QED BY <2>1, <3>2, <3>5, <3>6, <4>1, <5>1
      <4>2. CASE s # slot
        <5>1. clients[s] \in Pages /\ lines'[clients[s]] = lines[clients[s]]
          BY <1>9, <3>6, <4>2 DEF HostInv, HostTypeOK, IsReading
        <5> QED BY <1>10, <4>2, <5>1 DEF HostInv, PagesHaveTheLines
      <4> QED BY <4>1, <4>2
    <3> QED BY <1>4, <1>5, <3>7, <3>8, <3>9, <3>10 DEF HostInv
  <2>3. CASE sending[1] = "frame"
    <3>1. seen' = [seen EXCEPT ![p] = hostFrame] /\ UNCHANGED lines
      BY <2>1, <2>3 DEF Deliver
    <3>2. HostTypeOK'
      BY <1>1, <1>3, <1>7, <3>1 DEF HostInv, HostTypeOK
    <3>3. NothingBeforeTheAnswer'
      BY <1>1, <3>1 DEF HostInv, NothingBeforeTheAnswer
    <3>4. \A s \in ClientSlots : LinesFor(s)' = LinesFor(s)
      BY <1>1, <2>3 DEF LinesFor
    <3>5. PagesHaveTheLines'
      BY <1>1, <1>8, <3>1, <3>4 DEF HostInv, PagesHaveTheLines
    <3>6. PagesHaveTheFrame'
      <4> SUFFICES ASSUME NEW s \in ClientSlots, IsReading(s), s < tick'[2]
                   PROVE  seen'[clients[s]] = hostFrame
        BY <1>1, <1>3, <1>8, <2>3 DEF PagesHaveTheFrame
      <4>1. CASE s = slot
        BY <1>7, <2>1, <3>1, <4>1
      <4>2. CASE s # slot
        <5>1. seen[clients[s]] = hostFrame
          BY <1>2, <1>10, <2>3, <4>2 DEF HostInv, PagesHaveTheFrame
        <5>2. clients[s] \in Pages /\ clients[s] # p
          BY <1>9, <4>2 DEF HostInv, HostTypeOK, IsReading
        <5> QED BY <1>7, <3>1, <5>1, <5>2
      <4> QED BY <4>1, <4>2
    <3> QED BY <1>4, <1>5, <3>2, <3>3, <3>5, <3>6 DEF HostInv
  <2> QED BY <1>6, <2>2, <2>3
<1> QED BY <1>11, <1>12

\* The walk is over: nobody is behind any more.
LEMMA SendingEndsKeeps ==
  ASSUME HostInv, SendToEveryClient, ~(tick[2] <= HostSlots), tick[1] = "sending"
  PROVE  HostInv'
<1>1. /\ tick' = << sending[2], 1 >>
      /\ UNCHANGED << connection, gone, listening, backlog, clients, hostForce, hostFrame,
                      hostDisplay, from, printedLines, lines, seen >>
  <2>1. tick[2] > HostSlots
    BY WebHostAssumption DEF HostInv, HostTypeOK
  <2> QED BY <2>1 DEF SendToEveryClient, socketVars, frontVars
<1>2. sending \in {<< "line", "accept" >>, << "line", "broadcast" >>, << "frame", "between" >>}
  BY DEF HostInv, TickKnows
<1>3. /\ tick'[1] = sending[2] /\ sending[2] \in {"accept", "broadcast", "between"}
      /\ tick' \in {"between", "accept", "read", "firmware", "broadcast", "sending", "ended"}
                    \X (Nat \ {0})
  BY <1>1, <1>2
<1>4. HostTypeOK' /\ BacklogWaits' /\ ClientsAreOpen' /\ NothingBeforeTheAnswer'
  BY <1>1, <1>3 DEF HostInv, HostTypeOK, BacklogWaits, ClientsAreOpen, NothingBeforeTheAnswer
<1>5. TickKnows'
  BY <1>1, <1>2, <1>3 DEF HostInv, TickKnows
<1>6. \A s \in ClientSlots : ~(tick[2] <= s) /\ s < tick[2]
  BY WebHostAssumption DEF HostInv, HostTypeOK, ClientSlots
<1>7. PagesHaveTheLines'
  <2>1. \A s \in ClientSlots : LinesFor(s)' = LinesFor(s)
    BY <1>1, <1>3, <1>6 DEF LinesFor
  <2> QED BY <1>1, <2>1 DEF HostInv, PagesHaveTheLines, IsReading
<1>8. PagesHaveTheFrame'
  <2>1. \A s \in ClientSlots : IsReading(s)' <=> IsReading(s)
    BY <1>1 DEF IsReading
  <2>2. \A s \in ClientSlots : IsReading(s) => hostForce \/ seen[clients[s]] = hostFrame
    BY <1>6 DEF HostInv, PagesHaveTheFrame
  <2> QED BY <1>1, <1>3, <2>1, <2>2 DEF PagesHaveTheFrame
<1> QED BY <1>4, <1>5, <1>7, <1>8 DEF HostInv

-----------------------------------------------------------------------------
(* All of it *)

\* The window is closed.
LEMMA HostEndKeeps == HostInv /\ HostEnd => HostInv'
<1> SUFFICES ASSUME HostInv, HostEnd PROVE HostInv'
  OBVIOUS
<1>1. /\ tick[1] = "between" /\ tick' = << "ended", 1 >> /\ tick'[1] = "ended" /\ listening' = FALSE
      /\ connection' = [p \in Pages |-> IF connection[p] = "away" THEN "away" ELSE "closed"]
      /\ backlog' = << >> /\ clients' = [s \in ClientSlots |-> Nobody]
      /\ UNCHANGED << hostForce, hostFrame, hostDisplay, lines, from, seen, printedLines >>
  BY DEF HostEnd, frontVars, shownVars
<1>2. << >> \in Seq(Pages \X Requests)
  OBVIOUS
<1>3. tick' \in {"between", "accept", "read", "firmware", "broadcast", "sending", "ended"}
                  \X (Nat \ {0})
  BY <1>1
<1>4. HostTypeOK'
  BY <1>1, <1>2, <1>3 DEF HostInv, HostTypeOK
<1>5. \A s \in ClientSlots : clients'[s] = Nobody
  BY <1>1
<1>6. BacklogWaits' /\ ClientsAreOpen' /\ NothingBeforeTheAnswer'
  BY <1>1, <1>5 DEF HostInv, BacklogWaits, ClientsAreOpen, NothingBeforeTheAnswer
<1>7. TickKnows'
  BY <1>1, <1>5 DEF HostInv, TickKnows
<1>8. PagesHaveTheLines' /\ PagesHaveTheFrame'
  BY <1>5 DEF PagesHaveTheLines, PagesHaveTheFrame, IsReading
<1> QED BY <1>4, <1>6, <1>7, <1>8 DEF HostInv

LEMMA HostStep == HostInv /\ [HostNext]_hostVars => HostInv'
<1> SUFFICES ASSUME HostInv, [HostNext]_hostVars PROVE HostInv'
  OBVIOUS
<1>1. CASE SendInput \/ HostEnded \/ UNCHANGED hostVars
  <2>1. UNCHANGED << connection, backlog, clients, listening, frontVars, hostDisplay, lines, from,
                     seen, printedLines, tick, sending, gone >>
    BY <1>1 DEF SendInput, HostEnded, hostVars, browserVars, socketVars, shownVars
  <2> QED BY <2>1, QuietKeeps
<1>2. CASE SendToEveryClient
  BY <1>2, SendsOneKeeps, SendingEndsKeeps DEF SendToEveryClient
<1> QED BY <1>1, <1>2, BrowsersKeep, BeginTickKeeps, AcceptKeeps, ReadKeeps, FirmwareKeeps,
           BroadcastKeeps, HostEndKeeps DEF HostNext, HostTick

\* A page that is open and has not gone has been sent every line printed since it was opened, in
\* order and beside pages that come and go, for any number of slots and pages and any room in
\* their sockets (WebHost::SendToEveryClient(), WebFrontend::OnClientOpened()).
THEOREM EveryLineReachesEveryPage == WebSpec => []PagesReadEveryLine
<1>1. WebInit => HostInit
  BY DEF WebInit
<1>2. HostInv => PagesReadEveryLine
  <2> SUFFICES ASSUME HostInv, NEW p \in Connected, p \notin gone, tick[1] # "sending"
               PROVE  lines[p] = [i \in 1 .. printedLines - from[p] |-> from[p] + i]
    BY DEF PagesReadEveryLine
  <2>1. PICK s \in ClientSlots : clients[s] = p /\ p # Nobody
    BY DEF Connected
  <2>2. IsReading(s) /\ LinesFor(s) = printedLines
    BY <2>1 DEF IsReading, LinesFor
  <2> QED BY <2>1, <2>2 DEF HostInv, PagesHaveTheLines
<1> QED BY InitHostInv, HostStep, WebStep, <1>1, <1>2, PTL DEF WebSpec

\* Between two ticks every page that is open shows the frame that was sent last, one that came
\* since the display last changed as well (WebFrontend::OnClientOpened(), BroadcastFrame()).
THEOREM EveryPageShowsTheFrame == WebSpec => []PagesShowOneFrame
<1>1. WebInit => HostInit
  BY DEF WebInit
<1>2. HostInv => PagesShowOneFrame
  <2> SUFFICES ASSUME HostInv, tick[1] = "between", NEW p \in Connected \ gone
               PROVE  seen[p] = hostFrame
    BY DEF PagesShowOneFrame
  <2>1. PICK s \in ClientSlots : clients[s] = p /\ p # Nobody
    BY DEF Connected
  <2>2. IsReading(s) /\ ~hostForce
    BY <2>1 DEF IsReading, HostInv, TickKnows
  <2> QED BY <2>1, <2>2 DEF HostInv, PagesHaveTheFrame
<1> QED BY InitHostInv, HostStep, WebStep, <1>1, <1>2, PTL DEF WebSpec

-----------------------------------------------------------------------------
(***************************************************************************)
(* The web host's texts and documents arrive whole, however they were cut. *)
(* FlattenSeq is a fold: that it takes one sequence more, and two of them, *)
(* is shown by induction on the numbers of a set.                          *)
(***************************************************************************)
\* A set that holds nothing, and the next one of each of its numbers, holds every number.
LEMMA EveryNumber ==
  ASSUME NEW T, 0 \in T, \A n \in Nat : n \in T => n + 1 \in T PROVE Nat \subseteq T
  <1> DEFINE S == Nat \ T
  <1> SUFFICES ASSUME S # {} PROVE FALSE
    OBVIOUS
  <1>1. PICK u \in S : \A v \in S : << v, u >> \notin OpToRel(<, Nat)
    BY NatLessThanWellFounded, WFMin
  <1>2. u \in Nat /\ u # 0
    OBVIOUS
  <1>3. u - 1 \in Nat /\ u - 1 < u /\ (u - 1) + 1 = u
    BY <1>2
  <1>4. << u - 1, u >> \in OpToRel(<, Nat)
    BY <1>2, <1>3 DEF OpToRel
  <1>5. u - 1 \in T
    BY <1>1, <1>3, <1>4
  <1> QED
    BY <1>3, <1>5, <1>2

\* What the library's function flattens a sequence of sequences with.
Flattens(f, seqs) ==
  f = [i \in 1 .. Len(seqs) |-> IF i = 1 THEN seqs[i] ELSE f[i - 1] \o seqs[i]]

\* The function FlattenSeq() picks is there, up to any of its sequences.
LEMMA FlattensUpTo ==
  ASSUME NEW seqs, Len(seqs) \in Nat, NEW n \in Nat
  PROVE  \E f : f = [i \in 1 .. n |-> IF i = 1 THEN seqs[i] ELSE f[i - 1] \o seqs[i]]
<1> DEFINE Body(f, i) == IF i = 1 THEN seqs[i] ELSE f[i - 1] \o seqs[i]
           T == {m \in Nat : \E f : f = [i \in 1 .. m |-> Body(f, i)]}
<1>1. 0 \in T
  <2>1. 1 .. 0 = {}
    OBVIOUS
  <2> DEFINE f == [i \in {} |-> << >>]
  <2>2. f = [i \in {} |-> Body(f, i)]
    OBVIOUS
  <2> QED BY <2>1, <2>2
<1>2. ASSUME NEW m \in Nat, m \in T PROVE m + 1 \in T
  <2>1. PICK f : f = [i \in 1 .. m |-> Body(f, i)]
    BY <1>2
  <2> DEFINE g == [i \in 1 .. m + 1 |-> Body(f, i)]
  <2>2. ASSUME NEW i \in 1 .. m + 1 PROVE Body(f, i) = Body(g, i)
    <3>1. CASE i = 1
      BY <3>1
    <3>2. CASE i # 1
      <4>1. i - 1 \in 1 .. m /\ i - 1 \in 1 .. m + 1
        BY <3>2
      <4>2. f[i - 1] = Body(f, i - 1) /\ g[i - 1] = Body(f, i - 1)
        <5> HIDE DEF Body
        <5> QED BY <2>1, <4>1
      <4> HIDE DEF g
      <4> QED BY <3>2, <4>2
    <3> QED BY <3>1, <3>2
  <2>3. g = [i \in 1 .. m + 1 |-> Body(g, i)]
    <3> HIDE DEF Body
    <3> QED BY <2>2
  <2> QED
    <3> HIDE DEF g, Body
    <3> QED BY <2>3
<1>3. n \in T
  <2> HIDE DEF T
  <2> QED BY <1>1, <1>2, EveryNumber
<1> QED BY <1>3

\* A sequence of sequences is flattened from its first one on.
LEMMA Flattening ==
  ASSUME NEW S, NEW seqs \in Seq(Seq(S)), Len(seqs) # 0
  PROVE  \E f : /\ Flattens(f, seqs) /\ FlattenSeq(seqs) = f[Len(seqs)]
                /\ \A i \in 1 .. Len(seqs) : f[i] \in Seq(S)
<1> DEFINE Right(f) == f = [i \in 1 .. Len(seqs) |-> IF i = 1 THEN seqs[i] ELSE f[i - 1] \o seqs[i]]
           f == CHOOSE f : Right(f)
<1>0. Len(seqs) \in Nat /\ \A i \in 1 .. Len(seqs) : seqs[i] \in Seq(S)
  OBVIOUS
<1>1. Right(f)
  BY <1>0, FlattensUpTo
<1>2. FlattenSeq(seqs) = f[Len(seqs)]
  BY DEF FlattenSeq
<1> HIDE DEF f
<1>3. \A i \in 1 .. Len(seqs) : f[i] = IF i = 1 THEN seqs[i] ELSE f[i - 1] \o seqs[i]
  BY <1>1
<1> DEFINE T == {n \in Nat : \A i \in 1 .. Len(seqs) : i = n => f[i] \in Seq(S)}
<1>4. 0 \in T
  OBVIOUS
<1>5. ASSUME NEW n \in Nat, n \in T PROVE n + 1 \in T
  <2> SUFFICES ASSUME n + 1 \in 1 .. Len(seqs) PROVE f[n + 1] \in Seq(S)
    OBVIOUS
  <2>1. f[n + 1] = IF n + 1 = 1 THEN seqs[n + 1] ELSE f[(n + 1) - 1] \o seqs[n + 1]
    BY <1>3
  <2>2. CASE n = 0
    BY <2>1, <2>2, <1>0
  <2>3. CASE n # 0
    <3>1. n \in 1 .. Len(seqs) /\ (n + 1) - 1 = n /\ n + 1 # 1
      BY <1>0, <2>3
    <3>2. f[n] \in Seq(S) /\ seqs[n + 1] \in Seq(S)
      BY <3>1, <1>5, <1>0
    <3> QED BY <2>1, <3>1, <3>2
  <2> QED BY <2>2, <2>3
<1>6. Nat \subseteq T
  <2> HIDE DEF T
  <2> QED BY <1>4, <1>5, EveryNumber
<1>7. \A i \in 1 .. Len(seqs) : f[i] \in Seq(S)
  BY <1>0, <1>6
<1> QED BY <1>1, <1>2, <1>7 DEF Flattens

\* What has no sequence flattens to nothing.
LEMMA FlatNothing == FlattenSeq(<< >>) = << >>
BY DEF FlattenSeq

\* One sequence more is appended to what is flattened.
LEMMA FlatAppend ==
  ASSUME NEW S, NEW seqs \in Seq(Seq(S)), NEW one \in Seq(S)
  PROVE  /\ FlattenSeq(seqs) \in Seq(S)
         /\ FlattenSeq(Append(seqs, one)) = FlattenSeq(seqs) \o one
<1> DEFINE more == Append(seqs, one)
           n == Len(seqs)
<1>0. /\ n \in Nat /\ more \in Seq(Seq(S)) /\ Len(more) = n + 1 /\ more[n + 1] = one
      /\ \A i \in 1 .. n : more[i] = seqs[i]
  OBVIOUS
<1>1. PICK g : Flattens(g, more) /\ FlattenSeq(more) = g[n + 1]
  <2>1. Len(more) # 0
    BY <1>0
  <2> HIDE DEF more, n
  <2> QED BY <1>0, <2>1, Flattening
<1>2. \A i \in 1 .. n + 1 : g[i] = IF i = 1 THEN more[i] ELSE g[i - 1] \o more[i]
  BY <1>0, <1>1 DEF Flattens
<1>3. CASE n = 0
  <2>1. seqs = << >> /\ g[1] = one
    BY <1>0, <1>2, <1>3
  <2>2. FlattenSeq(seqs) = << >> /\ << >> \in Seq(S) /\ << >> \o one = one
    BY <2>1, FlatNothing
  <2>3. FlattenSeq(more) = one
    BY <1>1, <1>3, <2>1
  <2> QED BY <2>2, <2>3
<1>4. CASE n # 0
  <2>1. PICK f : /\ Flattens(f, seqs) /\ FlattenSeq(seqs) = f[n]
                 /\ \A i \in 1 .. n : f[i] \in Seq(S)
    BY <1>4, Flattening
  <2>2. \A i \in 1 .. n : f[i] = IF i = 1 THEN seqs[i] ELSE f[i - 1] \o seqs[i]
    BY <2>1 DEF Flattens
  <2> DEFINE T == {m \in Nat : \A i \in 1 .. n : i = m => f[i] = g[i]}
  <2> HIDE DEF n, more
  <2>3. 0 \in T
    OBVIOUS
  <2>4. ASSUME NEW m \in Nat, m \in T PROVE m + 1 \in T
    <3> SUFFICES ASSUME m + 1 \in 1 .. n PROVE f[m + 1] = g[m + 1]
      OBVIOUS
    <3>1. /\ f[m + 1] = IF m + 1 = 1 THEN seqs[m + 1] ELSE f[(m + 1) - 1] \o seqs[m + 1]
          /\ g[m + 1] = IF m + 1 = 1 THEN more[m + 1] ELSE g[(m + 1) - 1] \o more[m + 1]
          /\ more[m + 1] = seqs[m + 1]
      <4>1. m + 1 \in 1 .. n + 1
        BY <1>0
      <4> QED BY <1>0, <1>2, <2>2, <4>1
    <3>2. CASE m = 0
      BY <3>1, <3>2
    <3>3. CASE m # 0
      <4>1. m \in 1 .. n /\ (m + 1) - 1 = m /\ m + 1 # 1
        BY <1>0, <3>3
      <4>2. f[m] = g[m]
        BY <2>4, <4>1
      <4> QED BY <3>1, <4>1, <4>2
    <3> QED BY <3>2, <3>3
  <2>5. Nat \subseteq T
    <3> HIDE DEF T
    <3> QED BY <2>3, <2>4, EveryNumber
  <2>6. n \in 1 .. n /\ f[n] = g[n]
    BY <1>0, <1>4, <2>5
  <2>7. g[n + 1] = g[n] \o one
    <3>1. n + 1 \in 1 .. n + 1 /\ n + 1 # 1 /\ (n + 1) - 1 = n
      BY <1>0, <1>4
    <3> QED BY <1>0, <1>2, <3>1
  <2> QED BY <1>1, <2>1, <2>6, <2>7 DEF more
<1> QED BY <1>3, <1>4

\* What is flattened of two sequences, one behind the other.
LEMMA FlatConcat ==
  ASSUME NEW S, NEW seqs \in Seq(Seq(S)), NEW more \in Seq(Seq(S))
  PROVE  FlattenSeq(seqs \o more) = FlattenSeq(seqs) \o FlattenSeq(more)
<1> DEFINE T == {n \in Nat : \A rest \in Seq(Seq(S)) : Len(rest) = n =>
                               FlattenSeq(seqs \o rest) = FlattenSeq(seqs) \o FlattenSeq(rest)}
<1>1. 0 \in T
  <2> SUFFICES ASSUME NEW rest \in Seq(Seq(S)), Len(rest) = 0
               PROVE  FlattenSeq(seqs \o rest) = FlattenSeq(seqs) \o FlattenSeq(rest)
    OBVIOUS
  <2>1. rest = << >> /\ seqs \o << >> = seqs
    OBVIOUS
  <2>2. FlattenSeq(seqs) \in Seq(S) /\ FlattenSeq(rest) = << >>
    <3>1. << >> \in Seq(S)
      OBVIOUS
    <3> QED BY <2>1, <3>1, FlatAppend, FlatNothing
  <2> QED BY <2>1, <2>2
<1>2. ASSUME NEW n \in Nat, n \in T PROVE n + 1 \in T
  <2> SUFFICES ASSUME NEW rest \in Seq(Seq(S)), Len(rest) = n + 1
               PROVE  FlattenSeq(seqs \o rest) = FlattenSeq(seqs) \o FlattenSeq(rest)
    OBVIOUS
  <2> DEFINE front == SubSeq(rest, 1, n)
             one == rest[n + 1]
  <2>1. front \in Seq(Seq(S)) /\ one \in Seq(S) /\ Len(front) = n /\ rest = Append(front, one)
    OBVIOUS
  <2> HIDE DEF front, one
  <2>2. seqs \o front \in Seq(Seq(S)) /\ seqs \o rest = Append(seqs \o front, one)
    BY <2>1
  <2>3. FlattenSeq(seqs \o front) = FlattenSeq(seqs) \o FlattenSeq(front)
    BY <1>2, <2>1
  <2>4. /\ FlattenSeq(seqs) \in Seq(S) /\ FlattenSeq(front) \in Seq(S)
        /\ FlattenSeq(rest) = FlattenSeq(front) \o one
        /\ FlattenSeq(seqs \o rest) = FlattenSeq(seqs \o front) \o one
    BY <2>1, <2>2, FlatAppend
  <2>5. ASSUME NEW a \in Seq(S), NEW b \in Seq(S), NEW c \in Seq(S) PROVE (a \o b) \o c = a \o (b \o c)
    OBVIOUS
  <2>6. (FlattenSeq(seqs) \o FlattenSeq(front)) \o one = FlattenSeq(seqs) \o (FlattenSeq(front) \o one)
    BY <2>1, <2>4, <2>5
  <2> QED BY <2>3, <2>4, <2>6
<1>3. Nat \subseteq T
  <2> HIDE DEF T
  <2> QED BY <1>1, <1>2, EveryNumber
<1>4. Len(more) \in Nat
  OBVIOUS
<1>5. Len(more) \in T
  BY <1>3, <1>4
<1> QED BY <1>5

\* A number of packets lies between its whole frames and one more.
LEMMA Whole ==
  ASSUME NEW d \in Nat \ {0}, NEW a \in Nat
  PROVE  a \div d \in Nat /\ (a \div d) * d <= a /\ a < (a \div d + 1) * d
OBVIOUS

\* Less than a frame more makes no other frame whole.
LEMMA WholeOnly ==
  ASSUME NEW d \in Nat \ {0}, NEW k \in Nat, NEW r \in Nat, r < d
  PROVE  (k * d + r) \div d = k
OBVIOUS

\* Products of frames and packets are added.
LEMMA PartsDistribute ==
  ASSUME NEW k \in Nat, NEW i \in Nat, NEW d \in Nat PROVE (k + i) * d = k * d + i * d /\ k * d \in Nat
OBVIOUS

\* Whole frames in front make as many frames more.
LEMMA WholeAgain ==
  ASSUME NEW d \in Nat \ {0}, NEW k \in Nat, NEW n \in Nat
  PROVE  (k * d + n) \div d = k + n \div d
<1> DEFINE q == n \div d
           r == n - q * d
<1>1. q \in Nat /\ q * d <= n /\ n < (q + 1) * d /\ (q + 1) * d = q * d + d
  BY Whole, PartsDistribute
<1>2. q * d \in Nat /\ k * d \in Nat
  BY <1>1, PartsDistribute
<1>3. r \in Nat /\ r < d /\ n = q * d + r
  BY <1>1, <1>2
<1>4. (k + q) * d = k * d + q * d
  BY <1>1, PartsDistribute
<1> HIDE DEF q, r
<1>5. k * d + n = (k + q) * d + r
  BY <1>2, <1>3, <1>4
<1>6. ((k + q) * d + r) \div d = k + q
  BY <1>1, <1>3, WholeOnly
<1> QED BY <1>5, <1>6 DEF q

\* What is cut of the second of two sequences.
LEMMA Behind ==
  ASSUME NEW S, NEW s \in Seq(S), NEW t \in Seq(S), NEW i \in 1 .. Len(t), NEW j \in 1 .. Len(t)
  PROVE  SubSeq(s \o t, Len(s) + i, Len(s) + j) = SubSeq(t, i, j)
<1>1. PICK first, last : first = Len(s) + i /\ last = Len(s) + j
  OBVIOUS
<1>2. /\ first \in Len(s) + 1 .. Len(s) + Len(t) /\ last \in Len(s) + 1 .. Len(s) + Len(t)
      /\ first - Len(s) = i /\ last - Len(s) = j
  BY <1>1
<1>3. SubSeq(s \o t, first, last) = SubSeq(t, first - Len(s), last - Len(s))
  BY <1>2, SubSeqOfConcat2
<1> QED BY <1>1, <1>2, <1>3

\* One sequence is cut like another, from its start or from a place on.
CutsAlike(one, other, place) == \A i, j \in 1 .. Len(other) : SubSeq(one, place + i, place + j) = SubSeq(other, i, j)

\* What stands behind the first of three sequences.
LEMMA CutConcat ==
  ASSUME NEW S, NEW p \in Seq(S), NEW u \in Seq(S), NEW b \in Seq(S)
  PROVE  /\ u \o b \in Seq(S) /\ Len((p \o u) \o b) = Len(p) + Len(u \o b)
         /\ CutsAlike((p \o u) \o b, p \o u, 0)
         /\ CutsAlike((p \o u) \o b, u \o b, Len(p))
<1>1. PICK a \in Seq(S) : a = p \o u
  BY ConcatProperties
<1>2. PICK rest \in Seq(S) : rest = u \o b
  BY ConcatProperties
<1>3. a \o b = p \o rest
  BY <1>1, <1>2, ConcatAssociative
<1>4. Len(p \o rest) = Len(p) + Len(rest)
  BY ConcatProperties
<1>5. CutsAlike(a \o b, a, 0)
  <2> SUFFICES ASSUME NEW i \in 1 .. Len(a), NEW j \in 1 .. Len(a) PROVE SubSeq(a \o b, i, j) = SubSeq(a, i, j)
    <3>1. \A i, j \in 1 .. Len(a) : 0 + i = i /\ 0 + j = j
      OBVIOUS
    <3> QED BY <3>1 DEF CutsAlike
  <2> QED BY SubSeqOfConcat1
<1>6. CutsAlike(p \o rest, rest, Len(p))
  BY Behind DEF CutsAlike
<1> QED BY <1>1, <1>2, <1>3, <1>4, <1>5, <1>6

\* What is not decoded yet is decoded with what comes next, as if all of it had come at once.
LEMMA FramesConcat ==
  ASSUME NEW S, NEW a \in Seq(S), NEW b \in Seq(S)
  PROVE  LET u == Undecoded(a)
             k == Len(FramesIn(a))
         IN /\ u \in Seq(S) /\ k \in Nat /\ Len(FramesIn(u \o b)) \in Nat
            /\ Len(FramesIn(a \o b)) = k + Len(FramesIn(u \o b))
            /\ \A i \in 1 .. k : FramesIn(a \o b)[i] = FramesIn(a)[i]
            /\ \A i \in 1 .. Len(FramesIn(u \o b)) : FramesIn(a \o b)[k + i] = FramesIn(u \o b)[i]
            /\ Undecoded(a \o b) = Undecoded(u \o b)
<1> DEFINE k == Len(a) \div Parts
           m == k * Parts
           u == SubSeq(a, m + 1, Len(a))
           n == Len(u \o b) \div Parts
<1>1. Parts \in Nat \ {0} /\ Len(a) \in Nat /\ Len(b) \in Nat /\ a \o b \in Seq(S)
  BY WebHostAssumption
<1>2. k \in Nat /\ m \in Nat /\ m <= Len(a)
  BY <1>1, Whole, PartsDistribute
<1>3. ASSUME NEW x \in Seq(S)
      PROVE  /\ Len(x) \div Parts \in Nat
             /\ Len(FramesIn(x)) = Len(x) \div Parts
             /\ \A i \in 1 .. Len(x) \div Parts : FramesIn(x)[i] = SubSeq(x, (i - 1) * Parts + 1, i * Parts)
  <2>1. Len(x) \in Nat
    OBVIOUS
  <2>2. PICK q \in Nat : q = Len(x) \div Parts
    BY <1>1, <2>1, Whole
  <2>3. FramesIn(x) = [i \in 1 .. q |-> SubSeq(x, (i - 1) * Parts + 1, i * Parts)]
    BY <2>2 DEF FramesIn
  <2>4. Len(FramesIn(x)) = q
    BY <2>3
  <2>5. \A i \in 1 .. q : FramesIn(x)[i] = SubSeq(x, (i - 1) * Parts + 1, i * Parts)
    BY <2>3
  <2> QED BY <2>2, <2>4, <2>5
<1>4. Undecoded(a) = u /\ Len(FramesIn(a)) = k
  BY <1>3 DEF Undecoded
<1> HIDE DEF k
<1> HIDE DEF m
<1> HIDE DEF u
<1>5. /\ u \in Seq(S) /\ u \o b \in Seq(S) /\ Len(u \o b) \in Nat /\ Len(a \o b) = m + Len(u \o b)
      /\ CutsAlike(a \o b, a, 0) /\ CutsAlike(a \o b, u \o b, m)
  <2>1. m \in 0 .. Len(a) /\ Len(a) \in m .. Len(a) /\ m \in 1 - 1 .. Len(a) /\ 1 \in 1 .. Len(a) + 1
    BY <1>1, <1>2
  <2>2. PICK p \in Seq(S) : p = SubSeq(a, 1, m) /\ Len(p) = m
    <3>1. PICK place \in 0 .. Len(a) : place = m
      BY <2>1
    <3>2. SubSeq(a, 1, place) \in Seq(S) /\ Len(SubSeq(a, 1, place)) = place
      OBVIOUS
    <3> QED BY <3>1, <3>2
  <2>3. u \in Seq(S)
    BY <2>1 DEF u
  <2>4. p \o u = a
    <3>1. SubSeq(a, 1, m) \o SubSeq(a, m + 1, Len(a)) = SubSeq(a, 1, Len(a))
      BY <2>1, ConcatAdjacentSubSeq
    <3>2. SubSeq(a, 1, Len(a)) = a
      BY SubSeqFull
    <3> QED BY <2>2, <3>1, <3>2 DEF u
  <2>5. /\ u \o b \in Seq(S) /\ Len((p \o u) \o b) = Len(p) + Len(u \o b)
        /\ CutsAlike((p \o u) \o b, p \o u, 0) /\ CutsAlike((p \o u) \o b, u \o b, Len(p))
    <3>1. ASSUME NEW v \in Seq(S), NEW w \in Seq(S)
          PROVE  /\ w \o b \in Seq(S) /\ Len((v \o w) \o b) = Len(v) + Len(w \o b)
                 /\ CutsAlike((v \o w) \o b, v \o w, 0) /\ CutsAlike((v \o w) \o b, w \o b, Len(v))
      BY CutConcat
    <3> QED BY <2>3, <3>1
  <2>6. Len(u \o b) \in Nat
    BY <2>5, LenProperties
  <2> QED BY <2>2, <2>3, <2>4, <2>5, <2>6
<1>6. n \in Nat /\ n * Parts \in Nat /\ n * Parts <= Len(u \o b)
  BY <1>1, <1>5, Whole, PartsDistribute
<1>7. Len(a \o b) \div Parts = k + n
  BY <1>1, <1>2, <1>5, WholeAgain DEF m
<1> HIDE DEF n
<1>8. Len(FramesIn(a \o b)) = k + n /\ Len(FramesIn(u \o b)) = n
  BY <1>1, <1>3, <1>5, <1>7 DEF n
<1>9. ASSUME NEW i \in 1 .. k PROVE FramesIn(a \o b)[i] = FramesIn(a)[i]
  <2>1. i \in 1 .. k + n /\ i \in Nat \ {0} /\ i - 1 \in Nat
    BY <1>2, <1>6
  <2>2. (i - 1) * Parts + 1 \in Nat \ {0} /\ i * Parts \in Nat \ {0} /\ i * Parts <= m
        /\ (i - 1) * Parts + 1 <= i * Parts
    BY <1>1, <1>2, <2>1 DEF m
  <2>3. i * Parts \in 1 .. Len(a) /\ (i - 1) * Parts + 1 \in 1 .. Len(a)
    BY <1>1, <1>2, <2>2
  <2>4. /\ FramesIn(a \o b)[i] = SubSeq(a \o b, (i - 1) * Parts + 1, i * Parts)
        /\ FramesIn(a)[i] = SubSeq(a, (i - 1) * Parts + 1, i * Parts)
    BY <1>1, <1>3, <1>7, <2>1 DEF k
  <2>5. PICK first \in 1 .. Len(a), last \in 1 .. Len(a) : first = (i - 1) * Parts + 1 /\ last = i * Parts
    BY <2>3
  <2>6. SubSeq(a \o b, 0 + first, 0 + last) = SubSeq(a, first, last) /\ 0 + first = first /\ 0 + last = last
    BY <1>5 DEF CutsAlike
  <2> QED BY <2>4, <2>5, <2>6
<1>10. ASSUME NEW i \in 1 .. n PROVE FramesIn(a \o b)[k + i] = FramesIn(u \o b)[i]
  <2>1. k + i \in 1 .. k + n /\ i \in Nat \ {0} /\ i - 1 \in Nat /\ (k + i) - 1 = k + (i - 1)
    BY <1>2, <1>6
  <2>2. /\ (i - 1) * Parts + 1 \in Nat \ {0} /\ i * Parts \in Nat \ {0} /\ i * Parts <= n * Parts
        /\ (i - 1) * Parts + 1 <= i * Parts
        /\ (k + i) * Parts = m + i * Parts /\ (k + (i - 1)) * Parts = m + (i - 1) * Parts
    BY <1>1, <1>2, <1>6, <2>1 DEF m
  <2>3. i * Parts \in 1 .. Len(u \o b) /\ (i - 1) * Parts + 1 \in 1 .. Len(u \o b)
    BY <1>5, <1>6, <2>2
  <2>4. /\ FramesIn(a \o b)[k + i] = SubSeq(a \o b, ((k + i) - 1) * Parts + 1, (k + i) * Parts)
        /\ FramesIn(u \o b)[i] = SubSeq(u \o b, (i - 1) * Parts + 1, i * Parts)
    BY <1>1, <1>3, <1>5, <1>7, <2>1 DEF n
  <2>5. ((k + i) - 1) * Parts + 1 = m + ((i - 1) * Parts + 1)
    <3>1. m \in Nat /\ (i - 1) * Parts \in Nat
      BY <1>1, <1>2, <2>1, PartsDistribute
    <3> QED BY <2>1, <2>2, <3>1
  <2>6. PICK first \in 1 .. Len(u \o b), last \in 1 .. Len(u \o b) : first = (i - 1) * Parts + 1 /\ last = i * Parts
    BY <2>3
  <2>7. SubSeq(a \o b, m + first, m + last) = SubSeq(u \o b, first, last)
    BY <1>5, <2>6 DEF CutsAlike
  <2> QED BY <2>2, <2>4, <2>5, <2>6, <2>7
<1>11. Undecoded(a \o b) = Undecoded(u \o b)
  <2>1. /\ Undecoded(a \o b) = SubSeq(a \o b, (k + n) * Parts + 1, Len(a \o b))
        /\ Undecoded(u \o b) = SubSeq(u \o b, n * Parts + 1, Len(u \o b))
    BY <1>8 DEF Undecoded
  <2>2. (k + n) * Parts + 1 = m + (n * Parts + 1)
    BY <1>1, <1>2, <1>6, PartsDistribute DEF m
  <2>3. PICK first \in Nat \ {0} : first = n * Parts + 1
    BY <1>6
  <2>4. CASE first <= Len(u \o b)
    <3>1. first \in 1 .. Len(u \o b) /\ Len(u \o b) \in 1 .. Len(u \o b)
      BY <1>5, <2>4
    <3>2. SubSeq(a \o b, m + first, m + Len(u \o b)) = SubSeq(u \o b, first, Len(u \o b))
      BY <1>5, <3>1 DEF CutsAlike
    <3> QED BY <1>5, <2>1, <2>2, <2>3, <3>2
  <2>5. CASE ~(first <= Len(u \o b))
    <3>1. Len(u \o b) < first /\ Len(a \o b) < m + first
      BY <1>2, <1>5, <2>5
    <3>2. SubSeq(a \o b, m + first, Len(a \o b)) = << >> /\ SubSeq(u \o b, first, Len(u \o b)) = << >>
      BY <1>1, <1>2, <1>5, <3>1, SubSeqEmpty
    <3> QED BY <2>1, <2>2, <2>3, <3>2
  <2> QED BY <2>4, <2>5
<1> QED BY <1>2, <1>4, <1>5, <1>6, <1>8, <1>9, <1>10, <1>11

\* What InjectCommand() takes of each of some frames.
TakenOf(them) ==
  [i \in DOMAIN them |->
     IF Kind(them[i]) = "command" /\ \A j \in 1 .. i : Kind(them[j]) # "close" THEN << them[i] >>
     ELSE << >>]

\* Frames are some frames and then others.
AreBehind(h, f, g) ==
  /\ Len(h) = Len(f) + Len(g)
  /\ \A i \in 1 .. Len(f) : h[i] = f[i]
  /\ \A i \in 1 .. Len(g) : h[Len(f) + i] = g[i]

NoneCloses(f) == \A i \in 1 .. Len(f) : Kind(f[i]) # "close"

\* A frame's place behind others that close nothing does not matter.
LEMMA TakenConcat ==
  ASSUME NEW F, NEW f \in Seq(F), NEW g \in Seq(F), NEW h \in Seq(F),
         AreBehind(h, f, g), NoneCloses(f)
  PROVE  /\ TakenOf(f) \in Seq(Seq(F)) /\ TakenOf(g) \in Seq(Seq(F))
         /\ TakenOf(h) = TakenOf(f) \o TakenOf(g)
<1>0. /\ Len(f) \in Nat /\ Len(g) \in Nat /\ Len(h) \in Nat /\ Len(h) = Len(f) + Len(g)
      /\ \A i \in 1 .. Len(f) : h[i] = f[i] /\ Kind(f[i]) # "close"
      /\ \A i \in 1 .. Len(g) : h[Len(f) + i] = g[i]
  BY DEF AreBehind, NoneCloses
<1>1. ASSUME NEW x \in Seq(F)
      PROVE  /\ TakenOf(x) \in Seq(Seq(F)) /\ Len(TakenOf(x)) = Len(x)
             /\ \A i \in 1 .. Len(x) : TakenOf(x)[i] =
                  IF Kind(x[i]) = "command" /\ \A j \in 1 .. i : Kind(x[j]) # "close" THEN << x[i] >> ELSE << >>
  <2>1. PICK n \in Nat : n = Len(x) /\ DOMAIN x = 1 .. n
    OBVIOUS
  <2> DEFINE Taken(i) == IF Kind(x[i]) = "command" /\ \A j \in 1 .. i : Kind(x[j]) # "close"
                         THEN << x[i] >> ELSE << >>
  <2>2. \A i \in 1 .. n : Taken(i) \in Seq(F)
    <3> TAKE i \in 1 .. n
    <3>1. x[i] \in F
      BY <2>1
    <3> QED BY <3>1
  <2>3. TakenOf(x) = [i \in 1 .. n |-> Taken(i)]
    BY <2>1 DEF TakenOf
  <2> HIDE DEF Taken
  <2>4. TakenOf(x) \in Seq(Seq(F)) /\ Len(TakenOf(x)) = n /\ \A i \in 1 .. n : TakenOf(x)[i] = Taken(i)
    BY <2>2, <2>3
  <2> QED BY <2>1, <2>4 DEF Taken
<1>2. PICK one \in Seq(Seq(F)), other \in Seq(Seq(F)), both \in Seq(Seq(F)) :
        one = TakenOf(f) /\ other = TakenOf(g) /\ both = TakenOf(h)
  BY <1>1
<1>3. /\ Len(one) = Len(f) /\ Len(other) = Len(g) /\ Len(both) = Len(f) + Len(g)
      /\ Len(one \o other) = Len(f) + Len(g) /\ one \o other \in Seq(Seq(F))
  <2>1. Len(one) = Len(f) /\ Len(other) = Len(g) /\ Len(both) = Len(f) + Len(g)
    BY <1>0, <1>1, <1>2
  <2>2. Len(one \o other) = Len(one) + Len(other) /\ one \o other \in Seq(Seq(F))
    BY ConcatProperties
  <2> QED BY <2>1, <2>2
<1>4. \A i \in 1 .. Len(f) : both[i] = one[i]
  <2> TAKE i \in 1 .. Len(f)
  <2>1. i \in 1 .. Len(h) /\ h[i] = f[i] /\ \A j \in 1 .. i : j \in 1 .. Len(f) /\ h[j] = f[j]
    BY <1>0
  <2>2. /\ both[i] = IF Kind(h[i]) = "command" /\ \A j \in 1 .. i : Kind(h[j]) # "close" THEN << h[i] >> ELSE << >>
        /\ one[i] = IF Kind(f[i]) = "command" /\ \A j \in 1 .. i : Kind(f[j]) # "close" THEN << f[i] >> ELSE << >>
    BY <1>1, <1>2, <2>1
  <2>3. (\A j \in 1 .. i : Kind(h[j]) # "close") /\ (\A j \in 1 .. i : Kind(f[j]) # "close")
    BY <1>0, <2>1
  <2> QED BY <2>1, <2>2, <2>3
<1>5. \A i \in 1 .. Len(g) : both[Len(f) + i] = other[i]
  <2> TAKE i \in 1 .. Len(g)
  <2>1. Len(f) + i \in 1 .. Len(h) /\ h[Len(f) + i] = g[i]
    BY <1>0
  <2>2. /\ both[Len(f) + i] = IF /\ Kind(h[Len(f) + i]) = "command"
                                 /\ \A j \in 1 .. Len(f) + i : Kind(h[j]) # "close"
                              THEN << h[Len(f) + i] >> ELSE << >>
        /\ other[i] = IF Kind(g[i]) = "command" /\ \A j \in 1 .. i : Kind(g[j]) # "close" THEN << g[i] >> ELSE << >>
    BY <1>1, <1>2, <2>1
  <2>3. (\A j \in 1 .. Len(f) + i : Kind(h[j]) # "close") <=> (\A j \in 1 .. i : Kind(g[j]) # "close")
    <3>1. ASSUME \A j \in 1 .. Len(f) + i : Kind(h[j]) # "close", NEW j \in 1 .. i PROVE Kind(g[j]) # "close"
      <4>1. PICK place : place = Len(f) + j
        OBVIOUS
      <4>2. place \in 1 .. Len(f) + i /\ j \in 1 .. Len(g)
        BY <1>0, <4>1
      <4>3. h[place] = g[j]
        BY <1>0, <4>1, <4>2
      <4> QED BY <3>1, <4>2, <4>3
    <3>2. ASSUME \A j \in 1 .. i : Kind(g[j]) # "close", NEW j \in 1 .. Len(f) + i PROVE Kind(h[j]) # "close"
      <4>1. CASE j \in 1 .. Len(f)
        BY <1>0, <4>1
      <4>2. CASE j \notin 1 .. Len(f)
        <5>1. PICK place : place = j - Len(f)
          OBVIOUS
        <5>2. place \in 1 .. i /\ place \in 1 .. Len(g) /\ j = Len(f) + place
          BY <1>0, <4>2, <5>1
        <5>3. h[j] = g[place]
          BY <1>0, <5>2
        <5> QED BY <3>2, <5>2, <5>3
      <4> QED BY <4>1, <4>2
    <3> QED BY <3>1, <3>2
  <2> QED BY <2>1, <2>2, <2>3
<1>6. both = one \o other
  <2>1. ASSUME NEW i \in 1 .. Len(both) PROVE both[i] = (one \o other)[i]
    <3>1. (one \o other)[i] = IF i <= Len(one) THEN one[i] ELSE other[i - Len(one)]
      <4>1. i \in 1 .. Len(one) + Len(other)
        BY <1>0, <1>3
      <4> QED BY <4>1, ConcatProperties
    <3>2. CASE i <= Len(one)
      BY <1>0, <1>3, <1>4, <3>1, <3>2
    <3>3. CASE ~(i <= Len(one))
      <4>1. PICK place : place = i - Len(f)
        OBVIOUS
      <4>2. place \in 1 .. Len(g) /\ i = Len(f) + place
        BY <1>0, <1>3, <3>3, <4>1
      <4> QED BY <1>3, <1>5, <3>1, <3>3, <4>1, <4>2
    <3> QED BY <3>2, <3>3
  <2> QED BY <1>3, <2>1, SeqEqual
<1> QED BY <1>2, <1>6

\* What a frame is made of.
LEMMA FramesAreParts ==
  ASSUME NEW S, NEW a \in Seq(S) PROVE FramesIn(a) \in Seq(Seq(S))
<1>1. Parts \in Nat \ {0} /\ Len(a) \in Nat
  BY WebHostAssumption
<1>2. PICK q \in Nat : q = Len(a) \div Parts /\ q * Parts <= Len(a)
  BY <1>1, Whole
<1>3. ASSUME NEW i \in 1 .. q PROVE SubSeq(a, (i - 1) * Parts + 1, i * Parts) \in Seq(S)
  <2>1. PICK first, last : first = (i - 1) * Parts + 1 /\ last = i * Parts
    OBVIOUS
  <2>2. first \in Nat \ {0} /\ last \in Nat /\ last <= q * Parts
    BY <1>1, <1>2, <2>1
  <2>3. \A j \in first .. last : j \in 1 .. Len(a)
    BY <1>1, <1>2, <2>2
  <2>4. SubSeq(a, first, last) \in Seq(S)
    BY <1>1, <2>2, <2>3, SubSeqProperties
  <2> QED BY <2>1, <2>4
<1>4. FramesIn(a) = [i \in 1 .. q |-> SubSeq(a, (i - 1) * Parts + 1, i * Parts)]
  BY <1>2 DEF FramesIn
<1> QED BY <1>3, <1>4

\* Packets that come later add the texts of what they complete, and nothing is taken twice.
LEMMA TextsConcat ==
  ASSUME NEW S, NEW a \in Seq(S), NEW b \in Seq(S), ~Closes(a)
  PROVE  /\ Texts(a \o b) = Texts(a) \o Texts(Undecoded(a) \o b)
         /\ Closes(a \o b) <=> Closes(Undecoded(a) \o b)
<1>1. PICK u \in Seq(S) : u = Undecoded(a)
  BY FramesConcat
<1>2. a \o b \in Seq(S) /\ u \o b \in Seq(S)
  OBVIOUS
<1>3. PICK f \in Seq(Seq(S)), g \in Seq(Seq(S)), h \in Seq(Seq(S)) :
        f = FramesIn(a) /\ g = FramesIn(u \o b) /\ h = FramesIn(a \o b)
  BY <1>2, FramesAreParts
<1>4. /\ Len(h) = Len(f) + Len(g)
      /\ \A i \in 1 .. Len(f) : h[i] = f[i]
      /\ \A i \in 1 .. Len(g) : h[Len(f) + i] = g[i]
  <2>1. /\ Len(FramesIn(a \o b)) = Len(FramesIn(a)) + Len(FramesIn(Undecoded(a) \o b))
        /\ \A i \in 1 .. Len(FramesIn(a)) : FramesIn(a \o b)[i] = FramesIn(a)[i]
        /\ \A i \in 1 .. Len(FramesIn(Undecoded(a) \o b)) :
             FramesIn(a \o b)[Len(FramesIn(a)) + i] = FramesIn(Undecoded(a) \o b)[i]
    BY FramesConcat
  <2> QED BY <1>1, <1>3, <2>1
<1>5. \A i \in 1 .. Len(f) : Kind(f[i]) # "close"
  BY <1>3 DEF Closes
<1>6. /\ TakenOf(f) \in Seq(Seq(Seq(S))) /\ TakenOf(g) \in Seq(Seq(Seq(S)))
      /\ TakenOf(h) = TakenOf(f) \o TakenOf(g)
  <2>1. PICK F : F = Seq(S)
    OBVIOUS
  <2>2. f \in Seq(F) /\ g \in Seq(F) /\ h \in Seq(F)
    BY <2>1
  <2>3. /\ TakenOf(f) \in Seq(Seq(F)) /\ TakenOf(g) \in Seq(Seq(F))
        /\ TakenOf(h) = TakenOf(f) \o TakenOf(g)
    <3>1. AreBehind(h, f, g) /\ NoneCloses(f)
      BY <1>4, <1>5 DEF AreBehind, NoneCloses
    <3> QED BY <2>2, <3>1, TakenConcat
  <2> QED BY <2>1, <2>3
<1>7. FlattenSeq(TakenOf(h)) = FlattenSeq(TakenOf(f)) \o FlattenSeq(TakenOf(g))
  BY <1>6, FlatConcat
<1>8. /\ Texts(a \o b) = FlattenSeq(TakenOf(h)) /\ Texts(a) = FlattenSeq(TakenOf(f))
      /\ Texts(u \o b) = FlattenSeq(TakenOf(g))
  BY <1>3, Zenon DEF Texts, TakenOf
<1>9. Closes(a \o b) <=> Closes(u \o b)
  <2>1. Len(f) \in Nat /\ Len(g) \in Nat /\ Len(h) \in Nat /\ DOMAIN g = 1 .. Len(g) /\ DOMAIN h = 1 .. Len(h)
    OBVIOUS
  <2>2. Closes(a \o b) <=> \E i \in 1 .. Len(h) : Kind(h[i]) = "close"
    BY <1>3, <2>1 DEF Closes
  <2>3. Closes(u \o b) <=> \E i \in 1 .. Len(g) : Kind(g[i]) = "close"
    BY <1>3, <2>1 DEF Closes
  <2>4. ASSUME NEW i \in 1 .. Len(g), Kind(g[i]) = "close" PROVE \E j \in 1 .. Len(h) : Kind(h[j]) = "close"
    <3>1. PICK place : place = Len(f) + i
      OBVIOUS
    <3>2. place \in 1 .. Len(h) /\ h[place] = g[i]
      BY <1>4, <2>1, <3>1
    <3> QED BY <2>4, <3>2
  <2>5. ASSUME NEW i \in 1 .. Len(h), Kind(h[i]) = "close" PROVE \E j \in 1 .. Len(g) : Kind(g[j]) = "close"
    <3>1. PICK place : place = i - Len(f)
      OBVIOUS
    <3>2. i \notin 1 .. Len(f)
      BY <1>4, <1>5, <2>5
    <3>3. place \in 1 .. Len(g) /\ i = Len(f) + place
      BY <1>4, <2>1, <3>1, <3>2
    <3>4. h[i] = g[place]
      BY <1>4, <3>3
    <3> QED BY <2>5, <3>3, <3>4
  <2> QED BY <2>2, <2>3, <2>4, <2>5
<1> QED BY <1>1, <1>7, <1>8, <1>9

\* A document's chunks are none of them empty, and are it when they are put together.
LEMMA ChunksAreWhole ==
  ASSUME NEW d \in Documents
  PROVE  /\ << >> \notin {Chunks(d)[i] : i \in DOMAIN Chunks(d)}
         /\ FlattenSeq(Chunks(d)) = d
<1> DEFINE q == (Len(d) + ChunkLength - 1) \div ChunkLength
           Until(i) == UpTo(d, i * ChunkLength)
           Chunk(i) == SubSeq(d, (i - 1) * ChunkLength + 1, Until(i))
<1>1. PICK S : d \in Seq(S)
  BY WebHostAssumption
<1>2. ChunkLength \in Nat \ {0} /\ Len(d) \in Nat
  BY <1>1, WebHostAssumption
<1>3. /\ q \in Nat /\ q * ChunkLength <= Len(d) + ChunkLength - 1 /\ q * ChunkLength >= Len(d)
      /\ q = 0 => Len(d) = 0
  <2>1. PICK all \in Nat : all = Len(d) + ChunkLength - 1
    BY <1>2
  <2>2. PICK k \in Nat : k = all \div ChunkLength /\ k * ChunkLength <= all /\ all < (k + 1) * ChunkLength
    BY <1>2, Whole
  <2>3. (k + 1) * ChunkLength = k * ChunkLength + ChunkLength /\ k * ChunkLength \in Nat
    BY <1>2, PartsDistribute
  <2>4. k * ChunkLength >= Len(d)
    BY <1>2, <2>1, <2>2, <2>3
  <2>5. k = 0 => k * ChunkLength = 0
    BY <1>2
  <2> QED BY <1>2, <2>1, <2>2, <2>4, <2>5
<1>4. Chunks(d) = [i \in 1 .. q |-> Chunk(i)]
  BY DEF Chunks
<1> HIDE DEF q
<1>5. ASSUME NEW i \in 1 .. q
      PROVE  /\ (i - 1) * ChunkLength \in Nat /\ (i - 1) * ChunkLength < Len(d)
             /\ Until(i) \in Nat /\ (i - 1) * ChunkLength < Until(i) /\ Until(i) <= Len(d)
             /\ Until(i - 1) = (i - 1) * ChunkLength
             /\ Chunk(i) \in Seq(S) /\ Chunk(i) # << >>
  <2>1. PICK before \in Nat, end \in Nat : before = (i - 1) * ChunkLength /\ end = i * ChunkLength
    BY <1>2, <1>3
  <2>2. end = before + ChunkLength
    <3>1. i - 1 \in Nat /\ (i - 1) + 1 = i
      OBVIOUS
    <3>2. ((i - 1) + 1) * ChunkLength = (i - 1) * ChunkLength + 1 * ChunkLength
      BY <1>2, <3>1, PartsDistribute
    <3> QED BY <1>2, <2>1, <3>1, <3>2
  <2>3. end <= q * ChunkLength
    BY <1>2, <1>3, <2>1
  <2>4. before < Len(d)
    BY <1>2, <1>3, <2>2, <2>3
  <2>5. PICK last : last = UpTo(d, end)
    OBVIOUS
  <2>6. last \in Nat /\ before < last /\ last <= Len(d)
    BY <1>2, <2>2, <2>4, <2>5 DEF UpTo
  <2>7. UpTo(d, before) = before
    BY <2>4 DEF UpTo
  <2>8. SubSeq(d, before + 1, last) \in Seq(S) /\ Len(SubSeq(d, before + 1, last)) = last - before
    BY <1>1, <1>2, <2>6
  <2>9. SubSeq(d, before + 1, last) # << >>
    BY <2>6, <2>8
  <2> QED BY <2>1, <2>4, <2>5, <2>6, <2>7, <2>8, <2>9
<1>6. << >> \notin {Chunks(d)[i] : i \in DOMAIN Chunks(d)}
  <2> HIDE DEF Chunk
  <2> QED BY <1>4, <1>5
<1>7. CASE q = 0
  <2>1. d = << >> /\ Chunks(d) = << >>
    <3> HIDE DEF Chunk
    <3> QED BY <1>1, <1>2, <1>3, <1>4, <1>7
  <2> QED BY <1>6, <2>1, FlatNothing
<1>8. CASE q # 0
  <2>1. Chunks(d) \in Seq(Seq(S)) /\ Len(Chunks(d)) = q /\ \A i \in 1 .. q : Chunks(d)[i] = Chunk(i)
    <3>1. \A i \in 1 .. q : Chunk(i) \in Seq(S)
      BY <1>5
    <3> HIDE DEF Chunk
    <3> QED BY <1>3, <1>4, <3>1
  <2>2. PICK f : Flattens(f, Chunks(d)) /\ FlattenSeq(Chunks(d)) = f[q]
    <3>1. Len(Chunks(d)) # 0
      BY <1>8, <2>1
    <3>2. \E f : Flattens(f, Chunks(d)) /\ FlattenSeq(Chunks(d)) = f[Len(Chunks(d))]
      BY <2>1, <3>1, Flattening
    <3> QED BY <2>1, <3>2
  <2>3. \A i \in 1 .. q : f[i] = IF i = 1 THEN Chunk(i) ELSE f[i - 1] \o Chunk(i)
    <3> HIDE DEF Chunk
    <3> QED BY <2>1, <2>2 DEF Flattens
  <2> DEFINE T == {n \in Nat : \A i \in 1 .. q : i = n => f[i] = SubSeq(d, 1, Until(i))}
  <2>4. 0 \in T
    OBVIOUS
  <2>5. ASSUME NEW n \in Nat, n \in T PROVE n + 1 \in T
    <3> SUFFICES ASSUME n + 1 \in 1 .. q PROVE f[n + 1] = SubSeq(d, 1, Until(n + 1))
      OBVIOUS
    <3>1. PICK i \in 1 .. q : i = n + 1 /\ i - 1 = n
      OBVIOUS
    <3>2. f[i] = IF i = 1 THEN Chunk(i) ELSE f[i - 1] \o Chunk(i)
      BY <2>3
    <3>3. CASE i = 1
      <4>1. (i - 1) * ChunkLength + 1 = 1
        BY <1>2, <3>3
      <4> QED BY <3>1, <3>2, <3>3, <4>1
    <3>4. CASE i # 1
      <4>1. n \in 1 .. q
        BY <1>3, <3>1, <3>4
      <4>2. f[i - 1] = SubSeq(d, 1, Until(i - 1))
        BY <2>5, <3>1, <4>1
      <4>3. PICK before \in Nat, end \in Nat :
              before = (i - 1) * ChunkLength /\ end = Until(i) /\ before < end /\ end <= Len(d) /\ Until(i - 1) = before
        BY <1>5
      <4>4. SubSeq(d, 1, before) \o SubSeq(d, before + 1, end) = SubSeq(d, 1, end)
        <5>1. 1 \in 1 .. Len(d) + 1 /\ before \in 1 - 1 .. Len(d) /\ end \in before .. Len(d)
          BY <1>2, <4>3
        <5> QED BY <1>1, <5>1, ConcatAdjacentSubSeq
      <4>5. Chunk(i) = SubSeq(d, before + 1, end) /\ f[i] = f[i - 1] \o Chunk(i)
        BY <3>2, <3>4, <4>3
      <4> QED BY <3>1, <4>2, <4>3, <4>4, <4>5
    <3> QED BY <3>3, <3>4
  <2>6. q \in 1 .. q /\ f[q] = SubSeq(d, 1, Until(q))
    <3>1. Nat \subseteq T
      <4> HIDE DEF T
      <4> QED BY <2>4, <2>5, EveryNumber
    <3> QED BY <1>3, <1>8, <3>1
  <2>7. Until(q) = Len(d)
    BY <1>2, <1>3 DEF UpTo
  <2>8. SubSeq(d, 1, Len(d)) = d
    BY <1>1, SubSeqFull
  <2> QED BY <1>6, <2>2, <2>6, <2>7, <2>8
<1> QED BY <1>7, <1>8

Packets == FrameKinds \X Nat

\* What a page has sent and recv() has returned.
Arrived(p) == SubSeq(stream[p], 1, received[p])

StreamTypeOK ==
  /\ stream \in [Pages -> Seq(Packets)]
  /\ received \in [Pages -> Nat]
  /\ pending \in [ClientSlots -> Seq(Packets)]
  /\ injected \in [Pages -> Seq(Seq(Packets))]
  /\ \A p \in Pages : received[p] <= Len(stream[p])

NothingSentBefore == \A p \in Pages : connection[p] \in {"away", "waiting"} => stream[p] = << >>

\* A slot holds what has arrived behind the last whole frame, none of which closed.
PendingIsTheRest ==
  \A s \in ClientSlots : clients[s] # Nobody =>
    /\ ~Closes(Arrived(clients[s]))
    /\ pending[s] = Undecoded(Arrived(clients[s]))

DocumentsAreChunks ==
  /\ DOMAIN answered = Pages
  /\ \A p \in Pages : answered[p][1] = "document" => \E d \in Documents : answered[p][2] = Chunks(d)

WholeInv ==
  /\ StreamTypeOK
  /\ NothingSentBefore
  /\ PendingIsTheRest
  /\ TextsArriveWhole
  /\ DocumentsAreChunks

\* Of nothing there is no frame and no text, and nothing is left.
LEMMA NothingArrived ==
  /\ FramesIn(<< >>) = << >> /\ Texts(<< >>) = << >> /\ Undecoded(<< >>) = << >> /\ ~Closes(<< >>)
<1>1. Parts \in Nat \ {0} /\ 0 \div Parts = 0
  <2>1. Parts \in Nat \ {0}
    BY WebHostAssumption
  <2> QED BY <2>1
<1>2. FramesIn(<< >>) = << >>
  <2>1. Len(<< >>) \div Parts = 0
    BY <1>1
  <2> QED BY <2>1 DEF FramesIn
<1>3. Undecoded(<< >>) = << >>
  BY <1>1, <1>2 DEF Undecoded
<1>4. ~Closes(<< >>)
  BY <1>2 DEF Closes
<1>5. Texts(<< >>) = << >>
  <2>1. TakenOf(<< >>) = << >>
    BY DEF TakenOf
  <2>2. Texts(<< >>) = FlattenSeq(TakenOf(FramesIn(<< >>)))
    BY Zenon DEF Texts, TakenOf
  <2> QED BY <1>2, <2>1, <2>2, FlatNothing
<1> QED BY <1>2, <1>3, <1>4, <1>5

\* What is taken of packets is frames, and packets they are.
LEMMA TextsAreFrames ==
  ASSUME NEW S, NEW a \in Seq(S) PROVE Texts(a) \in Seq(Seq(S))
<1>1. PICK f \in Seq(Seq(S)) : f = FramesIn(a)
  BY FramesAreParts
<1>2. Texts(a) = FlattenSeq(TakenOf(f))
  BY <1>1, Zenon DEF Texts, TakenOf
<1>3. TakenOf(f) \in Seq(Seq(Seq(S)))
  <2>1. PICK n \in Nat : n = Len(f) /\ DOMAIN f = 1 .. n
    OBVIOUS
  <2>2. \A i \in 1 .. n : << f[i] >> \in Seq(Seq(S)) /\ << >> \in Seq(Seq(S))
    BY <2>1
  <2> QED BY <2>1, <2>2 DEF TakenOf
<1>4. << >> \in Seq(Seq(S))
  OBVIOUS
<1> QED BY <1>2, <1>3, <1>4, FlatAppend

\* Nothing has arrived at first, and no document is answered.
LEMMA InitWhole == HostInit => WholeInv
<1> SUFFICES ASSUME HostInit PROVE WholeInv
  OBVIOUS
<1>1. StreamTypeOK
  <2>1. << >> \in Seq(Packets) /\ << >> \in Seq(Seq(Packets)) /\ Len(<< >>) = 0
    OBVIOUS
  <2> QED BY <2>1 DEF HostInit, StreamTypeOK
<1>2. NothingSentBefore
  BY DEF HostInit, NothingSentBefore
<1>3. PendingIsTheRest
  BY DEF HostInit, PendingIsTheRest
<1>4. TextsArriveWhole
  <2> SUFFICES ASSUME NEW p \in Pages PROVE injected[p] = Texts(Arrived(p))
    BY DEF TextsArriveWhole, Arrived
  <2>1. stream[p] = << >> /\ received[p] = 0 /\ injected[p] = << >>
    BY DEF HostInit
  <2>2. Arrived(p) = << >>
    BY <2>1 DEF Arrived
  <2> QED BY <2>1, <2>2, NothingArrived
<1>5. DocumentsAreChunks
  BY DEF HostInit, DocumentsAreChunks
<1> QED BY <1>1, <1>2, <1>3, <1>4, <1>5 DEF WholeInv

\* What leaves the streams, the slots and what they hold.
LEMMA QuietStaysWhole ==
  ASSUME WholeInv, UNCHANGED << stream, received, pending, clients, injected, answered >>,
         \A p \in Pages : connection'[p] \in {"away", "waiting"} => connection[p] \in {"away", "waiting"}
  PROVE  WholeInv'
<1>1. \A p : Arrived(p)' = Arrived(p)
  BY DEF Arrived
<1>2. StreamTypeOK' /\ NothingSentBefore' /\ DocumentsAreChunks'
  BY DEF WholeInv, StreamTypeOK, NothingSentBefore, DocumentsAreChunks
<1>3. PendingIsTheRest' /\ TextsArriveWhole'
  <2>1. \A x : Closes(x)' = Closes(x) /\ Undecoded(x)' = Undecoded(x) /\ Texts(x)' = Texts(x)
    OBVIOUS
  <2> QED BY <1>1 DEF WholeInv, PendingIsTheRest, TextsArriveWhole, Arrived
<1> QED BY <1>2, <1>3 DEF WholeInv

\* A packet that is sent has not arrived.
LEMMA SendsStaysWhole ==
  ASSUME WholeInv, HostInv, NEW p \in Pages, PageSends(p),
         UNCHANGED << received, pending, clients, injected, answered >>
  PROVE  WholeInv'
<1>1. PICK packet \in Packets : stream' = [stream EXCEPT ![p] = Append(@, packet)]
  <2>1. PICK kind \in FrameKinds : stream' = [stream EXCEPT ![p] = Append(@, << kind, Len(@) + 1 >>)]
    BY DEF PageSends
  <2>2. Len(stream[p]) + 1 \in Nat
    BY DEF WholeInv, StreamTypeOK
  <2> QED BY <2>1, <2>2 DEF Packets
<1>2. connection[p] = "open" /\ UNCHANGED connection
  BY DEF PageSends
<1>3. stream' \in [Pages -> Seq(Packets)] /\ \A q \in Pages : Len(stream'[q]) >= Len(stream[q])
  BY <1>1 DEF WholeInv, StreamTypeOK
<1>4. StreamTypeOK'
  BY <1>3 DEF WholeInv, StreamTypeOK
<1>5. \A q \in Pages : Arrived(q)' = Arrived(q)
  <2> SUFFICES ASSUME NEW q \in Pages PROVE Arrived(q)' = Arrived(q)
    OBVIOUS
  <2>1. CASE q # p
    BY <1>1, <2>1 DEF Arrived, WholeInv, StreamTypeOK
  <2>2. CASE q = p
    <3>1. PICK old \in Seq(Packets), n \in Nat : old = stream[p] /\ n = received[p] /\ n <= Len(old)
      BY DEF WholeInv, StreamTypeOK
    <3>2. stream'[p] = Append(old, packet)
      BY <1>1, <3>1 DEF WholeInv, StreamTypeOK
    <3>3. SubSeq(Append(old, packet), 1, n) = SubSeq(old, 1, n)
      BY <3>1
    <3> QED BY <2>2, <3>1, <3>2, <3>3 DEF Arrived
  <2> QED BY <2>1, <2>2
<1>6. NothingSentBefore'
  BY <1>1, <1>2 DEF WholeInv, NothingSentBefore, StreamTypeOK
<1>7. DocumentsAreChunks'
  BY DEF WholeInv, DocumentsAreChunks
<1>8. PendingIsTheRest'
  <2> SUFFICES ASSUME NEW s \in ClientSlots, clients[s] # Nobody
               PROVE  ~Closes(Arrived(clients[s])') /\ pending[s] = Undecoded(Arrived(clients[s])')
    BY DEF PendingIsTheRest
  <2>1. clients[s] \in Pages
    BY DEF HostInv, HostTypeOK
  <2> QED BY <1>5, <2>1 DEF WholeInv, PendingIsTheRest
<1>9. TextsArriveWhole'
  BY <1>5 DEF WholeInv, TextsArriveWhole, Arrived
<1> QED BY <1>4, <1>6, <1>7, <1>8, <1>9 DEF WholeInv

\* The browsers change no slot and nothing that has arrived.
LEMMA BrowsersStayWhole == WholeInv /\ HostInv /\ Browsers => WholeInv'
<1> SUFFICES ASSUME WholeInv, HostInv, Browsers PROVE WholeInv'
  OBVIOUS
<1>1. UNCHANGED << received, pending, clients, injected, answered >>
  BY DEF Browsers, socketVars, shownVars
<1>2. PICK p \in Pages : PageConnects(p) \/ PageSends(p) \/ PageReads(p) \/ PageGoes(p)
  BY DEF Browsers
<1>3. CASE PageSends(p)
  BY <1>1, <1>3, SendsStaysWhole
<1>4. CASE PageConnects(p) \/ PageReads(p) \/ PageGoes(p)
  <2>1. UNCHANGED stream
    BY <1>4 DEF PageConnects, PageReads, PageGoes
  <2>2. \/ connection' = [connection EXCEPT ![p] = "waiting"] /\ connection[p] = "away"
        \/ UNCHANGED connection
    BY <1>4 DEF PageConnects, PageReads, PageGoes
  <2>3. \A q \in Pages : connection'[q] \in {"away", "waiting"} => connection[q] \in {"away", "waiting"}
    BY <2>2 DEF HostInv, HostTypeOK
  <2> QED BY <1>1, <2>1, <2>3, QuietStaysWhole
<1> QED BY <1>2, <1>3, <1>4

\* A connection that is answered is hung up on, or becomes a web socket that has sent nothing.
LEMMA AcceptStaysWhole == WholeInv /\ HostInv /\ AcceptClients => WholeInv'
<1> SUFFICES ASSUME WholeInv, HostInv, AcceptClients PROVE WholeInv'
  OBVIOUS
<1>1. UNCHANGED << stream, received, injected >>
  BY DEF AcceptClients
<1>2. CASE backlog = << >>
  <2>1. UNCHANGED << connection, answered, clients, pending >>
    BY <1>2 DEF AcceptClients
  <2> QED BY <1>1, <2>1, QuietStaysWhole
<1>3. CASE backlog # << >>
  <2>1. PICK p, request : p = Head(backlog)[1] /\ request = Head(backlog)[2]
    OBVIOUS
  <2>2. PICK answer \in AnswersTo(request) : Serve(p, request, answer)
    BY <1>3, <2>1 DEF AcceptClients
  <2>3. p \in Pages /\ connection[p] = "waiting"
    <3>1. Head(backlog) = backlog[1] /\ 1 \in DOMAIN backlog /\ Head(backlog) \in Pages \X Requests
      BY <1>3 DEF HostInv, HostTypeOK
    <3> QED BY <2>1, <3>1 DEF HostInv, BacklogWaits
  <2>4. answer[1] = "document" => \E d \in Documents : answer[2] = Chunks(d)
    <3>1. CASE ~IsAnswered(request)
      <4>1. answer \in {<< "nothing", << >> >>}
        BY <2>2, <3>1 DEF AnswersTo, IsAnswered, IsUpdateRequest
      <4> QED BY <4>1
    <3>2. CASE IsAnswered(request) /\ IsUpdateRequest(request)
      <4>1. answer \in {<< AnswerUpdate(request), << >> >>}
        BY <2>2, <3>2, Zenon DEF AnswersTo, IsAnswered, IsUpdateRequest
      <4> QED BY <4>1 DEF AnswerUpdate
    <3>3. CASE request = "socket"
      <4>1. answer \in {<< "handshake", << >> >>}
        BY <2>2, <3>3 DEF AnswersTo, IsAnswered, IsUpdateRequest
      <4> QED BY <4>1
    <3>4. CASE request = "document"
      <4>1. answer \in {<< "document", Chunks(document) >> : document \in Documents}
        BY <2>2, <3>4 DEF AnswersTo, IsAnswered, IsUpdateRequest
      <4> QED BY <4>1
    <3>5. CASE IsAnswered(request) /\ ~IsUpdateRequest(request) /\ request \notin {"socket", "document"}
      <4>1. answer \in {<< SendAsset(request), << >> >>}
        BY <2>2, <3>5 DEF AnswersTo
      <4>2. SendAsset(request) \in {"asset", "not found"}
        BY Zenon DEF SendAsset
      <4>3. "asset" # "document" /\ "not found" # "document"
        OBVIOUS
      <4>4. answer[1] = SendAsset(request)
        BY <4>1
      <4> QED BY <4>2, <4>3, <4>4, Zenon
    <3>6. \/ ~IsAnswered(request)
          \/ IsAnswered(request) /\ IsUpdateRequest(request)
          \/ request = "socket"
          \/ request = "document"
          \/ IsAnswered(request) /\ ~IsUpdateRequest(request) /\ request \notin {"socket", "document"}
      BY Zenon
    <3> QED BY <3>1, <3>2, <3>3, <3>4, <3>5, <3>6, Zenon
  <2>5. HangUp(p, << "nothing", << >> >>) \/ HangUp(p, answer) \/ (~IsHostFull /\ BecomeClient(p))
    BY <2>2 DEF Serve
  <2>6. ASSUME NEW given, given[1] = "document" => \E d \in Documents : given[2] = Chunks(d),
               answered' = [answered EXCEPT ![p] = given]
        PROVE  DocumentsAreChunks'
    BY <2>3, <2>6 DEF WholeInv, DocumentsAreChunks
  <2>7. ASSUME NEW how \in {"closed", "open"}, connection' = [connection EXCEPT ![p] = how]
        PROVE  /\ NothingSentBefore'
               /\ StreamTypeOK' <=> pending' \in [ClientSlots -> Seq(Packets)]
    BY <1>1, <2>3, <2>7 DEF WholeInv, NothingSentBefore, StreamTypeOK, HostInv, HostTypeOK
  <2>8. CASE HangUp(p, << "nothing", << >> >>) \/ HangUp(p, answer)
    <3>1. PICK given : /\ given[1] = "document" => \E d \in Documents : given[2] = Chunks(d)
                       /\ answered' = [answered EXCEPT ![p] = given]
      <4>1. << "nothing", << >> >>[1] # "document"
        OBVIOUS
      <4> QED BY <2>4, <2>8, <4>1 DEF HangUp
    <3>2. connection' = [connection EXCEPT ![p] = "closed"] /\ UNCHANGED << clients, pending >>
      BY <2>8 DEF HangUp
    <3>3. PendingIsTheRest' /\ TextsArriveWhole'
      BY <1>1, <3>2 DEF WholeInv, PendingIsTheRest, TextsArriveWhole, Arrived
    <3>4. NothingSentBefore' /\ StreamTypeOK'
      BY <2>7, <3>2 DEF WholeInv, StreamTypeOK
    <3>5. DocumentsAreChunks'
      BY <2>6, <3>1
    <3> QED BY <3>3, <3>4, <3>5 DEF WholeInv
  <2>9. CASE ~IsHostFull /\ BecomeClient(p)
    <3>1. PICK free \in ClientSlots : free = FindFreeSlot /\ clients[free] = Nobody
      BY <2>9, FreeClientSlot
    <3>2. /\ connection' = [connection EXCEPT ![p] = "open"]
          /\ answered' = [answered EXCEPT ![p] = << "handshake", << >> >>]
          /\ clients' = [clients EXCEPT ![free] = p]
          /\ pending' = [pending EXCEPT ![free] = << >>]
      BY <2>9, <3>1 DEF BecomeClient
    <3>3. TextsArriveWhole'
      BY <1>1 DEF WholeInv, TextsArriveWhole
    <3>4. NothingSentBefore' /\ StreamTypeOK'
      <4>1. << >> \in Seq(Packets)
        OBVIOUS
      <4>2. pending' \in [ClientSlots -> Seq(Packets)]
        BY <3>2, <4>1 DEF WholeInv, StreamTypeOK
      <4> QED BY <2>7, <3>2, <4>2
    <3>5. DocumentsAreChunks'
      <4>1. << "handshake", << >> >>[1] # "document"
        OBVIOUS
      <4> QED BY <2>6, <3>2, <4>1
    <3>6. Arrived(p) = << >>
      <4>1. stream[p] = << >> /\ received[p] = 0
        BY <2>3 DEF WholeInv, NothingSentBefore, StreamTypeOK
      <4> QED BY <4>1 DEF Arrived
    <3>7. PendingIsTheRest'
      <4> SUFFICES ASSUME NEW s \in ClientSlots, clients'[s] # Nobody
                   PROVE  ~Closes(Arrived(clients'[s])) /\ pending'[s] = Undecoded(Arrived(clients'[s]))
        BY <1>1 DEF PendingIsTheRest, Arrived
      <4>1. CASE s = free
        <5>1. clients'[s] = p /\ pending'[s] = << >>
          BY <3>1, <3>2, <4>1 DEF HostInv, HostTypeOK, WholeInv, StreamTypeOK
        <5> QED BY <3>6, <5>1, NothingArrived
      <4>2. CASE s # free
        <5>1. clients'[s] = clients[s] /\ pending'[s] = pending[s]
          BY <3>2, <4>2 DEF HostInv, HostTypeOK, WholeInv, StreamTypeOK
        <5> QED BY <5>1 DEF WholeInv, PendingIsTheRest
      <4> QED BY <4>1, <4>2
    <3> QED BY <3>3, <3>4, <3>5, <3>7 DEF WholeInv
  <2> QED BY <2>5, <2>8, <2>9
<1> QED BY <1>2, <1>3

\* A web socket that is dropped takes what is left of a frame with it.
LEMMA DropStaysWhole ==
  ASSUME WholeInv, HostInv, NEW s \in ClientSlots, clients[s] # Nobody, DropClient(s),
         UNCHANGED << stream, answered >>,
         received' \in [Pages -> Nat], injected' \in [Pages -> Seq(Seq(Packets))],
         \A p \in Pages : received'[p] <= Len(stream[p]) /\ injected'[p] = Texts(Arrived(p)'),
         \A p \in Pages \ {clients[s]} : received'[p] = received[p]
  PROVE  WholeInv'
<1>1. /\ clients' = [clients EXCEPT ![s] = Nobody] /\ pending' = [pending EXCEPT ![s] = << >>]
      /\ connection' = [connection EXCEPT ![clients[s]] = "closed"]
  BY DEF DropClient
<1>2. clients[s] \in Pages /\ clients \in [ClientSlots -> Pages \union {Nobody}] /\ Nobody \notin Pages
  BY WebHostAssumption DEF HostInv, HostTypeOK, Pages
<1>3. StreamTypeOK'
  <2>1. << >> \in Seq(Packets)
    OBVIOUS
  <2> QED BY <1>1, <2>1 DEF WholeInv, StreamTypeOK
<1>4. NothingSentBefore'
  BY <1>1, <1>2 DEF WholeInv, NothingSentBefore, HostInv, HostTypeOK
<1>5. PendingIsTheRest'
  <2> SUFFICES ASSUME NEW t \in ClientSlots, NEW q, q = clients'[t], q # Nobody
               PROVE  /\ ~Closes(SubSeq(stream'[q], 1, received'[q]))
                      /\ pending'[t] = Undecoded(SubSeq(stream'[q], 1, received'[q]))
    BY DEF PendingIsTheRest, Arrived
  <2>1. t # s /\ q = clients[t] /\ pending'[t] = pending[t]
    BY <1>1, <1>2 DEF WholeInv, StreamTypeOK
  <2>2. q \in Pages \ {clients[s]}
    BY <1>2, <2>1 DEF HostInv, ClientsAreOpen
  <2>3. stream'[q] = stream[q] /\ received'[q] = received[q]
    BY <2>2
  <2> QED BY <2>1, <2>3 DEF WholeInv, PendingIsTheRest, Arrived
<1>6. TextsArriveWhole'
  BY DEF TextsArriveWhole, Arrived
<1>7. DocumentsAreChunks'
  BY DEF WholeInv, DocumentsAreChunks
<1> QED BY <1>3, <1>4, <1>5, <1>6, <1>7 DEF WholeInv

\* Packets arrive: the texts that are whole by then are taken, and what is left of a frame waits.
LEMMA ReceiveStaysWhole ==
  ASSUME WholeInv, HostInv, NEW s \in ClientSlots, NEW p \in Pages, p = clients[s],
         NEW n \in Nat, received[p] + n <= Len(stream[p]),
         received' = [received EXCEPT ![p] = @ + n],
         Receive(s, p, pending[s] \o SubSeq(stream[p], received[p] + 1, received[p] + n)),
         UNCHANGED << stream, answered >>
  PROVE  WholeInv'
<1>1. PICK whole \in Seq(Packets), had \in Nat : whole = stream[p] /\ had = received[p]
  BY DEF WholeInv, StreamTypeOK
<1>2. had + n <= Len(whole) /\ p # Nobody
  BY <1>1, WebHostAssumption DEF Pages
<1>3. PICK a \in Seq(Packets), b \in Seq(Packets) :
        a = SubSeq(whole, 1, had) /\ b = SubSeq(whole, had + 1, had + n)
  <2>1. /\ \A i \in 1 .. had : whole[i] \in Packets
        /\ \A i \in had + 1 .. had + n : whole[i] \in Packets
    BY <1>2
  <2>2. PICK first, last : first = had + 1 /\ last = had + n
    OBVIOUS
  <2>3. first \in Int /\ last \in Int /\ \A i \in first .. last : whole[i] \in Packets
    BY <2>1, <2>2
  <2>4. SubSeq(whole, first, last) \in Seq(Packets)
    BY <2>3, SubSeqProperties
  <2>5. SubSeq(whole, 1, had) \in Seq(Packets)
    BY <2>1, SubSeqProperties
  <2> QED BY <2>2, <2>4, <2>5
<1>4. a \o b = SubSeq(whole, 1, had + n)
  BY <1>2, <1>3
<1>5. a = Arrived(p) /\ a \o b = Arrived(p)'
  <2>1. received'[p] = had + n
    BY <1>1 DEF WholeInv, StreamTypeOK
  <2> QED BY <1>1, <1>3, <1>4, <2>1 DEF Arrived
<1>6. ~Closes(a) /\ pending[s] = Undecoded(a)
  BY <1>2, <1>5 DEF WholeInv, PendingIsTheRest
<1>7. PICK buffer \in Seq(Packets) : buffer = Undecoded(a) \o b
  <2>1. PICK u \in Seq(Packets) : u = Undecoded(a)
    BY FramesConcat
  <2>2. u \o b \in Seq(Packets)
    OBVIOUS
  <2> QED BY <2>1, <2>2
<1>8. Receive(s, p, buffer)
  BY <1>1, <1>3, <1>6, <1>7
<1>9. /\ Texts(a \o b) = Texts(a) \o Texts(buffer)
      /\ Closes(a \o b) <=> Closes(buffer)
      /\ Undecoded(a \o b) = Undecoded(buffer)
  BY <1>6, <1>7, TextsConcat, FramesConcat
<1>10. Texts(buffer) \in Seq(Seq(Packets)) /\ Undecoded(buffer) \in Seq(Packets)
  BY TextsAreFrames, FramesConcat
<1>11. injected' = [injected EXCEPT ![p] = @ \o Texts(buffer)]
  BY <1>8 DEF Receive
<1>12. \A q \in Pages \ {p} : received'[q] = received[q] /\ injected'[q] = injected[q]
  BY <1>11 DEF WholeInv, StreamTypeOK
<1>13. injected'[p] = Texts(a \o b)
  BY <1>5, <1>9, <1>11 DEF WholeInv, StreamTypeOK, TextsArriveWhole, Arrived
<1>14. \A q \in Pages : injected'[q] = Texts(Arrived(q)')
  <2> SUFFICES ASSUME NEW q \in Pages PROVE injected'[q] = Texts(Arrived(q)')
    OBVIOUS
  <2>1. CASE q = p
    BY <1>5, <1>13, <2>1
  <2>2. CASE q # p
    BY <1>12, <2>2 DEF WholeInv, TextsArriveWhole, Arrived
  <2> QED BY <2>1, <2>2
<1>15. /\ received' \in [Pages -> Nat] /\ injected' \in [Pages -> Seq(Seq(Packets))]
       /\ \A q \in Pages : received'[q] <= Len(stream[q])
  <2>1. received[p] + n \in Nat /\ injected[p] \o Texts(buffer) \in Seq(Seq(Packets))
    BY <1>10 DEF WholeInv, StreamTypeOK
  <2>2. received' \in [Pages -> Nat] /\ injected' \in [Pages -> Seq(Seq(Packets))]
    BY <1>11, <2>1 DEF WholeInv, StreamTypeOK
  <2>3. ASSUME NEW q \in Pages PROVE received'[q] <= Len(stream[q])
    <3>1. CASE q = p
      BY <3>1 DEF WholeInv, StreamTypeOK
    <3>2. CASE q # p
      BY <1>12, <3>2 DEF WholeInv, StreamTypeOK
    <3> QED BY <3>1, <3>2
  <2> QED BY <2>2, <2>3
<1>16. CASE Closes(buffer)
  <2>1. DropClient(s)
    BY <1>8, <1>16 DEF Receive
  <2> QED BY <1>2, <1>12, <1>14, <1>15, <2>1, DropStaysWhole
<1>17. CASE ~Closes(buffer)
  <2>1. pending' = [pending EXCEPT ![s] = Undecoded(buffer)] /\ UNCHANGED << clients, connection >>
    BY <1>8, <1>17 DEF Receive
  <2>2. StreamTypeOK'
    BY <1>10, <1>15, <2>1 DEF WholeInv, StreamTypeOK
  <2>3. NothingSentBefore' /\ DocumentsAreChunks'
    BY <2>1 DEF WholeInv, NothingSentBefore, DocumentsAreChunks
  <2>4. TextsArriveWhole'
    BY <1>14 DEF TextsArriveWhole, Arrived
  <2>5. PendingIsTheRest'
    <3> SUFFICES ASSUME NEW t \in ClientSlots, NEW q, q = clients[t], q # Nobody
                 PROVE  /\ ~Closes(SubSeq(stream'[q], 1, received'[q]))
                        /\ pending'[t] = Undecoded(SubSeq(stream'[q], 1, received'[q]))
      BY <2>1 DEF PendingIsTheRest, Arrived
    <3>1. CASE t = s
      <4>1. pending'[s] = Undecoded(buffer)
        BY <2>1 DEF WholeInv, StreamTypeOK
      <4> QED BY <1>5, <1>9, <1>17, <3>1, <4>1 DEF Arrived
    <3>2. CASE t # s
      <4>1. q \in Pages \ {p} /\ pending'[t] = pending[t]
        BY <2>1, <3>2 DEF HostInv, HostTypeOK, ClientsAreOpen, WholeInv, StreamTypeOK
      <4>2. stream'[q] = stream[q] /\ received'[q] = received[q]
        BY <1>12, <4>1
      <4> QED BY <4>1, <4>2 DEF WholeInv, PendingIsTheRest, Arrived
    <3> QED BY <3>1, <3>2
  <2> QED BY <2>2, <2>3, <2>4, <2>5 DEF WholeInv
<1> QED BY <1>16, <1>17

\* A web socket is read: nothing arrives, its page has gone, or packets arrive.
LEMMA ReadStaysWhole == WholeInv /\ HostInv /\ ReadClient => WholeInv'
<1> SUFFICES ASSUME WholeInv, HostInv, ReadClient PROVE WholeInv'
  OBVIOUS
<1>1. PICK s, p : s = tick[2] /\ p = clients[s]
  OBVIOUS
<1>2. s \in ClientSlots /\ UNCHANGED << stream, answered >>
  BY <1>1 DEF ReadClient, HostInv, TickKnows
<1>3. p \in Pages \/ p = Nobody
  BY <1>1, <1>2 DEF HostInv, HostTypeOK
<1>4. PICK waiting : waiting = IF p = Nobody THEN 0 ELSE Len(stream[p]) - received[p]
  OBVIOUS
<1>5. \/ ReadNothing
      \/ p # Nobody /\ DropClient(s) /\ UNCHANGED << received, sendBuffer, injected >>
      \/ /\ waiting > 0
         /\ \E n \in 1 .. (IF waiting < PacketsPerRead THEN waiting ELSE PacketsPerRead) :
              /\ received' = [received EXCEPT ![p] = @ + n]
              /\ Receive(s, p, pending[s] \o SubSeq(stream[p], received[p] + 1, received[p] + n))
  BY <1>1, <1>4 DEF ReadClient
<1>6. CASE ReadNothing
  BY <1>2, <1>6, QuietStaysWhole DEF ReadNothing
<1>7. CASE p # Nobody /\ DropClient(s) /\ UNCHANGED << received, sendBuffer, injected >>
  <2>1. \A q \in Pages : injected'[q] = Texts(Arrived(q)')
    BY <1>2, <1>7 DEF WholeInv, TextsArriveWhole, Arrived
  <2> QED BY <1>1, <1>2, <1>7, <2>1, DropStaysWhole DEF WholeInv, StreamTypeOK
<1>8. CASE waiting > 0 /\ \E n \in 1 .. (IF waiting < PacketsPerRead THEN waiting ELSE PacketsPerRead) :
              /\ received' = [received EXCEPT ![p] = @ + n]
              /\ Receive(s, p, pending[s] \o SubSeq(stream[p], received[p] + 1, received[p] + n))
  <2>1. p \in Pages
    BY <1>3, <1>4, <1>8
  <2>2. waiting = Len(stream[p]) - received[p] /\ Len(stream[p]) \in Nat /\ received[p] \in Nat
    BY <1>4, <1>8, <2>1 DEF WholeInv, StreamTypeOK
  <2>3. PICK n \in 1 .. (IF waiting < PacketsPerRead THEN waiting ELSE PacketsPerRead) :
              /\ received' = [received EXCEPT ![p] = @ + n]
              /\ Receive(s, p, pending[s] \o SubSeq(stream[p], received[p] + 1, received[p] + n))
    BY <1>8
  <2>4. n \in Nat /\ n <= waiting
    <3>1. PacketsPerRead \in Nat \ {0}
      BY WebHostAssumption
    <3> QED BY <2>2, <2>3, <3>1
  <2>5. received[p] + n <= Len(stream[p])
    BY <2>2, <2>4
  <2> QED BY <1>1, <1>2, <2>1, <2>3, <2>4, <2>5, ReceiveStaysWhole
<1> QED BY <1>5, <1>6, <1>7, <1>8

\* Every step leaves what has arrived whole.
LEMMA WholeStep == WholeInv /\ HostInv /\ [HostNext]_hostVars => WholeInv'
<1> SUFFICES ASSUME WholeInv, HostInv, [HostNext]_hostVars PROVE WholeInv'
  OBVIOUS
<1>1. CASE HostEnd
  <2>1. /\ \A s \in ClientSlots : clients'[s] = Nobody
        /\ pending' = [s \in ClientSlots |-> << >>]
        /\ \A p \in Pages : connection'[p] \in {"away", "waiting"} => connection[p] = "away"
        /\ UNCHANGED << stream, received, injected, answered >>
    BY <1>1 DEF HostEnd, shownVars
  <2>2. StreamTypeOK'
    <3>1. << >> \in Seq(Packets)
      OBVIOUS
    <3> QED BY <2>1, <3>1 DEF WholeInv, StreamTypeOK
  <2>3. NothingSentBefore' /\ DocumentsAreChunks' /\ PendingIsTheRest'
    BY <2>1 DEF WholeInv, NothingSentBefore, DocumentsAreChunks, PendingIsTheRest
  <2>4. TextsArriveWhole'
    BY <2>1 DEF WholeInv, TextsArriveWhole
  <2> QED BY <2>2, <2>3, <2>4 DEF WholeInv
<1>2. CASE \/ BeginTick \/ SendInput \/ FirmwareTask \/ BroadcastHostFrame \/ SendToEveryClient
           \/ HostEnded \/ UNCHANGED hostVars
  <2>1. UNCHANGED << connection, stream, received, pending, clients, injected, answered >>
    BY <1>2 DEF BeginTick, SendInput, FirmwareTask, BroadcastHostFrame, SendToEveryClient, HostEnded,
                hostVars, browserVars, socketVars, shownVars
  <2> QED BY <2>1, QuietStaysWhole
<1> QED BY <1>1, <1>2, BrowsersStayWhole, AcceptStaysWhole, ReadStaysWhole DEF HostNext, HostTick

\* Whatever packets its frames came in and wherever recv() cut them, the host has taken every text
\* a page has sent once, whole and in order, and a document's chunks are the document and none of
\* them is empty, for any number of pages and slots and any size of frames, reads and chunks
\* (WebHost::ReadClient(), DecodeFrame(), ChunkWriter).
THEOREM MessagesAlwaysArriveWhole == WebSpec => []MessagesArriveWhole
<1>1. WebInit => HostInit
  BY DEF WebInit
<1>2. WholeInv => MessagesArriveWhole
  <2> SUFFICES ASSUME WholeInv PROVE DocumentsAreWhole
    BY DEF MessagesArriveWhole, WholeInv
  <2> SUFFICES ASSUME NEW p \in Pages, answered[p][1] = "document"
               PROVE  /\ << >> \notin {answered[p][2][i] : i \in DOMAIN answered[p][2]}
                      /\ FlattenSeq(answered[p][2]) \in Documents
    BY DEF DocumentsAreWhole
  <2>1. PICK d \in Documents : answered[p][2] = Chunks(d)
    BY DEF WholeInv, DocumentsAreChunks
  <2> QED BY <2>1, ChunksAreWhole
<1> QED BY InitHostInv, HostStep, InitWhole, WholeStep, WebStep, <1>1, <1>2, PTL DEF WebSpec
=============================================================================
