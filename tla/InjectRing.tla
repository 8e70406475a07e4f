----------------------------- MODULE InjectRing -----------------------------
(***************************************************************************)
(* WordclockSerial's buffer of injected characters: one producer, the web  *)
(* server's task, and one consumer, the firmware's tick, each of which     *)
(* writes only its own index.  A character goes into its slot before the   *)
(* index that shows it is stored, and out of it before the index that      *)
(* frees it is; the other side may look between the two.                   *)
(*                                                                         *)
(* The consumer loads the head relaxed, which orders nothing in C++; its   *)
(* loads are taken in program order, as the compiler keeps them for this   *)
(* target and its cores execute them.                                      *)
(***************************************************************************)
EXTENDS Naturals, Sequences

CONSTANTS
  Size,  \* WORDCLOCK_SERIAL_INJECT_BUFFER_SIZE; the buffer holds one less
  Char,  \* the characters that may be injected
  Nul    \* what a slot holds before its first use

ASSUME RingAssumption ==
  /\ Size \in Nat \ {0, 1}
  /\ Nul \notin Char

Slots == 0 .. Size - 1

VARIABLES
  slots,    \* inject_buffer_
  head,     \* inject_head_
  tail,     \* inject_tail_
  written,  \* the producer has filled the slot at head and not stored its index yet
  taken,    \* the consumer has read the slot at tail and not stored its index yet
  held,     \* the character it read
  out       \* what read() returned last

ringVars == << slots, head, tail, written, taken, held, out >>

RingTypeOK ==
  /\ slots \in [Slots -> Char \union {Nul}]
  /\ head \in Slots
  /\ tail \in Slots
  /\ written \in BOOLEAN
  /\ taken \in BOOLEAN
  /\ held \in Char \union {Nul}
  /\ out \in Char \union {Nul}

RingInit ==
  /\ slots = [i \in Slots |-> Nul]
  /\ head = 0
  /\ tail = 0
  /\ written = FALSE
  /\ taken = FALSE
  /\ held = Nul
  /\ out = Nul

NextIndex(i) == IF i = Size - 1 THEN 0 ELSE i + 1

IsInjectEmpty == tail = head

\* A buffer filled to its last slot, which looks like an empty one.
HasRoom_EverySlot == TRUE

HasRoom == NextIndex(head) # tail

\* One character of Inject(): its slot, then its index.
Write(c) ==
  /\ ~written
  /\ HasRoom
  /\ slots' = [slots EXCEPT ![head] = c]
  /\ written' = TRUE
  /\ UNCHANGED << head, tail, taken, held, out >>

Publish ==
  /\ written
  /\ head' = NextIndex(head)
  /\ written' = FALSE
  /\ UNCHANGED << slots, tail, taken, held, out >>

\* ReadInjected(): the character, then the index that frees its slot.
ReadSlot ==
  /\ ~taken
  /\ ~IsInjectEmpty
  /\ held' = slots[tail]
  /\ taken' = TRUE
  /\ UNCHANGED << slots, head, tail, written, out >>

Release ==
  /\ taken
  /\ tail' = NextIndex(tail)
  /\ out' = held
  /\ taken' = FALSE
  /\ UNCHANGED << slots, head, written, held >>

RingNext == Publish \/ ReadSlot \/ Release \/ \E c \in Char : Write(c)

RingSpec == RingInit /\ [][RingNext]_ringVars

-----------------------------------------------------------------------------
(* What the ring implements *)

\* The characters that show, and where the one after i others is.
Count == IF tail <= head THEN head - tail ELSE head + Size - tail

At(i) == IF tail + i < Size THEN tail + i ELSE tail + i - Size

Unread == [i \in 1 .. Count |-> slots[At(i - 1)]]

I == INSTANCE Inbox WITH Capacity <- Size - 1, queue <- Unread

\* Whatever the two sides do at the same time is a step of Inbox or none at all.
KeepsTheInbox == I!InboxSpec
=============================================================================
