-------------------------------- MODULE Inbox --------------------------------
(***************************************************************************)
(* What the injected characters are promised on their way from the web     *)
(* task to the tick: they are handed out once each and in order, and none  *)
(* is overwritten.  A character that finds no room is refused.             *)
(***************************************************************************)
EXTENDS Naturals, Sequences

CONSTANTS
  Capacity,  \* characters it holds
  Char,      \* the characters
  Nul        \* what an unused slot holds

VARIABLES
  queue,  \* the characters not handed out yet
  out     \* the character handed out last

inboxVars == << queue, out >>

InboxInit ==
  /\ queue = << >>
  /\ out = Nul

Put(c) ==
  /\ Len(queue) < Capacity
  /\ queue' = Append(queue, c)
  /\ UNCHANGED out

Take ==
  /\ queue # << >>
  /\ out' = Head(queue)
  /\ queue' = Tail(queue)

InboxNext == Take \/ \E c \in Char : Put(c)

InboxSpec == InboxInit /\ [][InboxNext]_inboxVars
=============================================================================
