----------------------------- MODULE SerialPort -----------------------------
(***************************************************************************)
(* The AVR's console: a queue each way between the firmware and the two    *)
(* interrupt handlers of a USART, and flush(), which a restart waits for.  *)
(*                                                                         *)
(* A handler runs between any two steps of the firmware, and neither the   *)
(* firmware nor another handler comes in between its own; the USART's      *)
(* shift register does.  It holds a character in its data register and one *)
(* in its shift register.  A queue has 256 slots at most, so only one byte *)
(* of an index ever changes, and reading it while a handler writes it      *)
(* gives one of the two values.                                            *)
(***************************************************************************)
EXTENDS Naturals, Sequences

CONSTANTS
  TransmitSize,  \* ARDUINO_SERIAL_TRANSMIT_BUFFER_SIZE; the queue holds one less
  ReceiveSize,   \* ARDUINO_SERIAL_RECEIVE_BUFFER_SIZE, likewise
  Char,          \* the characters on the wire
  Nul,           \* no character
  MaxChars       \* bound: characters printed, and characters received

ASSUME SerialPortAssumption ==
  /\ {TransmitSize, ReceiveSize} \subseteq Nat \ {0, 1}
  /\ Nul \notin Char
  /\ MaxChars \in Nat

VARIABLES
  ring,      \* transmit_buffer and receive_buffer, each with its head and tail
  armed,     \* DREIE: an empty data register interrupts
  started,   \* transmit_started
  data,      \* the data register of the transmitter
  shift,     \* its shift register
  complete,  \* TXCIF
  feeding,   \* the transmit handler has cleared TXCIF and not yet written the data register
  ranDry,    \* the shift register ran empty in between, the last time
  doing,     \* what the firmware is in the middle of, and the character it has in hand
  sent,      \* the character the transmit handler took last
  got,       \* the character read() handed out last
  printed, received  \* how many so far

\* What the transmit handler and the wire work on.
usart == << data, shift, complete, feeding, ranDry >>

serialVars == << ring, armed, started, usart, doing, sent, got, printed, received >>

Directions == {"out", "in"}
Size == [out |-> TransmitSize, in |-> ReceiveSize]

Doing == {"tick", "queueing", "arming", "releasing", "flushing", "draining", "reset"}

SerialTypeOK ==
  /\ \A d \in Directions :
       /\ ring[d].slots \in [0 .. Size[d] - 1 -> Char \union {Nul}]
       /\ {ring[d].head, ring[d].tail} \subseteq 0 .. Size[d] - 1
  /\ {armed, started, complete, feeding, ranDry} \subseteq BOOLEAN
  /\ {data, shift, sent, got} \subseteq Char \union {Nul}
  /\ doing \in [at : Doing, char : Char \union {Nul}]
  /\ {printed, received} \subseteq 0 .. MaxChars

SerialInit ==
  /\ ring = [d \in Directions |-> [slots |-> [i \in 0 .. Size[d] - 1 |-> Nul], head |-> 0, tail |-> 0]]
  /\ armed = FALSE /\ started = FALSE /\ complete = FALSE
  /\ feeding = FALSE /\ ranDry = FALSE
  /\ data = Nul /\ shift = Nul
  /\ doing = [at |-> "tick", char |-> Nul]
  /\ sent = Nul /\ got = Nul
  /\ printed = 0 /\ received = 0

After(d, i) == (i + 1) % Size[d]

IsEmpty(d) == ring[d].head = ring[d].tail

\* Fills the queue to its last slot.
HasRoom_EverySlot(d) == TRUE

HasRoom(d) == After(d, ring[d].head) # ring[d].tail

\* The queue with a character in the slot at its head, and the head past it.
Added(d, c) ==
  [slots |-> [ring[d].slots EXCEPT ![ring[d].head] = c], head |-> After(d, ring[d].head), tail |-> ring[d].tail]

\* What follows the reset is another start.
Powered == doing.at # "reset"

\* The firmware and the handlers run as long as none is in the middle of a handler.
Runs == Powered /\ ~feeding

Does(at) == doing' = [at |-> at, char |-> Nul]

(***************************************************************************)
(* The firmware.                                                           *)
(***************************************************************************)

\* print(): write() is called with the next character.
PrintChar(c) ==
  /\ Runs /\ doing.at = "tick"
  /\ printed < MaxChars
  /\ printed' = printed + 1
  /\ doing' = [at |-> "queueing", char |-> c]
  /\ UNCHANGED << ring, armed, started, usart, sent, got, received >>

\* write(): waits for room; the character is in its slot before the head that shows it, and
\* only one of the two can be seen.
Queue ==
  /\ Runs /\ doing.at = "queueing"
  /\ HasRoom("out")
  /\ ring' = [ring EXCEPT !.out = Added("out", doing.char)]
  /\ Does("arming")
  /\ UNCHANGED << armed, started, usart, sent, got, printed, received >>

\* And last the interrupt, which the handler may have disarmed by then.
Arm ==
  /\ Runs /\ doing.at = "arming"
  /\ armed' = TRUE
  /\ Does("tick")
  /\ UNCHANGED << ring, started, usart, sent, got, printed, received >>

\* available() and read(): the character, then the tail that frees its slot.
Read ==
  /\ Runs /\ doing.at = "tick"
  /\ ~IsEmpty("in")
  /\ doing' = [at |-> "releasing", char |-> ring.in.slots[ring.in.tail]]
  /\ UNCHANGED << ring, armed, started, usart, sent, got, printed, received >>

Release ==
  /\ Runs /\ doing.at = "releasing"
  /\ ring' = [ring EXCEPT !.in.tail = After("in", @)]
  /\ got' = doing.char
  /\ Does("tick")
  /\ UNCHANGED << armed, started, usart, sent, printed, received >>

\* PerformPendingRestart(): what was printed first is waited for.
RestartPending ==
  /\ Runs /\ doing.at = "tick"
  /\ Does("flushing")
  /\ UNCHANGED << ring, armed, started, usart, sent, got, printed, received >>

\* flush(): the queue first; with nothing sent, TXCIF would never come.
Emptied ==
  /\ Runs /\ doing.at = "flushing"
  /\ IsEmpty("out")
  /\ Does(IF started THEN "draining" ELSE "reset")
  /\ UNCHANGED << ring, armed, started, usart, sent, got, printed, received >>

\* And then the last character; the controller is reset.
Drained ==
  /\ Runs /\ doing.at = "draining"
  /\ complete
  /\ Does("reset")
  /\ UNCHANGED << ring, armed, started, usart, sent, got, printed, received >>

(***************************************************************************)
(* The handlers and the USART.                                             *)
(***************************************************************************)

\* USART1_DRE_vect: one character out of the queue per empty data register.  TXCIF is cleared
\* first,
ClearComplete ==
  /\ Runs /\ armed /\ data = Nul
  /\ ~IsEmpty("out")
  /\ complete' = FALSE
  /\ feeding' = TRUE
  /\ ranDry' = FALSE
  /\ UNCHANGED << ring, armed, started, data, shift, doing, sent, got, printed, received >>

\* and then the character is written, whatever the shift register did since.
FeedWire ==
  /\ feeding
  /\ sent' = ring.out.slots[ring.out.tail]
  /\ data' = sent'
  /\ ring' = [ring EXCEPT !.out.tail = After("out", @)]
  /\ started' = TRUE
  /\ feeding' = FALSE
  /\ UNCHANGED << armed, shift, complete, ranDry, doing, got, printed, received >>

\* It disarms itself when the queue runs dry.
Disarm ==
  /\ Runs /\ armed /\ data = Nul
  /\ IsEmpty("out")
  /\ armed' = FALSE
  /\ UNCHANGED << ring, started, usart, doing, sent, got, printed, received >>

\* USART1_RXC_vect: a full queue drops the newest character.
Receive(c) ==
  /\ Runs
  /\ received < MaxChars
  /\ received' = received + 1
  /\ ring' = IF HasRoom("in") THEN [ring EXCEPT !.in = Added("in", c)] ELSE ring
  /\ UNCHANGED << armed, started, usart, doing, sent, got, printed >>

\* The transmitter takes a character from its data register,
Load ==
  /\ Powered
  /\ shift = Nul /\ data # Nul
  /\ shift' = data
  /\ data' = Nul
  /\ UNCHANGED << ring, armed, started, complete, feeding, ranDry, doing, sent, got, printed, received >>

\* and has shifted it out, complete if no other one is waiting.
ShiftOut ==
  /\ Powered
  /\ shift # Nul
  /\ shift' = data
  /\ data' = Nul
  /\ complete' = (complete \/ data = Nul)
  /\ ranDry' = (ranDry \/ (feeding /\ data = Nul))
  /\ UNCHANGED << ring, armed, started, feeding, doing, sent, got, printed, received >>

Stopped == ~Powered /\ UNCHANGED serialVars

Wire == ClearComplete \/ FeedWire \/ Disarm \/ Load \/ ShiftOut

Firmware == Queue \/ Arm \/ Release \/ Emptied \/ Drained

SerialNext ==
  \/ Firmware \/ Wire \/ Read \/ RestartPending \/ Stopped
  \/ \E c \in Char : PrintChar(c) \/ Receive(c)

(***************************************************************************)
(* Properties.                                                             *)
(***************************************************************************)

\* The characters from the tail up to the head, and where the one after i others is.
Count(d) ==
  IF ring[d].tail <= ring[d].head THEN ring[d].head - ring[d].tail
  ELSE ring[d].head + Size[d] - ring[d].tail

At(d, i) ==
  IF ring[d].tail + i < Size[d] THEN ring[d].tail + i ELSE ring[d].tail + i - Size[d]

Unread(d) == [i \in 1 .. Count(d) |-> ring[d].slots[At(d, i - 1)]]

Transmitted == INSTANCE Inbox WITH
  Capacity <- TransmitSize - 1, queue <- Unread("out"), out <- sent

Typed == INSTANCE Inbox WITH
  Capacity <- ReceiveSize - 1, queue <- Unread("in"), out <- got

\* What is printed reaches the wire, and what is typed the firmware, once each and in order;
\* none is overwritten on its way, whenever the handlers come in between (write(), read()).
QueuesKeepTheInbox == Transmitted!InboxSpec /\ Typed!InboxSpec

\* What flush() is there for: when it lets the restart go on, what was printed has left the shift
\* register.  It does not hold: the shift register may run empty and set TXCIF between the two
\* writes of the handler, and TXCIF then stands while the last character is on its way
\* (USART1_DRE_vect, flush()).
NothingIsCutOff == doing.at = "reset" => IsEmpty("out") /\ data = Nul /\ shift = Nul

\* What does hold: that is the only way to it, and it costs one character, the last.
OnlyTheLastIsCutOff ==
  doing.at = "reset" =>
    /\ IsEmpty("out")
    /\ IF ranDry THEN Nul \in {data, shift} ELSE data = Nul /\ shift = Nul

\* And flush() does end, whatever was printed, also if that is nothing.
RestartTakesPlace == doing.at = "flushing" ~> doing.at = "reset"

\* So the console loses nothing on its way, neither while the clock runs nor to a restart, which
\* waits for what was printed, but for a last character written as the one before it left
\* (write(), read(), flush(), USART1_DRE_vect).
ConsoleLosesNothing == QueuesKeepTheInbox /\ []OnlyTheLastIsCutOff

SerialSpec == SerialInit /\ [][SerialNext]_serialVars
=============================================================================
