-------------------------------- MODULE Strip --------------------------------
(***************************************************************************)
(* How a frame gets from the pixel buffer to the strip, behind the call    *)
(* that starts it: on the AVR an interrupt feeds a USART byte by byte      *)
(* (WS2812), on the RP2350 a DMA channel feeds a state machine's FIFO word *)
(* by word (WS2812Pio).  The strip shows what it was sent once the line    *)
(* has rested long enough.                                                 *)
(*                                                                         *)
(* A picture stands for all pixels at once; a frame is its bytes, or its   *)
(* words, each marked with the picture it is of.  The feeder is never so   *)
(* late that the line runs empty within a frame.  On the AVR a 16-bit      *)
(* variable is read in two halves, between which the interrupt may come.   *)
(***************************************************************************)
EXTENDS Naturals, Sequences

CONSTANTS
  FrameSize,   \* kFrameSize
  Base,        \* what the lower half of a 16-bit position counts to
  FifoSize,    \* of the state machine, its two FIFOs joined and its shift register
  Picture,     \* what may be drawn
  Unlit,       \* what the buffer starts with
  MaxDrawings  \* bound: drawings

ASSUME StripAssumption ==
  /\ {FrameSize, Base, FifoSize} \subseteq Nat \ {0, 1}
  /\ Unlit \notin Picture
  /\ MaxDrawings \in Nat

VARIABLES
  build,      \* whose Pixels.cpp it is
  picture,    \* pixel_buffer_, dimmed
  dirty,      \* dirty_
  suspended,  \* output_suspended_, and with it the strip's supply
  step,       \* what the tick is in the middle of
  seen,       \* frame_position when its first half was read
  frame,      \* frame_buffer, which the feeder reads from
  length,     \* frame_length, or the count of the transfer
  position,   \* frame_position, or how far the transfer has come
  line,       \* fed and not on the line yet
  txcif,      \* the USART's flag: its last byte has been shifted out
  taken,      \* what the strip has taken since it last showed anything
  shown,      \* what it shows
  drawings,
  apart       \* the frame sent last found the line at rest, and none was refused since

stripVars == << build, picture, dirty, suspended, step, seen, frame, length, position, line, txcif,
                taken, shown, drawings, apart >>

Drawn == Picture \union {Unlit}

Steps == {"tick", "rendering", "cutting"}

Depth == IF build = "AVR-Dx" THEN 2 ELSE FifoSize

StripTypeOK ==
  /\ build \in {"AVR-Dx", "RP2350"}
  /\ picture \in Drawn
  /\ {dirty, suspended, txcif, apart} \subseteq BOOLEAN
  /\ step \in Steps
  /\ frame \in [1 .. FrameSize -> Drawn]
  /\ length \in {0, FrameSize}
  /\ {seen, position} \subseteq 0 .. FrameSize
  /\ Len(line) <= Depth
  /\ Len(taken) <= FrameSize
  /\ drawings \in 0 .. MaxDrawings

FillFrameBuffer(p) == [i \in 1 .. FrameSize |-> p]

StripInit ==
  /\ build \in {"AVR-Dx", "RP2350"}
  /\ picture = Unlit /\ dirty = TRUE /\ suspended = FALSE
  /\ step = "tick" /\ seen = 0
  /\ frame = FillFrameBuffer(Unlit)
  /\ length = 0 /\ position = 0 /\ line = << >> /\ txcif = FALSE
  /\ taken = << >> /\ shown = << >>
  /\ drawings = 0 /\ apart = TRUE

(***************************************************************************)
(* The tick.                                                               *)
(***************************************************************************)

wireVars == << frame, length, position, line, txcif, taken >>

\* SetPixel() and the rest mark the buffer, and send nothing.
DrawPicture(p) ==
  /\ step = "tick" /\ drawings < MaxDrawings
  /\ drawings' = drawings + 1
  /\ picture' = p /\ dirty' = TRUE
  /\ UNCHANGED << build, suspended, step, seen, wireVars, shown, apart >>

\* Render() of a marked buffer, up to the half of the position IsBusy() reads first.
BeginRender ==
  /\ step = "tick" /\ ~suspended /\ dirty
  /\ step' = "rendering" /\ seen' = position
  /\ UNCHANGED << build, picture, dirty, suspended, wireVars, shown, drawings, apart >>

\* Power, which waits for a buffer sent and a line at rest before it cuts the supply.
BeginCut ==
  /\ step = "tick" /\ ~suspended /\ ~dirty
  /\ step' = "cutting" /\ seen' = position
  /\ UNCHANGED << build, picture, dirty, suspended, wireVars, shown, drawings, apart >>

\* What the two halves of the position make, whichever is read first.
PositionsRead ==
  IF build = "AVR-Dx"
    THEN {((seen \div Base) * Base) + (position % Base), ((position \div Base) * Base) + (seen % Base)}
    ELSE {position}

\* The feeder has something left to feed.
IsFeeding(read) == read < length

\* Without the wait for the last byte.
IsBusy_WhileFeeding(read) == IsFeeding(read)

\* On the AVR the last byte is waited for as well.
IsBusy(read) ==
  \/ IsFeeding(read)
  \/ build = "AVR-Dx" /\ length # 0 /\ ~txcif

\* The AVR keeps the mark of a buffer it could not send; the RP2350 clears it whatever became of
\* the frame.
Kept == build = "AVR-Dx"

RefuseFrame ==
  /\ step = "rendering" /\ (\E read \in PositionsRead : IsBusy(read))
  /\ step' = "tick"
  /\ dirty' = Kept
  /\ apart' = (apart /\ build = "AVR-Dx")
  /\ UNCHANGED << build, picture, suspended, seen, wireVars, shown, drawings >>

\* The feeder starts on a copy, as the tick goes on drawing.
Transmit ==
  /\ frame' = FillFrameBuffer(picture)
  /\ length' = FrameSize /\ position' = 0

SendFrame ==
  /\ step = "rendering" /\ (\E read \in PositionsRead : ~IsBusy(read))
  /\ step' = "tick"
  /\ Transmit
  /\ txcif' = FALSE
  /\ dirty' = FALSE
  /\ apart' = (line = << >> /\ taken = << >>)
  /\ UNCHANGED << build, picture, suspended, seen, line, taken, shown, drawings >>

WaitForTheLine ==
  /\ step = "cutting" /\ (\E read \in PositionsRead : IsBusy(read))
  /\ step' = "tick"
  /\ UNCHANGED << build, picture, dirty, suspended, seen, wireVars, shown, drawings, apart >>

\* SuspendOutput(), and the strip is without its supply.
CutSupplyOff ==
  /\ step = "cutting" /\ (\E read \in PositionsRead : ~IsBusy(read))
  /\ step' = "tick"
  /\ suspended' = TRUE
  /\ taken' = << >> /\ shown' = << >>
  /\ UNCHANGED << build, picture, dirty, seen, frame, length, position, line, txcif, drawings, apart >>

\* ResumeOutput(), a tick after the supply came back, which is longer than any rest of a frame takes:
\* what comes back is a redraw.
ResumeStrip ==
  /\ step = "tick" /\ suspended /\ line = << >>
  /\ suspended' = FALSE /\ dirty' = TRUE
  /\ UNCHANGED << build, picture, step, seen, wireVars, shown, drawings, apart >>

(***************************************************************************)
(* The line.                                                               *)
(***************************************************************************)

mainVars == << build, picture, dirty, suspended, step, seen, frame, length, drawings, apart >>

\* USART0_DRE_vect, or the DMA channel.
FeedStrip ==
  /\ position < length /\ Len(line) < Depth
  /\ position' = position + 1
  /\ line' = Append(line, frame[position + 1])
  /\ UNCHANGED << mainVars, txcif, taken, shown >>

\* What comes behind the last LED's is nobody's.
ShiftToStrip ==
  /\ line # << >> /\ (Len(line) > 1 \/ position = length)
  /\ line' = Tail(line)
  /\ txcif' = (txcif \/ (build = "AVR-Dx" /\ Len(line) = 1))
  /\ taken' = IF suspended \/ Len(taken) = FrameSize THEN taken ELSE Append(taken, Head(line))
  /\ UNCHANGED << mainVars, position, shown >>

\* The line has rested for WS2812_RESET_DURATION_US.
Latch ==
  /\ line = << >> /\ position = length /\ taken # << >>
  /\ shown' = taken /\ taken' = << >>
  /\ UNCHANGED << mainVars, position, line, txcif >>

StripTick == BeginRender \/ RefuseFrame \/ SendFrame

StripWire == FeedStrip \/ ShiftToStrip \/ Latch

StripNext ==
  \/ StripTick \/ BeginCut \/ WaitForTheLine \/ CutSupplyOff \/ ResumeStrip \/ StripWire
  \/ \E p \in Picture : DrawPicture(p)

(***************************************************************************)
(* Properties.                                                             *)
(***************************************************************************)

\* The strip shows one picture, and never half of each of two, though the tick draws while a frame
\* is going out (the frame_buffer of either Pixels.cpp).
WholePictures == shown # << >> => \E p \in Drawn : shown = FillFrameBuffer(p)

\* Once the line is at rest, the strip shows what was drawn last: a frame that found the one before
\* on its way is late and not lost (Render()).  It is lost where it came so close behind that the
\* strip had not latched, and on the RP2350 where it was refused.
LastPictureReachesTheStrip ==
  (/\ step = "tick" /\ ~dirty /\ ~suspended /\ apart
   /\ position = length /\ line = << >> /\ taken = << >>)
    => shown = FillFrameBuffer(picture)

\* On the AVR the line of a strip that lost its supply is at rest, and stays so: no byte is pushed
\* into a dead rail (SuspendOutput(), IsFrameOnTheWire()).  The RP2350 asks its DMA channel alone.
DeadLineIsQuiet == build = "AVR-Dx" /\ suspended => line = << >> /\ position = length

\* A frame the tick has set out to send is sent, also the very first one, for which the USART has
\* set no flag yet (IsBusy()).
FramesAreSent == step = "rendering" ~> ~dirty

\* What is drawn arrives at the strip: whole, the newest, and not without supply.
PicturesArrive == WholePictures /\ LastPictureReachesTheStrip /\ DeadLineIsQuiet
=============================================================================
