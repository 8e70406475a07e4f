------------------------------- MODULE Animation -------------------------------
(***************************************************************************)
(* What every animation of a word change is built on: the words it ends    *)
(* on, whether a pixel is one of their letters, and how a run ends.        *)
(*                                                                         *)
(* A frame is what an animation reads and writes: the lit pixels, the      *)
(* display's switch, whether a flicker switched it off, the fade level,    *)
(* the animation's state, its word table, and its own counters.            *)
(***************************************************************************)
EXTENDS LetterMatrix, Sequences

CONSTANTS
  Times,      \* the times, as [hour, minute]
  WordsAt,    \* Clock::GetClockWords(): the words of each time, in their order
  TableSize,  \* CLOCK_WORDS_MAX_NUMBER_OF_WORDS
  Full,       \* kFadeLevelFull, the level of a display that is not faded
  Byte        \* the values of a byte; a model may take fewer than 256

ASSUME AnimationAssumption ==
  /\ Times \subseteq [hour : 0 .. 23, minute : 0 .. 59]
  /\ Full \in Nat \ {0}
  /\ Byte \in Nat /\ Byte > Rows * Columns
  /\ \A t \in Times : WordsAt[t] \in Seq(DOMAIN Words) /\ Len(WordsAt[t]) < TableSize

Places == 0 .. TableSize - 1

NoWords == [p \in Places |-> None]

\* ClockWords::GetWordsList(): the words first, kNone in the places that are left.
WordsListOf(t) == [p \in Places |-> IF p < Len(WordsAt[t]) THEN WordsAt[t][p + 1] ELSE None]

\* The letters of a list, up to its first kNone.
LettersOfWords(words) ==
  UNION {LettersOf(words[p], 0) : p \in {q \in Places : \A e \in 0 .. q : words[e] # None}}

IsPixelPartOfClockWords(words, c, r) == ColumnAndRowToIndex(c, r) \in LettersOfWords(words)

\* Clock::SetTime(): the letters of every word of the list, at most the first so many.
SetClockWords(lit, words, maxLength) == lit \union UNION {LettersOf(words[p], maxLength) : p \in Places}

FaceOf(t) == SetClockWords({}, WordsListOf(t), 0)

-----------------------------------------------------------------------------
(* The hash that varies the animations: x * 181, folded upon itself, times  *)
(* 181 again, in a byte of eight bits.                                      *)

HashFactor == 181

XorNibble(a, b) ==
  LET bit(k) == IF (a \div 2^k) % 2 # (b \div 2^k) % 2 THEN 2^k ELSE 0
  IN  bit(0) + bit(1) + bit(2) + bit(3)

Scatter(x) ==
  LET hash   == (x * HashFactor) % 256
      folded == (hash \div 16) * 16 + XorNibble(hash % 16, hash \div 16)
  IN  (folded * HashFactor) % 256

SelectByTime(t, number) == (Scatter(t.hour * 60 + t.minute) * number) \div 256

-----------------------------------------------------------------------------
(* Frames.  An animation shows a time through its operators Reset, Start, the *)
(* part of SetTime() that an idle animation takes, and Task, one step.         *)

\* `swept` only serves the properties: what the end of the last run cleared away.
AFrame(lit, own) ==
  [ display |-> lit, enabled |-> TRUE, dark |-> FALSE, fade |-> Full,
    state |-> "idle", words |-> NoWords, own |-> own, swept |-> lit ]

\* The Init() of an animation: idle, its table emptied and its counters as given.
Idle(f, own) == [f EXCEPT !.state = "idle", !.words = NoWords, !.own = own]

\* Start of a run in a phase, with the counters as given.
Run(f, phase, own) == [f EXCEPT !.state = phase, !.own = own, !.swept = {}]

\* GetClockWords(hour, minute, clock_words_table_), with which every SetTime() begins.
TakeWords(f, t) == [f EXCEPT !.words = WordsListOf(t)]

\* The end of a run, on the words of the table or on those of a time.
FinishWithClockWords(f) ==
  [f EXCEPT !.state = "idle", !.swept = f.display, !.display = SetClockWords({}, f.words, 0)]

FinishWithTime(f, t) ==
  [f EXCEPT !.state = "idle", !.swept = f.display, !.display = FaceOf(t)]

(***************************************************************************)
(* The animations that move single letters: Cursor, Snake, Teletype and    *)
(* Drop.                                                                   *)
(***************************************************************************)

CONSTANT SnakeLength  \* ANIMATION_SNAKE_LENGTH

ASSUME SnakeAssumption == SnakeLength \in 1 .. Rows * Columns - 1

NumberOfPixels == Rows * Columns

-----------------------------------------------------------------------------
(* Cursor: one lit pixel runs over the grid and leaves the new words behind *)

CursorReset(f) == Idle(f, [pixel |-> 0])

CursorStart(f, t) == Run(f, "set", [pixel |-> 0])

CursorTask(f) ==
  LET p      == f.own.pixel
      behind == {q \in {p - 1} : q >= 0 /\ q \notin LettersOfWords(f.words)}
      swept  == [f EXCEPT !.display = (@ \union ({p} \intersect Pixels)) \ behind]
  IN  [(IF p >= NumberOfPixels THEN FinishWithClockWords(swept) ELSE swept)
         EXCEPT !.own.pixel = p + 1]

-----------------------------------------------------------------------------
(* Snake: some lit pixels in a row run along the rows, every other one     *)
(* backwards                                                               *)

\* Leaves its word table as it was.
SnakeReset(f) == [f EXCEPT !.state = "idle", !.own = [begin |-> 0, end |-> 0]]

SnakeStart(f, t) == Run(f, "set", [begin |-> 0, end |-> 0])

TransformToSerpentine(i) ==
  LET c == ColumnOf(i)
      r == RowOf(i)
  IN  ColumnAndRowToIndex(IF r % 2 = 0 THEN c ELSE Columns - c - 1, r)

SnakeTask(f) ==
  LET begin == f.own.begin
      end   == f.own.end
      head  == f.display \union {TransformToSerpentine(begin)}
      tail  == TransformToSerpentine(end)
      moves == begin - end = SnakeLength \/ (begin >= NumberOfPixels - 1 /\ end < NumberOfPixels)
      next  == [begin |-> IF begin < NumberOfPixels - 1 THEN begin + 1 ELSE begin,
                end   |-> IF moves THEN end + 1 ELSE end]
      moved == [f EXCEPT !.own = next,
                         !.display = IF moves /\ tail \notin LettersOfWords(f.words)
                                       THEN head \ {tail} ELSE head]
  IN  IF next.end >= NumberOfPixels THEN FinishWithClockWords(moved) ELSE moved

-----------------------------------------------------------------------------
(* Teletype: the new words letter by letter, over the old ones             *)

TeletypeReset(f) == Idle(f, [word |-> 0, length |-> 0, char |-> 0])

TeletypeStart(f, t) ==
  Run(f, "set", [word |-> 0, length |-> GetDisplayWord(f.words[0]).length, char |-> 0])

\* One more letter of the current word; a kNone takes a step as well.
Type(f, own) ==
  [f EXCEPT !.own     = [own EXCEPT !.char = @ + 1],
            !.display = SetWord(@, f.words[own.word], own.char + 1)]

TeletypeTask(f) ==
  LET own  == f.own
      next == own.word + 1
  IN  IF own.char < own.length THEN Type(f, own)
      ELSE IF next \notin Places THEN FinishWithClockWords(f)
      ELSE Type(f, [word |-> next, length |-> GetDisplayWord(f.words[next]).length, char |-> 0])

-----------------------------------------------------------------------------
(* Drop: the old letters fall out of the grid, the new ones into place     *)

DropReset(f) == Idle(f, [row |-> 0, column |-> 0, word |-> TableSize - 1])

\* SetNextWordIndex(): the words before the current one, a kNone passed over.
WordsBefore(f, word) == {p \in Places : p < word /\ f.words[p] # None}

\* SetStateToSetTime(): the first letter of the current word, in the top row.
DropSetTimeFrom(f, own) ==
  LET c == GetDisplayWord(f.words[own.word]).column
  IN  [Run(f, "set", [own EXCEPT !.row = 0, !.column = c]) EXCEPT !.display = SetPixel(@, c, 0)]

\* SetNextActivePixelIndex(): the lit pixel nearest to the end of the grid, else the next phase.
DropNextPixel(f, own) ==
  IF f.display = {} THEN DropSetTimeFrom(f, own)
  ELSE Run(f, "clear", [own EXCEPT !.row = RowOf(Max(f.display)), !.column = ColumnOf(Max(f.display))])

DropStart(f, t) ==
  LET before == WordsBefore(f, f.own.word)
  IN  DropNextPixel(f, IF before = {} THEN f.own ELSE [f.own EXCEPT !.word = Max(before)])

DropClearTimeTask(f) ==
  LET own  == f.own
      left == [f EXCEPT !.display = TogglePixels(@, own.column, own.row, 1)]
  IN  IF own.row + 1 < Rows
        THEN [left EXCEPT !.own.row = own.row + 1,
                          !.display = TogglePixels(@, own.column, own.row + 1, 1)]
        ELSE DropNextPixel(left, own)

\* The column after the last letter of a word wraps for the word of no letters.
DropSetTimeTask(f) ==
  LET own    == f.own
      word   == GetDisplayWord(f.words[own.word])
      last   == (word.column + word.length + Byte - 1) % Byte
      before == WordsBefore(f, own.word)
      Letter(c, w) == [f EXCEPT !.own = [row |-> 0, column |-> c, word |-> w],
                                !.display = SetPixel(@, c, 0)]
  IN  IF own.row < word.row
        THEN [f EXCEPT !.own.row = own.row + 1,
                       !.display = SetPixel(ClearPixel(@, own.column, own.row), own.column, own.row + 1)]
      ELSE IF own.column < last THEN Letter(own.column + 1, own.word)
      ELSE IF before # {} THEN Letter(GetDisplayWord(f.words[Max(before)]).column, Max(before))
      ELSE DropReset(FinishWithClockWords(f))

DropTask(f) == IF f.state = "clear" THEN DropClearTimeTask(f) ELSE DropSetTimeTask(f)

(***************************************************************************)
(* The animations that move the letters of whole rows and columns at once: *)
(* Shift, Roll, Wipe, Collapse and Squeeze.                                *)
(***************************************************************************)

ToTheRight(p) == {q \in Pixels : RowOf(q) = RowOf(p) /\ q > p}
ToTheLeft(p)  == {q \in Pixels : RowOf(q) = RowOf(p) /\ q < p}
Below(p)      == {q \in Pixels : ColumnOf(q) = ColumnOf(p) /\ q > p}

\* Of a column or row of the new words, the pixels at an edge of the grid.
FedColumn(f, from, to) ==
  {ColumnAndRowToIndex(to, r) : r \in {s \in 0 .. Rows - 1 : IsPixelPartOfClockWords(f.words, from, s)}}
FedRow(f, from, to) ==
  {ColumnAndRowToIndex(c, to) : c \in {d \in 0 .. Columns - 1 : IsPixelPartOfClockWords(f.words, d, from)}}

-----------------------------------------------------------------------------
(* Shift: the old time out to the right, then the new one in from the left *)

ShiftReset(f) == Idle(f, [column |-> 0])

ShiftStart(f, t) == Run(f, "clear", f.own)

ShiftTask(f) ==
  LET column == f.own.column IN
  IF column < Columns
    THEN [f EXCEPT !.own.column = column + 1,
                   !.display = ShiftRight(@) \union
                     (IF f.state = "set" THEN FedColumn(f, Columns - column - 1, 0) ELSE {})]
  ELSE IF f.state = "clear" THEN Run(f, "set", [column |-> 0])
  ELSE FinishWithClockWords(f)

-----------------------------------------------------------------------------
(* Roll: the new time pushes the old one out, in one of four directions    *)

Directions == <<"right", "left", "down", "up">>

RollReset(f) == Idle(f, [step |-> 0, direction |-> "right"])

RollStart(f, t) ==
  Run(f, "set", [step |-> 0, direction |-> Directions[SelectByTime(t, Len(Directions)) + 1]])

NumberOfSteps(direction) == IF direction \in {"right", "left"} THEN Columns ELSE Rows

RollTask(f) ==
  LET step   == f.own.step
      rolled == CASE f.own.direction = "right" -> ShiftRight(f.display) \union FedColumn(f, Columns - step - 1, 0)
                  [] f.own.direction = "left"  -> ShiftLeft(f.display)  \union FedColumn(f, step, Columns - 1)
                  [] f.own.direction = "down"  -> ShiftDown(f.display)  \union FedRow(f, Rows - step - 1, 0)
                  [] f.own.direction = "up"    -> ShiftUp(f.display)    \union FedRow(f, step, Rows - 1)
  IN  IF step < NumberOfSteps(f.own.direction)
        THEN [f EXCEPT !.own.step = step + 1, !.display = rolled]
        ELSE RollReset(FinishWithClockWords(f))

-----------------------------------------------------------------------------
(* Wipe: a diagonal runs from the top left to the bottom right, pushes the  *)
(* old letters before it, and on a second run leaves the new ones           *)

WipeReset(f) == Idle(f, [index |-> 0, push |-> "down"])

WipeStart(f, t) == Run(f, "clear", f.own)

\* From an index down to the left, until the grid ends.
Diagonal(i) == {q \in Pixels : ColumnOf(q) + RowOf(q) = ColumnOf(i) + RowOf(i) /\ q >= i}

\* Mutant: the diagonals end with the top row.
NextIndex_TopRowOnly(i) == IF ColumnOf(i) < Columns - 1 THEN i + 1 ELSE i

\* SetNextIndex(): along the top row, then down the right column; none after the last corner.
NextIndex(i) ==
  CASE ColumnOf(i) < Columns - 1                          -> i + 1
    [] ColumnOf(i) = Columns - 1 /\ RowOf(i) < Rows - 1 -> i + Columns
    [] OTHER                                              -> i

\* SetPixelDown(), SetPixelRight(): each letter of the diagonal to the next dark place.
Pushed(lit, i, push) ==
  LET hit == Diagonal(i) \intersect lit
      Gaps(p) == (IF push = "down" THEN Below(p) ELSE ToTheRight(p)) \ lit
  IN  (lit \ hit) \union {Min(Gaps(p)) : p \in {q \in hit : Gaps(q) # {}}}

WipeTask(f) ==
  LET i    == f.own.index
      next == NextIndex(i)
      last == next = i
  IN  IF f.state = "clear"
        THEN [f EXCEPT !.state   = IF last THEN "set" ELSE "clear",
                       !.display = Pushed(@, i, f.own.push),
                       !.own     = [index |-> IF last THEN 0 ELSE next,
                                    push  |-> IF f.own.push = "down" THEN "right" ELSE "down"]]
        ELSE LET drawn == [f EXCEPT !.own.index = next,
                                    !.display = @ \union (Diagonal(i) \intersect LettersOfWords(f.words))]
             IN  IF last THEN FinishWithClockWords(drawn) ELSE drawn

-----------------------------------------------------------------------------
(* Collapse: the letters of each row slide together, and the new ones apart *)

CollapseReset(f) == Idle(f, [step |-> 0, steps |-> 1, side |-> "left"])

CollapseStart(f, t) ==
  Run(f, "clear", [f.own EXCEPT !.step = 0, !.side = IF SelectByTime(t, 2) = 0 THEN "left" ELSE "right"])

\* CollapseRow(): each letter with a gap before it goes on by one column.
Collapsed(lit, side) ==
  LET moves == {p \in lit : ~ ((IF side = "left" THEN ToTheLeft(p) ELSE ToTheRight(p)) \subseteq lit)}
  IN  (lit \ moves) \union {IF side = "left" THEN p - 1 ELSE p + 1 : p \in moves}

\* CalcBlockColumn(): where a letter of the new words is while its row is one block.
BlockColumn(letters, p, side) ==
  LET row    == {q \in letters : RowOf(q) = RowOf(p)}
      before == Cardinality({q \in row : q < p})
  IN  IF side = "left" THEN before ELSE Columns - Cardinality(row) + before

Distance(a, b) == IF a > b THEN a - b ELSE b - a

\* CalcExpandSteps(): the longest way of a letter, and never none.
ExpandSteps(letters, side) ==
  Max({1} \union {Distance(BlockColumn(letters, p, side), ColumnOf(p)) : p \in letters})

\* CalcColumn(): between the block and the final place.
SpreadColumn(final, block, step, steps) ==
  LET way == (Distance(block, final) * (steps - step)) \div steps
  IN  IF block > final THEN final + way ELSE final - way

Spread(letters, own) ==
  {ColumnAndRowToIndex(SpreadColumn(ColumnOf(p), BlockColumn(letters, p, own.side), own.step, own.steps),
                       RowOf(p)) : p \in letters}

CollapseTask(f) ==
  LET own     == f.own
      letters == LettersOfWords(f.words)
      lit     == IF f.state = "clear" THEN Collapsed(f.display, own.side) ELSE Spread(letters, own)
      drawn   == [f EXCEPT !.display = lit]
  IN  CASE f.state = "clear" /\ lit # f.display -> drawn
        [] f.state = "clear" /\ lit = f.display ->
             Run(drawn, "set", [own EXCEPT !.step = 0, !.steps = ExpandSteps(letters, own.side)])
        [] f.state = "set" /\ own.step < own.steps -> [drawn EXCEPT !.own.step = own.step + 1]
        [] OTHER -> CollapseReset(FinishWithClockWords(drawn))

-----------------------------------------------------------------------------
(* Squeeze: the old words get shorter letter by letter, the new ones grow  *)

SqueezeReset(f) == Idle(f, [longest |-> 0, length |-> 1, side |-> "left"])

SqueezeStart(f, t) ==
  Run(f, "clear", [f.own EXCEPT !.side = IF SelectByTime(t, 2) = 0 THEN "left" ELSE "right"])

\* ClearRow(): the first letter of every block, seen from the side, goes.
Squeezed(lit, side) ==
  {p \in lit : IF side = "left" THEN p - 1 \in lit /\ ColumnOf(p) > 0
                                ELSE p + 1 \in lit /\ ColumnOf(p) < Columns - 1}

SqueezeTask(f) ==
  LET own      == f.own
      squeezed == Squeezed(f.display, own.side)
      lengths  == {GetDisplayWord(f.words[p]).length : p \in Places}
      grown    == [f EXCEPT !.display = SetClockWords(@, f.words, own.length),
                            !.own.length = own.length + 1]
  IN  CASE f.state = "clear" /\ squeezed # {} -> [f EXCEPT !.display = squeezed]
        [] f.state = "clear" /\ squeezed = {} ->
             Run([f EXCEPT !.display = {}], "set", [own EXCEPT !.longest = Max({own.longest} \union lengths)])
        [] f.state = "set" /\ own.length < own.longest -> grown
        [] OTHER -> FinishWithClockWords(grown)

(***************************************************************************)
(* The animations that go to the middle of the grid and come back from it: *)
(* Cube, Explode pixels and Explode words.                                 *)
(***************************************************************************)

CONSTANTS
  SmallBorder,  \* ANIMATION_CUBE_*: the smallest frame, as [left, right, top, bottom]
  ExplodeSteps  \* kShiftCounterMaxValue

ASSUME ShapeAssumption ==
  /\ SmallBorder \in [left : Nat, right : 0 .. Columns - 1, top : Nat, bottom : 0 .. Rows - 1]
  /\ SmallBorder.left <= SmallBorder.right /\ SmallBorder.top <= SmallBorder.bottom
  /\ ExplodeSteps \in Nat \ {0}
  /\ Rows % 2 = 0

ColumnCenter == Columns \div 2
RowCenter    == Rows \div 2

\* One step from a towards b.
Towards(a, b) == CASE a < b -> a + 1 [] a > b -> a - 1 [] a = b -> a

-----------------------------------------------------------------------------
(* Cube: a frame shrinks over the old words and grows over the new ones    *)

LargeBorder == [left |-> 0, right |-> Columns - 1, top |-> 0, bottom |-> Rows - 1]

BorderPixels(b) ==
  {p \in Pixels : /\ ColumnOf(p) \in b.left .. b.right
                  /\ RowOf(p) \in b.top .. b.bottom
                  /\ ColumnOf(p) \in {b.left, b.right} \/ RowOf(p) \in {b.top, b.bottom}}

\* IncreaseBorder(), DecreaseBorder(): each side for itself; kENotOk when one is there already.
MovedTo(b, to)   == [side \in DOMAIN b |-> Towards(b[side], to[side])]
CanMoveTo(b, to) == \A side \in DOMAIN b : b[side] # to[side]

CubeReset(f) == Idle(f, [border |-> SmallBorder, drawn |-> FALSE])

CubeStart(f, t) == Run(f, "clear", [border |-> LargeBorder, drawn |-> FALSE])

\* The frame is drawn first and moved from then on.
CubeDraw(f, without, border) ==
  [f EXCEPT !.display = (@ \ without) \union BorderPixels(border),
            !.own     = [border |-> border, drawn |-> TRUE]]

CubeTask(f) ==
  LET b       == f.own.border
      to      == IF f.state = "clear" THEN SmallBorder ELSE LargeBorder
      next    == MovedTo(b, to)
      cleared == IF f.state = "clear" THEN BorderPixels(b) ELSE BorderPixels(b) \ LettersOfWords(f.words)
  IN  CASE ~ f.own.drawn -> CubeDraw(f, {}, b)
        [] f.own.drawn /\ CanMoveTo(b, to) -> CubeDraw(f, cleared, next)
        [] f.own.drawn /\ ~ CanMoveTo(b, to) /\ f.state = "clear" ->
             Run([f EXCEPT !.display = @ \ (cleared \union BorderPixels(next))],
                 "set", [border |-> SmallBorder, drawn |-> FALSE])
        [] f.own.drawn /\ ~ CanMoveTo(b, to) /\ f.state = "set" ->
             FinishWithClockWords([f EXCEPT !.display = @ \ cleared, !.own.border = next])

-----------------------------------------------------------------------------
(* Explode pixels: every letter into the middle, the new ones out of it    *)

ExplodePixelsReset(f) == Idle(f, [counter |-> 0])

Center == ColumnAndRowToIndex(ColumnCenter, RowCenter)

ExplodePixelsStart(f, t) ==
  Run([f EXCEPT !.display = @ \union {Center}], "clear", [counter |-> 0])

\* A pixel so many steps nearer to the middle, in its column and in its row.
Nearer(p, n) ==
  LET near(a, b) == IF a < b THEN (IF a + n < b THEN a + n ELSE b)
                             ELSE (IF a > b + n THEN a - n ELSE b)
  IN  ColumnAndRowToIndex(near(ColumnOf(p), ColumnCenter), near(RowOf(p), RowCenter))

\* The four ShiftQuadrant*() scan outwards, so each letter moves once.
ExplodeOut(f, counter) ==
  IF counter >= 2
    THEN [Run(f, "set", [counter |-> counter - 1])
            EXCEPT !.display = {Nearer(p, counter - 1) : p \in SetClockWords({}, f.words, 0)} \union {Center}]
    ELSE FinishWithClockWords([f EXCEPT !.own.counter = counter])

\* The task that ends the first half takes the first step of the second.
ExplodePixelsTask(f) ==
  IF f.state = "clear" /\ f.own.counter < ExplodeSteps
    THEN [f EXCEPT !.own.counter = @ + 1, !.display = {Nearer(p, 1) : p \in f.display}]
  ELSE IF f.state = "clear" THEN ExplodeOut([f EXCEPT !.display = {}], ExplodeSteps)
  ELSE ExplodeOut(f, f.own.counter)

-----------------------------------------------------------------------------
(* Explode words: one block of letters after the other into the middle,    *)
(* then one new word after the other out of it                             *)

ExplodeWordsReset(f) ==
  Idle(f, [list |-> 0, word |-> ColumnAndRowToIndex(0, RowCenter), length |-> 0, column |-> 0, row |-> 0])

\* Mutant: a whole block left of the middle.
ClearFinalColumn_NotHalved(length) == (ColumnCenter + Byte - length) % Byte

\* A byte: it wraps for a block whose half is longer than the way to the left edge.
ClearFinalColumn(length) == (ColumnCenter + Byte - length \div 2) % Byte

\* ToggleWordOnDisplay() counts its columns in a byte up to a bound that a byte may not reach.
Counts(own) == own.column + own.length < Byte
Toggled(f, own) ==
  IF Counts(own) THEN [f EXCEPT !.own = own, !.display = TogglePixels(@, own.column, own.row, own.length)]
                 ELSE [f EXCEPT !.own = own, !.state = "spin"]

\* The rows from the middle outwards, a lower one before the upper one.
RowRank(r) == IF r >= RowCenter THEN 2 * (r - RowCenter) ELSE 2 * (RowCenter - 1 - r) + 1

\* SetNextWordToClear(): the next block behind the last one, in the order of the rows.
BlocksAhead(f, own) ==
  {p \in f.display :
     \/ RowOf(p) = RowOf(own.word) /\ ColumnOf(p) >= ColumnOf(own.word) + own.length
     \/ RowRank(RowOf(p)) > RowRank(RowOf(own.word))}

\* SetWordLength(): lit pixels in a row, from the end of a row on into the next.
BlockLength(lit, p) == Max({n \in 1 .. Rows * Columns - p : p .. p + n - 1 \subseteq lit})

FirstBlock(ps) ==
  CHOOSE p \in ps : \A q \in ps :
    RowRank(RowOf(p)) < RowRank(RowOf(q)) \/ (RowOf(p) = RowOf(q) /\ p <= q)

ToClear(f, own, p) ==
  Run(f, "clear", [own EXCEPT !.word = p, !.length = BlockLength(f.display, p),
                              !.column = ColumnOf(p), !.row = RowOf(p)])

\* SetWordToSet(): from the middle to where the word belongs.
WordToSet(own, list, w) ==
  LET word == GetDisplayWord(w)
  IN  [list   |-> list, word |-> ColumnAndRowToIndex(word.column, word.row), length |-> word.length,
       column |-> ClearFinalColumn(word.length), row |-> RowCenter]

\* SetNextWordToSet(): the places of the list after one that hold a word.
ListedAfter(f, place) == {p \in Places : p > place /\ f.words[p] # None}

StartSetTime(f, own) ==
  LET listed == {p \in Places : f.words[p] # None}
      first  == WordToSet(own, Min(listed), f.words[Min(listed)])
  IN  IF listed = {} THEN FinishWithClockWords([f EXCEPT !.own.list = 0])
      ELSE [Run(f, "set", first) EXCEPT
              !.display = @ \union TogglePixels({}, first.column, first.row, first.length)]

ToClearOrSet(f, own) ==
  LET ahead == BlocksAhead(f, own)
  IN  IF ahead # {} THEN ToClear(f, own, FirstBlock(ahead)) ELSE StartSetTime(f, own)

ExplodeWordsStart(f, t) == ToClearOrSet(f, f.own)

ExplodeWordsTask(f) ==
  LET own    == f.own
      goal   == IF f.state = "clear" THEN [column |-> ClearFinalColumn(own.length), row |-> RowCenter]
                ELSE [column |-> ColumnOf(own.word), row |-> RowOf(own.word)]
      next   == [own EXCEPT !.column = Towards(@, goal.column), !.row = Towards(@, goal.row)]
      left   == Toggled(f, own)
      listed == ListedAfter(f, own.list)
  IN  CASE ~ Counts(own)  -> left
        [] Counts(own) /\ next # own -> Toggled(left, next)
        [] Counts(own) /\ next = own /\ f.state = "clear" -> ToClearOrSet(left, own)
        [] Counts(own) /\ next = own /\ f.state = "set" ->
             IF listed = {} THEN FinishWithClockWords(f)
             ELSE Toggled(f, WordToSet(own, Min(listed), f.words[Min(listed)]))

(***************************************************************************)
(* The animations made of light: Fade, Flicker and Matrix.  Fade and       *)
(* Flicker keep the time rather than its words, of a run as well.          *)
(***************************************************************************)

CONSTANTS
  FlickerCount,   \* ANIMATION_FLICKER_COUNTER_INIT_VALUE
  RevealStep,     \* kRevealFadeStep
  TrailSteps,     \* kTrailFadeSteps
  WordUnderFlag   \* the animations' union puts a word of Snake where Flicker keeps its flag

ASSUME LightAssumption ==
  /\ FlickerCount \in Nat /\ FlickerCount % 2 = 0
  /\ RevealStep \in Nat /\ TrailSteps \in RevealStep .. Rows
  /\ WordUnderFlag \in BOOLEAN

Midnight == [hour |-> 0, minute |-> 0]

-----------------------------------------------------------------------------
(* Fade: down to dark, the new time, and up again                          *)

FadeReset(f) == [Idle(f, [level |-> Full, time |-> Midnight]) EXCEPT !.fade = Full]

FadeStart(f, t) == Run(f, "clear", [level |-> Full, time |-> t])

FadeRevise(f, t) == [f EXCEPT !.own.time = t]

FadeTo(f, level) == [f EXCEPT !.own.level = level, !.fade = level]

FadeTask(f) ==
  LET level == f.own.level IN
  CASE f.state = "clear" /\ level > 0 -> FadeTo(f, level - 1)
    [] f.state = "clear" /\ level = 0 -> [f EXCEPT !.state = "set", !.display = FaceOf(f.own.time)]
    [] f.state = "set" /\ level < Full -> FadeTo(f, level + 1)
    [] OTHER -> FinishWithTime([f EXCEPT !.fade = Full], f.own.time)

-----------------------------------------------------------------------------
(* Flicker: the display off and on again some times                        *)

\* Switches on what a flicker switched off, or what the memory of Snake makes it take for one.
FlickerReset(f) ==
  [Idle(f, [counter |-> FlickerCount, time |-> Midnight, wasEnabled |-> TRUE])
     EXCEPT !.dark    = FALSE,
            !.enabled = @ \/ f.dark \/ (WordUnderFlag /\ f.words[0] # None)]

FlickerStart(f, t) ==
  Run(f, "clear", [f.own EXCEPT !.time = t, !.wasEnabled = f.enabled])

FlickerRevise(f, t) == [f EXCEPT !.own.time = t]

\* The counter is compared before it is taken down.
FlickerTask(f) ==
  LET counter == f.own.counter
      toggled == IF f.own.wasEnabled THEN [f EXCEPT !.dark = ~ f.dark, !.enabled = f.dark] ELSE f
  IN  IF f.state = "clear"
        THEN [toggled EXCEPT !.state = IF counter = 0 THEN "set" ELSE "clear",
                             !.own.counter = (counter + Byte - 1) % Byte]
        ELSE FlickerReset(FinishWithTime(f, f.own.time))

-----------------------------------------------------------------------------
(* Matrix: drops fall in every column, and leave the new letters behind    *)

NumberOfFrames == 4 * Rows

MatrixReset(f) == Idle(f, [frame |-> 0, seed |-> 0])

MatrixStart(f, t) == Run(f, "set", [frame |-> 0, seed |-> (t.hour * 60 + t.minute) % 256])

StartFrame(c, seed) == (Scatter(c + seed) * Rows) \div 256

\* DrawColumn(): above the head its trail, of two rows a step, and the letters in it.
DrawnColumn(f, c, head) ==
  LET Above(r)   == r < head
      FadeStep(r) == (head - r + 1) \div 2
      IsLetter(r) == IsPixelPartOfClockWords(f.words, c, r) /\ FadeStep(r) > RevealStep
      lit == {r \in 0 .. Rows - 1 :
                \/ r = head
                \/ Above(r) /\ (IsLetter(r) \/ FadeStep(r) <= TrailSteps)
                \/ ~ Above(r) /\ GetPixel(f.display, c, r)}
  IN  {ColumnAndRowToIndex(c, r) : r \in lit}

MatrixTask(f) ==
  LET frame == f.own.frame
      Start(c) == StartFrame(c, f.own.seed)
      Column(c) == IF frame >= Start(c) THEN DrawnColumn(f, c, frame - Start(c))
                   ELSE {p \in f.display : ColumnOf(p) = c}
  IN  IF frame < NumberOfFrames
        THEN [f EXCEPT !.own.frame = frame + 1, !.display = UNION {Column(c) : c \in 0 .. Columns - 1}]
        ELSE MatrixReset(FinishWithClockWords(f))
================================================================================
