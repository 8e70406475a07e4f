----------------------------- MODULE LetterMatrix -----------------------------
(***************************************************************************)
(* The letter grid: Display's pixels as the set of those that are lit, the *)
(* words that stand in it, and Transformation's shifts.  A pixel is its    *)
(* index, counted row by row from the top left; colour and brightness are  *)
(* left out, as every lit pixel has the display's own.                     *)
(***************************************************************************)
EXTENDS Naturals, FiniteSetsExt

CONSTANTS
  Columns, Rows,  \* DISPLAY_NUMBER_OF_COLUMNS, DISPLAY_NUMBER_OF_ROWS
  Words,          \* kDisplayWordsTable: column, row and length of each word
  None            \* WordIdType::kNone, the word of no letters

ASSUME LetterMatrixAssumption ==
  /\ Columns \in Nat \ {0} /\ Rows \in Nat \ {0}
  /\ None \notin DOMAIN Words
  /\ \A w \in DOMAIN Words :
       /\ Words[w].row \in 0 .. Rows - 1
       /\ Words[w].length \in 1 .. Columns
       /\ Words[w].column \in 0 .. Columns - Words[w].length

Pixels == 0 .. Rows * Columns - 1

ColumnOf(i) == i % Columns
RowOf(i)    == i \div Columns

\* Unchecked, as in the source: a column off the grid is a pixel of a later row.
ColumnAndRowToIndex(c, r) == r * Columns + c

IsColumnAndRowValid(c, r) == c < Columns /\ r < Rows

-----------------------------------------------------------------------------
(* Pixels.  Off the grid nothing is lit and nothing is written. *)

GetPixel(lit, c, r) == IsColumnAndRowValid(c, r) /\ ColumnAndRowToIndex(c, r) \in lit

SetPixel(lit, c, r) ==
  IF IsColumnAndRowValid(c, r) THEN lit \union {ColumnAndRowToIndex(c, r)} ELSE lit

ClearPixel(lit, c, r) ==
  IF IsColumnAndRowValid(c, r) THEN lit \ {ColumnAndRowToIndex(c, r)} ELSE lit

\* TogglePixel() of `length` pixels of a row, each once.
TogglePixels(lit, c, r, length) ==
  LET run == {ColumnAndRowToIndex(k, r) :
                k \in {m \in c .. c + length - 1 : IsColumnAndRowValid(m, r)}}
  IN  (lit \ run) \union (run \ lit)

-----------------------------------------------------------------------------
(* Words *)

GetDisplayWord(w) == IF w = None THEN [column |-> 0, row |-> 0, length |-> 0] ELSE Words[w]

\* The first letters of a word, all of them for a length of 0.
LettersOf(w, maxLength) ==
  LET word   == GetDisplayWord(w)
      length == IF maxLength = 0 \/ maxLength >= word.length THEN word.length ELSE maxLength
  IN  {ColumnAndRowToIndex(word.column + k, word.row) : k \in 0 .. length - 1}

SetWord(lit, w, maxLength) == lit \union LettersOf(w, maxLength)

-----------------------------------------------------------------------------
(* Transformation, without the rotation nobody asks for *)

ShiftRight(lit) == {i + 1 : i \in {j \in lit : ColumnOf(j) < Columns - 1}}
ShiftLeft(lit)  == {i - 1 : i \in {j \in lit : ColumnOf(j) > 0}}
ShiftDown(lit)  == {i + Columns : i \in {j \in lit : RowOf(j) < Rows - 1}}
ShiftUp(lit)    == {i - Columns : i \in {j \in lit : RowOf(j) > 0}}

=============================================================================
