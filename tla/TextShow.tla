------------------------------ MODULE TextShow ------------------------------
(***************************************************************************)
(* A text that scrolls: Text walks through the characters of a string with *)
(* a pointer into the buffer of the overlay that shows, while a command    *)
(* may rewrite that buffer, change the font or end the show.  Which        *)
(* overlay starts when is ClockFace's; here any may, while none shows.     *)
(***************************************************************************)
EXTENDS LetterMatrix, SequencesExt, FiniteSets

(***************************************************************************)
(* Characters on the grid: the glyphs of the fonts and how one is drawn.   *)
(* A glyph is stored line by line, its columns in a vertical font and its  *)
(* rows in a horizontal one; a line is the set of its bits that are lit.   *)
(***************************************************************************)

CONSTANTS
  Fonts,        \* Text::FontType
  Orientation,  \* of each font: "horizontal" or "vertical"
  Height,       \* of each font
  Width,        \* of each font: the widest glyph its tables have room for
  Glyphs,       \* of each font: the glyph of each character it can draw
  Space         \* the character whose glyph comes first

Drawable(font) == DOMAIN Glyphs[font]

\* The lines a glyph of a font has.
Lines(font) == IF Orientation[font] = "vertical" THEN Width[font] ELSE Height[font]

ASSUME TextFontAssumption ==
  /\ Orientation \in [Fonts -> {"horizontal", "vertical"}]
  /\ Height \in [Fonts -> Nat \ {0}]
  /\ Width \in [Fonts -> 1 .. Columns]
  /\ \A font \in Fonts :
       /\ Height[font] <= Rows
       /\ Space \in Drawable(font)
       /\ \A char \in Drawable(font) :
            /\ Glyphs[font][char].width \in 1 .. Width[font]
            /\ Glyphs[font][char].lines \in [0 .. Lines(font) - 1 -> SUBSET Nat]

\* A character without a glyph has the width of a space.
ConvertCharToFontIndex(font, char) == IF char \in Drawable(font) THEN char ELSE Space

GetFontCharWidth(font, char) == Glyphs[font][ConvertCharToFontIndex(font, char)].width

GetRowCenter(font) == Rows \div 2 - Height[font] \div 2

-----------------------------------------------------------------------------
(* Drawing: every cell of a glyph that is on the grid is written, lit or not. *)

\* WritePixel() of the cells, of which the ones with a bit are lit.
WriteLine(lit, cells, bits) ==
  LET Index(k) == ColumnAndRowToIndex(cells[k].column, cells[k].row)
      onGrid   == {k \in DOMAIN cells : IsColumnAndRowValid(cells[k].column, cells[k].row)}
  IN  (lit \ {Index(k) : k \in onGrid}) \union {Index(k) : k \in onGrid \intersect bits}

SetCharRow(lit, bits, column, row, width) ==
  WriteLine(lit, [k \in 0 .. width - 1 |-> [column |-> column + k, row |-> row]], bits)

SetCharColumn(lit, bits, column, row, height) ==
  WriteLine(lit, [k \in 0 .. height - 1 |-> [column |-> column, row |-> row + k]], bits)

\* Row by row, from the top.
SetCharFontHorizontal(lit, column, row, glyph, height) ==
  LET drawn[k \in 0 .. height] ==
        IF k = 0 THEN lit
        ELSE SetCharRow(drawn[k - 1], glyph.lines[k - 1], column, row + (k - 1), glyph.width)
  IN  drawn[height]

\* Column by column, from the left.
SetCharFontVertical(lit, column, row, glyph, height) ==
  LET drawn[k \in 0 .. glyph.width] ==
        IF k = 0 THEN lit
        ELSE SetCharColumn(drawn[k - 1], glyph.lines[k - 1], column + (k - 1), row, height)
  IN  drawn[glyph.width]

\* A character without a glyph is refused, and a space is drawn in its place.
SetChar(lit, column, row, char, font) ==
  LET glyph == Glyphs[font][ConvertCharToFontIndex(font, char)]
  IN  IF Orientation[font] = "vertical"
        THEN SetCharFontVertical(lit, column, row, glyph, Height[font])
        ELSE SetCharFontHorizontal(lit, column, row, glyph, Height[font])

(***************************************************************************)
(* The show.                                                               *)
(***************************************************************************)

CONSTANTS
  Overlays,    \* "date", "temperature", "text"
  NoOverlay,
  Size,        \* of an overlay's buffer: the one of the text, which a command fills
  Nul,         \* STD_NULL_CHARACTER
  Chars,       \* the other characters
  Texts,       \* what a command may bring, some of them longer than a message
  Prefix,      \* the characters of a message in front of the text: "7 -T"
  LineLength,  \* the characters a message holds: MESSAGE_LENGTH - 1
  Faces,       \* what DisplayManager may draw once no overlay shows
  FirstFont,   \* kFontInitValue
  MaxChanges   \* bound: commands and new dates and temperatures

ASSUME TextShowAssumption ==
  /\ NoOverlay \notin Overlays
  /\ Size \in Nat \ {0}
  /\ Nul \notin Chars
  /\ Texts \subseteq Seq(Chars)
  /\ Prefix \in Nat
  /\ LineLength \in Nat
  /\ LineLength < Size + Prefix
  /\ Faces \subseteq SUBSET Pixels
  /\ FirstFont \in Fonts
  /\ MaxChanges \in Nat

VARIABLES
  lit,       \* the pixels of the display
  showing,   \* the overlay whose state is kShow
  buffers,   \* text_, date_string_, temperature_string_
  font,      \* Overlay.font_
  \* Text
  state,     \* state_
  shift,     \* shift_.state
  source,    \* shift_.text: the buffer it points into ...
  at,        \* ... and how far
  shiftFont, \* shift_.font
  character, width, counter,  \* shift_
  \* what only bounds and properties read
  changes,
  before,    \* the pixels as the run began
  loaded,    \* the characters of the run
  shifts,    \* how often the run has shifted
  entered,   \* of each overlay: the string it was last given
  disturbed  \* the string has been rewritten since the run began

textVars  == << state, shift, source, at, shiftFont, character, width, counter >>
runVars   == << before, loaded, shifts, entered, disturbed >>
showVars == << lit, showing, buffers, font, textVars, changes, runVars >>

Buffers == [0 .. Size - 1 -> Chars \union {Nul}]

TextTypeOK ==
  /\ lit \subseteq Pixels
  /\ showing \in Overlays \union {NoOverlay}
  /\ buffers \in [Overlays -> Buffers]
  /\ font \in [Overlays -> Fonts]
  /\ state \in {"idle", "textShift"}
  /\ shift \in {"idle", "busy"}
  /\ source \in Overlays
  /\ at \in 0 .. Size - 1
  /\ shiftFont \in Fonts
  /\ character \in Chars \union {Nul}
  /\ width \in 0 .. Columns
  /\ counter \in 0 .. width
  /\ changes \in 0 .. MaxChanges

\* A message that is longer never reaches the parser: SetText() itself counts nothing.
IsReceived(string) == Prefix + Len(string) <= LineLength

\* StringTools::StringCopy() of a whole string: what lies behind its terminator stays, and
\* what lies behind the buffer is not the buffer's.
StringCopy(buffer, string) ==
  [i \in DOMAIN buffer |-> IF i < Len(string) THEN string[i + 1]
                           ELSE IF i = Len(string) THEN Nul ELSE buffer[i]]

TextInit ==
  /\ lit \in Faces
  /\ showing = NoOverlay
  /\ buffers = [o \in Overlays |-> [i \in 0 .. Size - 1 |-> Nul]]
  /\ font = [o \in Overlays |-> FirstFont]
  /\ state = "idle" /\ shift = "idle"
  /\ source \in Overlays /\ at = 0   \* stands for nullptr, which nothing reads while idle
  /\ shiftFont = FirstFont
  /\ character = Nul /\ width = 0 /\ counter = 0
  /\ changes = 0
  /\ before = lit /\ loaded = << >> /\ shifts = 0
  /\ entered = [o \in Overlays |-> << >>] /\ disturbed = FALSE

-----------------------------------------------------------------------------
(* Text *)

SetTextWithShift(overlay) ==
  /\ state' = "textShift" /\ shift' = "idle"
  /\ source' = overlay /\ at' = 0
  /\ shiftFont' = font[overlay]
  /\ before' = lit /\ loaded' = << >> /\ shifts' = 0 /\ disturbed' = FALSE
  /\ UNCHANGED << character, width, counter >>

Stop == state' = "idle" /\ shift' = "idle"

\* The glyph drawn before it is counted on: a column of it is shown twice.
CharShift_DrawsFirst(char, charWidth, left) ==
  IF left = 0 THEN ShiftLeft(lit)
  ELSE SetChar(ShiftLeft(lit), Columns - charWidth + left, GetRowCenter(shiftFont), char, shiftFont)

\* One column further: the gap behind a glyph that is through, or its next column and, where
\* they still fit, the ones before it.
CharShift(char, charWidth, left) ==
  IF left = 0 THEN ShiftLeft(lit)
  ELSE SetChar(ShiftLeft(lit), Columns - charWidth + (left - 1), GetRowCenter(shiftFont), char, shiftFont)

CharShiftTask(char, charWidth, left) ==
  /\ lit' = CharShift(char, charWidth, left)
  /\ shifts' = shifts + 1
  /\ character' = char /\ width' = charWidth
  /\ counter' = IF left = 0 THEN 0 ELSE left - 1
  /\ shift' = IF left = 0 THEN "idle" ELSE "busy"

\* The next character, and its first column.
LoadChar ==
  /\ state = "textShift" /\ shift = "idle"
  /\ buffers[source][at] # Nul
  /\ LET char == buffers[source][at]
     IN  /\ CharShiftTask(char, GetFontCharWidth(shiftFont, char), GetFontCharWidth(shiftFont, char))
         /\ loaded' = Append(loaded, char)
  /\ at' = at + 1
  /\ UNCHANGED << showing, buffers, font, state, source, shiftFont, changes, before, entered,
                  disturbed >>

GoOnShifting ==
  /\ state = "textShift" /\ shift = "busy"
  /\ CharShiftTask(character, width, counter)
  /\ UNCHANGED << showing, buffers, font, state, source, at, shiftFont, changes, before, loaded,
                  entered, disturbed >>

\* The end of the string: one column more, and the task has finished.
EndOfString ==
  /\ state = "textShift" /\ shift = "idle"
  /\ buffers[source][at] = Nul
  /\ state' = "idle"
  /\ lit' = ShiftLeft(lit)
  /\ shifts' = shifts + 1
  /\ UNCHANGED << showing, buffers, font, shift, source, at, shiftFont, character, width, counter,
                  changes, before, loaded, entered, disturbed >>

TextTask == LoadChar \/ GoOnShifting \/ EndOfString

-----------------------------------------------------------------------------
(* The overlays *)

\* A show that begins with the buffer it left.
Filled_Once(overlay, string) ==
  IF overlay = "text" \/ buffers[overlay][0] # Nul THEN buffers[overlay]
  ELSE StringCopy(buffers[overlay], string)

\* SetDateString(), SetTemperatureString(): written anew as the show begins; the text is a
\* command's.
Filled(overlay, string) ==
  IF overlay = "text" THEN buffers[overlay] ELSE StringCopy(buffers[overlay], string)

SetStateToShow(overlay) ==
  /\ showing = NoOverlay
  /\ showing' = overlay
  /\ \E string \in {t \in Texts : Len(t) < Size} :
       /\ buffers' = [buffers EXCEPT ![overlay] = Filled(overlay, string)]
       /\ entered' = IF overlay = "text" THEN entered ELSE [entered EXCEPT ![overlay] = string]
  /\ SetTextWithShift(overlay)
  /\ UNCHANGED << lit, font, changes >>

\* Once a second: a text that is through starts again.
ShowTask ==
  /\ showing # NoOverlay
  /\ state = "idle"
  /\ SetTextWithShift(showing)
  /\ UNCHANGED << lit, showing, buffers, font, changes, entered >>

\* The end of a show, and DisplayManager's answer to it.
SetStateToIdle ==
  /\ showing # NoOverlay
  /\ showing' = NoOverlay
  /\ Stop
  /\ lit' \in Faces
  /\ UNCHANGED << buffers, font, source, at, shiftFont, character, width, counter, changes,
                  runVars >>

-----------------------------------------------------------------------------
(* Commands *)

\* `7 -T`: the characters still to come change under a text that runs.
SetText ==
  /\ changes < MaxChanges /\ changes' = changes + 1
  /\ \E string \in {t \in Texts : IsReceived(t)} :
       /\ buffers' = [buffers EXCEPT !["text"] = StringCopy(buffers["text"], string)]
       /\ entered' = [entered EXCEPT !["text"] = string]
  /\ disturbed' = (disturbed \/ source = "text")
  /\ UNCHANGED << lit, showing, font, textVars, before, loaded, shifts >>

\* `-F`: from the next run on.
SetFont ==
  /\ changes < MaxChanges /\ changes' = changes + 1
  /\ \E overlay \in Overlays, new \in Fonts : font' = [font EXCEPT ![overlay] = new]
  /\ UNCHANGED << lit, showing, buffers, textVars, runVars >>

\* The settings put back: a show ends first, and the text is emptied.
OverlaysResetToDefaults ==
  /\ changes < MaxChanges /\ changes' = changes + 1
  /\ showing' = NoOverlay
  /\ font' = [o \in Overlays |-> FirstFont]
  /\ buffers' = [buffers EXCEPT !["text"][0] = Nul]
  /\ entered' = [entered EXCEPT !["text"] = << >>]
  /\ IF showing = NoOverlay THEN UNCHANGED << state, shift, lit >> ELSE Stop /\ lit' \in Faces
  /\ UNCHANGED << source, at, shiftFont, character, width, counter, before, loaded, shifts,
                  disturbed >>

Command == SetText \/ SetFont \/ OverlaysResetToDefaults

Overlay == ShowTask \/ SetStateToIdle \/ \E overlay \in Overlays : SetStateToShow(overlay)

TextNext == TextTask \/ Overlay \/ Command

TextSpec == TextInit /\ [][TextNext]_showVars

-----------------------------------------------------------------------------
(* Properties *)

\* Wherever the text is rewritten while it runs, a terminator is left at or behind the
\* pointer, within the buffer (Text::StringShiftTask(), OverlayText::SetText()).
TextEndsInItsBuffer == \E i \in at .. Size - 1 : buffers[source][i] = Nul

\* The column of a glyph as it has to look, row by row.
Column(f, char, c) ==
  LET glyph == Glyphs[f][ConvertCharToFontIndex(f, char)]
      Bit(r) == IF Orientation[f] = "vertical" THEN r \in glyph.lines[c] ELSE c \in glyph.lines[r]
  IN  {GetRowCenter(f) + r : r \in {k \in 0 .. Height[f] - 1 : Bit(k)}}

\* The run as a strip: each glyph and a blank column behind it, and one at the end.
Strip ==
  LET Piece(i) == [c \in 1 .. GetFontCharWidth(shiftFont, loaded[i]) |->
                     Column(shiftFont, loaded[i], c - 1)] \o << {} >>
  IN  FlattenSeq([i \in DOMAIN loaded |-> Piece(i)]) \o << {} >>

\* A text scrolls through as it is written: at every step the display shows a stretch of
\* the strip behind what stood there before, no column of a glyph lost or shown twice,
\* whatever the widths, the orientation of the font and the characters without a glyph
\* (Text::CharShiftTask()).
DisplayIsAWindow ==
  showing # NoOverlay =>
    \A c \in 0 .. Columns - 1 :
      {RowOf(i) : i \in {j \in lit : ColumnOf(j) = c}} =
        IF c + shifts < Columns
          THEN {RowOf(i) : i \in {j \in before : ColumnOf(j) = c + shifts}}
          ELSE Strip[c + shifts - Columns + 1]

\* A run nobody rewrites shows the string its overlay was last given, from the first
\* character to the last, and the run after a rewrite shows the new one whole
\* (OverlayText.h:89-90).
UndisturbedRunIsTheText ==
  (showing # NoOverlay /\ ~disturbed) =>
    /\ IsPrefix(loaded, entered[showing])
    /\ state = "idle" => loaded = entered[showing]

=============================================================================
