----------------------------- MODULE MCLetters -----------------------------
(***************************************************************************)
(* The letters of the display, under the text of an overlay or under an    *)
(* animation: the two share no state but the display, and never have it at *)
(* once (ClockFace), so that a behaviour is of one of them.                *)
(*                                                                         *)
(* The grid has five columns and four rows.  Texts have a vertical and a   *)
(* horizontal font of glyphs of one to three columns, one character        *)
(* without a glyph and a buffer for three characters.  Animations have     *)
(* three times: on the hour, with the two words in front, and with fewer   *)
(* words and longer ones.                                                  *)
(***************************************************************************)
EXTENDS TextShow, Animations

VARIABLE part

lettersVars == << showVars, vars, part >>

OnText(action)      == part = "text" /\ action /\ UNCHANGED << vars, part >>
OnAnimation(action) == part = "animation" /\ action /\ UNCHANGED << showVars, part >>

\* What the other part starts with makes no difference.
LettersInit ==
  /\ part \in {"text", "animation"}
  /\ TextInit /\ Init
  /\ part = "animation" => lit = CHOOSE face \in Faces : TRUE
  /\ part = "animation" => source = CHOOSE overlay \in Overlays : TRUE
  /\ part = "text" => /\ asked = CHOOSE t \in Times : TRUE
                      /\ selected = NoAnimation /\ mode = "fixed" /\ settled

LettersNext == OnText(TextNext) \/ OnAnimation(Next)

\* An animation that runs has its task called in every tick.
LettersSpec == LettersInit /\ [][LettersNext]_lettersVars /\ WF_vars(OnAnimation(Task))

-----------------------------------------------------------------------------
(* The text *)

AllOverlays == {"temperature", "text"}
AllFonts == {"tall", "flat"}
OrientationOf == [tall |-> "vertical", flat |-> "horizontal"]
HeightOf == [tall |-> 3, flat |-> 2]
WidthOf == [tall |-> 2, flat |-> 3]

Glyph(w, lines) == [width |-> w, lines |-> lines]
TwoLines(first, second) == 0 :> first @@ 1 :> second
GlyphsOf ==
  [tall |-> (" " :> Glyph(1, TwoLines({}, {})) @@ "a" :> Glyph(1, TwoLines({0, 2}, {}))
               @@ "b" :> Glyph(2, TwoLines({1}, {0, 1}))),
   flat |-> (" " :> Glyph(2, TwoLines({}, {})) @@ "a" :> Glyph(2, TwoLines({0}, {0, 1}))
               @@ "b" :> Glyph(3, TwoLines({0, 2}, {1})))]

AllChars == {"a", "b", "x"}
SomeTexts == {<< >>, << "a" >>, << "b", "a" >>, << "x", "b", "a" >>,
              << "a", "x", "b", "a" >>}
SomeFaces == {{0, 6, 13}}

-----------------------------------------------------------------------------
(* The animations *)

MCWords ==
  "es"   :> [column |-> 0, row |-> 0, length |-> 2] @@
  "ist"  :> [column |-> 3, row |-> 0, length |-> 2] @@
  "nach" :> [column |-> 1, row |-> 1, length |-> 3] @@
  "eins" :> [column |-> 0, row |-> 2, length |-> 3] @@
  "zwei" :> [column |-> 2, row |-> 2, length |-> 3] @@
  "uhr"  :> [column |-> 1, row |-> 3, length |-> 4]

One     == [hour |-> 1, minute |-> 0]
OneFive == [hour |-> 1, minute |-> 5]
Two     == [hour |-> 2, minute |-> 0]

MCWordsAt ==
  One     :> << "es", "ist", "eins", "uhr" >> @@
  OneFive :> << "nach", "eins" >> @@
  Two     :> << "es", "ist", "zwei", "uhr" >>

MCTimes == {One, OneFive}

MCSmallBorder == [left |-> 1, right |-> 3, top |-> 1, bottom |-> 2]

MCOrder ==
  << "Cursor", "Teletype", "Drop", "Shift", "Fade", "Snake", "Wipe", "Cube", "Flicker",
     "Squeeze", "ExplodePixels", "ExplodeWords", "Matrix", "Roll", "Collapse" >>

MCFavouriteSets == {{"Fade", "Flicker", "Snake"}, {"Cube"}}
=============================================================================
