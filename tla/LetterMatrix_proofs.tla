------------------------- MODULE LetterMatrix_proofs -------------------------
(***************************************************************************)
(* What moves over the letters, for any grid, any words and any fonts: a   *)
(* text that scrolls shows all of itself and nothing else, and the clock   *)
(* comes to rest on the newest time, whichever animation took it there.    *)
(***************************************************************************)
EXTENDS TextShow, Animations, SequenceTheorems, FiniteSetTheorems, WellFoundedInduction, TLAPS

(***************************************************************************)
(* The pointer of a scrolling text never leaves its buffer, whatever the   *)
(* size of the buffer and whenever a command rewrites it.                  *)
(***************************************************************************)

PointerType ==
  /\ buffers \in [Overlays -> Buffers]
  /\ source \in Overlays
  /\ at \in Nat

\* A buffer nothing points into ends too: the next run may start in it.
BuffersEnd == \A o \in Overlays : \E i \in 0 .. Size - 1 : buffers[o][i] = Nul

\* The inductive invariant: the types alone say nothing of a terminator, and the pointer's
\* own buffer alone says nothing of the one the next show starts in.
IInv == PointerType /\ BuffersEnd /\ TextEndsInItsBuffer

\* What shows is an overlay; the buffers and the pointer do not matter to it.
ShowingType == showing \in Overlays \union {NoOverlay}

-----------------------------------------------------------------------------

\* A string that is shorter than the buffer keeps the buffer's type when it is copied, and
\* leaves a terminator behind itself.
LEMMA CopyIsABuffer ==
  ASSUME NEW buffer \in Buffers, NEW string \in Texts, Len(string) < Size
  PROVE  /\ StringCopy(buffer, string) \in Buffers
         /\ Len(string) \in 0 .. Size - 1
         /\ StringCopy(buffer, string)[Len(string)] = Nul
<1>1. string \in Seq(Chars) /\ Len(string) \in Nat /\ Size \in Nat
  BY TextShowAssumption
<1>2. \A i \in 0 .. Size - 1 : i < Len(string) => string[i + 1] \in Chars
  BY <1>1
<1>3. DOMAIN buffer = 0 .. Size - 1 /\ \A i \in 0 .. Size - 1 : buffer[i] \in Chars \union {Nul}
  BY DEF Buffers
<1>4. StringCopy(buffer, string)
        = [i \in 0 .. Size - 1 |-> IF i < Len(string) THEN string[i + 1]
                                   ELSE IF i = Len(string) THEN Nul ELSE buffer[i]]
  BY <1>3 DEF StringCopy
<1> QED BY <1>1, <1>2, <1>3, <1>4 DEF Buffers

\* A terminator behind a place in the buffer outlives a copy: the new string ends there or
\* behind it, or else the copy does not reach that far.
LEMMA CopyKeepsATerminator ==
  ASSUME NEW buffer \in Buffers, NEW string \in Texts, Len(string) < Size,
         NEW from \in Nat, \E i \in from .. Size - 1 : buffer[i] = Nul
  PROVE  \E i \in from .. Size - 1 : StringCopy(buffer, string)[i] = Nul
<1>1. Size \in Nat \ {0}
  BY TextShowAssumption
<1>2. CASE Len(string) >= from
  BY <1>1, <1>2, CopyIsABuffer
<1>3. CASE Len(string) < from
  <2>1. PICK i \in from .. Size - 1 : buffer[i] = Nul
    OBVIOUS
  <2>2. i \in DOMAIN buffer /\ ~ i < Len(string) /\ i # Len(string)
    BY <1>1, <1>3, <2>1, CopyIsABuffer DEF Buffers
  <2>3. StringCopy(buffer, string)[i] = Nul
    BY <2>1, <2>2 DEF StringCopy
  <2> QED BY <2>1, <2>3
<1>4. Len(string) \in Nat
  BY CopyIsABuffer, <1>1
<1> QED BY <1>2, <1>3, <1>4

\* A text that reaches the parser at all is shorter than the buffer: the prefix takes the rest
\* of the message.
LEMMA ReceivedFits ==
  ASSUME NEW string \in Texts, IsReceived(string)
  PROVE  Len(string) < Size
<1>1. Len(string) \in Nat /\ Prefix \in Nat /\ LineLength \in Nat /\ Size \in Nat
      /\ LineLength < Size + Prefix
  BY TextShowAssumption
<1> QED BY <1>1 DEF IsReceived

-----------------------------------------------------------------------------

LEMMA InitIInv == TextInit => IInv
<1> SUFFICES ASSUME TextInit PROVE IInv
  OBVIOUS
<1>1. Size \in Nat \ {0} /\ 0 \in 0 .. Size - 1
  BY TextShowAssumption
<1>2. PointerType
  BY <1>1 DEF TextInit, PointerType, Buffers
<1>3. \A o \in Overlays : buffers[o][0] = Nul
  BY <1>1 DEF TextInit
<1>4. BuffersEnd
  BY <1>1, <1>3 DEF BuffersEnd
<1>5. TextEndsInItsBuffer
  BY <1>1, <1>2, <1>3 DEF TextInit, PointerType, TextEndsInItsBuffer
<1> QED BY <1>2, <1>4, <1>5 DEF IInv

\* The pointer moves on only over a character that is no terminator.
LEMMA LoadCharKeeps == IInv /\ LoadChar => IInv'
<1> SUFFICES ASSUME IInv, LoadChar PROVE IInv'
  OBVIOUS
<1>1. Size \in Nat
  BY TextShowAssumption
<1>2. UNCHANGED << buffers, source >> /\ at' = at + 1 /\ buffers[source][at] # Nul
  BY DEF LoadChar
<1>3. PICK i \in at .. Size - 1 : buffers[source][i] = Nul
  BY DEF IInv, TextEndsInItsBuffer
<1>4. i \in at + 1 .. Size - 1
  BY <1>1, <1>2, <1>3 DEF IInv, PointerType
<1> QED BY <1>2, <1>3, <1>4 DEF IInv, PointerType, BuffersEnd, TextEndsInItsBuffer

\* A step that leaves the buffers and takes a run from the start of one, or from where it was.
LEMMA SameBuffersKeep ==
  ASSUME IInv, UNCHANGED buffers,
         UNCHANGED << source, at >> \/ (source' \in Overlays /\ at' = 0)
  PROVE  IInv'
BY DEF IInv, PointerType, BuffersEnd, TextEndsInItsBuffer

\* A copy into one of the buffers.
LEMMA CopyKeeps ==
  ASSUME IInv, NEW overlay, NEW string \in Texts, Len(string) < Size,
         buffers' = [buffers EXCEPT ![overlay] = StringCopy(buffers[overlay], string)],
         UNCHANGED << source, at >> \/ (source' \in Overlays /\ at' = 0)
  PROVE  IInv'
<1>1. CASE overlay \notin Overlays
  <2>1. buffers' = buffers
    BY <1>1 DEF IInv, PointerType
  <2> QED BY <2>1, SameBuffersKeep
<1>2. CASE overlay \in Overlays
  <2>1. buffers[overlay] \in Buffers
    BY <1>2 DEF IInv, PointerType
  <2>2. StringCopy(buffers[overlay], string) \in Buffers
    BY <2>1, CopyIsABuffer
  <2>3. buffers' \in [Overlays -> Buffers]
    BY <2>2 DEF IInv, PointerType
  <2>4. \A o \in Overlays : \A from \in Nat :
          (\E i \in from .. Size - 1 : buffers[o][i] = Nul)
            => \E i \in from .. Size - 1 : buffers'[o][i] = Nul
    <3> SUFFICES ASSUME NEW o \in Overlays, NEW from \in Nat,
                        \E i \in from .. Size - 1 : buffers[o][i] = Nul
                 PROVE  \E i \in from .. Size - 1 : buffers'[o][i] = Nul
      OBVIOUS
    <3>1. CASE o = overlay
      <4>1. buffers'[o] = StringCopy(buffers[o], string)
        BY <3>1 DEF IInv, PointerType
      <4> QED BY <2>1, <3>1, <4>1, CopyKeepsATerminator
    <3>2. CASE o # overlay
      BY <3>2 DEF IInv, PointerType
    <3> QED BY <3>1, <3>2
  <2>5. PointerType'
    BY <2>3 DEF IInv, PointerType
  <2>6. BuffersEnd'
    BY <2>4 DEF IInv, BuffersEnd
  <2>7. TextEndsInItsBuffer'
    <3>1. CASE UNCHANGED << source, at >>
      BY <2>4, <3>1 DEF IInv, PointerType, TextEndsInItsBuffer
    <3>2. CASE source' \in Overlays /\ at' = 0
      BY <2>6, <3>2 DEF BuffersEnd, TextEndsInItsBuffer
    <3> QED BY <3>1, <3>2
  <2> QED BY <2>5, <2>6, <2>7 DEF IInv
<1> QED BY <1>1, <1>2

LEMMA SetStateToShowKeeps ==
  ASSUME IInv, NEW overlay \in Overlays, SetStateToShow(overlay)
  PROVE  IInv'
<1>1. source' \in Overlays /\ at' = 0
  BY DEF SetStateToShow, SetTextWithShift
<1>2. PICK string \in {t \in Texts : Len(t) < Size} :
        buffers' = [buffers EXCEPT ![overlay] = Filled(overlay, string)]
  BY DEF SetStateToShow
<1>3. CASE overlay = "text"
  <2>1. buffers' = buffers
    BY <1>2, <1>3 DEF Filled, IInv, PointerType
  <2> QED BY <1>1, <2>1, SameBuffersKeep
<1>4. CASE overlay # "text"
  <2>1. buffers' = [buffers EXCEPT ![overlay] = StringCopy(buffers[overlay], string)]
    BY <1>2, <1>4 DEF Filled
  <2> QED BY <1>1, <2>1, CopyKeeps
<1> QED BY <1>3, <1>4

LEMMA SetTextKeeps == IInv /\ SetText => IInv'
<1> SUFFICES ASSUME IInv, SetText PROVE IInv'
  OBVIOUS
<1>1. PICK string \in {t \in Texts : IsReceived(t)} :
        buffers' = [buffers EXCEPT !["text"] = StringCopy(buffers["text"], string)]
  BY DEF SetText
<1>2. UNCHANGED << source, at >>
  BY DEF SetText, textVars
<1> QED BY <1>1, <1>2, ReceivedFits, CopyKeeps

\* Emptying the text puts a terminator in front and takes none away.
LEMMA ResetKeeps == IInv /\ OverlaysResetToDefaults => IInv'
<1> SUFFICES ASSUME IInv, OverlaysResetToDefaults PROVE IInv'
  OBVIOUS
<1>1. UNCHANGED << source, at >> /\ buffers' = [buffers EXCEPT !["text"][0] = Nul]
  BY DEF OverlaysResetToDefaults
<1>2. Size \in Nat \ {0}
  BY TextShowAssumption
<1>3. \A o \in Overlays : buffers[o] \in Buffers
  BY DEF IInv, PointerType
<1>4. \A o \in Overlays : /\ buffers'[o] \in Buffers
                          /\ \A i \in 0 .. Size - 1 : buffers[o][i] = Nul => buffers'[o][i] = Nul
  BY <1>1, <1>2, <1>3 DEF IInv, PointerType, Buffers
<1>5. buffers' \in [Overlays -> Buffers]
  BY <1>1, <1>4 DEF IInv, PointerType
<1>6. at \in Nat /\ source \in Overlays
  BY DEF IInv, PointerType
<1>7. \A i \in at .. Size - 1 : i \in 0 .. Size - 1
  BY <1>2, <1>6
<1> QED BY <1>1, <1>4, <1>5, <1>6, <1>7 DEF IInv, PointerType, BuffersEnd, TextEndsInItsBuffer

LEMMA NextShowingType == ShowingType /\ [TextNext]_showVars => ShowingType'
<1> SUFFICES ASSUME ShowingType, [TextNext]_showVars PROVE ShowingType'
  OBVIOUS
<1>1. CASE \E overlay \in Overlays : SetStateToShow(overlay)
  BY <1>1 DEF ShowingType, SetStateToShow
<1>2. CASE SetStateToIdle \/ OverlaysResetToDefaults
  BY <1>2 DEF ShowingType, SetStateToIdle, OverlaysResetToDefaults
<1>3. CASE TextTask \/ ShowTask \/ SetText \/ SetFont \/ UNCHANGED showVars
  BY <1>3 DEF ShowingType, TextTask, LoadChar, GoOnShifting, EndOfString, ShowTask, SetText, SetFont, showVars
<1> QED BY <1>1, <1>2, <1>3 DEF TextNext, Overlay, Command

LEMMA NextIInv == IInv /\ ShowingType /\ [TextNext]_showVars => IInv'
<1> SUFFICES ASSUME IInv, ShowingType, [TextNext]_showVars PROVE IInv'
  OBVIOUS
<1>1. CASE LoadChar
  BY <1>1, LoadCharKeeps
<1>2. CASE GoOnShifting
  BY <1>2, SameBuffersKeep DEF GoOnShifting
<1>3. CASE EndOfString
  BY <1>3, SameBuffersKeep DEF EndOfString
<1>4. CASE ShowTask
  <2>1. source' \in Overlays /\ at' = 0 /\ UNCHANGED buffers
    BY <1>4 DEF ShowTask, SetTextWithShift, ShowingType
  <2> QED BY <2>1, SameBuffersKeep
<1>5. CASE SetStateToIdle
  BY <1>5, SameBuffersKeep DEF SetStateToIdle
<1>6. CASE \E overlay \in Overlays : SetStateToShow(overlay)
  BY <1>6, SetStateToShowKeeps
<1>7. CASE SetText
  BY <1>7, SetTextKeeps
<1>8. CASE SetFont
  BY <1>8, SameBuffersKeep DEF SetFont, textVars
<1>9. CASE OverlaysResetToDefaults
  BY <1>9, ResetKeeps
<1>10. CASE UNCHANGED showVars
  BY <1>10, SameBuffersKeep DEF showVars, textVars
<1> QED BY <1>1, <1>2, <1>3, <1>4, <1>5, <1>6, <1>7, <1>8, <1>9, <1>10
        DEF TextNext, TextTask, Overlay, Command

-----------------------------------------------------------------------------

\* Whatever the size of the buffers and the texts that come while one runs, the pointer of the
\* run meets a terminator before the end of its buffer (Text::StringShiftTask(),
\* OverlayText::SetText(), MsgCmdOverlayTextParser::SetText()).
THEOREM PointerStaysInTheBuffer == TextSpec => []TextEndsInItsBuffer
<1>1. IInv => TextEndsInItsBuffer
  BY DEF IInv
<1>2. TextInit => ShowingType
  BY DEF TextInit, ShowingType
<1> QED BY InitIInv, NextIInv, NextShowingType, <1>1, <1>2, PTL DEF TextSpec

(***************************************************************************)
(* An undisturbed run is the string its overlay was last given.            *)
(***************************************************************************)

\* A buffer holds a string: its characters, and the terminator behind them.
Holds(buffer, string) ==
  /\ string \in Seq(Chars)
  /\ Len(string) < Size
  /\ \A i \in 1 .. Len(string) : buffer[i - 1] = string[i]
  /\ buffer[Len(string)] = Nul

\* What an overlay was last given stands in its buffer, whether it shows or not: the next run
\* reads nothing else.
BuffersHold ==
  /\ entered \in [Overlays -> Seq(Chars)]
  /\ \A o \in Overlays : Holds(buffers[o], entered[o])

\* The characters behind the pointer are the ones the run has loaded.
RunIsBehindThePointer ==
  showing # NoOverlay =>
    /\ source = showing
    /\ ~disturbed =>
         /\ loaded \in Seq(Chars)
         /\ Len(loaded) = at
         /\ at <= Len(entered[showing])
         /\ \A i \in 1 .. at : loaded[i] = entered[showing][i]
         /\ state = "idle" => at = Len(entered[showing])

\* The inductive invariant: the characters loaded so far say nothing of the ones to come,
\* which are what the buffer holds.
RunInv == PointerType /\ ShowingType /\ BuffersHold /\ RunIsBehindThePointer

\* A copied string is held.
LEMMA CopyHolds ==
  ASSUME NEW buffer \in Buffers, NEW string \in Texts, Len(string) < Size
  PROVE  Holds(StringCopy(buffer, string), string)
<1>1. string \in Seq(Chars) /\ Len(string) \in Nat /\ Size \in Nat
  BY TextShowAssumption
<1>2. DOMAIN buffer = 0 .. Size - 1
  BY DEF Buffers
<1>3. \A i \in 1 .. Len(string) : StringCopy(buffer, string)[i - 1] = string[i]
  <2> SUFFICES ASSUME NEW i \in 1 .. Len(string)
               PROVE  StringCopy(buffer, string)[i - 1] = string[i]
    OBVIOUS
  <2>1. i - 1 \in DOMAIN buffer /\ i - 1 < Len(string) /\ (i - 1) + 1 = i
    BY <1>1, <1>2
  <2> QED BY <2>1 DEF StringCopy
<1>4. StringCopy(buffer, string)[Len(string)] = Nul
  BY CopyIsABuffer
<1> QED BY <1>1, <1>3, <1>4 DEF Holds

\* Where an overlay's string is copied and entered, and the others stay, every buffer holds
\* what its overlay was given.
LEMMA CopyKeepsThemHeld ==
  ASSUME PointerType, BuffersHold, NEW overlay, NEW string \in Texts, Len(string) < Size,
         buffers' = [buffers EXCEPT ![overlay] = StringCopy(buffers[overlay], string)],
         entered' = [entered EXCEPT ![overlay] = string]
  PROVE  BuffersHold'
<1>1. string \in Seq(Chars)
  BY TextShowAssumption
<1>2. entered' \in [Overlays -> Seq(Chars)]
  BY <1>1 DEF BuffersHold
<1>3. ASSUME NEW o \in Overlays PROVE Holds(buffers'[o], entered'[o])
  <2>1. CASE o = overlay
    <3>1. buffers[o] \in Buffers
      BY DEF PointerType
    <3>2. buffers'[o] = StringCopy(buffers[o], string) /\ entered'[o] = string
      BY <2>1 DEF PointerType, BuffersHold
    <3> QED BY <3>1, <3>2, CopyHolds
  <2>2. CASE o # overlay
    BY <2>2 DEF PointerType, BuffersHold
  <2> QED BY <2>1, <2>2
<1> QED BY <1>2, <1>3 DEF BuffersHold

LEMMA InitRunInv == TextInit => RunInv
<1> SUFFICES ASSUME TextInit PROVE RunInv
  OBVIOUS
<1>1. Size \in Nat \ {0}
  BY TextShowAssumption
<1>2. PointerType
  BY InitIInv DEF IInv
<1>3. \A o \in Overlays : entered[o] = << >> /\ buffers[o][0] = Nul
  BY <1>1 DEF TextInit
<1>4. << >> \in Seq(Chars) /\ Len(<< >>) = 0
  OBVIOUS
<1>5. BuffersHold
  BY <1>1, <1>3, <1>4 DEF TextInit, BuffersHold, Holds
<1>6. RunIsBehindThePointer /\ ShowingType
  BY DEF TextInit, RunIsBehindThePointer, ShowingType
<1> QED BY <1>2, <1>5, <1>6 DEF RunInv

\* The buffer and the string agree at the pointer: a character there is the string's next one,
\* and a terminator there is its end.
LEMMA PointerReadsTheString ==
  ASSUME RunInv, showing # NoOverlay, ~disturbed
  PROVE  /\ at \in Nat /\ Len(entered[showing]) \in Nat
         /\ buffers[source][at] # Nul => /\ at < Len(entered[showing])
                                         /\ buffers[source][at] = entered[showing][at + 1]
                                         /\ buffers[source][at] \in Chars
         /\ buffers[source][at] = Nul => at = Len(entered[showing])
<1>1. showing \in Overlays /\ source = showing
  BY DEF RunInv, ShowingType, RunIsBehindThePointer
<1> DEFINE string == entered[showing]
<1>2. Holds(buffers[source], string)
  BY <1>1 DEF RunInv, BuffersHold
<1>3. at \in Nat /\ at <= Len(string)
  BY DEF RunInv, PointerType, RunIsBehindThePointer
<1>4. string \in Seq(Chars) /\ Len(string) \in Nat
  BY <1>2 DEF Holds
<1> HIDE DEF string
<1>5. CASE at = Len(string)
  <2>1. buffers[source][at] = Nul
    BY <1>2, <1>5 DEF Holds
  <2> QED BY <1>3, <1>4, <1>5, <2>1 DEF string
<1>6. CASE at # Len(string)
  <2>1. at + 1 \in 1 .. Len(string) /\ (at + 1) - 1 = at
    BY <1>3, <1>4, <1>6
  <2>2. string[at + 1] \in Chars
    BY <1>4, <2>1
  <2>3. buffers[source][at] = string[at + 1]
    BY <1>2, <2>1 DEF Holds
  <2>4. Nul \notin Chars
    BY TextShowAssumption
  <2>5. at < Len(string)
    BY <1>3, <1>4, <1>6
  <2> QED BY <1>3, <1>4, <2>2, <2>3, <2>4, <2>5 DEF string
<1> QED BY <1>5, <1>6

LEMMA LoadCharKeepsTheRun == RunInv /\ PointerType' /\ LoadChar => RunInv'
<1> SUFFICES ASSUME RunInv, PointerType', LoadChar PROVE RunInv'
  OBVIOUS
<1>1. /\ UNCHANGED << showing, buffers, source, state, entered, disturbed >>
      /\ at' = at + 1 /\ loaded' = Append(loaded, buffers[source][at])
      /\ buffers[source][at] # Nul /\ state = "textShift"
  BY DEF LoadChar
<1>2. ShowingType' /\ BuffersHold'
  BY <1>1 DEF RunInv, ShowingType, BuffersHold
<1>3. ASSUME showing # NoOverlay, ~disturbed
      PROVE  /\ loaded' \in Seq(Chars)
             /\ Len(loaded') = at'
             /\ at' <= Len(entered[showing])
             /\ \A i \in 1 .. at' : loaded'[i] = entered[showing][i]
  <2>1. /\ at \in Nat /\ Len(entered[showing]) \in Nat
        /\ at < Len(entered[showing])
        /\ buffers[source][at] = entered[showing][at + 1]
        /\ buffers[source][at] \in Chars
    BY <1>1, <1>3, PointerReadsTheString
  <2>2. /\ loaded \in Seq(Chars) /\ Len(loaded) = at
        /\ \A i \in 1 .. at : loaded[i] = entered[showing][i]
    BY <1>3 DEF RunInv, RunIsBehindThePointer
  <2>3. /\ loaded' \in Seq(Chars) /\ Len(loaded') = at + 1
        /\ \A i \in 1 .. at : loaded'[i] = loaded[i]
        /\ loaded'[at + 1] = buffers[source][at]
    BY <1>1, <2>1, <2>2
  <2>4. \A i \in 1 .. at + 1 : i \in 1 .. at \/ i = at + 1
    BY <2>1
  <2>5. at + 1 <= Len(entered[showing])
    BY <2>1
  <2> QED BY <1>1, <2>1, <2>2, <2>3, <2>4, <2>5
<1>4. RunIsBehindThePointer'
  BY <1>1, <1>3 DEF RunInv, RunIsBehindThePointer
<1> QED BY <1>2, <1>4 DEF RunInv

\* A run that begins has loaded nothing, and whatever it is to read is held.
LEMMA FreshRunKeeps ==
  ASSUME PointerType', BuffersHold', showing' \in Overlays, SetTextWithShift(showing')
  PROVE  RunInv'
<1>1. /\ source' = showing' /\ at' = 0 /\ loaded' = << >> /\ state' = "textShift"
  BY DEF SetTextWithShift
<1>2. entered'[showing'] \in Seq(Chars)
  BY DEF BuffersHold
<1>3. Len(entered'[showing']) \in Nat
  BY <1>2
<1>4. << >> \in Seq(Chars) /\ Len(<< >>) = 0
  OBVIOUS
<1>5. RunIsBehindThePointer'
  BY <1>1, <1>3, <1>4 DEF RunIsBehindThePointer
<1>6. ShowingType'
  BY DEF ShowingType
<1> QED BY <1>5, <1>6 DEF RunInv

LEMMA SetStateToShowStartsARun ==
  ASSUME RunInv, PointerType', NEW overlay \in Overlays, SetStateToShow(overlay)
  PROVE  RunInv'
<1>1. showing' = overlay /\ SetTextWithShift(overlay)
  BY DEF SetStateToShow
<1>2. PICK string \in {t \in Texts : Len(t) < Size} :
        /\ buffers' = [buffers EXCEPT ![overlay] = Filled(overlay, string)]
        /\ entered' = IF overlay = "text" THEN entered ELSE [entered EXCEPT ![overlay] = string]
  BY DEF SetStateToShow
<1>3. CASE overlay = "text"
  <2>1. buffers' = buffers /\ entered' = entered
    BY <1>2, <1>3 DEF Filled, RunInv, PointerType
  <2>2. BuffersHold'
    BY <2>1 DEF RunInv, BuffersHold
  <2> QED BY <1>1, <2>2, FreshRunKeeps
<1>4. CASE overlay # "text"
  <2>1. /\ buffers' = [buffers EXCEPT ![overlay] = StringCopy(buffers[overlay], string)]
        /\ entered' = [entered EXCEPT ![overlay] = string]
    BY <1>2, <1>4 DEF Filled
  <2>2. BuffersHold'
    BY <2>1, CopyKeepsThemHeld DEF RunInv
  <2> QED BY <1>1, <2>2, FreshRunKeeps
<1> QED BY <1>3, <1>4

\* A rewrite disturbs the run it reaches; any other overlay's string stays.
LEMMA SetTextKeepsTheRun == RunInv /\ PointerType' /\ SetText => RunInv'
<1> SUFFICES ASSUME RunInv, PointerType', SetText PROVE RunInv'
  OBVIOUS
<1>1. PICK string \in {t \in Texts : IsReceived(t)} :
        /\ buffers' = [buffers EXCEPT !["text"] = StringCopy(buffers["text"], string)]
        /\ entered' = [entered EXCEPT !["text"] = string]
  BY DEF SetText
<1>2. /\ UNCHANGED << showing, source, at, state, loaded >>
      /\ disturbed' = (disturbed \/ source = "text")
  BY DEF SetText, textVars
<1>3. BuffersHold'
  BY <1>1, ReceivedFits, CopyKeepsThemHeld DEF RunInv
<1>4. showing # NoOverlay /\ ~disturbed' =>
        showing = source /\ ~disturbed /\ entered'[showing] = entered[showing]
  <2>1. ~disturbed' => ~disturbed /\ source # "text"
    BY <1>2, Zenon
  <2>2. source # "text" => entered'[source] = entered[source]
    BY <1>1 DEF RunInv, PointerType, BuffersHold
  <2> QED BY <2>1, <2>2 DEF RunInv, RunIsBehindThePointer
<1>5. RunIsBehindThePointer'
  BY <1>2, <1>4 DEF RunInv, RunIsBehindThePointer
<1>6. ShowingType'
  BY <1>2 DEF RunInv, ShowingType
<1> QED BY <1>3, <1>5, <1>6 DEF RunInv

\* No run is left where the settings are put back, and the empty text is held.
LEMMA ResetKeepsTheRun == RunInv /\ PointerType' /\ OverlaysResetToDefaults => RunInv'
<1> SUFFICES ASSUME RunInv, PointerType', OverlaysResetToDefaults PROVE RunInv'
  OBVIOUS
<1>1. /\ showing' = NoOverlay
      /\ buffers' = [buffers EXCEPT !["text"][0] = Nul]
      /\ entered' = [entered EXCEPT !["text"] = << >>]
  BY DEF OverlaysResetToDefaults
<1>2. Size \in Nat \ {0}
  BY TextShowAssumption
<1>3. << >> \in Seq(Chars) /\ Len(<< >>) = 0
  OBVIOUS
<1>4. entered' \in [Overlays -> Seq(Chars)]
  BY <1>1, <1>3 DEF RunInv, BuffersHold
<1>5. ASSUME NEW o \in Overlays PROVE Holds(buffers'[o], entered'[o])
  <2>1. CASE o = "text"
    <3>1. buffers[o] \in Buffers
      BY DEF RunInv, PointerType
    <3>2. buffers'[o] = [buffers[o] EXCEPT ![0] = Nul] /\ entered'[o] = << >>
      BY <1>1, <2>1 DEF RunInv, PointerType, BuffersHold
    <3>3. buffers'[o][0] = Nul
      BY <1>2, <3>1, <3>2 DEF Buffers
    <3> QED BY <1>2, <1>3, <3>2, <3>3 DEF Holds
  <2>2. CASE o # "text"
    BY <1>1, <2>2 DEF RunInv, PointerType, BuffersHold
  <2> QED BY <2>1, <2>2
<1>6. RunIsBehindThePointer' /\ ShowingType'
  BY <1>1 DEF RunIsBehindThePointer, ShowingType
<1> QED BY <1>4, <1>5, <1>6 DEF RunInv, BuffersHold

LEMMA NextRunInv == RunInv /\ PointerType' /\ [TextNext]_showVars => RunInv'
<1> SUFFICES ASSUME RunInv, PointerType', [TextNext]_showVars PROVE RunInv'
  OBVIOUS
<1>1. CASE LoadChar
  BY <1>1, LoadCharKeepsTheRun
<1>2. CASE EndOfString
  <2>1. /\ UNCHANGED << showing, buffers, source, at, loaded, entered, disturbed >>
        /\ state' = "idle" /\ buffers[source][at] = Nul
    BY <1>2 DEF EndOfString
  <2>2. showing # NoOverlay /\ ~disturbed => at = Len(entered[showing])
    BY <2>1, PointerReadsTheString
  <2> QED BY <2>1, <2>2 DEF RunInv, ShowingType, BuffersHold, RunIsBehindThePointer
<1>3. CASE ShowTask
  <2>1. /\ showing' = showing /\ showing # NoOverlay /\ SetTextWithShift(showing)
        /\ UNCHANGED << buffers, entered >>
    BY <1>3 DEF ShowTask
  <2>2. BuffersHold' /\ showing' \in Overlays
    BY <2>1 DEF RunInv, BuffersHold, ShowingType
  <2> QED BY <2>1, <2>2, FreshRunKeeps
<1>4. CASE SetStateToIdle
  <2>1. showing' = NoOverlay /\ UNCHANGED << buffers, entered >>
    BY <1>4 DEF SetStateToIdle, runVars
  <2> QED BY <2>1 DEF RunInv, ShowingType, BuffersHold, RunIsBehindThePointer
<1>5. CASE \E overlay \in Overlays : SetStateToShow(overlay)
  BY <1>5, SetStateToShowStartsARun
<1>6. CASE SetText
  BY <1>6, SetTextKeepsTheRun
<1>7. CASE OverlaysResetToDefaults
  BY <1>7, ResetKeepsTheRun
<1>8. CASE GoOnShifting \/ SetFont \/ UNCHANGED showVars
  <2>1. UNCHANGED << showing, buffers, source, at, state, loaded, entered, disturbed >>
    BY <1>8 DEF GoOnShifting, SetFont, showVars, textVars, runVars
  <2> QED BY <2>1 DEF RunInv, ShowingType, BuffersHold, RunIsBehindThePointer
<1> QED BY <1>1, <1>2, <1>3, <1>4, <1>5, <1>6, <1>7, <1>8 DEF TextNext, TextTask, Overlay, Command

LEMMA RunInvShowsTheText == RunInv => UndisturbedRunIsTheText
<1> SUFFICES ASSUME RunInv, showing # NoOverlay, ~disturbed
             PROVE  /\ IsPrefix(loaded, entered[showing])
                    /\ state = "idle" => loaded = entered[showing]
  BY DEF UndisturbedRunIsTheText
<1> DEFINE string == entered[showing]
<1>1. showing \in Overlays
  BY DEF RunInv, ShowingType
<1>2. string \in Seq(Chars)
  BY <1>1 DEF RunInv, BuffersHold
<1>3. /\ loaded \in Seq(Chars) /\ Len(loaded) <= Len(string)
      /\ \A i \in 1 .. Len(loaded) : loaded[i] = string[i]
      /\ state = "idle" => Len(loaded) = Len(string)
  BY DEF RunInv, RunIsBehindThePointer
<1> HIDE DEF string
<1>4. Len(loaded) \in Nat /\ Len(string) \in Nat
  BY <1>2, <1>3
<1>5. SubSeq(loaded, 1, Len(loaded)) = SubSeq(string, 1, Len(loaded))
  BY <1>2, <1>3, <1>4
<1>6. IsPrefix(loaded, string)
  BY <1>3, <1>5 DEF IsPrefix
<1>7. state = "idle" => loaded = string
  BY <1>2, <1>3, <1>4
<1> QED BY <1>6, <1>7 DEF string

\* Whatever the texts, their lengths and the moments they come at, a run nobody rewrites shows
\* the string its overlay was last given, from the first character to the last
\* (Text::StringShiftTask(), OverlayText::SetText(), StringTools::StringCopy()).
THEOREM UndisturbedRunShowsItsText == TextSpec => []UndisturbedRunIsTheText
<1>1. IInv => PointerType
  BY DEF IInv
<1>2. TextInit => ShowingType
  BY DEF TextInit, ShowingType
<1> QED BY InitIInv, NextIInv, NextShowingType, InitRunInv, NextRunInv, RunInvShowsTheText,
           <1>1, <1>2, PTL DEF TextSpec

(***************************************************************************)
(* The display is a window that moves along the strip of the text.         *)
(***************************************************************************)

\* A set that holds nothing, and the next one of each of its numbers, holds every number.
LEMMA EveryNumber ==
  ASSUME NEW T, 0 \in T, \A n \in Nat : n \in T => n + 1 \in T PROVE Nat \subseteq T
  <1> DEFINE S == Nat \ T
  <1> SUFFICES ASSUME S # {} PROVE FALSE
    OBVIOUS
  <1>1. PICK u \in S : \A v \in S : << v, u >> \notin OpToRel(<, Nat)
    BY NatLessThanWellFounded, WFMin
  <1>2. u \in Nat /\ u # 0
    OBVIOUS
  <1>3. u - 1 \in Nat /\ u - 1 < u /\ (u - 1) + 1 = u
    BY <1>2
  <1>4. << u - 1, u >> \in OpToRel(<, Nat)
    BY <1>2, <1>3 DEF OpToRel
  <1>5. u - 1 \in T
    BY <1>1, <1>3, <1>4
  <1> QED
    BY <1>3, <1>5, <1>2

\* What the library's function flattens a sequence of sequences with.
Flattens(f, seqs) ==
  f = [i \in 1 .. Len(seqs) |-> IF i = 1 THEN seqs[i] ELSE f[i - 1] \o seqs[i]]

\* The function FlattenSeq() picks is there, up to any of its sequences.
LEMMA FlattensUpTo ==
  ASSUME NEW seqs, Len(seqs) \in Nat, NEW n \in Nat
  PROVE  \E f : f = [i \in 1 .. n |-> IF i = 1 THEN seqs[i] ELSE f[i - 1] \o seqs[i]]
<1> DEFINE Body(f, i) == IF i = 1 THEN seqs[i] ELSE f[i - 1] \o seqs[i]
           T == {m \in Nat : \E f : f = [i \in 1 .. m |-> Body(f, i)]}
<1>1. 0 \in T
  <2>1. 1 .. 0 = {}
    OBVIOUS
  <2> DEFINE f == [i \in {} |-> << >>]
  <2>2. f = [i \in {} |-> Body(f, i)]
    OBVIOUS
  <2> QED BY <2>1, <2>2
<1>2. ASSUME NEW m \in Nat, m \in T PROVE m + 1 \in T
  <2>1. PICK f : f = [i \in 1 .. m |-> Body(f, i)]
    BY <1>2
  <2> DEFINE g == [i \in 1 .. m + 1 |-> Body(f, i)]
  <2>2. ASSUME NEW i \in 1 .. m + 1 PROVE Body(f, i) = Body(g, i)
    <3>1. CASE i = 1
      BY <3>1
    <3>2. CASE i # 1
      <4>1. i - 1 \in 1 .. m /\ i - 1 \in 1 .. m + 1
        BY <3>2
      <4>2. f[i - 1] = Body(f, i - 1) /\ g[i - 1] = Body(f, i - 1)
        <5> HIDE DEF Body
        <5> QED BY <2>1, <4>1
      <4> HIDE DEF g
      <4> QED BY <3>2, <4>2
    <3> QED BY <3>1, <3>2
  <2>3. g = [i \in 1 .. m + 1 |-> Body(g, i)]
    <3> HIDE DEF Body
    <3> QED BY <2>2
  <2> QED
    <3> HIDE DEF g, Body
    <3> QED BY <2>3
<1>3. n \in T
  <2> HIDE DEF T
  <2> QED BY <1>1, <1>2, EveryNumber
<1> QED BY <1>3

\* A sequence of sequences is flattened from its first one on.
LEMMA Flattening ==
  ASSUME NEW S, NEW seqs \in Seq(Seq(S)), Len(seqs) # 0
  PROVE  \E f : /\ Flattens(f, seqs) /\ FlattenSeq(seqs) = f[Len(seqs)]
                /\ \A i \in 1 .. Len(seqs) : f[i] \in Seq(S)
<1> DEFINE Right(f) == f = [i \in 1 .. Len(seqs) |-> IF i = 1 THEN seqs[i] ELSE f[i - 1] \o seqs[i]]
           f == CHOOSE f : Right(f)
<1>0. Len(seqs) \in Nat /\ \A i \in 1 .. Len(seqs) : seqs[i] \in Seq(S)
  OBVIOUS
<1>1. Right(f)
  BY <1>0, FlattensUpTo
<1>2. FlattenSeq(seqs) = f[Len(seqs)]
  BY DEF FlattenSeq
<1> HIDE DEF f
<1>3. \A i \in 1 .. Len(seqs) : f[i] = IF i = 1 THEN seqs[i] ELSE f[i - 1] \o seqs[i]
  BY <1>1
<1> DEFINE T == {n \in Nat : \A i \in 1 .. Len(seqs) : i = n => f[i] \in Seq(S)}
<1>4. 0 \in T
  OBVIOUS
<1>5. ASSUME NEW n \in Nat, n \in T PROVE n + 1 \in T
  <2> SUFFICES ASSUME n + 1 \in 1 .. Len(seqs) PROVE f[n + 1] \in Seq(S)
    OBVIOUS
  <2>1. f[n + 1] = IF n + 1 = 1 THEN seqs[n + 1] ELSE f[(n + 1) - 1] \o seqs[n + 1]
    BY <1>3
  <2>2. CASE n = 0
    BY <2>1, <2>2, <1>0
  <2>3. CASE n # 0
    <3>1. n \in 1 .. Len(seqs) /\ (n + 1) - 1 = n /\ n + 1 # 1
      BY <1>0, <2>3
    <3>2. f[n] \in Seq(S) /\ seqs[n + 1] \in Seq(S)
      BY <3>1, <1>5, <1>0
    <3> QED BY <2>1, <3>1, <3>2
  <2> QED BY <2>2, <2>3
<1>6. Nat \subseteq T
  <2> HIDE DEF T
  <2> QED BY <1>4, <1>5, EveryNumber
<1>7. \A i \in 1 .. Len(seqs) : f[i] \in Seq(S)
  BY <1>0, <1>6
<1> QED BY <1>1, <1>2, <1>7 DEF Flattens

\* What has no sequence flattens to nothing.
LEMMA FlatNothing == FlattenSeq(<< >>) = << >>
BY DEF FlattenSeq

\* One sequence more is appended to what is flattened.
LEMMA FlatAppend ==
  ASSUME NEW S, NEW seqs \in Seq(Seq(S)), NEW one \in Seq(S)
  PROVE  /\ FlattenSeq(seqs) \in Seq(S)
         /\ FlattenSeq(Append(seqs, one)) = FlattenSeq(seqs) \o one
<1> DEFINE more == Append(seqs, one)
           n == Len(seqs)
<1>0. /\ n \in Nat /\ more \in Seq(Seq(S)) /\ Len(more) = n + 1 /\ more[n + 1] = one
      /\ \A i \in 1 .. n : more[i] = seqs[i]
  OBVIOUS
<1>1. PICK g : Flattens(g, more) /\ FlattenSeq(more) = g[n + 1]
  <2>1. Len(more) # 0
    BY <1>0
  <2> HIDE DEF more, n
  <2> QED BY <1>0, <2>1, Flattening
<1>2. \A i \in 1 .. n + 1 : g[i] = IF i = 1 THEN more[i] ELSE g[i - 1] \o more[i]
  BY <1>0, <1>1 DEF Flattens
<1>3. CASE n = 0
  <2>1. seqs = << >> /\ g[1] = one
    BY <1>0, <1>2, <1>3
  <2>2. FlattenSeq(seqs) = << >> /\ << >> \in Seq(S) /\ << >> \o one = one
    BY <2>1, FlatNothing
  <2>3. FlattenSeq(more) = one
    BY <1>1, <1>3, <2>1
  <2> QED BY <2>2, <2>3
<1>4. CASE n # 0
  <2>1. PICK f : /\ Flattens(f, seqs) /\ FlattenSeq(seqs) = f[n]
                 /\ \A i \in 1 .. n : f[i] \in Seq(S)
    BY <1>4, Flattening
  <2>2. \A i \in 1 .. n : f[i] = IF i = 1 THEN seqs[i] ELSE f[i - 1] \o seqs[i]
    BY <2>1 DEF Flattens
  <2> DEFINE T == {m \in Nat : \A i \in 1 .. n : i = m => f[i] = g[i]}
  <2> HIDE DEF n, more
  <2>3. 0 \in T
    OBVIOUS
  <2>4. ASSUME NEW m \in Nat, m \in T PROVE m + 1 \in T
    <3> SUFFICES ASSUME m + 1 \in 1 .. n PROVE f[m + 1] = g[m + 1]
      OBVIOUS
    <3>1. /\ f[m + 1] = IF m + 1 = 1 THEN seqs[m + 1] ELSE f[(m + 1) - 1] \o seqs[m + 1]
          /\ g[m + 1] = IF m + 1 = 1 THEN more[m + 1] ELSE g[(m + 1) - 1] \o more[m + 1]
          /\ more[m + 1] = seqs[m + 1]
      <4>1. m + 1 \in 1 .. n + 1
        BY <1>0
      <4> QED BY <1>0, <1>2, <2>2, <4>1
    <3>2. CASE m = 0
      BY <3>1, <3>2
    <3>3. CASE m # 0
      <4>1. m \in 1 .. n /\ (m + 1) - 1 = m /\ m + 1 # 1
        BY <1>0, <3>3
      <4>2. f[m] = g[m]
        BY <2>4, <4>1
      <4> QED BY <3>1, <4>1, <4>2
    <3> QED BY <3>2, <3>3
  <2>5. Nat \subseteq T
    <3> HIDE DEF T
    <3> QED BY <2>3, <2>4, EveryNumber
  <2>6. n \in 1 .. n /\ f[n] = g[n]
    BY <1>0, <1>4, <2>5
  <2>7. g[n + 1] = g[n] \o one
    <3>1. n + 1 \in 1 .. n + 1 /\ n + 1 # 1 /\ (n + 1) - 1 = n
      BY <1>0, <1>4
    <3> QED BY <1>0, <1>2, <3>1
  <2> QED BY <1>1, <2>1, <2>6, <2>7 DEF more
<1> QED BY <1>3, <1>4

\* The rows that are lit in a column.
Look(pixels, c) == {RowOf(i) : i \in {j \in pixels : ColumnOf(j) = c}}

\* A pixel is the one of its row and its column.
LEMMA IndexOfPlace ==
  ASSUME NEW c \in 0 .. Columns - 1, NEW r \in Nat
  PROVE  /\ r * Columns + c \in Nat
         /\ ColumnOf(r * Columns + c) = c /\ RowOf(r * Columns + c) = r
<1>1. PICK n \in Nat \ {0} : n = Columns
  BY LetterMatrixAssumption
<1>2. c \in Nat /\ c < n
  BY <1>1
<1>3. (r * n + c) % n = c /\ (r * n + c) \div n = r /\ r * n + c \in Nat
  BY <1>1, <1>2
<1> QED BY <1>1, <1>3 DEF ColumnOf, RowOf

LEMMA PlaceOfIndex ==
  ASSUME NEW i \in Nat
  PROVE  /\ ColumnOf(i) \in 0 .. Columns - 1 /\ RowOf(i) \in Nat
         /\ i = RowOf(i) * Columns + ColumnOf(i)
<1>1. PICK n \in Nat \ {0} : n = Columns
  BY LetterMatrixAssumption
<1>2. i % n \in 0 .. n - 1 /\ i \div n \in Nat /\ i = (i \div n) * n + (i % n)
  BY <1>1
<1> QED BY <1>1, <1>2 DEF ColumnOf, RowOf

LEMMA PixelsHaveRows ==
  ASSUME NEW c \in 0 .. Columns - 1, NEW r \in Nat
  PROVE  r * Columns + c \in Pixels <=> r \in 0 .. Rows - 1
<1>1. PICK n \in Nat \ {0}, m \in Nat \ {0} : n = Columns /\ m = Rows
  BY LetterMatrixAssumption
<1>2. c \in Nat /\ c < n
  BY <1>1
<1>3. CASE r <= m - 1
  <2>1. r * n + n <= m * n
    <3>1. (m - 1 - r) \in Nat /\ (m - 1 - r) * n >= 0
      BY <1>1, <1>3
    <3> QED BY <1>1, <3>1
  <2>2. r * n + c \in Nat /\ r * n + c <= m * n - 1
    BY <1>1, <1>2, <2>1
  <2> QED BY <1>1, <1>3, <2>2 DEF Pixels
<1>4. CASE r >= m
  <2>1. r * n >= m * n
    <3>1. (r - m) \in Nat /\ (r - m) * n >= 0
      BY <1>1, <1>4
    <3> QED BY <1>1, <3>1
  <2>2. r * n + c >= m * n /\ m * n \in Nat
    BY <1>1, <1>2, <2>1
  <2> QED BY <1>1, <1>4, <2>2 DEF Pixels
<1> QED BY <1>1, <1>3, <1>4

\* What is lit in a column, row by row.
LEMMA LookIs ==
  ASSUME NEW pixels \in SUBSET Pixels, NEW c \in 0 .. Columns - 1
  PROVE  Look(pixels, c) = {r \in 0 .. Rows - 1 : r * Columns + c \in pixels}
<1>1. ASSUME NEW r \in Look(pixels, c) PROVE r \in 0 .. Rows - 1 /\ r * Columns + c \in pixels
  <2>1. PICK i \in pixels : ColumnOf(i) = c /\ r = RowOf(i)
    BY DEF Look
  <2>2. i \in Nat /\ i \in Pixels
    BY DEF Pixels
  <2>3. r \in Nat /\ i = r * Columns + c
    BY <2>1, <2>2, PlaceOfIndex
  <2> QED BY <2>1, <2>2, <2>3, PixelsHaveRows
<1>2. ASSUME NEW r \in 0 .. Rows - 1, r * Columns + c \in pixels PROVE r \in Look(pixels, c)
  <2>1. PICK i : i = r * Columns + c
    OBVIOUS
  <2>2. ColumnOf(i) = c /\ RowOf(i) = r
    <3>1. r \in Nat
      BY LetterMatrixAssumption
    <3> QED BY <2>1, <3>1, IndexOfPlace
  <2> QED BY <1>2, <2>1, <2>2 DEF Look
<1> QED BY <1>1, <1>2

\* A shift moves every column one to the left, and nothing comes in.
LEMMA ShiftLooks ==
  ASSUME NEW pixels \in SUBSET Pixels
  PROVE  /\ ShiftLeft(pixels) \in SUBSET Pixels
         /\ \A c \in 0 .. Columns - 1 :
              Look(ShiftLeft(pixels), c) = IF c + 1 < Columns THEN Look(pixels, c + 1) ELSE {}
<1>1. PICK n \in Nat \ {0} : n = Columns
  BY LetterMatrixAssumption
<1>2. ASSUME NEW j \in pixels, ColumnOf(j) > 0
      PROVE  /\ j - 1 \in Pixels /\ RowOf(j - 1) = RowOf(j) /\ ColumnOf(j - 1) = ColumnOf(j) - 1
  <2>1. j \in Nat /\ j \in Pixels
    BY DEF Pixels
  <2>2. PICK c \in Nat, r \in Nat : c = ColumnOf(j) /\ r = RowOf(j) /\ j = r * n + c /\ c < n
    <3>1. ColumnOf(j) \in 0 .. n - 1 /\ RowOf(j) \in Nat /\ j = RowOf(j) * n + ColumnOf(j)
      BY <1>1, <2>1, PlaceOfIndex
    <3> QED BY <3>1
  <2>3. j - 1 = r * n + (c - 1) /\ c - 1 \in 0 .. n - 1 /\ j - 1 \in Nat
    BY <1>1, <1>2, <2>2
  <2>4. ColumnOf(j - 1) = c - 1 /\ RowOf(j - 1) = r
    BY <1>1, <2>2, <2>3, IndexOfPlace
  <2>5. j - 1 \in Pixels
    <3>1. PICK top : top = Rows * Columns - 1
      OBVIOUS
    <3> QED BY <2>1, <2>3, <3>1 DEF Pixels
  <2> QED BY <2>2, <2>4, <2>5
<1>3. ShiftLeft(pixels) \in SUBSET Pixels
  BY <1>2 DEF ShiftLeft
<1>4. ASSUME NEW c \in 0 .. Columns - 1
      PROVE  Look(ShiftLeft(pixels), c) = IF c + 1 < Columns THEN Look(pixels, c + 1) ELSE {}
  <2>1. ASSUME NEW r \in Look(ShiftLeft(pixels), c)
        PROVE  c + 1 < Columns /\ r \in Look(pixels, c + 1)
    <3>1. PICK i \in ShiftLeft(pixels) : ColumnOf(i) = c /\ r = RowOf(i)
      BY DEF Look
    <3>2. PICK j \in pixels : ColumnOf(j) > 0 /\ i = j - 1
      BY <3>1 DEF ShiftLeft
    <3>3. j \in Nat
      BY DEF Pixels
    <3>4. ColumnOf(j) \in 0 .. n - 1 /\ ColumnOf(j) - 1 = c /\ r = RowOf(j)
      BY <1>1, <1>2, <3>1, <3>2, <3>3, PlaceOfIndex
    <3>5. ColumnOf(j) = c + 1 /\ c + 1 < n
      BY <1>1, <3>4
    <3> QED BY <1>1, <3>4, <3>5 DEF Look
  <2>2. ASSUME c + 1 < Columns, NEW r \in Look(pixels, c + 1)
        PROVE  r \in Look(ShiftLeft(pixels), c)
    <3>1. PICK j \in pixels : ColumnOf(j) = c + 1 /\ r = RowOf(j)
      BY DEF Look
    <3>2. ColumnOf(j) > 0 /\ ColumnOf(j) - 1 = c
      BY <1>1, <3>1
    <3>3. ColumnOf(j - 1) = c /\ RowOf(j - 1) = r /\ j - 1 \in ShiftLeft(pixels)
      BY <1>2, <3>1, <3>2 DEF ShiftLeft
    <3> QED BY <3>3 DEF Look
  <2> QED BY <2>1, <2>2
<1> QED BY <1>3, <1>4

-----------------------------------------------------------------------------

\* What is written of a row: the cells on the grid, from the column on.
LEMMA RowIsWritten ==
  ASSUME NEW pixels \in SUBSET Pixels, NEW bits, NEW column \in Nat, NEW row \in Nat, NEW wide \in Nat
  PROVE  /\ SetCharRow(pixels, bits, column, row, wide) \in SUBSET Pixels
         /\ \A c \in 0 .. Columns - 1, r \in 0 .. Rows - 1 :
              r * Columns + c \in SetCharRow(pixels, bits, column, row, wide) <=>
                IF r = row /\ c \in column .. column + wide - 1 THEN c - column \in bits
                ELSE r * Columns + c \in pixels
<1> DEFINE cells == [k \in 0 .. wide - 1 |-> [column |-> column + k, row |-> row]]
           Index(k) == ColumnAndRowToIndex(cells[k].column, cells[k].row)
           onGrid == {k \in DOMAIN cells : IsColumnAndRowValid(cells[k].column, cells[k].row)}
           written == SetCharRow(pixels, bits, column, row, wide)
<1>1. written = (pixels \ {Index(k) : k \in onGrid}) \union {Index(k) : k \in onGrid \intersect bits}
  BY DEF SetCharRow, WriteLine
<1>2. PICK n \in Nat \ {0}, m \in Nat \ {0} : n = Columns /\ m = Rows
  BY LetterMatrixAssumption
<1>3. \A k : k \in onGrid <=> k \in 0 .. wide - 1 /\ column + k < n /\ row < m
  BY <1>2 DEF IsColumnAndRowValid
<1>4. \A k \in onGrid : k \in Nat /\ Index(k) = row * Columns + (column + k)
  BY <1>3 DEF ColumnAndRowToIndex
<1> HIDE DEF onGrid, Index, written, cells
<1>5. ASSUME NEW k \in onGrid PROVE column + k \in 0 .. Columns - 1 /\ row \in 0 .. Rows - 1 /\ Index(k) \in Pixels
  <2>1. column + k \in 0 .. Columns - 1 /\ row \in 0 .. Rows - 1
    BY <1>2, <1>3
  <2> QED BY <1>4, <2>1, PixelsHaveRows
<1>6. written \in SUBSET Pixels
  BY <1>1, <1>5
<1>7. ASSUME NEW c \in 0 .. Columns - 1, NEW r \in 0 .. Rows - 1
      PROVE  r * Columns + c \in written <=>
                IF r = row /\ c \in column .. column + wide - 1 THEN c - column \in bits
                ELSE r * Columns + c \in pixels
  <2>1. PICK i : i = r * Columns + c
    OBVIOUS
  <2>2. c \in Nat /\ r \in Nat /\ c < n /\ r < m
    BY <1>2
  <2>3. ColumnOf(i) = c /\ RowOf(i) = r
    BY <2>1, <2>2, IndexOfPlace
  <2>4. \A k \in onGrid : i = Index(k) <=> r = row /\ k = c - column
    <3> SUFFICES ASSUME NEW k \in onGrid PROVE i = Index(k) <=> r = row /\ k = c - column
      OBVIOUS
    <3>1. k \in Nat /\ Index(k) = row * Columns + (column + k)
      BY <1>4
    <3>2. ColumnOf(Index(k)) = column + k /\ RowOf(Index(k)) = row
      BY <1>5, <3>1, IndexOfPlace
    <3>3. i = Index(k) => r = row /\ k = c - column
      BY <2>2, <2>3, <3>1, <3>2
    <3>4. r = row /\ k = c - column => i = Index(k)
      BY <2>1, <2>2, <3>1
    <3> QED BY <3>3, <3>4
  <2>5. CASE r = row /\ c \in column .. column + wide - 1
    <3>1. c - column \in onGrid
      BY <1>2, <1>3, <2>2, <2>5
    <3>2. i \in written <=> c - column \in bits
      BY <1>1, <2>4, <2>5, <3>1
    <3> QED BY <2>1, <2>5, <3>2
  <2>6. CASE ~(r = row /\ c \in column .. column + wide - 1)
    <3>1. \A k \in onGrid : i # Index(k)
      BY <1>3, <2>2, <2>4, <2>6
    <3>2. i \in written <=> i \in pixels
      BY <1>1, <3>1
    <3> QED BY <2>1, <2>6, <3>2
  <2> QED BY <2>5, <2>6
<1> QED BY <1>6, <1>7 DEF written

\* What is written of a column: the cells on the grid, from the row on.
LEMMA ColumnIsWritten ==
  ASSUME NEW pixels \in SUBSET Pixels, NEW bits, NEW column \in Nat, NEW row \in Nat, NEW high \in Nat
  PROVE  /\ SetCharColumn(pixels, bits, column, row, high) \in SUBSET Pixels
         /\ \A c \in 0 .. Columns - 1, r \in 0 .. Rows - 1 :
              r * Columns + c \in SetCharColumn(pixels, bits, column, row, high) <=>
                IF c = column /\ r \in row .. row + high - 1 THEN r - row \in bits
                ELSE r * Columns + c \in pixels
<1> DEFINE cells == [k \in 0 .. high - 1 |-> [column |-> column, row |-> row + k]]
           Index(k) == ColumnAndRowToIndex(cells[k].column, cells[k].row)
           onGrid == {k \in DOMAIN cells : IsColumnAndRowValid(cells[k].column, cells[k].row)}
           written == SetCharColumn(pixels, bits, column, row, high)
<1>1. written = (pixels \ {Index(k) : k \in onGrid}) \union {Index(k) : k \in onGrid \intersect bits}
  BY DEF SetCharColumn, WriteLine
<1>2. PICK n \in Nat \ {0}, m \in Nat \ {0} : n = Columns /\ m = Rows
  BY LetterMatrixAssumption
<1>3. \A k : k \in onGrid <=> k \in 0 .. high - 1 /\ column < n /\ row + k < m
  BY <1>2 DEF IsColumnAndRowValid
<1>4. \A k \in onGrid : k \in Nat /\ Index(k) = (row + k) * Columns + column
  BY <1>3 DEF ColumnAndRowToIndex
<1> HIDE DEF onGrid, Index, written, cells
<1>5. ASSUME NEW k \in onGrid PROVE column \in 0 .. Columns - 1 /\ row + k \in 0 .. Rows - 1 /\ Index(k) \in Pixels
  <2>1. column \in 0 .. Columns - 1 /\ row + k \in 0 .. Rows - 1
    BY <1>2, <1>3
  <2>2. PICK q \in Nat : q = row + k
    BY <1>4
  <2>3. q * Columns + column \in Pixels
    BY <2>1, <2>2, PixelsHaveRows
  <2> QED BY <1>4, <2>1, <2>2, <2>3
<1>6. written \in SUBSET Pixels
  BY <1>1, <1>5
<1>7. ASSUME NEW c \in 0 .. Columns - 1, NEW r \in 0 .. Rows - 1
      PROVE  r * Columns + c \in written <=>
                IF c = column /\ r \in row .. row + high - 1 THEN r - row \in bits
                ELSE r * Columns + c \in pixels
  <2>1. PICK i : i = r * Columns + c
    OBVIOUS
  <2>2. c \in Nat /\ r \in Nat /\ c < n /\ r < m
    BY <1>2
  <2>3. ColumnOf(i) = c /\ RowOf(i) = r
    BY <2>1, <2>2, IndexOfPlace
  <2>4. \A k \in onGrid : i = Index(k) <=> c = column /\ k = r - row
    <3> SUFFICES ASSUME NEW k \in onGrid PROVE i = Index(k) <=> c = column /\ k = r - row
      OBVIOUS
    <3>1. PICK q \in Nat : q = row + k /\ k \in Nat /\ Index(k) = q * Columns + column
      BY <1>4
    <3>2. ColumnOf(Index(k)) = column /\ RowOf(Index(k)) = q
      BY <1>5, <3>1, IndexOfPlace
    <3>3. i = Index(k) => c = column /\ k = r - row
      BY <2>2, <2>3, <3>1, <3>2
    <3>4. c = column /\ k = r - row => i = Index(k)
      <4>1. k = r - row => q = r
        BY <2>2, <3>1
      <4> QED BY <2>1, <2>2, <3>1, <4>1
    <3> QED BY <3>3, <3>4
  <2>5. CASE c = column /\ r \in row .. row + high - 1
    <3>1. r - row \in onGrid
      BY <1>2, <1>3, <2>2, <2>5
    <3>2. i \in written <=> r - row \in bits
      BY <1>1, <2>4, <2>5, <3>1
    <3> QED BY <2>1, <2>5, <3>2
  <2>6. CASE ~(c = column /\ r \in row .. row + high - 1)
    <3>1. \A k \in onGrid : i # Index(k)
      BY <1>3, <2>2, <2>4, <2>6
    <3>2. i \in written <=> i \in pixels
      BY <1>1, <3>1
    <3> QED BY <2>1, <2>6, <3>2
  <2> QED BY <2>5, <2>6
<1> QED BY <1>6, <1>7 DEF written

\* A loop that makes its next value of the one before has a value after every turn.
LEMMA LoopsRun ==
  ASSUME NEW S, NEW base \in S, NEW n \in Nat, NEW turn \in [1 .. n -> [S -> S]]
  PROVE  \E f \in [0 .. n -> S] : f[0] = base /\ \A k \in 1 .. n : f[k] = turn[k][f[k - 1]]
<1> DEFINE T == {m \in Nat : m <= n =>
                   \E f \in [0 .. m -> S] : f[0] = base /\ \A k \in 1 .. m : f[k] = turn[k][f[k - 1]]}
<1>1. 0 \in T
  <2> DEFINE f == [k \in 0 .. 0 |-> base]
  <2>1. f \in [0 .. 0 -> S] /\ f[0] = base /\ \A k \in 1 .. 0 : f[k] = turn[k][f[k - 1]]
    OBVIOUS
  <2> QED BY <2>1
<1>2. ASSUME NEW m \in Nat, m \in T PROVE m + 1 \in T
  <2> SUFFICES ASSUME m + 1 <= n
               PROVE  \E f \in [0 .. m + 1 -> S] :
                        f[0] = base /\ \A k \in 1 .. m + 1 : f[k] = turn[k][f[k - 1]]
    OBVIOUS
  <2>1. PICK f \in [0 .. m -> S] : f[0] = base /\ \A k \in 1 .. m : f[k] = turn[k][f[k - 1]]
    BY <1>2
  <2> DEFINE g == [k \in 0 .. m + 1 |-> IF k = m + 1 THEN turn[m + 1][f[m]] ELSE f[k]]
  <2>2. turn[m + 1] \in [S -> S] /\ f[m] \in S
    OBVIOUS
  <2>3. g \in [0 .. m + 1 -> S]
    <3>1. ASSUME NEW k \in 0 .. m + 1, k # m + 1 PROVE f[k] \in S
      BY <3>1
    <3> QED BY <2>2, <3>1
  <2>4. g[0] = base
    BY <2>1
  <2>5. ASSUME NEW k \in 1 .. m + 1 PROVE g[k] = turn[k][g[k - 1]]
    <3>1. CASE k = m + 1
      <4>1. k - 1 = m /\ k - 1 \in 0 .. m + 1 /\ k - 1 # m + 1
        BY <3>1
      <4> QED BY <3>1, <4>1
    <3>2. CASE k # m + 1
      <4>1. k \in 1 .. m /\ k - 1 \in 0 .. m + 1 /\ k - 1 # m + 1
        BY <3>2
      <4> QED BY <2>1, <3>2, <4>1
    <3> QED BY <3>1, <3>2
  <2> QED BY <2>3, <2>4, <2>5
<1>3. n \in T
  <2> HIDE DEF T
  <2> QED BY <1>1, <1>2, EveryNumber
<1> QED BY <1>3

\* A glyph's rows one under the other.
LEMMA RowsAreDrawn ==
  ASSUME NEW pixels \in SUBSET Pixels, NEW glyph, glyph.width \in Nat,
         NEW column \in Nat, NEW row \in Nat, NEW high \in Nat
  PROVE  /\ SetCharFontHorizontal(pixels, column, row, glyph, high) \in SUBSET Pixels
         /\ \A c \in 0 .. Columns - 1, r \in 0 .. Rows - 1 :
              r * Columns + c \in SetCharFontHorizontal(pixels, column, row, glyph, high) <=>
                IF r \in row .. row + high - 1 /\ c \in column .. column + glyph.width - 1
                  THEN c - column \in glyph.lines[r - row]
                  ELSE r * Columns + c \in pixels
<1> DEFINE Draw(x, k) == SetCharRow(x, glyph.lines[k - 1], column, row + (k - 1), glyph.width)
           Right(f) == f = [k \in 0 .. high |-> IF k = 0 THEN pixels ELSE Draw(f[k - 1], k)]
           drawn == CHOOSE f : Right(f)
           Shows(x, c, r, k) ==
             r * Columns + c \in x <=>
                IF r \in row .. row + k - 1 /\ c \in column .. column + glyph.width - 1
                  THEN c - column \in glyph.lines[r - row]
                  ELSE r * Columns + c \in pixels
           T == {k \in Nat : k <= high =>
                   /\ drawn[k] \in SUBSET Pixels
                   /\ \A c \in 0 .. Columns - 1, r \in 0 .. Rows - 1 : Shows(drawn[k], c, r, k)}
<1>1. ASSUME NEW x \in SUBSET Pixels, NEW k \in 1 .. high
      PROVE  /\ Draw(x, k) \in SUBSET Pixels
             /\ \A c \in 0 .. Columns - 1, r \in 0 .. Rows - 1 :
                  r * Columns + c \in Draw(x, k) <=>
                    IF r = row + (k - 1) /\ c \in column .. column + glyph.width - 1
                      THEN c - column \in glyph.lines[k - 1]
                      ELSE r * Columns + c \in x
  <2>1. row + (k - 1) \in Nat
    OBVIOUS
  <2> QED BY <2>1, RowIsWritten
<1>2. \E f : Right(f)
  <2> HIDE DEF Draw
  <2> DEFINE S == SUBSET Pixels
             turn == [k \in 1 .. high |-> [x \in S |-> Draw(x, k)]]
  <2>0. pixels \in S /\ \A k \in 1 .. high : \A x \in S : Draw(x, k) \in S
    BY <1>1
  <2> HIDE DEF S
  <2>1. turn \in [1 .. high -> [S -> S]]
    BY <2>0
  <2>2. \A k \in 1 .. high : \A x \in S : turn[k][x] = Draw(x, k)
    OBVIOUS
  <2> HIDE DEF turn
  <2>3. PICK f \in [0 .. high -> S] :
          f[0] = pixels /\ \A k \in 1 .. high : f[k] = turn[k][f[k - 1]]
    BY <2>0, <2>1, LoopsRun
  <2>4. ASSUME NEW k \in 0 .. high PROVE f[k] = IF k = 0 THEN pixels ELSE Draw(f[k - 1], k)
    <3>1. CASE k = 0
      BY <2>3, <3>1
    <3>2. CASE k # 0
      <4>1. k \in 1 .. high /\ k - 1 \in 0 .. high
        BY <3>2
      <4>2. f[k - 1] \in S
        BY <4>1
      <4> QED BY <2>2, <2>3, <3>2, <4>1, <4>2
    <3> QED BY <3>1, <3>2
  <2>5. Right(f)
    BY <2>4
  <2> QED BY <2>5
<1>3. Right(drawn)
  BY <1>2, Zenon
<1>4. SetCharFontHorizontal(pixels, column, row, glyph, high) = drawn[high]
  BY Zenon DEF SetCharFontHorizontal
<1>5. \A k \in 0 .. high : drawn[k] = IF k = 0 THEN pixels ELSE Draw(drawn[k - 1], k)
  <2> HIDE DEF Draw, drawn
  <2> QED BY <1>3
<1> HIDE DEF drawn, Draw
<1>6. 0 \in T
  <2>1. drawn[0] = pixels
    BY <1>5
  <2>2. \A c \in 0 .. Columns - 1, r \in 0 .. Rows - 1 : Shows(drawn[0], c, r, 0)
    BY <2>1
  <2> QED BY <2>1, <2>2
<1>7. ASSUME NEW k \in Nat, k \in T PROVE k + 1 \in T
  <2> SUFFICES ASSUME NEW l \in 1 .. high, l = k + 1
               PROVE  /\ drawn[l] \in SUBSET Pixels
                      /\ \A c \in 0 .. Columns - 1, r \in 0 .. Rows - 1 : Shows(drawn[l], c, r, l)
    <3>1. k + 1 \in Nat /\ k + 1 <= high => k + 1 \in 1 .. high
      OBVIOUS
    <3> HIDE DEF Shows
    <3> QED BY <3>1
  <2>1. PICK x \in SUBSET Pixels : x = drawn[k] /\ \A c \in 0 .. Columns - 1, r \in 0 .. Rows - 1 : Shows(x, c, r, k)
    BY <1>7
  <2>2. l - 1 = k /\ k <= high
    OBVIOUS
  <2>3. drawn[l] = Draw(x, l)
    BY <1>5, <2>1, <2>2
  <2>4. ASSUME NEW c \in 0 .. Columns - 1, NEW r \in 0 .. Rows - 1 PROVE Shows(drawn[l], c, r, l)
    <3>1. r * Columns + c \in drawn[l] <=>
                    IF r = row + k /\ c \in column .. column + glyph.width - 1
                      THEN c - column \in glyph.lines[k]
                      ELSE r * Columns + c \in x
      BY <1>1, <2>2, <2>3
    <3>2. Shows(x, c, r, k)
      BY <2>1
    <3>3. r \in Nat
      BY LetterMatrixAssumption
    <3>4. r \in row .. row + l - 1 <=> r \in row .. row + k - 1 \/ r = row + k
      BY <2>2, <3>3
    <3>5. r = row + k => r - row = k /\ r \notin row .. row + k - 1
      BY <3>3
    <3> QED BY <3>1, <3>2, <3>4, <3>5
  <2>5. drawn[l] \in SUBSET Pixels
    <3>1. Draw(x, l) \in SUBSET Pixels
      BY <1>1
    <3> QED BY <2>3, <3>1
  <2> QED BY <2>4, <2>5
<1>8. high \in T
  <2> HIDE DEF T
  <2> QED BY <1>6, <1>7, EveryNumber
<1> QED BY <1>4, <1>8
\* A glyph's columns one beside the other.
LEMMA ColumnsAreDrawn ==
  ASSUME NEW pixels \in SUBSET Pixels, NEW glyph, glyph.width \in Nat,
         NEW column \in Nat, NEW row \in Nat, NEW high \in Nat
  PROVE  /\ SetCharFontVertical(pixels, column, row, glyph, high) \in SUBSET Pixels
         /\ \A c \in 0 .. Columns - 1, r \in 0 .. Rows - 1 :
              r * Columns + c \in SetCharFontVertical(pixels, column, row, glyph, high) <=>
                IF c \in column .. column + glyph.width - 1 /\ r \in row .. row + high - 1
                  THEN r - row \in glyph.lines[c - column]
                  ELSE r * Columns + c \in pixels
<1>0. PICK wide \in Nat : wide = glyph.width
  OBVIOUS
<1> DEFINE Draw(x, k) == SetCharColumn(x, glyph.lines[k - 1], column + (k - 1), row, high)
           Right(f) == f = [k \in 0 .. wide |-> IF k = 0 THEN pixels ELSE Draw(f[k - 1], k)]
           drawn == CHOOSE f : Right(f)
           Shows(x, c, r, k) ==
             r * Columns + c \in x <=>
                IF c \in column .. column + k - 1 /\ r \in row .. row + high - 1
                  THEN r - row \in glyph.lines[c - column]
                  ELSE r * Columns + c \in pixels
           T == {k \in Nat : k <= wide =>
                   /\ drawn[k] \in SUBSET Pixels
                   /\ \A c \in 0 .. Columns - 1, r \in 0 .. Rows - 1 : Shows(drawn[k], c, r, k)}
<1>1. ASSUME NEW x \in SUBSET Pixels, NEW k \in 1 .. wide
      PROVE  /\ Draw(x, k) \in SUBSET Pixels
             /\ \A c \in 0 .. Columns - 1, r \in 0 .. Rows - 1 :
                  r * Columns + c \in Draw(x, k) <=>
                    IF c = column + (k - 1) /\ r \in row .. row + high - 1
                      THEN r - row \in glyph.lines[k - 1]
                      ELSE r * Columns + c \in x
  <2>1. PICK there \in Nat : there = column + (k - 1)
    OBVIOUS
  <2>2. PICK bits : bits = glyph.lines[k - 1]
    OBVIOUS
  <2>3. Draw(x, k) = SetCharColumn(x, bits, there, row, high)
    BY <2>1, <2>2
  <2> HIDE DEF Draw
  <2>4. /\ SetCharColumn(x, bits, there, row, high) \in SUBSET Pixels
        /\ \A c \in 0 .. Columns - 1, r \in 0 .. Rows - 1 :
             r * Columns + c \in SetCharColumn(x, bits, there, row, high) <=>
               IF c = there /\ r \in row .. row + high - 1 THEN r - row \in bits
               ELSE r * Columns + c \in x
    BY ColumnIsWritten
  <2> QED BY <2>1, <2>2, <2>3, <2>4
<1>2. \E f : Right(f)
  <2> HIDE DEF Draw
  <2> DEFINE S == SUBSET Pixels
             turn == [k \in 1 .. wide |-> [x \in S |-> Draw(x, k)]]
  <2>0. pixels \in S /\ \A k \in 1 .. wide : \A x \in S : Draw(x, k) \in S
    BY <1>1
  <2> HIDE DEF S
  <2>1. turn \in [1 .. wide -> [S -> S]]
    BY <2>0
  <2>2. \A k \in 1 .. wide : \A x \in S : turn[k][x] = Draw(x, k)
    OBVIOUS
  <2> HIDE DEF turn
  <2>3. PICK f \in [0 .. wide -> S] :
          f[0] = pixels /\ \A k \in 1 .. wide : f[k] = turn[k][f[k - 1]]
    BY <2>0, <2>1, LoopsRun
  <2>4. ASSUME NEW k \in 0 .. wide PROVE f[k] = IF k = 0 THEN pixels ELSE Draw(f[k - 1], k)
    <3>1. CASE k = 0
      BY <2>3, <3>1
    <3>2. CASE k # 0
      <4>1. k \in 1 .. wide /\ k - 1 \in 0 .. wide
        BY <3>2
      <4>2. f[k - 1] \in S
        BY <4>1
      <4> QED BY <2>2, <2>3, <3>2, <4>1, <4>2
    <3> QED BY <3>1, <3>2
  <2>5. Right(f)
    BY <2>4
  <2> QED BY <2>5
<1>3. Right(drawn)
  BY <1>2, Zenon
<1>4. SetCharFontVertical(pixels, column, row, glyph, high) = drawn[wide]
  BY <1>0, Zenon DEF SetCharFontVertical
<1>5. \A k \in 0 .. wide : drawn[k] = IF k = 0 THEN pixels ELSE Draw(drawn[k - 1], k)
  <2> HIDE DEF Draw, drawn
  <2> QED BY <1>3
<1> HIDE DEF drawn, Draw
<1>6. 0 \in T
  <2>1. drawn[0] = pixels
    BY <1>5
  <2>2. \A c \in 0 .. Columns - 1, r \in 0 .. Rows - 1 : Shows(drawn[0], c, r, 0)
    BY <2>1
  <2> QED BY <2>1, <2>2
<1>7. ASSUME NEW k \in Nat, k \in T PROVE k + 1 \in T
  <2> SUFFICES ASSUME NEW l \in 1 .. wide, l = k + 1
               PROVE  /\ drawn[l] \in SUBSET Pixels
                      /\ \A c \in 0 .. Columns - 1, r \in 0 .. Rows - 1 : Shows(drawn[l], c, r, l)
    <3>1. k + 1 \in Nat /\ k + 1 <= wide => k + 1 \in 1 .. wide
      OBVIOUS
    <3> HIDE DEF Shows
    <3> QED BY <3>1
  <2>1. PICK x \in SUBSET Pixels : x = drawn[k] /\ \A c \in 0 .. Columns - 1, r \in 0 .. Rows - 1 : Shows(x, c, r, k)
    BY <1>7
  <2>2. l - 1 = k /\ k <= wide
    OBVIOUS
  <2>3. drawn[l] = Draw(x, l)
    BY <1>5, <2>1, <2>2
  <2>4. ASSUME NEW c \in 0 .. Columns - 1, NEW r \in 0 .. Rows - 1 PROVE Shows(drawn[l], c, r, l)
    <3>1. r * Columns + c \in drawn[l] <=>
                    IF c = column + k /\ r \in row .. row + high - 1
                      THEN r - row \in glyph.lines[k]
                      ELSE r * Columns + c \in x
      BY <1>1, <2>2, <2>3
    <3>2. Shows(x, c, r, k)
      BY <2>1
    <3>3. c \in Nat
      BY LetterMatrixAssumption
    <3>4. c \in column .. column + l - 1 <=> c \in column .. column + k - 1 \/ c = column + k
      BY <2>2, <3>3
    <3>5. c = column + k => c - column = k /\ c \notin column .. column + k - 1
      BY <3>3
    <3> QED BY <3>1, <3>2, <3>4, <3>5
  <2>5. drawn[l] \in SUBSET Pixels
    <3>1. Draw(x, l) \in SUBSET Pixels
      BY <1>1
    <3> QED BY <2>3, <3>1
  <2> QED BY <2>4, <2>5
<1>8. wide \in T
  <2> HIDE DEF T
  <2> QED BY <1>6, <1>7, EveryNumber
<1> QED BY <1>0, <1>4, <1>8

\* The rows a glyph may light.
GlyphRows(f) == GetRowCenter(f) .. GetRowCenter(f) + Height[f] - 1

\* The pieces of a strip: a glyph and a blank column behind it.
PieceOf(f, char) == [c \in 1 .. GetFontCharWidth(f, char) |-> Column(f, char, c - 1)] \o << {} >>
PiecesOf(f, chars) == [i \in DOMAIN chars |-> PieceOf(f, chars[i])]
StripOf(f, chars) == FlattenSeq(PiecesOf(f, chars))

\* A display shows a stretch of a strip behind what stood there before.
ShowsStrip(pixels, old, strip, n) ==
  \A c \in 0 .. Columns - 1 :
    Look(pixels, c) = IF c + n < Columns THEN Look(old, c + n) ELSE strip[c + n - Columns + 1]

\* What is loaded is through to where the run stands: to its end, to the end of a glyph, or to
\* a column of the glyph that was loaded last.
RunIsAt(strip) ==
  \/ state = "idle" /\ shifts = Len(strip) + 1
  \/ state = "textShift" /\ shift = "idle" /\ shifts = Len(strip)
  \/ /\ state = "textShift" /\ shift = "busy"
     /\ width = GetFontCharWidth(shiftFont, character)
     /\ counter \in 0 .. width - 1
     /\ shifts = Len(strip) - 1 - counter
     /\ Len(strip) > width
     /\ \A d \in 0 .. width - 1 : strip[Len(strip) - width + d] = Column(shiftFont, character, d)
     /\ strip[Len(strip)] = {}

WindowInv ==
  /\ lit \in SUBSET Pixels
  /\ font \in [Overlays -> Fonts] /\ shiftFont \in Fonts
  /\ shifts \in Nat /\ loaded \in Seq(Chars)
  /\ showing = NoOverlay => state = "idle"
  /\ showing # NoOverlay =>
       /\ ShowsStrip(lit, before, Strip, shifts)
       /\ RunIsAt(StripOf(shiftFont, loaded))

-----------------------------------------------------------------------------

\* Where a glyph stands on the grid, and that all of it does.
LEMMA GlyphFacts ==
  ASSUME NEW f \in Fonts, NEW char
  PROVE  /\ GetFontCharWidth(f, char) \in 1 .. Columns
         /\ Height[f] \in Nat \ {0} /\ GetRowCenter(f) \in Nat
         /\ GlyphRows(f) \subseteq 0 .. Rows - 1
<1>1. ConvertCharToFontIndex(f, char) \in Drawable(f)
  BY TextFontAssumption DEF ConvertCharToFontIndex
<1>2. GetFontCharWidth(f, char) \in 1 .. Width[f] /\ Width[f] \in 1 .. Columns
  BY <1>1, TextFontAssumption DEF GetFontCharWidth
<1>3. Columns \in Nat /\ Rows \in Nat \ {0}
  BY LetterMatrixAssumption
<1>4. PICK h \in Nat \ {0}, n \in Nat : h = Height[f] /\ n = Rows /\ h <= n
  BY <1>3, TextFontAssumption
<1>5. n \div 2 - h \div 2 \in Nat /\ n \div 2 - h \div 2 + h <= n
  BY <1>4
<1>6. GetRowCenter(f) = n \div 2 - h \div 2
  BY <1>4 DEF GetRowCenter
<1> QED BY <1>2, <1>3, <1>4, <1>5, <1>6 DEF GlyphRows

\* A column of a glyph lights no other rows.
LEMMA ColumnRows ==
  ASSUME NEW f \in Fonts, NEW char, NEW d
  PROVE  Column(f, char, d) \subseteq GlyphRows(f) /\ Column(f, char, d) \in SUBSET Nat
<1>1. GetRowCenter(f) \in Nat /\ Height[f] \in Nat
  BY GlyphFacts
<1>2. ASSUME NEW x \in Column(f, char, d) PROVE x \in GlyphRows(f) /\ x \in Nat
  <2>1. PICK r \in 0 .. Height[f] - 1 : x = GetRowCenter(f) + r
    BY DEF Column
  <2> QED BY <1>1, <2>1 DEF GlyphRows
<1> QED BY <1>2

\* A drawn glyph is seen in its columns, where nothing but its rows was lit, and nowhere else.
LEMMA SetCharLooks ==
  ASSUME NEW pixels \in SUBSET Pixels, NEW f \in Fonts, NEW char, NEW column \in 0 .. Columns - 1
  PROVE  LET wide == GetFontCharWidth(f, char)
             drawn == SetChar(pixels, column, GetRowCenter(f), char, f)
         IN /\ drawn \in SUBSET Pixels
            /\ \A c \in 0 .. Columns - 1 :
                 /\ c \notin column .. column + wide - 1 => Look(drawn, c) = Look(pixels, c)
                 /\ c \in column .. column + wide - 1 /\ Look(pixels, c) \subseteq GlyphRows(f) =>
                      Look(drawn, c) = Column(f, char, c - column)
<1> DEFINE glyph == Glyphs[f][ConvertCharToFontIndex(f, char)]
           drawn == SetChar(pixels, column, GetRowCenter(f), char, f)
           Bit(c, r) == IF Orientation[f] = "vertical" THEN r \in glyph.lines[c] ELSE c \in glyph.lines[r]
<1>1. PICK wide \in Nat, high \in Nat, top \in Nat :
        wide = glyph.width /\ high = Height[f] /\ top = GetRowCenter(f)
  BY GlyphFacts DEF GetFontCharWidth
<1>2. GetFontCharWidth(f, char) = wide
  BY <1>1 DEF GetFontCharWidth
<1>3. column \in Nat
  OBVIOUS
<1>4. GlyphRows(f) = top .. top + high - 1 /\ \A r \in top .. top + high - 1 : r \in 0 .. Rows - 1
  BY <1>1, GlyphFacts DEF GlyphRows
<1>5. \A d : Column(f, char, d) = {top + r : r \in {k \in 0 .. high - 1 : Bit(d, k)}}
  BY <1>1, Zenon DEF Column
<1>6. drawn = IF Orientation[f] = "vertical"
                THEN SetCharFontVertical(pixels, column, top, glyph, high)
                ELSE SetCharFontHorizontal(pixels, column, top, glyph, high)
  BY <1>1, Zenon DEF SetChar
<1> HIDE DEF drawn, glyph
<1>7. /\ drawn \in SUBSET Pixels
      /\ \A c \in 0 .. Columns - 1, r \in 0 .. Rows - 1 :
           r * Columns + c \in drawn <=>
             IF c \in column .. column + wide - 1 /\ r \in top .. top + high - 1
               THEN Bit(c - column, r - top)
               ELSE r * Columns + c \in pixels
  <2>0. glyph.width \in Nat
    BY <1>1
  <2>1. CASE Orientation[f] = "vertical"
    <3>1. /\ SetCharFontVertical(pixels, column, top, glyph, high) \in SUBSET Pixels
          /\ \A c \in 0 .. Columns - 1, r \in 0 .. Rows - 1 :
               r * Columns + c \in SetCharFontVertical(pixels, column, top, glyph, high) <=>
                 IF c \in column .. column + glyph.width - 1 /\ r \in top .. top + high - 1
                   THEN r - top \in glyph.lines[c - column]
                   ELSE r * Columns + c \in pixels
      BY <1>3, <2>0, ColumnsAreDrawn
    <3> QED BY <1>1, <1>6, <2>1, <3>1
  <2>2. CASE Orientation[f] # "vertical"
    <3>1. /\ SetCharFontHorizontal(pixels, column, top, glyph, high) \in SUBSET Pixels
          /\ \A c \in 0 .. Columns - 1, r \in 0 .. Rows - 1 :
               r * Columns + c \in SetCharFontHorizontal(pixels, column, top, glyph, high) <=>
                 IF r \in top .. top + high - 1 /\ c \in column .. column + glyph.width - 1
                   THEN c - column \in glyph.lines[r - top]
                   ELSE r * Columns + c \in pixels
      BY <1>3, <2>0, RowsAreDrawn
    <3> QED BY <1>1, <1>6, <2>2, <3>1
  <2> QED BY <2>1, <2>2
<1> HIDE DEF Bit
<1>8. ASSUME NEW c \in 0 .. Columns - 1
      PROVE  /\ c \notin column .. column + wide - 1 => Look(drawn, c) = Look(pixels, c)
             /\ c \in column .. column + wide - 1 /\ Look(pixels, c) \subseteq GlyphRows(f) =>
                  Look(drawn, c) = Column(f, char, c - column)
  <2>1. /\ Look(drawn, c) = {r \in 0 .. Rows - 1 : r * Columns + c \in drawn}
        /\ Look(pixels, c) = {r \in 0 .. Rows - 1 : r * Columns + c \in pixels}
    BY <1>7, LookIs
  <2>2. CASE c \notin column .. column + wide - 1
    BY <1>7, <2>1, <2>2
  <2>3. ASSUME c \in column .. column + wide - 1, Look(pixels, c) \subseteq GlyphRows(f)
        PROVE  Look(drawn, c) = Column(f, char, c - column)
    <3>1. ASSUME NEW r \in 0 .. Rows - 1
          PROVE  r * Columns + c \in drawn <=> r \in top .. top + high - 1 /\ Bit(c - column, r - top)
      <4>1. r * Columns + c \in drawn <=>
             IF r \in top .. top + high - 1 THEN Bit(c - column, r - top) ELSE r * Columns + c \in pixels
        BY <1>7, <2>3
      <4>2. r * Columns + c \in pixels => r \in top .. top + high - 1
        BY <1>4, <2>1, <2>3
      <4> QED BY <4>1, <4>2
    <3>2. Look(drawn, c) = {r \in top .. top + high - 1 : Bit(c - column, r - top)}
      BY <1>4, <2>1, <3>1
    <3>3. ASSUME NEW r
          PROVE  r \in top .. top + high - 1 /\ Bit(c - column, r - top)
                   <=> \E k \in 0 .. high - 1 : Bit(c - column, k) /\ r = top + k
      <4>1. ASSUME r \in top .. top + high - 1, Bit(c - column, r - top)
            PROVE  \E k \in 0 .. high - 1 : Bit(c - column, k) /\ r = top + k
        <5>1. PICK k : k = r - top
          OBVIOUS
        <5>2. k \in 0 .. high - 1 /\ r = top + k /\ Bit(c - column, k)
          BY <4>1, <5>1
        <5> QED BY <5>2
      <4>2. ASSUME NEW k \in 0 .. high - 1, Bit(c - column, k), r = top + k
            PROVE  r \in top .. top + high - 1 /\ Bit(c - column, r - top)
        <5>1. r - top = k
          BY <4>2
        <5> QED BY <4>2, <5>1
      <4> QED BY <4>1, <4>2
    <3> QED BY <1>5, <3>2, <3>3
  <2> QED BY <2>2, <2>3
<1> QED BY <1>2, <1>7, <1>8 DEF drawn

\* A piece is as long as its glyph is wide, and a blank column more.
LEMMA PieceFacts ==
  ASSUME NEW f \in Fonts, NEW char, NEW wide \in Nat, wide = GetFontCharWidth(f, char)
  PROVE  /\ PieceOf(f, char) \in Seq(SUBSET Nat) /\ Len(PieceOf(f, char)) = wide + 1
         /\ \A d \in 0 .. wide - 1 : PieceOf(f, char)[d + 1] = Column(f, char, d)
         /\ PieceOf(f, char)[wide + 1] = {}
<1> DEFINE look == [c \in 1 .. wide |-> Column(f, char, c - 1)]
<1>1. look \in Seq(SUBSET Nat) /\ Len(look) = wide
  <2>1. \A c \in 1 .. wide : Column(f, char, c - 1) \in SUBSET Nat
    BY ColumnRows
  <2> QED BY <2>1
<1>2. \A d \in 0 .. wide - 1 : look[d + 1] = Column(f, char, d)
  <2> SUFFICES ASSUME NEW d \in 0 .. wide - 1 PROVE look[d + 1] = Column(f, char, d)
    OBVIOUS
  <2>1. d + 1 \in 1 .. wide /\ (d + 1) - 1 = d
    OBVIOUS
  <2> QED BY <2>1
<1>3. PieceOf(f, char) = look \o << {} >>
  BY DEF PieceOf
<1> HIDE DEF look
<1>4. << {} >> \in Seq(SUBSET Nat) /\ Len(<< {} >>) = 1 /\ << {} >>[1] = {}
  OBVIOUS
<1>5. /\ look \o << {} >> \in Seq(SUBSET Nat) /\ Len(look \o << {} >>) = wide + 1
      /\ \A i \in 1 .. wide : (look \o << {} >>)[i] = look[i]
      /\ (look \o << {} >>)[wide + 1] = {}
  BY <1>1, <1>4
<1>6. \A d \in 0 .. wide - 1 : d + 1 \in 1 .. wide
  OBVIOUS
<1> QED BY <1>2, <1>3, <1>5, <1>6

\* One character more is one piece more.
LEMMA StripGrows ==
  ASSUME NEW f \in Fonts, NEW chars \in Seq(Chars), NEW char
  PROVE  /\ StripOf(f, chars) \in Seq(SUBSET Nat)
         /\ StripOf(f, Append(chars, char)) = StripOf(f, chars) \o PieceOf(f, char)
<1>1. \A x : PieceOf(f, x) \in Seq(SUBSET Nat)
  <2> SUFFICES ASSUME NEW x PROVE PieceOf(f, x) \in Seq(SUBSET Nat)
    OBVIOUS
  <2>1. GetFontCharWidth(f, x) \in Nat
    BY GlyphFacts
  <2> QED BY <2>1, PieceFacts
<1>2. PiecesOf(f, chars) \in Seq(Seq(SUBSET Nat))
  <2>1. PICK n \in Nat : n = Len(chars) /\ DOMAIN chars = 1 .. n
    OBVIOUS
  <2> QED BY <1>1, <2>1 DEF PiecesOf
<1>3. PiecesOf(f, Append(chars, char)) = Append(PiecesOf(f, chars), PieceOf(f, char))
  <2>1. PICK n \in Nat : n = Len(chars) /\ DOMAIN chars = 1 .. n
    OBVIOUS
  <2>2. /\ DOMAIN Append(chars, char) = 1 .. n + 1
        /\ \A i \in 1 .. n : Append(chars, char)[i] = chars[i]
        /\ Append(chars, char)[n + 1] = char
    BY <2>1
  <2> DEFINE one == Append(PiecesOf(f, chars), PieceOf(f, char))
  <2>3. Len(PiecesOf(f, chars)) = n /\ \A i \in 1 .. n : PiecesOf(f, chars)[i] = PieceOf(f, chars[i])
    BY <2>1 DEF PiecesOf
  <2>4. /\ one = [i \in 1 .. n + 1 |-> one[i]]
        /\ \A i \in 1 .. n : one[i] = PieceOf(f, chars[i])
        /\ one[n + 1] = PieceOf(f, char)
    <3>1. one \in Seq(Seq(SUBSET Nat)) /\ Len(one) = n + 1
      BY <1>1, <1>2, <2>3
    <3>2. one = [i \in 1 .. n + 1 |-> one[i]]
      <4> HIDE DEF one
      <4> QED BY <3>1, LenProperties
    <3> QED BY <1>1, <1>2, <2>3, <3>2
  <2> HIDE DEF one
  <2>5. \A i \in 1 .. n + 1 : one[i] = PieceOf(f, Append(chars, char)[i])
    <3> SUFFICES ASSUME NEW i \in 1 .. n + 1 PROVE one[i] = PieceOf(f, Append(chars, char)[i])
      OBVIOUS
    <3>1. i \in 1 .. n \/ i = n + 1
      OBVIOUS
    <3> QED BY <2>2, <2>4, <3>1
  <2>6. one = [i \in 1 .. n + 1 |-> PieceOf(f, Append(chars, char)[i])]
    BY <2>4, <2>5
  <2>7. PiecesOf(f, Append(chars, char)) = [i \in 1 .. n + 1 |-> PieceOf(f, Append(chars, char)[i])]
    BY <2>2 DEF PiecesOf
  <2> QED BY <2>6, <2>7 DEF one
<1>4. PICK pieces \in Seq(Seq(SUBSET Nat)), piece \in Seq(SUBSET Nat) :
        pieces = PiecesOf(f, chars) /\ piece = PieceOf(f, char)
  BY <1>1, <1>2
<1>5. FlattenSeq(pieces) \in Seq(SUBSET Nat) /\ FlattenSeq(Append(pieces, piece)) = FlattenSeq(pieces) \o piece
  BY FlatAppend
<1> QED BY <1>3, <1>4, <1>5 DEF StripOf

\* The run's strip is that of what it has loaded, and a blank column.
LEMMA StripIs == Strip = StripOf(shiftFont, loaded) \o << {} >>
BY Zenon DEF Strip, StripOf, PiecesOf, PieceOf

\* The window moves a column on when the display shifts and the next column of the strip comes in.
LEMMA WindowMoves ==
  ASSUME NEW pixels, NEW next, NEW old, NEW strip, NEW longer, NEW n \in Nat,
         ShowsStrip(pixels, old, strip, n),
         \A i \in 1 .. n : longer[i] = strip[i],
         \A c \in 0 .. Columns - 1 :
           Look(next, c) = IF c + 1 < Columns THEN Look(pixels, c + 1) ELSE longer[n + 1]
  PROVE  ShowsStrip(next, old, longer, n + 1)
<1>1. PICK m \in Nat \ {0} : m = Columns
  BY LetterMatrixAssumption
<1>2. ASSUME NEW c \in 0 .. m - 1
      PROVE  Look(next, c) = IF c + (n + 1) < m THEN Look(old, c + (n + 1)) ELSE longer[c + (n + 1) - m + 1]
  <2>1. CASE c + 1 < m
    <3>1. PICK k \in 0 .. m - 1 : k = c + 1
      BY <2>1
    <3>2. Look(next, c) = Look(pixels, k)
      BY <1>1, <2>1, <3>1
    <3>3. Look(pixels, k) = IF k + n < m THEN Look(old, k + n) ELSE strip[k + n - m + 1]
      BY <1>1 DEF ShowsStrip
    <3>4. k + n = c + (n + 1) /\ k + n - m + 1 = c + (n + 1) - m + 1
      BY <3>1
    <3>5. k + n >= m => k + n - m + 1 \in 1 .. n
      BY <3>1
    <3> QED BY <3>2, <3>3, <3>4, <3>5
  <2>2. CASE c + 1 >= m
    <3>1. c = m - 1 /\ ~(c + (n + 1) < m) /\ c + (n + 1) - m + 1 = n + 1
      BY <2>2
    <3> QED BY <1>1, <2>2, <3>1
  <2> QED BY <2>1, <2>2
<1> QED BY <1>1, <1>2 DEF ShowsStrip

\* The next column of a glyph comes in behind the ones that are shown.
LEMMA NextColumnComesIn ==
  ASSUME lit \in SUBSET Pixels, shiftFont \in Fonts, NEW char, NEW wide \in Nat,
         wide = GetFontCharWidth(shiftFont, char), NEW left \in 1 .. wide,
         \A d \in 0 .. wide - left - 1 : Look(lit, Columns - wide + left + d) = Column(shiftFont, char, d)
  PROVE  /\ CharShift(char, wide, left) \in SUBSET Pixels
         /\ \A c \in 0 .. Columns - 1 :
              Look(CharShift(char, wide, left), c) =
                IF c + 1 < Columns THEN Look(lit, c + 1) ELSE Column(shiftFont, char, wide - left)
<1>1. PICK m \in Nat \ {0} : m = Columns
  BY LetterMatrixAssumption
<1>2. wide \in 1 .. m
  BY <1>1, GlyphFacts
<1>3. PICK place \in 0 .. m - 1 : place = m - wide + (left - 1)
  BY <1>2
<1>4. PICK pixels \in SUBSET Pixels :
        /\ pixels = ShiftLeft(lit)
        /\ \A c \in 0 .. m - 1 : Look(pixels, c) = IF c + 1 < m THEN Look(lit, c + 1) ELSE {}
  BY <1>1, ShiftLooks
<1> DEFINE drawn == SetChar(pixels, place, GetRowCenter(shiftFont), char, shiftFont)
<1>5. CharShift(char, wide, left) = drawn
  BY <1>1, <1>3, <1>4 DEF CharShift
<1>6. /\ drawn \in SUBSET Pixels
      /\ \A c \in 0 .. m - 1 :
           /\ c \notin place .. place + wide - 1 => Look(drawn, c) = Look(pixels, c)
           /\ c \in place .. place + wide - 1 /\ Look(pixels, c) \subseteq GlyphRows(shiftFont) =>
                Look(drawn, c) = Column(shiftFont, char, c - place)
  BY <1>1, SetCharLooks
<1> HIDE DEF drawn
<1>7. ASSUME NEW c \in 0 .. m - 1
      PROVE  Look(drawn, c) = IF c + 1 < m THEN Look(lit, c + 1) ELSE Column(shiftFont, char, wide - left)
  <2>1. CASE c < place
    <3>1. c \notin place .. place + wide - 1 /\ c + 1 < m
      BY <2>1
    <3> QED BY <1>4, <1>6, <3>1
  <2>2. CASE c >= place
    <3>1. c \in place .. place + wide - 1
      BY <1>2, <1>3, <2>2
    <3>2. CASE c + 1 < m
      <4>1. PICK d \in 0 .. wide - left - 1 : d = c - place
        BY <1>2, <1>3, <2>2, <3>2
      <4>2. c + 1 = m - wide + left + d
        BY <1>3, <4>1
      <4>3. Look(lit, c + 1) = Column(shiftFont, char, d)
        BY <1>1, <4>2
      <4>4. Look(pixels, c) = Column(shiftFont, char, d)
        BY <1>4, <3>2, <4>3
      <4>5. Look(pixels, c) \subseteq GlyphRows(shiftFont)
        BY <4>4, ColumnRows
      <4> QED BY <1>6, <3>1, <3>2, <4>1, <4>3, <4>5
    <3>3. CASE c + 1 >= m
      <4>1. c - place = wide - left
        BY <1>2, <1>3, <3>3
      <4>2. Look(pixels, c) = {}
        BY <1>4, <3>3
      <4>3. Look(drawn, c) = Column(shiftFont, char, c - place)
        BY <1>6, <3>1, <4>2
      <4> QED BY <3>3, <4>1, <4>3
    <3> QED BY <3>2, <3>3
  <2> QED BY <2>1, <2>2
<1> QED BY <1>1, <1>5, <1>6, <1>7

\* Nothing is lit but pixels, and no run shows, before the first show.
LEMMA InitWindow == TextInit => WindowInv
<1> SUFFICES ASSUME TextInit PROVE WindowInv
  OBVIOUS
<1>1. lit \in SUBSET Pixels /\ FirstFont \in Fonts
  BY TextShowAssumption DEF TextInit
<1>2. << >> \in Seq(Chars)
  OBVIOUS
<1> QED BY <1>1, <1>2 DEF TextInit, WindowInv

\* A run begins with what stands on the display, and nothing of its strip.
LEMMA FreshWindow ==
  ASSUME WindowInv, NEW overlay \in Overlays, showing' = overlay, SetTextWithShift(overlay), UNCHANGED << lit, font >>
  PROVE  WindowInv'
<1>1. /\ state' = "textShift" /\ shift' = "idle" /\ shiftFont' = font[overlay]
      /\ before' = lit /\ loaded' = << >> /\ shifts' = 0
  BY DEF SetTextWithShift
<1>2. shiftFont' \in Fonts /\ << >> \in Seq(Chars)
  BY <1>1 DEF WindowInv
<1>3. StripOf(shiftFont', << >>) = << >>
  <2>1. PiecesOf(shiftFont', << >>) = << >>
    BY DEF PiecesOf
  <2> QED BY <2>1, FlatNothing DEF StripOf
<1>4. RunIsAt(StripOf(shiftFont, loaded))'
  <2>1. Len(<< >>) = 0
    OBVIOUS
  <2>2. StripOf(shiftFont, loaded)' = << >>
    BY <1>1, <1>3
  <2> QED BY <1>1, <2>1, <2>2 DEF RunIsAt
<1>5. ShowsStrip(lit, before, Strip, shifts)'
  <2> SUFFICES \A c \in 0 .. Columns - 1 : Look(lit, c) = IF c + 0 < Columns THEN Look(lit, c + 0) ELSE Strip'[c + 0 - Columns + 1]
    BY <1>1 DEF ShowsStrip
  <2>1. Columns \in Nat
    BY LetterMatrixAssumption
  <2> QED BY <2>1
<1>6. showing' # NoOverlay
  BY TextShowAssumption
<1> QED BY <1>1, <1>2, <1>4, <1>5, <1>6 DEF WindowInv

\* A command or a new string changes nothing a run has shown.
LEMMA SameWindow ==
  ASSUME WindowInv, font' \in [Overlays -> Fonts],
         UNCHANGED << lit, before, shifts, loaded, shiftFont >>,
         \/ showing' = NoOverlay /\ state' = "idle"
         \/ UNCHANGED << showing, state, shift, character, width, counter >>
  PROVE  WindowInv'
<1>1. Strip' = Strip /\ StripOf(shiftFont, loaded)' = StripOf(shiftFont, loaded)
  BY DEF Strip
<1>2. CASE showing' = NoOverlay /\ state' = "idle"
  BY <1>2 DEF WindowInv
<1>3. CASE UNCHANGED << showing, state, shift, character, width, counter >>
  <2>1. showing # NoOverlay => RunIsAt(StripOf(shiftFont, loaded))'
    BY <1>1, <1>3 DEF WindowInv, RunIsAt
  <2>2. showing # NoOverlay => ShowsStrip(lit, before, Strip, shifts)'
    BY <1>1, <1>3 DEF WindowInv, ShowsStrip
  <2> QED BY <1>3, <2>1, <2>2 DEF WindowInv
<1> QED BY <1>2, <1>3

\* The end of a show, after which DisplayManager draws.
LEMMA EndedWindow ==
  ASSUME WindowInv, font' \in [Overlays -> Fonts], showing' = NoOverlay, state' = "idle", lit' \in Faces \/ lit' = lit,
         UNCHANGED << before, shifts, loaded, shiftFont >>
  PROVE  WindowInv'
<1>1. lit' \in SUBSET Pixels
  BY TextShowAssumption DEF WindowInv
<1> QED BY <1>1 DEF WindowInv

LEMMA StripIsAfterwards == Strip' = (StripOf(shiftFont, loaded) \o << {} >>)'
BY Zenon DEF Strip, StripOf, PiecesOf, PieceOf

\* A strip and the blank column behind it.
LEMMA BlankBehind ==
  ASSUME NEW strip \in Seq(SUBSET Nat)
  PROVE  /\ Len(strip) \in Nat
         /\ \A i \in 1 .. Len(strip) : (strip \o << {} >>)[i] = strip[i]
         /\ (strip \o << {} >>)[Len(strip) + 1] = {}
<1>1. << {} >> \in Seq(SUBSET Nat) /\ Len(<< {} >>) = 1 /\ << {} >>[1] = {}
  OBVIOUS
<1> QED BY <1>1

\* The text is through: a blank column comes in.
LEMMA EndOfStringWindow == WindowInv /\ EndOfString => WindowInv'
<1> SUFFICES ASSUME WindowInv, EndOfString PROVE WindowInv'
  OBVIOUS
<1>1. /\ state = "textShift" /\ shift = "idle" /\ state' = "idle"
      /\ lit' = ShiftLeft(lit) /\ shifts' = shifts + 1
      /\ UNCHANGED << showing, font, shiftFont, before, loaded >>
  BY DEF EndOfString
<1>2. showing # NoOverlay
  BY <1>1 DEF WindowInv
<1>3. PICK strip \in Seq(SUBSET Nat) : strip = StripOf(shiftFont, loaded)
  BY StripGrows DEF WindowInv
<1>4. shifts = Len(strip) /\ Len(strip) \in Nat
  BY <1>1, <1>2, <1>3 DEF WindowInv, RunIsAt
<1>5. Strip' = Strip /\ Strip[shifts + 1] = {} /\ StripOf(shiftFont, loaded)' = strip
  BY <1>1, <1>3, <1>4, BlankBehind, StripIs DEF Strip
<1>6. ShowsStrip(lit, before, Strip, shifts)
  BY <1>2 DEF WindowInv
<1>7. PICK whole : whole = Strip
  OBVIOUS
<1>8. PICK next : next = ShiftLeft(lit)
  OBVIOUS
<1>9. /\ next \in SUBSET Pixels
      /\ \A c \in 0 .. Columns - 1 :
           Look(next, c) = IF c + 1 < Columns THEN Look(lit, c + 1) ELSE whole[shifts + 1]
  BY <1>5, <1>7, <1>8, ShiftLooks DEF WindowInv
<1>10. ShowsStrip(next, before, whole, shifts + 1)
  BY <1>4, <1>6, <1>7, <1>9, WindowMoves
<1>11. ShowsStrip(lit, before, Strip, shifts)'
  BY <1>1, <1>5, <1>7, <1>8, <1>10 DEF ShowsStrip
<1>12. RunIsAt(StripOf(shiftFont, loaded))'
  BY <1>1, <1>4, <1>5 DEF RunIsAt
<1> QED BY <1>1, <1>2, <1>4, <1>8, <1>9, <1>11, <1>12 DEF WindowInv

\* A character is loaded: its glyph joins the strip, and its first column comes in.
LEMMA LoadCharWindow == WindowInv /\ IInv /\ LoadChar => WindowInv'
<1> SUFFICES ASSUME WindowInv, IInv, LoadChar PROVE WindowInv'
  OBVIOUS
<1>1. PICK char : char = buffers[source][at]
  OBVIOUS
<1>2. /\ state = "textShift" /\ shift = "idle" /\ char # Nul
      /\ loaded' = Append(loaded, char)
      /\ CharShiftTask(char, GetFontCharWidth(shiftFont, char), GetFontCharWidth(shiftFont, char))
      /\ UNCHANGED << showing, font, state, shiftFont, before >>
  BY <1>1 DEF LoadChar
<1>3. char \in Chars
  <2>1. at \in 0 .. Size - 1
    BY TextShowAssumption DEF IInv, PointerType, TextEndsInItsBuffer
  <2>2. buffers[source] \in Buffers
    BY DEF IInv, PointerType
  <2> QED BY <1>1, <1>2, <2>1, <2>2 DEF Buffers
<1>4. PICK wide \in Nat \ {0} : wide = GetFontCharWidth(shiftFont, char)
  BY GlyphFacts DEF WindowInv
<1>5. /\ lit' = CharShift(char, wide, wide) /\ shifts' = shifts + 1
      /\ character' = char /\ width' = wide /\ counter' = wide - 1 /\ shift' = "busy"
  BY <1>2, <1>4 DEF CharShiftTask
<1>6. showing # NoOverlay
  BY <1>2 DEF WindowInv
<1>7. PICK strip \in Seq(SUBSET Nat) : strip = StripOf(shiftFont, loaded)
  BY StripGrows DEF WindowInv
<1>8. PICK piece \in Seq(SUBSET Nat) :
        /\ piece = PieceOf(shiftFont, char) /\ Len(piece) = wide + 1
        /\ \A d \in 0 .. wide - 1 : piece[d + 1] = Column(shiftFont, char, d)
        /\ piece[wide + 1] = {}
  <2>1. wide \in Nat /\ shiftFont \in Fonts
    BY DEF WindowInv
  <2> QED BY <1>4, <2>1, PieceFacts
<1>9. PICK longer \in Seq(SUBSET Nat) :
        /\ longer = strip \o piece /\ Len(longer) = Len(strip) + Len(piece)
        /\ \A i \in 1 .. Len(strip) + Len(piece) :
             longer[i] = IF i <= Len(strip) THEN strip[i] ELSE piece[i - Len(strip)]
  <2>1. /\ strip \o piece \in Seq(SUBSET Nat) /\ Len(strip \o piece) = Len(strip) + Len(piece)
        /\ \A i \in 1 .. Len(strip) + Len(piece) :
             (strip \o piece)[i] = IF i <= Len(strip) THEN strip[i] ELSE piece[i - Len(strip)]
    BY ConcatProperties
  <2>2. PICK longer : longer = strip \o piece
    OBVIOUS
  <2>3. /\ longer \in Seq(SUBSET Nat) /\ Len(longer) = Len(strip) + Len(piece)
        /\ \A i \in 1 .. Len(strip) + Len(piece) :
             longer[i] = IF i <= Len(strip) THEN strip[i] ELSE piece[i - Len(strip)]
    BY <2>1, <2>2
  <2> QED BY <2>2, <2>3
<1>10. StripOf(shiftFont, loaded)' = longer
  BY <1>2, <1>7, <1>8, <1>9, StripGrows DEF WindowInv
<1>11. shifts = Len(strip) /\ Len(strip) \in Nat
  BY <1>2, <1>6, <1>7 DEF WindowInv, RunIsAt
<1>12. /\ Len(longer) = shifts + wide + 1
       /\ \A i \in 1 .. shifts : longer[i] = strip[i]
       /\ \A i \in 1 .. wide + 1 : longer[shifts + i] = piece[i]
  <2>1. Len(longer) = shifts + wide + 1
    BY <1>8, <1>9, <1>11
  <2>2. ASSUME NEW i \in 1 .. shifts PROVE longer[i] = strip[i]
    <3>1. i \in 1 .. Len(strip) + Len(piece) /\ i <= Len(strip)
      BY <1>8, <1>11
    <3> QED BY <1>9, <3>1
  <2>3. ASSUME NEW i \in 1 .. wide + 1 PROVE longer[shifts + i] = piece[i]
    <3>1. PICK n \in Nat : n = Len(strip)
      BY <1>11
    <3>2. /\ n + i \in 1 .. n + (wide + 1) /\ ~(n + i <= n) /\ n + i - n = i
      OBVIOUS
    <3>3. longer[n + i] = IF n + i <= n THEN strip[n + i] ELSE piece[n + i - n]
      BY <1>8, <1>9, <3>1, <3>2
    <3> QED BY <1>11, <3>1, <3>2, <3>3
  <2> QED BY <2>1, <2>2, <2>3
<1>13. /\ \A d \in 0 .. wide - 1 : longer[shifts + 1 + d] = Column(shiftFont, char, d)
       /\ longer[Len(longer)] = {}
  <2>1. ASSUME NEW d \in 0 .. wide - 1 PROVE longer[shifts + 1 + d] = Column(shiftFont, char, d)
    <3>1. d + 1 \in 1 .. wide + 1 /\ shifts + (d + 1) = shifts + 1 + d
      BY <1>11
    <3> QED BY <1>8, <1>12, <3>1
  <2>2. wide + 1 \in 1 .. wide + 1 /\ shifts + (wide + 1) = Len(longer)
    BY <1>11, <1>12
  <2> QED BY <1>8, <1>12, <2>1, <2>2
<1>14. PICK old, whole : old = Strip /\ whole = longer \o << {} >>
  OBVIOUS
<1>15. Strip' = whole
  <2>1. Strip' = (StripOf(shiftFont, loaded) \o << {} >>)'
    BY StripIsAfterwards
  <2> QED BY <1>10, <1>14, <2>1
<1>16. ASSUME NEW i \in 1 .. shifts PROVE whole[i] = old[i]
  <2>1. old[i] = strip[i]
    BY <1>7, <1>11, <1>14, BlankBehind, StripIs
  <2>2. i \in 1 .. Len(longer)
    BY <1>11, <1>12
  <2> QED BY <1>12, <1>14, <2>1, <2>2, BlankBehind
<1>17. whole[shifts + 1] = Column(shiftFont, char, 0)
  <2>1. shifts + 1 \in 1 .. Len(longer) /\ shifts + 1 + 0 = shifts + 1 /\ 0 \in 0 .. wide - 1
    BY <1>11, <1>12
  <2>2. whole[shifts + 1] = longer[shifts + 1]
    BY <1>14, <2>1, BlankBehind
  <2> QED BY <1>13, <2>1, <2>2
<1>18. PICK next : next = CharShift(char, wide, wide)
  OBVIOUS
<1>19. /\ next \in SUBSET Pixels
       /\ \A c \in 0 .. Columns - 1 :
            Look(next, c) = IF c + 1 < Columns THEN Look(lit, c + 1) ELSE whole[shifts + 1]
  <2>1. wide \in Nat /\ wide \in 1 .. wide /\ wide - wide = 0 /\ 0 .. wide - wide - 1 = {}
    OBVIOUS
  <2>2. lit \in SUBSET Pixels /\ shiftFont \in Fonts
    BY DEF WindowInv
  <2>3. /\ CharShift(char, wide, wide) \in SUBSET Pixels
        /\ \A c \in 0 .. Columns - 1 :
             Look(CharShift(char, wide, wide), c) =
               IF c + 1 < Columns THEN Look(lit, c + 1) ELSE Column(shiftFont, char, wide - wide)
    BY <1>4, <2>1, <2>2, NextColumnComesIn
  <2> QED BY <1>17, <1>18, <2>1, <2>3
<1>20. ShowsStrip(lit, before, old, shifts)
  BY <1>6, <1>14 DEF WindowInv
<1>21. ShowsStrip(next, before, whole, shifts + 1)
  BY <1>11, <1>16, <1>19, <1>20, WindowMoves
<1>22. ShowsStrip(lit, before, Strip, shifts)'
  BY <1>2, <1>5, <1>15, <1>18, <1>21 DEF ShowsStrip
<1>23. RunIsAt(longer)'
  <2>1. /\ wide - 1 \in 0 .. wide - 1 /\ shifts + 1 = Len(longer) - 1 - (wide - 1)
        /\ Len(longer) > wide /\ Len(longer) - wide = shifts + 1
    BY <1>11, <1>12
  <2>2. state' = "textShift" /\ shift' = "busy" /\ width' = GetFontCharWidth(shiftFont', character')
    BY <1>2, <1>4, <1>5
  <2>3. \A d \in 0 .. wide - 1 : longer[Len(longer) - wide + d] = Column(shiftFont, char, d)
    BY <1>13, <2>1
  <2>4. counter' \in 0 .. width' - 1 /\ shifts' = Len(longer) - 1 - counter' /\ Len(longer) > width'
    BY <1>5, <2>1
  <2>5. \A d \in 0 .. width' - 1 : longer[Len(longer) - width' + d] = Column(shiftFont', character', d)
    BY <1>2, <1>5, <2>3
  <2> QED BY <1>13, <2>2, <2>4, <2>5 DEF RunIsAt
<1>24. RunIsAt(StripOf(shiftFont, loaded))'
  BY <1>10, <1>23
<1>25. loaded' \in Seq(Chars)
  BY <1>2, <1>3 DEF WindowInv
<1> QED BY <1>2, <1>5, <1>6, <1>11, <1>18, <1>19, <1>22, <1>24, <1>25 DEF WindowInv

\* A glyph goes on: its next column comes in, or the blank one behind its last.
LEMMA GoOnWindow == WindowInv /\ GoOnShifting => WindowInv'
<1> SUFFICES ASSUME WindowInv, GoOnShifting PROVE WindowInv'
  OBVIOUS
<1>1. /\ state = "textShift" /\ shift = "busy"
      /\ CharShiftTask(character, width, counter)
      /\ UNCHANGED << showing, font, state, shiftFont, before, loaded >>
  BY DEF GoOnShifting
<1>2. showing # NoOverlay
  BY <1>1 DEF WindowInv
<1>3. PICK strip \in Seq(SUBSET Nat) : strip = StripOf(shiftFont, loaded)
  BY StripGrows DEF WindowInv
<1>4. PICK wide \in Nat \ {0} :
        wide = width /\ wide = GetFontCharWidth(shiftFont, character) /\ wide <= Columns
  <2>1. width = GetFontCharWidth(shiftFont, character)
    BY <1>1, <1>2 DEF WindowInv, RunIsAt
  <2>2. GetFontCharWidth(shiftFont, character) \in 1 .. Columns /\ Columns \in Nat
    BY GlyphFacts, LetterMatrixAssumption DEF WindowInv
  <2> QED BY <2>1, <2>2
<1>5. PICK length \in Nat : length = Len(strip)
  BY <1>3
<1>6. PICK left \in 0 .. wide - 1 : left = counter
  BY <1>1, <1>2, <1>4 DEF WindowInv, RunIsAt
<1>7. /\ shifts = length - 1 - left /\ length > wide
      /\ \A d \in 0 .. wide - 1 : strip[length - wide + d] = Column(shiftFont, character, d)
      /\ strip[length] = {}
  BY <1>1, <1>2, <1>3, <1>4, <1>5, <1>6 DEF WindowInv, RunIsAt
<1>8. /\ Strip' = Strip /\ StripOf(shiftFont, loaded)' = strip
      /\ \A i \in 1 .. length : Strip[i] = strip[i]
  <2>1. Strip' = Strip
    BY <1>1 DEF Strip
  <2>2. \A i \in 1 .. Len(strip) : (strip \o << {} >>)[i] = strip[i]
    BY BlankBehind
  <2> QED BY <1>1, <1>3, <1>5, <2>1, <2>2, StripIs
<1>9. PICK whole : whole = Strip
  OBVIOUS
<1>10. PICK n \in Nat : n = shifts
  BY DEF WindowInv
<1>11. n = length - 1 - left /\ length > wide
  BY <1>7, <1>10
<1>12. PICK next \in SUBSET Pixels :
         /\ next = CharShift(character, width, counter)
         /\ \A c \in 0 .. Columns - 1 :
              Look(next, c) = IF c + 1 < Columns THEN Look(lit, c + 1) ELSE whole[n + 1]
  <2>0. lit \in SUBSET Pixels /\ shiftFont \in Fonts
    BY DEF WindowInv
  <2>1. CASE left = 0
    <3>1. CharShift(character, width, counter) = ShiftLeft(lit)
      BY <1>6, <2>1 DEF CharShift
    <3>2. n + 1 = length /\ length \in 1 .. length
      BY <1>4, <1>5, <1>7, <1>10, <2>1
    <3>3. whole[n + 1] = {}
      BY <1>7, <1>8, <1>9, <3>2
    <3>4. /\ ShiftLeft(lit) \in SUBSET Pixels
          /\ \A c \in 0 .. Columns - 1 :
               Look(ShiftLeft(lit), c) = IF c + 1 < Columns THEN Look(lit, c + 1) ELSE {}
      BY <2>0, ShiftLooks
    <3> QED BY <3>1, <3>3, <3>4
  <2>2. CASE left # 0
    <3>1. left \in 1 .. wide
      BY <1>4, <1>6, <2>2
    <3>2. whole[n + 1] = Column(shiftFont, character, wide - left)
      <4>1. /\ wide - left \in 0 .. wide - 1 /\ n + 1 = length - wide + (wide - left)
            /\ n + 1 \in 1 .. length
        BY <1>11, <3>1
      <4>2. strip[length - wide + (wide - left)] = Column(shiftFont, character, wide - left)
        BY <1>7, <4>1
      <4> QED BY <1>8, <1>9, <4>1, <4>2
    <3>3. ASSUME NEW d \in 0 .. wide - left - 1
          PROVE  Look(lit, Columns - wide + left + d) = Column(shiftFont, character, d)
      <4>1. PICK m \in Nat \ {0} : m = Columns /\ wide <= m
        BY <1>4, LetterMatrixAssumption
      <4>2. PICK c \in 0 .. m - 1 : c = m - wide + left + d
        BY <1>4, <3>1, <4>1
      <4>3. Look(lit, c) = IF c + n < m THEN Look(before, c + n) ELSE whole[c + n - m + 1]
        BY <1>2, <1>9, <1>10, <4>1, <4>2 DEF WindowInv, ShowsStrip
      <4>4. /\ ~(c + n < m) /\ c + n - m + 1 = length - wide + d
            /\ length - wide + d \in 1 .. length /\ d \in 0 .. wide - 1
        BY <1>11, <3>1, <4>1, <4>2
      <4>5. whole[length - wide + d] = Column(shiftFont, character, d)
        BY <1>7, <1>8, <1>9, <4>4
      <4>6. Look(lit, c) = whole[length - wide + d]
        BY <4>3, <4>4
      <4> QED BY <4>1, <4>2, <4>5, <4>6
    <3>4. /\ CharShift(character, wide, left) \in SUBSET Pixels
          /\ \A c \in 0 .. Columns - 1 :
               Look(CharShift(character, wide, left), c) =
                 IF c + 1 < Columns THEN Look(lit, c + 1) ELSE Column(shiftFont, character, wide - left)
      BY <1>4, <2>0, <3>1, <3>3, NextColumnComesIn
    <3> QED BY <1>4, <1>6, <3>2, <3>4
  <2> QED BY <2>1, <2>2
<1>13. ShowsStrip(next, before, whole, n + 1)
  <2>1. ShowsStrip(lit, before, whole, n)
    BY <1>2, <1>9, <1>10 DEF WindowInv
  <2> QED BY <1>12, <2>1, WindowMoves
<1>14. /\ lit' = next /\ shifts' = n + 1 /\ character' = character /\ width' = wide
       /\ counter' = (IF left = 0 THEN 0 ELSE left - 1)
       /\ shift' = (IF left = 0 THEN "idle" ELSE "busy")
  BY <1>1, <1>4, <1>6, <1>10, <1>12 DEF CharShiftTask
<1>15. ShowsStrip(lit, before, Strip, shifts)'
  BY <1>1, <1>8, <1>9, <1>13, <1>14 DEF ShowsStrip
<1>16. RunIsAt(strip)'
  <2>1. CASE left = 0
    <3>1. n + 1 = length
      BY <1>5, <1>7, <1>10, <2>1
    <3> QED BY <1>1, <1>5, <1>14, <2>1, <3>1 DEF RunIsAt
  <2>2. CASE left # 0
    <3>1. counter' \in 0 .. wide - 1 /\ shifts' = length - 1 - counter' /\ shift' = "busy"
      BY <1>14, <1>11, <2>2
    <3>2. width' = GetFontCharWidth(shiftFont', character') /\ width' = wide /\ length = Len(strip)
      BY <1>1, <1>4, <1>5, <1>14
    <3>3. /\ \A d \in 0 .. wide - 1 : strip[length - wide + d] = Column(shiftFont', character', d)
          /\ state' = "textShift" /\ length > wide /\ strip[length] = {}
      BY <1>1, <1>7, <1>14
    <3> QED BY <3>1, <3>2, <3>3 DEF RunIsAt
  <2> QED BY <2>1, <2>2
<1>17. RunIsAt(StripOf(shiftFont, loaded))'
  BY <1>8, <1>16
<1> QED BY <1>1, <1>2, <1>10, <1>12, <1>14, <1>15, <1>17 DEF WindowInv

LEMMA NextWindow == WindowInv /\ IInv /\ ShowingType /\ [TextNext]_showVars => WindowInv'
<1> SUFFICES ASSUME WindowInv, IInv, ShowingType, [TextNext]_showVars PROVE WindowInv'
  OBVIOUS
<1>1. CASE LoadChar
  BY <1>1, LoadCharWindow
<1>2. CASE GoOnShifting
  BY <1>2, GoOnWindow
<1>3. CASE EndOfString
  BY <1>3, EndOfStringWindow
<1>4. CASE ShowTask
  <2>1. /\ showing \in Overlays /\ showing' = showing /\ SetTextWithShift(showing)
        /\ UNCHANGED << lit, font >>
    BY <1>4 DEF ShowTask, ShowingType
  <2> QED BY <2>1, FreshWindow
<1>5. CASE SetStateToIdle
  <2>1. /\ showing' = NoOverlay /\ state' = "idle" /\ lit' \in Faces
        /\ UNCHANGED << font, shiftFont, before, loaded, shifts >>
    BY <1>5 DEF SetStateToIdle, Stop, runVars
  <2>2. font' \in [Overlays -> Fonts]
    BY <2>1 DEF WindowInv
  <2> QED BY <2>1, <2>2, EndedWindow
<1>6. CASE \E overlay \in Overlays : SetStateToShow(overlay)
  <2>1. PICK overlay \in Overlays : SetStateToShow(overlay)
    BY <1>6
  <2>2. showing' = overlay /\ SetTextWithShift(overlay) /\ UNCHANGED << lit, font >>
    BY <2>1 DEF SetStateToShow
  <2> QED BY <2>2, FreshWindow
<1>7. CASE SetText
  <2>1. UNCHANGED << lit, showing, font, state, shift, shiftFont, character, width, counter,
                     before, loaded, shifts >>
    BY <1>7 DEF SetText, textVars
  <2>2. font' \in [Overlays -> Fonts]
    BY <2>1 DEF WindowInv
  <2> QED BY <2>1, <2>2, SameWindow
<1>8. CASE SetFont
  <2>1. /\ UNCHANGED << lit, showing, state, shift, shiftFont, character, width, counter,
                        before, loaded, shifts >>
        /\ \E overlay \in Overlays, new \in Fonts : font' = [font EXCEPT ![overlay] = new]
    BY <1>8 DEF SetFont, textVars, runVars
  <2>2. font' \in [Overlays -> Fonts]
    BY <2>1 DEF WindowInv
  <2> QED BY <2>1, <2>2, SameWindow
<1>9. CASE OverlaysResetToDefaults
  <2>1. /\ showing' = NoOverlay /\ font' = [o \in Overlays |-> FirstFont]
        /\ UNCHANGED << shiftFont, before, loaded, shifts >>
        /\ IF showing = NoOverlay THEN UNCHANGED << state, shift, lit >> ELSE Stop /\ lit' \in Faces
    BY <1>9 DEF OverlaysResetToDefaults
  <2>2. state' = "idle" /\ (lit' \in Faces \/ lit' = lit)
    BY <2>1 DEF Stop, WindowInv
  <2>3. font' \in [Overlays -> Fonts]
    BY <2>1, TextShowAssumption
  <2> QED BY <2>1, <2>2, <2>3, EndedWindow
<1>10. CASE UNCHANGED showVars
  <2>1. UNCHANGED << lit, showing, font, state, shift, shiftFont, character, width, counter,
                     before, loaded, shifts >>
    BY <1>10 DEF showVars, textVars, runVars
  <2>2. font' \in [Overlays -> Fonts]
    BY <2>1 DEF WindowInv
  <2> QED BY <2>1, <2>2, SameWindow
<1> QED BY <1>1, <1>2, <1>3, <1>4, <1>5, <1>6, <1>7, <1>8, <1>9, <1>10
        DEF TextNext, TextTask, Overlay, Command

\* Whatever the texts, the fonts, their glyphs, their widths and their orientation, the display
\* shows the text as it is written while it scrolls through: every column of every glyph once and
\* in its place, a blank one behind each (Text::CharShiftTask(), Text::StringShiftTask(),
\* Text::SetChar()).
THEOREM TextScrollsThroughWhole == TextSpec => []DisplayIsAWindow
<1>1. WindowInv => DisplayIsAWindow
  BY DEF WindowInv, ShowsStrip, Look, DisplayIsAWindow
<1>2. TextInit => ShowingType
  BY DEF TextInit, ShowingType
<1> QED BY InitIInv, NextIInv, NextShowingType, InitWindow, NextWindow, <1>1, <1>2, PTL DEF TextSpec

(***************************************************************************)
(* The clock rests on the newest time.                                     *)
(***************************************************************************)

\* The parts of a frame.
Parts == {"display", "enabled", "dark", "fade", "state", "words", "own", "swept"}

IsFrame(f) == f = [part \in Parts |-> f[part]]

\* What a step of an animation that keeps the words leaves: a run that goes on to them, or one
\* that has ended on them; the light and the switch are not its own.
GoesOnToItsWords(f, g) == g.state \in {"clear", "set", "spin"} /\ g.words = f.words
EndsOnItsWords(f, g) == g.state = "idle" /\ g.display = SetClockWords({}, f.words, 0)
StepsToItsWords(f, g) ==
  /\ IsFrame(g)
  /\ g.fade = f.fade /\ g.dark = f.dark /\ g.enabled = f.enabled
  /\ GoesOnToItsWords(f, g) \/ EndsOnItsWords(f, g)

IsRunning(f) == IsFrame(f) /\ f.state \in {"clear", "set"}

\* The whole of what FinishWithClockWords() and Run() do to a frame.
LEMMA Ends ==
  ASSUME NEW f, IsFrame(f)
  PROVE  StepsToItsWords(f, FinishWithClockWords(f))
BY DEF FinishWithClockWords, StepsToItsWords, EndsOnItsWords, IsFrame, Parts

\* A step of Cursor goes on to the words of its table, or ends on them (AnimationCursor.cpp).
LEMMA CursorSteps ==
  ASSUME NEW f, IsRunning(f)
  PROVE  StepsToItsWords(f, CursorTask(f))
BY DEF CursorTask, IsRunning, FinishWithClockWords, StepsToItsWords, GoesOnToItsWords, EndsOnItsWords, IsFrame, Parts

\* So does a step of Snake (AnimationSnake.cpp).
LEMMA SnakeSteps ==
  ASSUME NEW f, IsRunning(f)
  PROVE  StepsToItsWords(f, SnakeTask(f))
BY DEF SnakeTask, IsRunning, FinishWithClockWords, StepsToItsWords, GoesOnToItsWords, EndsOnItsWords, IsFrame, Parts

\* So does a step of Teletype (AnimationTeletype.cpp).
LEMMA TeletypeSteps ==
  ASSUME NEW f, IsRunning(f)
  PROVE  StepsToItsWords(f, TeletypeTask(f))
BY DEF TeletypeTask, Type, IsRunning, FinishWithClockWords, StepsToItsWords, GoesOnToItsWords, EndsOnItsWords, IsFrame, Parts

\* So does a step of Shift (AnimationShift.cpp).
LEMMA ShiftSteps ==
  ASSUME NEW f, IsRunning(f)
  PROVE  StepsToItsWords(f, ShiftTask(f))
BY DEF ShiftTask, Run, IsRunning, FinishWithClockWords, StepsToItsWords, GoesOnToItsWords, EndsOnItsWords, IsFrame, Parts

\* So does a step of Wipe (AnimationWipe.cpp).
LEMMA WipeSteps ==
  ASSUME NEW f, IsRunning(f)
  PROVE  StepsToItsWords(f, WipeTask(f))
BY DEF WipeTask, IsRunning, FinishWithClockWords, StepsToItsWords, GoesOnToItsWords, EndsOnItsWords, IsFrame, Parts

\* So does a step of Collapse (AnimationCollapse.cpp).
LEMMA CollapseSteps ==
  ASSUME NEW f, IsRunning(f)
  PROVE  StepsToItsWords(f, CollapseTask(f))
BY DEF CollapseTask, CollapseReset, IsRunning, Run, Idle, FinishWithClockWords, StepsToItsWords, GoesOnToItsWords, EndsOnItsWords, IsFrame, Parts

\* So does a step of Squeeze (AnimationSqueeze.cpp).
LEMMA SqueezeSteps ==
  ASSUME NEW f, IsRunning(f)
  PROVE  StepsToItsWords(f, SqueezeTask(f))
BY DEF SqueezeTask, IsRunning, Run, Idle, FinishWithClockWords, StepsToItsWords, GoesOnToItsWords, EndsOnItsWords, IsFrame, Parts

\* So does a step of Cube (AnimationCube.cpp).
LEMMA CubeSteps ==
  ASSUME NEW f, IsRunning(f)
  PROVE  StepsToItsWords(f, CubeTask(f))
BY DEF CubeTask, CubeDraw, IsRunning, Run, Idle, FinishWithClockWords, StepsToItsWords, GoesOnToItsWords, EndsOnItsWords, IsFrame, Parts

\* So does a step of Explode pixels (AnimationExplodePixels.cpp).
LEMMA ExplodePixelsSteps ==
  ASSUME NEW f, IsRunning(f)
  PROVE  StepsToItsWords(f, ExplodePixelsTask(f))
BY DEF ExplodePixelsTask, ExplodeOut, IsRunning, Run, Idle, FinishWithClockWords, StepsToItsWords, GoesOnToItsWords, EndsOnItsWords, IsFrame, Parts

\* So does a step of Matrix (AnimationMatrix.cpp).
LEMMA MatrixSteps ==
  ASSUME NEW f, IsRunning(f)
  PROVE  StepsToItsWords(f, MatrixTask(f))
BY DEF MatrixTask, MatrixReset, IsRunning, Run, Idle, FinishWithClockWords, StepsToItsWords, GoesOnToItsWords, EndsOnItsWords, IsFrame, Parts

\* A step that draws and counts, whatever.
LEMMA Draws ==
  ASSUME NEW f, IsRunning(f), NEW pixels, NEW own
  PROVE  StepsToItsWords(f, [f EXCEPT !.own = own, !.display = pixels])
BY DEF IsRunning, StepsToItsWords, GoesOnToItsWords, IsFrame, Parts

\* A step that ends and forgets.
LEMMA EndsAndForgets ==
  ASSUME NEW f, IsRunning(f), NEW own
  PROVE  StepsToItsWords(f, Idle(FinishWithClockWords(f), own))
BY DEF IsRunning, Run, Idle, FinishWithClockWords, StepsToItsWords, GoesOnToItsWords, EndsOnItsWords, IsFrame, Parts

\* A step that begins a phase.
LEMMA RunsOn ==
  ASSUME NEW f, IsFrame(f), NEW phase \in {"clear", "set"}, NEW pixels, NEW own
  PROVE  /\ StepsToItsWords(f, [Run(f, phase, own) EXCEPT !.display = pixels])
         /\ StepsToItsWords(f, Run([f EXCEPT !.display = pixels], phase, own))
BY DEF IsRunning, Run, Idle, FinishWithClockWords, StepsToItsWords, GoesOnToItsWords, EndsOnItsWords, IsFrame, Parts

\* So does a step of Roll (AnimationRoll.cpp).
LEMMA RollSteps ==
  ASSUME NEW f, IsRunning(f)
  PROVE  StepsToItsWords(f, RollTask(f))
<1> DEFINE own    == f.own
           step   == own.step
           rolled == CASE own.direction = "right" -> ShiftRight(f.display) \union FedColumn(f, Columns - step - 1, 0)
                       [] own.direction = "left"  -> ShiftLeft(f.display)  \union FedColumn(f, step, Columns - 1)
                       [] own.direction = "down"  -> ShiftDown(f.display)  \union FedRow(f, Rows - step - 1, 0)
                       [] own.direction = "up"    -> ShiftUp(f.display)    \union FedRow(f, step, Rows - 1)
           next   == [own EXCEPT !.step = step + 1]
<1>1. RollTask(f) = IF step < NumberOfSteps(own.direction)
                      THEN [f EXCEPT !.own = next, !.display = rolled]
                      ELSE Idle(FinishWithClockWords(f), [step |-> 0, direction |-> "right"])
  BY DEF RollTask, RollReset
<1> HIDE DEF rolled, next, step, own
<1>2. /\ StepsToItsWords(f, [f EXCEPT !.own = next, !.display = rolled])
      /\ StepsToItsWords(f, Idle(FinishWithClockWords(f), [step |-> 0, direction |-> "right"]))
  BY Draws, EndsAndForgets
<1> QED BY <1>1, <1>2

\* The first pixel of a phase that drops.
LEMMA DropGoesOn ==
  ASSUME NEW f, IsFrame(f), NEW pixels, NEW own
  PROVE  StepsToItsWords(f, DropNextPixel([f EXCEPT !.display = pixels], own))
BY DEF DropNextPixel, DropSetTimeFrom, IsRunning, Run, Idle, FinishWithClockWords, StepsToItsWords, GoesOnToItsWords, EndsOnItsWords, IsFrame, Parts

\* So does a step of Drop (AnimationDrop.cpp).
LEMMA DropSteps ==
  ASSUME NEW f, IsRunning(f)
  PROVE  StepsToItsWords(f, DropTask(f))
<1>1. StepsToItsWords(f, DropClearTimeTask(f))
  <2>1. IsFrame(f)
    BY DEF IsRunning
  <2> DEFINE own  == f.own
             left == [f EXCEPT !.display = TogglePixels(@, own.column, own.row, 1)]
             next == [left EXCEPT !.own.row = own.row + 1,
                                  !.display = TogglePixels(@, own.column, own.row + 1, 1)]
  <2>2. StepsToItsWords(f, next)
    BY DEF IsRunning, StepsToItsWords, GoesOnToItsWords, IsFrame, Parts
  <2>3. StepsToItsWords(f, DropNextPixel(left, own))
    BY <2>1, DropGoesOn
  <2> HIDE DEF next
  <2> QED BY <2>2, <2>3, Zenon DEF DropClearTimeTask, next
<1>2. StepsToItsWords(f, DropSetTimeTask(f))
  BY Draws, EndsAndForgets DEF DropSetTimeTask, DropReset
<1> QED BY <1>1, <1>2 DEF DropTask

\* From a frame that is only drawn on, the way is the same.
SameRun(f, g) ==
  IsRunning(g) /\ g.words = f.words /\ g.fade = f.fade /\ g.dark = f.dark /\ g.enabled = f.enabled

\* A step from the same run further on is a step of this one.
LEMMA ThenSteps ==
  ASSUME NEW f, NEW g, NEW h, SameRun(f, g), StepsToItsWords(g, h)
  PROVE  StepsToItsWords(f, h)
BY DEF SameRun, StepsToItsWords, GoesOnToItsWords, EndsOnItsWords

\* A pixel switched over is drawn, and nothing else of the run changes by it.
LEMMA Toggles ==
  ASSUME NEW f, IsRunning(f), NEW own
  PROVE  /\ StepsToItsWords(f, Toggled(f, own))
         /\ Counts(own) => SameRun(f, Toggled(f, own))
BY DEF Toggled, SameRun, IsRunning, Run, Idle, FinishWithClockWords, StepsToItsWords, GoesOnToItsWords, EndsOnItsWords, IsFrame, Parts

\* The next word that Explode words takes away or brings back goes on with the run.
LEMMA ExplodeWordsGoesOn ==
  ASSUME NEW f, IsFrame(f), NEW own
  PROVE  StepsToItsWords(f, ToClearOrSet(f, own))
<1>1. StepsToItsWords(f, StartSetTime(f, own))
  BY DEF StartSetTime, IsRunning, Run, Idle, FinishWithClockWords, StepsToItsWords, GoesOnToItsWords, EndsOnItsWords, IsFrame, Parts
<1>2. \A p : StepsToItsWords(f, ToClear(f, own, p))
  BY DEF ToClear, IsRunning, Run, Idle, FinishWithClockWords, StepsToItsWords, GoesOnToItsWords, EndsOnItsWords, IsFrame, Parts
<1> QED BY <1>1, <1>2 DEF ToClearOrSet

\* So does a step of Explode words (AnimationExplodeWords.cpp).
LEMMA ExplodeWordsSteps ==
  ASSUME NEW f, IsRunning(f)
  PROVE  StepsToItsWords(f, ExplodeWordsTask(f))
<1> DEFINE own    == f.own
           goal   == IF f.state = "clear" THEN [column |-> ClearFinalColumn(own.length), row |-> RowCenter]
                     ELSE [column |-> ColumnOf(own.word), row |-> RowOf(own.word)]
           next   == [own EXCEPT !.column = Towards(@, goal.column), !.row = Towards(@, goal.row)]
           left   == Toggled(f, own)
           listed == ListedAfter(f, own.list)
           word   == WordToSet(own, Min(listed), f.words[Min(listed)])
<1>1. ExplodeWordsTask(f) =
        CASE ~ Counts(own)  -> left
          [] Counts(own) /\ next # own -> Toggled(left, next)
          [] Counts(own) /\ next = own /\ f.state = "clear" -> ToClearOrSet(left, own)
          [] Counts(own) /\ next = own /\ f.state = "set" ->
               IF listed = {} THEN FinishWithClockWords(f) ELSE Toggled(f, word)
  BY Zenon DEF ExplodeWordsTask
<1>2. StepsToItsWords(f, left) /\ (Counts(own) => SameRun(f, left))
  BY Toggles
<1>3. StepsToItsWords(f, Toggled(f, word)) /\ StepsToItsWords(f, FinishWithClockWords(f))
  BY Toggles, Ends DEF IsRunning
<1> HIDE DEF own, next, left, listed, word
<1>4. SameRun(f, left) => StepsToItsWords(f, Toggled(left, next)) /\ StepsToItsWords(f, ToClearOrSet(left, own))
  <2> SUFFICES ASSUME SameRun(f, left)
               PROVE  StepsToItsWords(f, Toggled(left, next)) /\ StepsToItsWords(f, ToClearOrSet(left, own))
    OBVIOUS
  <2>1. IsRunning(left) /\ IsFrame(left)
    BY DEF SameRun, IsRunning
  <2>2. StepsToItsWords(left, Toggled(left, next)) /\ StepsToItsWords(left, ToClearOrSet(left, own))
    BY <2>1, Toggles, ExplodeWordsGoesOn
  <2> QED BY <2>2, ThenSteps
<1>5. f.state \in {"clear", "set"}
  BY DEF IsRunning
<1> QED BY <1>1, <1>2, <1>3, <1>4, <1>5

\* The animations that run to the words of their table; the other two keep the time.
OnWords == Animated \ {"Fade", "Flicker"}

\* One step of such an animation.
LEMMA TaskSteps ==
  ASSUME NEW f, IsRunning(f), NEW id \in OnWords
  PROVE  StepsToItsWords(f, TaskOf(id, f))
BY CursorSteps, TeletypeSteps, DropSteps, ShiftSteps, SnakeSteps, WipeSteps, CubeSteps, SqueezeSteps,
   ExplodePixelsSteps, ExplodeWordsSteps, MatrixSteps, RollSteps, CollapseSteps
   DEF TaskOf, OnWords, Animated

\* The start of such an animation.
LEMMA StartSteps ==
  ASSUME NEW f, IsFrame(f), NEW t, NEW id \in OnWords
  PROVE  StepsToItsWords(f, StartOf(id, f, t))
<1>1. \A own : \A phase \in {"clear", "set"} : StepsToItsWords(f, Run(f, phase, own))
  BY DEF IsRunning, Run, Idle, FinishWithClockWords, StepsToItsWords, GoesOnToItsWords, EndsOnItsWords, IsFrame, Parts
<1>2. StepsToItsWords(f, DropStart(f, t))
  <2>1. \A own : StepsToItsWords(f, DropNextPixel(f, own))
    BY <1>1, RunsOn DEF DropNextPixel, DropSetTimeFrom
  <2> QED BY <2>1 DEF DropStart
<1>3. StepsToItsWords(f, ExplodeWordsStart(f, t))
  BY ExplodeWordsGoesOn DEF ExplodeWordsStart
<1>4. StepsToItsWords(f, ExplodePixelsStart(f, t))
  BY RunsOn DEF ExplodePixelsStart
<1> QED BY <1>1, <1>2, <1>3, <1>4
  DEF StartOf, OnWords, Animated, CursorStart, TeletypeStart, ShiftStart, SnakeStart, WipeStart,
      CubeStart, SqueezeStart, MatrixStart, RollStart, CollapseStart

Forgets(f, g) ==
  /\ IsFrame(g) /\ g.display = f.display /\ g.state = "idle"
  /\ g.fade = f.fade /\ g.dark = f.dark /\ g.enabled = f.enabled

\* An animation that is made idle takes nothing from the display; the fade and the switch are
\* only given back.
LEMMA Resets ==
  ASSUME NEW f, IsFrame(f), NEW id \in Animated \cup {NoAnimation}
  PROVE  LET g == ResetOf(id, f)
         IN  /\ IsFrame(g) /\ g.display = f.display
             /\ g.state = IF id = NoAnimation THEN f.state ELSE "idle"
             /\ g.fade = IF id = "Fade" THEN Full ELSE f.fade
             /\ g.dark = IF id = "Flicker" THEN FALSE ELSE f.dark
             /\ id # "Flicker" => g.enabled = f.enabled
             /\ id = "Flicker" => g.enabled = (f.enabled \/ f.dark \/ (WordUnderFlag /\ f.words[0] # None))
             /\ id = "Fade" => g.own = [level |-> Full, time |-> Midnight]
             /\ id = "Flicker" => g.own = [counter |-> FlickerCount, time |-> Midnight, wasEnabled |-> TRUE]
<1> DEFINE g == ResetOf(id, f)
<1>1. CASE id \in OnWords
  <2>0. \A own : Forgets(f, Idle(f, own)) /\ Forgets(f, [f EXCEPT !.state = "idle", !.own = own])
    BY DEF Forgets, Idle, IsFrame, Parts
  <2>1. Forgets(f, g)
    BY <1>1, <2>0 DEF ResetOf, OnWords, Animated, NoAnimation, CursorReset, TeletypeReset, DropReset,
      ShiftReset, SnakeReset, WipeReset, CubeReset, SqueezeReset, ExplodePixelsReset, ExplodeWordsReset,
      MatrixReset, RollReset, CollapseReset
  <2>2. id \notin {"Fade", "Flicker", NoAnimation}
    BY <1>1 DEF OnWords, Animated, NoAnimation
  <2> QED BY <2>1, <2>2 DEF Forgets
<1>2. CASE id = "Fade"
  BY <1>2 DEF ResetOf, FadeReset, Idle, IsFrame, Parts, NoAnimation
<1>3. CASE id = "Flicker"
  BY <1>3 DEF ResetOf, FlickerReset, Idle, IsFrame, Parts, NoAnimation
<1>4. CASE id = NoAnimation
  BY <1>4 DEF ResetOf, NoAnimation
<1> QED BY <1>1, <1>2, <1>3, <1>4 DEF OnWords

\* What a fade and a flicker keep of their own.
IsOfFade(own, t) == own = [level |-> own.level, time |-> t]
IsOfFlicker(own, t) ==
  own = [counter |-> own.counter, time |-> t, wasEnabled |-> own.wasEnabled] /\ own.wasEnabled \in BOOLEAN

\* A step of Fade goes on to its time or ends on it, at the full level (AnimationFade.cpp).
LEMMA FadeSteps ==
  ASSUME NEW f, IsRunning(f), NEW t, IsOfFade(f.own, t)
  PROVE  LET g == FadeTask(f)
         IN  /\ IsFrame(g) /\ g.dark = f.dark /\ g.enabled = f.enabled
             /\ \/ g.state \in {"clear", "set"} /\ IsOfFade(g.own, t)
                \/ g.state = "idle" /\ g.display = FaceOf(t) /\ g.fade = Full
<1> DEFINE on(level)  == [f EXCEPT !.own.level = level, !.fade = level]
           drawn      == [f EXCEPT !.state = "set", !.display = FaceOf(f.own.time)]
           done       == FinishWithTime([f EXCEPT !.fade = Full], f.own.time)
           Fine(g)    == /\ IsFrame(g) /\ g.dark = f.dark /\ g.enabled = f.enabled
                         /\ \/ g.state \in {"clear", "set"} /\ IsOfFade(g.own, t)
                            \/ g.state = "idle" /\ g.display = FaceOf(t) /\ g.fade = Full
<1>0. f.own.time = t /\ \A level : [f.own EXCEPT !.level = level] = [level |-> level, time |-> t]
  BY DEF IsOfFade
<1>1. ASSUME NEW level PROVE Fine(on(level))
  <2>1. PICK own : own = [f.own EXCEPT !.level = level] /\ IsOfFade(own, t)
    <3>1. IsOfFade([level |-> level, time |-> t], t)
      BY DEF IsOfFade
    <3> QED BY <1>0, <3>1
  <2>2. on(level) = [f EXCEPT !.own = own, !.fade = level]
    BY <2>1
  <2>3. Fine([f EXCEPT !.own = own, !.fade = level])
    BY <2>1 DEF IsRunning, IsFrame, Parts
  <2> QED BY <2>2, <2>3
<1>2. Fine(drawn)
  BY DEF IsOfFade, IsRunning, IsFrame, Parts
<1>3. Fine(done)
  BY <1>0 DEF FinishWithTime, IsRunning, IsFrame, Parts
<1>4. FadeTask(f) = CASE f.state = "clear" /\ f.own.level > 0 -> on(f.own.level - 1)
                      [] f.state = "clear" /\ f.own.level = 0 -> drawn
                      [] f.state = "set" /\ f.own.level < Full -> on(f.own.level + 1)
                      [] OTHER -> done
  BY Zenon DEF FadeTask, FadeTo
<1> HIDE DEF on, drawn, done, Fine
<1>5. Fine(FadeTask(f))
  BY <1>1, <1>2, <1>3, <1>4
<1> QED BY <1>5 DEF Fine

\* A step of Flicker goes on to its time and takes turns with the switch if it was on, or ends on
\* the time and gives the switch back (AnimationFlicker.cpp).
LEMMA FlickerSteps ==
  ASSUME NEW f, IsRunning(f), NEW t, IsOfFlicker(f.own, t), f.dark \in BOOLEAN, f.enabled \in BOOLEAN
  PROVE  LET g == FlickerTask(f)
         IN  /\ IsFrame(g) /\ g.fade = f.fade
             /\ g.dark \in BOOLEAN /\ g.enabled \in BOOLEAN
             /\ \/ /\ g.state \in {"clear", "set"} /\ IsOfFlicker(g.own, t)
                   /\ g.own.wasEnabled = f.own.wasEnabled
                   /\ IF f.own.wasEnabled THEN g.dark = ~f.dark /\ g.enabled = f.dark
                      ELSE g.dark = f.dark /\ g.enabled = f.enabled
                \/ /\ g.state = "idle" /\ g.display = FaceOf(t) /\ ~g.dark
                   /\ g.enabled = (f.enabled \/ f.dark \/ (WordUnderFlag /\ f.words[0] # None))
<1> DEFINE toggled == IF f.own.wasEnabled THEN [f EXCEPT !.dark = ~ f.dark, !.enabled = f.dark] ELSE f
           next(phase, count) == [toggled EXCEPT !.state = phase, !.own.counter = count]
<1>1. /\ IsFrame(toggled) /\ toggled.fade = f.fade /\ toggled.own = f.own
      /\ IF f.own.wasEnabled THEN toggled.dark = ~f.dark /\ toggled.enabled = f.dark
         ELSE toggled.dark = f.dark /\ toggled.enabled = f.enabled
  BY DEF IsOfFlicker, IsRunning, IsFrame, Parts
<1>2. CASE f.state = "clear"
  <2>0. PICK phase \in {"clear", "set"} : \E count : FlickerTask(f) = next(phase, count)
    <3>1. FlickerTask(f) = next(IF f.own.counter = 0 THEN "set" ELSE "clear", (f.own.counter + Byte - 1) % Byte)
      BY <1>2 DEF FlickerTask
    <3> HIDE DEF next
    <3> QED BY <3>1
  <2>1. PICK count : FlickerTask(f) = next(phase, count)
    BY <2>0
  <2> HIDE DEF toggled
  <2>2. PICK own : own = [f.own EXCEPT !.counter = count] /\ IsOfFlicker(own, t)
                     /\ own.wasEnabled = f.own.wasEnabled
    <3>1. [f.own EXCEPT !.counter = count] =
            [counter |-> count, time |-> t, wasEnabled |-> f.own.wasEnabled]
      BY DEF IsOfFlicker
    <3> QED BY <3>1 DEF IsOfFlicker
  <2>3. next(phase, count) = [toggled EXCEPT !.state = phase, !.own = own]
    BY <1>1, <2>2
  <2>4. LET g == next(phase, count)
        IN  /\ IsFrame(g) /\ g.state = phase /\ g.fade = f.fade /\ g.dark = toggled.dark
            /\ g.enabled = toggled.enabled /\ g.own = own
    BY <1>1, <2>3 DEF IsFrame, Parts
  <2> QED BY <1>1, <2>1, <2>2, <2>4
<1>3. CASE f.state = "set"
  <2>1. FlickerTask(f) = FlickerReset(FinishWithTime(f, f.own.time))
    BY <1>3 DEF FlickerTask
  <2>2. LET g == FlickerReset(FinishWithTime(f, f.own.time))
        IN  /\ IsFrame(g) /\ g.fade = f.fade /\ g.state = "idle" /\ g.display = FaceOf(f.own.time) /\ g.dark = FALSE
            /\ g.enabled = (f.enabled \/ f.dark \/ (WordUnderFlag /\ f.words[0] # None))
    BY DEF IsRunning, FlickerReset, Idle, FinishWithTime, IsFrame, Parts
  <2>3. f.own.time = t
    BY DEF IsOfFlicker
  <2> QED BY <2>1, <2>2, <2>3
<1> QED BY <1>2, <1>3 DEF IsRunning

-----------------------------------------------------------------------------

\* The animation that is chosen, and which ones it is chosen among.
ChoiceIsKept ==
  /\ current \in AnimationIds \cup {NoAnimation}
  /\ selected \in AnimationIds \cup {NoAnimation}
  /\ favourites \subseteq AnimationIds /\ favourites # {}
  /\ mode \in Modes
  /\ mode = "fixed" => current = selected

\* A run goes to the newest time, in the words or the time it keeps.
RunsTo(f, id, t) ==
  CASE id = "Fade" -> IsOfFade(f.own, t)
    [] id = "Flicker" -> IsOfFlicker(f.own, t)
    [] OTHER -> f.words = WordsListOf(t)

\* Only a fade dims, and only a flicker darkens a display that was on.
LightIsGivenBack(f, id) ==
  /\ f.enabled \in BOOLEAN /\ f.dark \in BOOLEAN
  /\ f.fade # Full => f.state # "idle" /\ id = "Fade"
  /\ f.dark => f.state # "idle" /\ id = "Flicker" /\ f.own.wasEnabled

\* The switch as a hand left it, during a flicker as well.
SwitchIsKept(f, id) ==
  /\ hand = "on" => f.enabled \/ f.dark
  /\ hand = "off" /\ ~WordUnderFlag =>
       /\ ~f.enabled
       /\ id = "Flicker" /\ f.state # "idle" => ~f.own.wasEnabled

RestInv ==
  /\ ChoiceIsKept
  /\ IsFrame(frame)
  /\ frame.state \in {"idle", "clear", "set", "spin"}
  /\ frame.state = "spin" => current \notin {"Fade", "Flicker"}
  /\ current = NoAnimation => frame.state = "idle"
  /\ frame.state = "idle" /\ settled => frame.display = FaceOf(asked)
  /\ frame.state # "idle" => RunsTo(frame, current, asked)
  /\ LightIsGivenBack(frame, current)
  /\ SwitchIsKept(frame, current)

\* What the invariant is for.
LEMMA Rests == RestInv => (~WordUnderFlag => RestsOnTheNewestTime) /\ DimmedOnlyByARun
  /\ (Idles /\ settled => frame.display = FaceOf(asked))
BY DEF RestInv, RestsOnTheNewestTime, DimmedOnlyByARun, SwitchIsTheHands, Idles, Pending, LightIsGivenBack, SwitchIsKept

\* The animations that are built in are some of all there are, and kNone is none of them.
LEMMA BuiltIn == AnimationIds \subseteq Animated /\ AnimationIds # {} /\ NoAnimation \notin Animated
<1>1. Order \in Seq(Animated) /\ Order # << >>
  BY AnimationsAssumption
<1>2. Len(Order) \in Nat \ {0} /\ DOMAIN Order = 1 .. Len(Order) /\ \A p \in 1 .. Len(Order) : Order[p] \in Animated
  BY <1>1
<1> QED BY <1>2 DEF AnimationIds, NoAnimation, Animated

\* An idle animation that has been made so by its Init(), on a display as a hand left it.
IsFresh(f, id) ==
  /\ IsFrame(f) /\ f.state = "idle"
  /\ f.fade = Full /\ f.dark = FALSE /\ f.enabled \in BOOLEAN
  /\ id = "Fade" => IsOfFade(f.own, Midnight)
  /\ id = "Flicker" => IsOfFlicker(f.own, Midnight)
  /\ hand = "on" => f.enabled
  /\ hand = "off" /\ ~WordUnderFlag => ~f.enabled

\* Records with their fields given are those of a fade and of a flicker.
LEMMA OwnRecords ==
  ASSUME NEW own, NEW t, NEW x
  PROVE  /\ own = [level |-> x, time |-> t] => IsOfFade(own, t)
         /\ \A was \in BOOLEAN : own = [counter |-> x, time |-> t, wasEnabled |-> was] =>
              IsOfFlicker(own, t) /\ own.wasEnabled = was
BY DEF IsOfFade, IsOfFlicker

\* An Init() gives light and switch back, whatever it interrupts.
LEMMA ResetIsFresh ==
  ASSUME NEW f, IsFrame(f), NEW id \in Animated \cup {NoAnimation},
         f.state = "idle" \/ id # NoAnimation, LightIsGivenBack(f, id), SwitchIsKept(f, id)
  PROVE  IsFresh(ResetOf(id, f), id) /\ ResetOf(id, f).display = f.display
<1>1. PICK g : g = ResetOf(id, f)
  OBVIOUS
<1>2. /\ IsFrame(g) /\ g.display = f.display
      /\ g.state = IF id = NoAnimation THEN f.state ELSE "idle"
      /\ g.fade = IF id = "Fade" THEN Full ELSE f.fade
      /\ g.dark = IF id = "Flicker" THEN FALSE ELSE f.dark
      /\ id # "Flicker" => g.enabled = f.enabled
      /\ id = "Flicker" => g.enabled = (f.enabled \/ f.dark \/ (WordUnderFlag /\ f.words[0] # None))
      /\ id = "Fade" => g.own = [level |-> Full, time |-> Midnight]
      /\ id = "Flicker" => g.own = [counter |-> FlickerCount, time |-> Midnight, wasEnabled |-> TRUE]
  BY <1>1, Resets
<1>3. g.state = "idle" /\ g.fade = Full /\ g.dark = FALSE
  BY <1>2 DEF LightIsGivenBack
<1>4. g.enabled \in BOOLEAN
  BY <1>2 DEF LightIsGivenBack
<1>5. hand = "on" => g.enabled
  BY <1>2 DEF SwitchIsKept, LightIsGivenBack
<1>6. hand = "off" /\ ~WordUnderFlag => ~g.enabled
  BY <1>2 DEF SwitchIsKept, LightIsGivenBack
<1>7. (id = "Fade" => IsOfFade(g.own, Midnight)) /\ (id = "Flicker" => IsOfFlicker(g.own, Midnight))
  BY <1>2, OwnRecords
<1> QED BY <1>1, <1>2, <1>3, <1>4, <1>5, <1>6, <1>7 DEF IsFresh

\* A fresh animation dims nothing and darkens nothing, whichever comes next.
LEMMA FreshIsKept ==
  ASSUME NEW f, NEW id, NEW other, IsFresh(f, id)
  PROVE  LightIsGivenBack(f, other) /\ SwitchIsKept(f, other)
BY DEF IsFresh, LightIsGivenBack, SwitchIsKept

\* Leaving one animation for another leaves the other one fresh (SwitchCurrentAnimation()).
LEMMA SwitchedIsFresh ==
  ASSUME NEW f, IsFrame(f), NEW from \in Animated \cup {NoAnimation}, NEW to \in Animated \cup {NoAnimation},
         f.state = "idle" \/ from # NoAnimation, LightIsGivenBack(f, from), SwitchIsKept(f, from)
  PROVE  IsFresh(Switched(f, from, to), to) /\ Switched(f, from, to).display = f.display
<1>1. PICK g : g = ResetOf(from, f)
  OBVIOUS
<1>2. IsFresh(g, from) /\ g.display = f.display
  BY <1>1, ResetIsFresh
<1>3. IsFrame(g) /\ g.state = "idle" /\ LightIsGivenBack(g, to) /\ SwitchIsKept(g, to)
  BY <1>2, FreshIsKept DEF IsFresh
<1>4. IsFresh(ResetOf(to, g), to) /\ ResetOf(to, g).display = g.display
  BY <1>3, ResetIsFresh
<1> QED BY <1>1, <1>2, <1>4 DEF Switched

\* What a time leaves of a frame.
IsSetTo(f, id, t) ==
  /\ IsFrame(f) /\ f.state \in {"idle", "clear", "set", "spin"}
  /\ f.state = "spin" => id \notin {"Fade", "Flicker"}
  /\ id = NoAnimation => f.state = "idle"
  /\ f.state # "idle" => RunsTo(f, id, t)
  /\ LightIsGivenBack(f, id)
  /\ SwitchIsKept(f, id)
  /\ f.state = "idle" /\ id # NoAnimation => f.display = FaceOf(t)

\* The SetTime() of a fresh animation starts a run to the time, or is done at once.
LEMMA TimeStarts ==
  ASSUME NEW id \in AnimationIds \cup {NoAnimation}, NEW f, IsFresh(f, id), NEW t
  PROVE  /\ IsSetTo(TimeSet(id, f, t), id, t)
         /\ id = NoAnimation => TimeSet(id, f, t).display = SetClockWords(f.display, WordsListOf(t), 0)
<1>0a. PICK g : g = TimeSet(id, f, t)
  OBVIOUS
<1>1. CASE id = NoAnimation
  <2>1. g = [f EXCEPT !.display = SetClockWords(f.display, WordsListOf(t), 0)]
    BY <1>0a, <1>1, BuiltIn DEF TimeSet, NoAnimation
  <2>2. g.display = SetClockWords(f.display, WordsListOf(t), 0) /\ Forgets(f, [g EXCEPT !.display = f.display]) /\ IsFrame(g)
    BY <2>1 DEF Forgets, IsFresh, IsFrame, Parts
  <2>3. g.state = "idle" /\ g.fade = f.fade /\ g.dark = f.dark /\ g.enabled = f.enabled
    BY <2>1 DEF IsFresh, IsFrame, Parts
  <2> QED BY <1>0a, <1>1, <2>2, <2>3 DEF IsSetTo, IsFresh, LightIsGivenBack, SwitchIsKept
<1>2. CASE id = "Fade"
  <2>1. g = [f EXCEPT !.state = "clear", !.own = [level |-> Full, time |-> t], !.swept = {}]
    BY <1>0a, <1>2 DEF TimeSet, StartOf, FadeStart, Run, IsFresh, NoAnimation
  <2>2. /\ IsFrame(g) /\ g.state = "clear" /\ g.own = [level |-> Full, time |-> t]
        /\ g.fade = f.fade /\ g.dark = f.dark /\ g.enabled = f.enabled
    BY <2>1 DEF IsFresh, IsFrame, Parts
  <2> QED BY <1>0a, <1>2, <2>2, OwnRecords DEF IsSetTo, IsFresh, LightIsGivenBack, SwitchIsKept, RunsTo, NoAnimation
<1>3. CASE id = "Flicker"
  <2>1. g = [f EXCEPT !.state = "clear", !.own = [f.own EXCEPT !.time = t, !.wasEnabled = f.enabled], !.swept = {}]
    BY <1>0a, <1>3 DEF TimeSet, StartOf, FlickerStart, Run, IsFresh, NoAnimation
  <2>2. PICK own : own = [f.own EXCEPT !.time = t, !.wasEnabled = f.enabled] /\ IsOfFlicker(own, t) /\ own.wasEnabled = f.enabled
    <3>1. \E c : [f.own EXCEPT !.time = t, !.wasEnabled = f.enabled]
                   = [counter |-> c, time |-> t, wasEnabled |-> f.enabled]
      <4>1. PICK c, was : f.own = [counter |-> c, time |-> Midnight, wasEnabled |-> was]
        BY <1>3 DEF IsFresh, IsOfFlicker
      <4>2. [f.own EXCEPT !.time = t, !.wasEnabled = f.enabled] = [counter |-> c, time |-> t, wasEnabled |-> f.enabled]
        <5>1. PICK own : own = f.own
          OBVIOUS
        <5>2. PICK v : v = f.enabled
          OBVIOUS
        <5>3. own = [counter |-> c, time |-> Midnight, wasEnabled |-> was]
          BY <4>1, <5>1
        <5>4. PICK o : o = [own EXCEPT !.time = t]
          OBVIOUS
        <5>5. o = [counter |-> c, time |-> t, wasEnabled |-> was]
          BY <5>3, <5>4
        <5>6. [o EXCEPT !.wasEnabled = v] = [counter |-> c, time |-> t, wasEnabled |-> v]
          BY <5>5
        <5>7. [own EXCEPT !.time = t, !.wasEnabled = v] = [o EXCEPT !.wasEnabled = v]
          BY <5>4
        <5> QED BY <5>1, <5>2, <5>6, <5>7
      <4> QED BY <4>2
    <3>2. f.enabled \in BOOLEAN
      BY DEF IsFresh
    <3> QED BY <3>1, <3>2, OwnRecords
  <2>3. /\ IsFrame(g) /\ g.state = "clear" /\ g.own = own
        /\ g.fade = f.fade /\ g.dark = f.dark /\ g.enabled = f.enabled
    BY <2>1, <2>2 DEF IsFresh, IsFrame, Parts
  <2> QED BY <1>0a, <1>3, <2>2, <2>3 DEF IsSetTo, IsFresh, LightIsGivenBack, SwitchIsKept, RunsTo, NoAnimation
<1>4. CASE id \in OnWords
  <2>0. PICK h : h = TakeWords(f, t)
    OBVIOUS
  <2>1. /\ h = TakeWords(f, t) /\ IsFrame(h) /\ h.words = WordsListOf(t)
        /\ h.fade = f.fade /\ h.dark = f.dark /\ h.enabled = f.enabled
    BY <2>0 DEF TakeWords, IsFresh, IsFrame, Parts
  <2>2. g = StartOf(id, h, t)
    BY <1>0a, <1>4, <2>1, BuiltIn DEF TimeSet, IsFresh, OnWords
  <2>3. StepsToItsWords(h, g)
    BY <1>4, <2>1, <2>2, StartSteps
  <2>4. id # NoAnimation /\ id # "Fade" /\ id # "Flicker"
    BY <1>4, BuiltIn DEF OnWords
  <2>5. SetClockWords({}, h.words, 0) = FaceOf(t)
    BY <2>1 DEF FaceOf
  <2>6. g.state = "idle" => g.display = FaceOf(t)
    BY <2>3, <2>5 DEF StepsToItsWords, GoesOnToItsWords, EndsOnItsWords
  <2>7. /\ IsFrame(g) /\ g.fade = f.fade /\ g.dark = f.dark /\ g.enabled = f.enabled
        /\ g.state \in {"idle", "clear", "set", "spin"}
        /\ g.state # "idle" => g.words = WordsListOf(t)
    BY <2>1, <2>3 DEF StepsToItsWords, GoesOnToItsWords, EndsOnItsWords
  <2> QED BY <1>0a, <2>4, <2>6, <2>7 DEF IsSetTo, IsFresh, LightIsGivenBack, SwitchIsKept, RunsTo
<1> QED BY <1>1, <1>2, <1>3, <1>4, BuiltIn DEF OnWords

\* A run takes a newer time, and nothing else of it changes.
LEMMA TimeIsTaken ==
  ASSUME NEW id \in AnimationIds, NEW f, IsFrame(f), f.state \in {"clear", "set"}, NEW old, RunsTo(f, id, old),
         LightIsGivenBack(f, id), SwitchIsKept(f, id), NEW t
  PROVE  IsSetTo(TimeSet(id, f, t), id, t)
<1>0a. PICK g : g = TimeSet(id, f, t)
  OBVIOUS
<1>0. id # NoAnimation /\ id \in Animated
  BY BuiltIn
<1>1. CASE id = "Fade"
  <2>1. g = [f EXCEPT !.own = [f.own EXCEPT !.time = t]]
    BY <1>0a, <1>0, <1>1 DEF TimeSet, FadeRevise, NoAnimation
  <2>2. PICK own : own = [f.own EXCEPT !.time = t] /\ IsOfFade(own, t)
    <3>1. [f.own EXCEPT !.time = t] = [level |-> f.own.level, time |-> t]
      BY <1>1 DEF RunsTo, IsOfFade
    <3>2. IsOfFade([level |-> f.own.level, time |-> t], t)
      BY DEF IsOfFade
    <3> QED BY <3>1, <3>2
  <2>3. /\ IsFrame(g) /\ g.state = f.state /\ g.own = own
        /\ g.fade = f.fade /\ g.dark = f.dark /\ g.enabled = f.enabled
    BY <2>1, <2>2 DEF IsFrame, Parts
  <2> QED BY <1>0a, <1>0, <1>1, <2>2, <2>3 DEF IsSetTo, LightIsGivenBack, SwitchIsKept, RunsTo
<1>2. CASE id = "Flicker"
  <2>1. g = [f EXCEPT !.own = [f.own EXCEPT !.time = t]]
    BY <1>0a, <1>0, <1>2 DEF TimeSet, FlickerRevise, NoAnimation
  <2>2. PICK own : own = [f.own EXCEPT !.time = t] /\ IsOfFlicker(own, t) /\ own.wasEnabled = f.own.wasEnabled
    <3>1. [f.own EXCEPT !.time = t] = [counter |-> f.own.counter, time |-> t, wasEnabled |-> f.own.wasEnabled]
      BY <1>2 DEF RunsTo, IsOfFlicker
    <3>2. IsOfFlicker([counter |-> f.own.counter, time |-> t, wasEnabled |-> f.own.wasEnabled], t)
      BY <1>2 DEF IsOfFlicker, RunsTo
    <3> QED BY <3>1, <3>2
  <2>3. /\ IsFrame(g) /\ g.state = f.state /\ g.own = own
        /\ g.fade = f.fade /\ g.dark = f.dark /\ g.enabled = f.enabled
    BY <2>1, <2>2 DEF IsFrame, Parts
  <2> QED BY <1>0a, <1>0, <1>2, <2>2, <2>3 DEF IsSetTo, LightIsGivenBack, SwitchIsKept, RunsTo
<1>3. CASE id \in OnWords
  <2>1. g = [f EXCEPT !.words = WordsListOf(t)]
    BY <1>0a, <1>0, <1>3 DEF TimeSet, TakeWords, OnWords
  <2>2. /\ IsFrame(g) /\ g.state = f.state /\ g.words = WordsListOf(t)
        /\ g.fade = f.fade /\ g.dark = f.dark /\ g.enabled = f.enabled
    BY <2>1 DEF IsFrame, Parts
  <2> QED BY <1>0a, <1>0, <1>3, <2>2 DEF IsSetTo, LightIsGivenBack, SwitchIsKept, RunsTo, OnWords
<1> QED BY <1>0, <1>1, <1>2, <1>3 DEF OnWords

\* What is chosen among is some of all there are.
LEMMA InAnimated == AnimationIds \cup {NoAnimation} \subseteq Animated \cup {NoAnimation}
BY BuiltIn

\* The favourite that comes next is a favourite: there is a first one after the last.
LEMMA NextIsAFavourite ==
  ASSUME ChoiceIsKept
  PROVE  CalcNextAnimation \in favourites
<1> DEFINE way(id) == (PositionOf(id) + Len(Order) - PositionOf(current) - 1) % Len(Order)
           ways    == {way(id) : id \in favourites}
<1>1. Len(Order) \in Nat \ {0} /\ DOMAIN Order = 1 .. Len(Order)
  BY AnimationsAssumption
<1>2. \A id \in AnimationIds \cup {NoAnimation} : PositionOf(id) \in Nat
  BY <1>1 DEF PositionOf, AnimationIds
<1>3. \A id \in favourites : way(id) \in Nat
  BY <1>1, <1>2 DEF ChoiceIsKept
<1>4. ways \subseteq Nat /\ ways # {}
  BY <1>3 DEF ChoiceIsKept
<1> HIDE DEF way
<1>5. PICK R : R = OpToRel(<, Nat)
  OBVIOUS
<1>6. \A v, w \in Nat : v < w => << v, w >> \in R
  BY <1>5 DEF OpToRel
<1>7. PICK w \in ways : \A v \in ways : ~ (<< v, w >> \in R)
  <2> HIDE DEF ways
  <2> QED BY <1>4, <1>5, NatLessThanWellFounded, WFMin
<1>8. \A v \in ways : w <= v
  <2> HIDE DEF ways
  <2>1. w \in Nat /\ \A v \in ways : v \in Nat
    BY <1>4, <1>7
  <2>2. \A v \in ways : ~(v < w)
    BY <1>6, <1>7, <2>1
  <2> QED BY <2>1, <2>2
<1>9. \E id \in favourites : \A other \in favourites : way(id) <= way(other)
  BY <1>7, <1>8
<1>10. CalcNextAnimation = CHOOSE id \in favourites : \A other \in favourites : way(id) <= way(other)
  BY DEF CalcNextAnimation, way
<1> QED BY <1>9, <1>10

\* What RestInv says of the frame, whoever reads it.
RestsAt(f, id, t) ==
  /\ IsFrame(f) /\ f.state \in {"idle", "clear", "set", "spin"}
  /\ f.state = "spin" => id \notin {"Fade", "Flicker"}
  /\ id = NoAnimation => f.state = "idle"
  /\ f.state # "idle" => RunsTo(f, id, t)
  /\ LightIsGivenBack(f, id)
  /\ SwitchIsKept(f, id)

\* The invariant by its parts.
LEMMA RestInvIs ==
  RestInv <=> /\ ChoiceIsKept /\ RestsAt(frame, current, asked)
              /\ frame.state = "idle" /\ settled => frame.display = FaceOf(asked)
BY DEF RestInv, RestsAt

\* The invariant of the next state, from what the step makes of the frame.
LEMMA RestInvIsNext ==
  ASSUME NEW f, NEW id, NEW t, frame' = f, current' = id, asked' = t, hand' = hand,
         ChoiceIsKept', RestsAt(f, id, t), f.state = "idle" /\ settled' => f.display = FaceOf(t)
  PROVE  RestInv'
BY DEF RestInv, RestsAt, LightIsGivenBack, SwitchIsKept

\* A fresh animation goes to any time.
LEMMA FreshRests ==
  ASSUME NEW f, NEW id, IsFresh(f, id), NEW t
  PROVE  RestsAt(f, id, t)
BY DEF RestsAt, IsFresh, LightIsGivenBack, SwitchIsKept

\* Animations::SetTime(), of the idle and of the running, keeps the invariant.
LEMMA SetTimeRests ==
  ASSUME RestInv, frame.state # "spin", NEW t, SetTime(t), asked' = t, settled' = settled,
         UNCHANGED << selected, mode, favourites, hand >>,
         t = asked \/ ~(mode = "fixed" /\ selected = NoAnimation)
  PROVE  RestInv'
<1>1. PICK id \in IF Idles THEN ChoicesOfMode ELSE {current} :
        /\ current' = id
        /\ frame' = TimeSet(id, CASE ~ Idles                   -> frame
                                  [] Idles /\ mode = "fixed" -> ResetOf(id, frame)
                                  [] Idles /\ mode # "fixed" -> Switched(frame, current, id), t)
  BY Zenon DEF SetTime
<1>2. ChoiceIsKept /\ IsFrame(frame) /\ LightIsGivenBack(frame, current) /\ SwitchIsKept(frame, current)
  BY DEF RestInv
<1>3. /\ id \in AnimationIds \cup {NoAnimation}
      /\ mode = "fixed" => id = current /\ id = selected
      /\ mode # "fixed" /\ Idles => id # NoAnimation
      /\ ~Idles => id = current
  <2>1. CASE Idles /\ mode = "fixed"
    BY <1>1, <1>2, <2>1 DEF ChoicesOfMode, ChoiceIsKept
  <2>2. CASE Idles /\ mode = "random"
    BY <1>1, <1>2, <2>2, BuiltIn DEF ChoicesOfMode, ChoiceIsKept
  <2>3. CASE Idles /\ mode = "sequence"
    BY <1>1, <1>2, <2>3, BuiltIn, NextIsAFavourite DEF ChoicesOfMode, ChoiceIsKept
  <2>4. CASE ~Idles
    BY <1>1, <1>2, <2>4 DEF ChoiceIsKept
  <2> QED BY <1>2, <2>1, <2>2, <2>3, <2>4 DEF ChoiceIsKept, Modes
<1>4. ChoiceIsKept'
  BY <1>1, <1>2, <1>3 DEF ChoiceIsKept
<1>5. id \in Animated \cup {NoAnimation} /\ current \in Animated \cup {NoAnimation}
  BY <1>2, <1>3, InAnimated DEF ChoiceIsKept
<1>6. CASE Idles
  <2>1. PICK f : /\ f = IF mode = "fixed" THEN ResetOf(id, frame) ELSE Switched(frame, current, id)
                 /\ IsFresh(f, id) /\ f.display = frame.display
    <3>1. CASE mode = "fixed"
      <4>1. id = current
        BY <1>3, <3>1
      <4>2. IsFresh(ResetOf(id, frame), id) /\ ResetOf(id, frame).display = frame.display
        BY <1>2, <1>5, <1>6, <4>1, ResetIsFresh DEF Idles
      <4> QED BY <3>1, <4>2
    <3>2. CASE mode # "fixed"
      <4>1. IsFresh(Switched(frame, current, id), id) /\ Switched(frame, current, id).display = frame.display
        BY <1>2, <1>5, <1>6, SwitchedIsFresh DEF Idles
      <4> QED BY <3>2, <4>1
    <3> QED BY <3>1, <3>2
  <2>2. frame' = TimeSet(id, f, t)
    BY <1>1, <1>6, <2>1, Zenon
  <2>3. PICK g : g = TimeSet(id, f, t)
    OBVIOUS
  <2>4. IsSetTo(g, id, t) /\ (id = NoAnimation => g.display = SetClockWords(f.display, WordsListOf(t), 0))
    BY <1>3, <2>1, <2>3, TimeStarts
  <2>5. g.state = "idle" /\ settled' => g.display = FaceOf(t)
    <3> SUFFICES ASSUME settled, id = NoAnimation PROVE g.display = FaceOf(t)
      BY <2>4 DEF IsSetTo
    <3>1. mode = "fixed" /\ selected = NoAnimation
      BY <1>3, <1>6
    <3>2. frame.display = FaceOf(t)
      BY <1>6, <3>1 DEF RestInv, Idles
    <3>3. SetClockWords(FaceOf(t), WordsListOf(t), 0) = FaceOf(t)
      BY DEF FaceOf, SetClockWords
    <3> QED BY <2>1, <2>4, <3>2, <3>3
  <2>6. RestsAt(g, id, t)
    BY <2>4 DEF RestsAt, IsSetTo
  <2> QED BY <1>1, <1>4, <2>2, <2>3, <2>5, <2>6, RestInvIsNext
<1>7. CASE ~Idles
  <2>1. frame' = TimeSet(id, frame, t)
    BY <1>1, <1>7, Zenon
  <2>2. PICK g : g = TimeSet(id, frame, t)
    OBVIOUS
  <2>3. /\ id = current /\ frame.state \in {"clear", "set"} /\ id \in AnimationIds
        /\ RunsTo(frame, id, asked)
    BY <1>3, <1>7 DEF RestInv, Idles
  <2>4. IsSetTo(g, id, t)
    BY <1>2, <2>2, <2>3, TimeIsTaken
  <2>5. (g.state = "idle" /\ settled' => g.display = FaceOf(t)) /\ RestsAt(g, id, t)
    BY <2>3, <2>4, BuiltIn DEF RestsAt, IsSetTo
  <2> QED BY <1>1, <1>4, <2>1, <2>2, <2>5, RestInvIsNext
<1> QED BY <1>6, <1>7

\* Another selection, another mode: both animations are made idle, and the display is as it was.
LEMMA LeaveRests ==
  ASSUME RestInv, NEW id \in AnimationIds \cup {NoAnimation}, Leave(id), ChoiceIsKept', asked' = asked, hand' = hand
  PROVE  RestInv'
<1>1. PICK f : f = Switched(frame, current, id)
  OBVIOUS
<1>2. IsFresh(f, id) /\ f.display = frame.display
  <2>1. id \in Animated \cup {NoAnimation} /\ current \in Animated \cup {NoAnimation}
    BY InAnimated DEF RestInv, ChoiceIsKept
  <2>2. /\ IsFrame(frame) /\ LightIsGivenBack(frame, current) /\ SwitchIsKept(frame, current)
        /\ frame.state = "idle" \/ current # NoAnimation
    BY DEF RestInv
  <2>3. /\ IsFresh(Switched(frame, current, id), id)
        /\ Switched(frame, current, id).display = frame.display
    BY <2>1, <2>2, SwitchedIsFresh
  <2> QED BY <1>1, <2>3
<1>3. RestsAt(f, id, asked)
  BY <1>2, FreshRests
<1>4. f.state = "idle" /\ settled' => f.display = FaceOf(asked)
  BY <1>2 DEF Leave, Idles, RestInv
<1>5. frame' = f /\ current' = id
  BY <1>1 DEF Leave
<1> QED BY <1>3, <1>4, <1>5, RestInvIsNext

\* The clock is shown over whatever is on the display.
LEMMA ShownRests ==
  ASSUME ChoiceIsKept', NEW f, NEW id, NEW old, NEW t, RestsAt(f, id, old), f.state = "idle" \/ old = t,
         frame' = ShowClock(f, t), current' = id, asked' = t, hand' = hand
  PROVE  RestInv'
<1>1. PICK g : g = ShowClock(f, t)
  OBVIOUS
<1>2. /\ IsFrame(g) /\ g.state = f.state /\ g.fade = f.fade /\ g.dark = f.dark /\ g.enabled = f.enabled
      /\ g.own = f.own /\ g.words = f.words /\ g.display = FaceOf(t)
  BY <1>1 DEF ShowClock, RestsAt, IsFrame, Parts
<1>3. RestsAt(g, id, t)
  BY <1>2 DEF RestsAt, LightIsGivenBack, SwitchIsKept, RunsTo
<1> QED BY <1>1, <1>2, <1>3, RestInvIsNext
\* The invariant holds at the start.
LEMMA InitRests == Init => RestInv
<1> SUFFICES ASSUME Init PROVE RestInv
  OBVIOUS
<1>1. PICK from \in StartsFrom :
        /\ settled = (from = "face")
        /\ frame = ResetOf(current, AFrame(CASE from = "face" -> FaceOf(asked)
                                             [] from = "dark" -> {}
                                             [] from = "full" -> Pixels, <<>>))
  BY Zenon DEF Init
<1>2. ChoiceIsKept
  <2>1. AnimationIds # {} /\ \A s \in FavouriteSets : s # {} /\ s \subseteq AnimationIds
    BY BuiltIn, AnimationsAssumption
  <2> QED BY <2>1 DEF Init, ChoiceIsKept
<1>3. hand = "on" /\ current \in Animated \cup {NoAnimation}
  BY <1>2, InAnimated DEF ChoiceIsKept, Init
<1>4. PICK pixels : pixels = CASE from = "face" -> FaceOf(asked)
                         [] from = "dark" -> {}
                         [] from = "full" -> Pixels
  OBVIOUS
<1>5a. PICK f : f = AFrame(pixels, <<>>)
  OBVIOUS
<1>5. /\ f = AFrame(pixels, <<>>) /\ IsFrame(f) /\ f.display = pixels /\ f.state = "idle" /\ f.fade = Full
      /\ f.dark = FALSE /\ f.enabled = TRUE
  BY <1>5a DEF AFrame, IsFrame, Parts
<1>6. LightIsGivenBack(f, current) /\ SwitchIsKept(f, current)
  BY <1>3, <1>5 DEF LightIsGivenBack, SwitchIsKept
<1>7. IsFresh(ResetOf(current, f), current) /\ ResetOf(current, f).display = f.display
  BY <1>3, <1>5, <1>6, ResetIsFresh
<1>8. frame = ResetOf(current, f)
  BY <1>1, <1>4, <1>5
<1>9. settled => frame.display = FaceOf(asked)
  BY <1>1, <1>4, <1>5, <1>7, <1>8
<1>10. RestsAt(frame, current, asked)
  BY <1>7, <1>8, FreshRests
<1> QED BY <1>2, <1>9, <1>10, RestInvIs

\* The words change (DisplayManager::TaskClockWordsChange()).
LEMMA WordChangeRests ==
  ASSUME RestInv, NEW t, WordChange(t)
  PROVE  RestInv'
<1>1. CASE mode = "fixed" /\ selected = NoAnimation
  <2>1. /\ frame' = ShowClock(frame, t) /\ current' = current /\ asked' = t /\ hand' = hand
        /\ UNCHANGED << selected, mode, favourites >>
    BY <1>1 DEF WordChange
  <2>2. RestsAt(frame, current, asked) /\ frame.state = "idle" /\ ChoiceIsKept
    BY <1>1, RestInvIs DEF RestInv, ChoiceIsKept
  <2>3. ChoiceIsKept'
    BY <2>1, <2>2 DEF ChoiceIsKept
  <2> QED BY <2>1, <2>2, <2>3, ShownRests
<1>2. CASE ~(mode = "fixed" /\ selected = NoAnimation)
  BY <1>2, SetTimeRests DEF WordChange
<1> QED BY <1>1, <1>2

\* A hand ends the run (DisplayManager::AbortAnimation()).
LEMMA AbortRests ==
  ASSUME RestInv, AbortAnimation
  PROVE  RestInv'
<1>1. PICK f : f = ResetOf(current, frame)
  OBVIOUS
<1>2. IsFresh(f, current)
  <2>1. /\ IsFrame(frame) /\ LightIsGivenBack(frame, current) /\ SwitchIsKept(frame, current)
        /\ frame.state = "idle" \/ current # NoAnimation
        /\ current \in Animated \cup {NoAnimation}
    BY InAnimated DEF RestInv, ChoiceIsKept
  <2> QED BY <1>1, <2>1, ResetIsFresh
<1>3. RestsAt(f, current, asked)
  BY <1>2, FreshRests
<1>4. /\ frame' = ShowClock(f, asked) /\ current' = current /\ asked' = asked /\ hand' = hand
      /\ UNCHANGED << selected, mode, favourites >>
  BY <1>1 DEF AbortAnimation
<1>5. ChoiceIsKept'
  BY <1>4 DEF RestInv, ChoiceIsKept
<1> QED BY <1>3, <1>4, <1>5, ShownRests

\* The clock is shown in the middle of a run (DisplayManager::RefreshClock()).
LEMMA RefreshRests ==
  ASSUME RestInv, RefreshClock
  PROVE  RestInv'
<1>1. /\ frame' = ShowClock(frame, asked) /\ current' = current /\ asked' = asked /\ hand' = hand
      /\ UNCHANGED << selected, mode, favourites >>
  BY DEF RefreshClock
<1>2. RestsAt(frame, current, asked) /\ ChoiceIsKept'
  BY <1>1, RestInvIs DEF ChoiceIsKept
<1> QED BY <1>1, <1>2, ShownRests

\* A hand at the switch while a flicker has it leaves the display torn.
LEMMA SwitchRests ==
  ASSUME RestInv, NEW on \in BOOLEAN, SwitchDisplay(on)
  PROVE  RestInv'
<1>1. PICK g : g = [frame EXCEPT !.enabled = on]
  OBVIOUS
<1>2. frame' = g /\ current' = current /\ asked' = asked /\ settled' = settled
      /\ UNCHANGED << selected, mode, favourites >>
      /\ hand' = IF Pending /\ current = "Flicker" THEN "torn" ELSE IF on THEN "on" ELSE "off"
  BY <1>1 DEF SwitchDisplay
<1>3. /\ IsFrame(g) /\ g.state = frame.state /\ g.fade = frame.fade /\ g.dark = frame.dark /\ g.enabled = on
      /\ g.own = frame.own /\ g.words = frame.words /\ g.display = frame.display
  BY <1>1 DEF RestInv, IsFrame, Parts
<1>4. ChoiceIsKept'
  BY <1>2 DEF RestInv, ChoiceIsKept
<1>5. LightIsGivenBack(g, current)
  BY <1>3 DEF RestInv, LightIsGivenBack
<1>6. /\ hand' = "on" => on
      /\ hand' = "off" => ~on /\ ~(Pending /\ current = "Flicker")
  BY <1>2
<1>7. current = "Flicker" /\ frame.state # "idle" => Pending
  BY DEF RestInv, Pending
<1>8. SwitchIsKept(frame, current)'
  <2>1. frame'.enabled = on /\ frame'.state = frame.state /\ frame'.own = frame.own /\ frame'.dark = frame.dark
    BY <1>2, <1>3
  <2> QED BY <1>2, <1>6, <1>7, <2>1 DEF SwitchIsKept
<1>9. LightIsGivenBack(frame, current)'
  BY <1>2, <1>5 DEF LightIsGivenBack
<1> QED BY <1>2, <1>3, <1>4, <1>8, <1>9 DEF RestInv, RunsTo

\* One task of the run (Animations::Task()).
LEMMA StepRests ==
  ASSUME RestInv, Task
  PROVE  RestInv'
<1>1. PICK g : g = TaskOf(current, frame)
  OBVIOUS
<1>2. /\ frame' = g /\ current' = current /\ asked' = asked /\ hand' = hand
      /\ UNCHANGED << selected, mode, favourites >>
      /\ frame.state \in {"clear", "set"}
  BY <1>1 DEF Task, Pending
<1>3. /\ IsRunning(frame) /\ RunsTo(frame, current, asked) /\ current \in Animated
      /\ LightIsGivenBack(frame, current) /\ SwitchIsKept(frame, current)
  BY <1>2, BuiltIn DEF RestInv, ChoiceIsKept, IsRunning
<1>4. ChoiceIsKept'
  BY <1>2 DEF RestInv, ChoiceIsKept
<1>5. RestsAt(g, current, asked) /\ (g.state = "idle" => g.display = FaceOf(asked))
  <2>1. CASE current = "Fade"
    <3>1. g = FadeTask(frame)
      BY <1>1, <2>1 DEF TaskOf
    <3>2. IsOfFade(frame.own, asked)
      BY <1>3, <2>1 DEF RunsTo
    <3>3. /\ IsFrame(g) /\ g.dark = frame.dark /\ g.enabled = frame.enabled
          /\ \/ g.state \in {"clear", "set"} /\ IsOfFade(g.own, asked)
             \/ g.state = "idle" /\ g.display = FaceOf(asked) /\ g.fade = Full
      BY <1>3, <3>1, <3>2, FadeSteps
    <3> QED BY <1>3, <2>1, <3>3, BuiltIn DEF RestsAt, RunsTo, LightIsGivenBack, SwitchIsKept, Animated
  <2>2. CASE current = "Flicker"
    <3>1. g = FlickerTask(frame)
      BY <1>1, <2>2 DEF TaskOf
    <3>2. IsOfFlicker(frame.own, asked) /\ frame.dark \in BOOLEAN /\ frame.enabled \in BOOLEAN
      BY <1>3, <2>2 DEF RunsTo, LightIsGivenBack
    <3>3. /\ IsFrame(g) /\ g.fade = frame.fade
          /\ g.dark \in BOOLEAN /\ g.enabled \in BOOLEAN
          /\ \/ /\ g.state \in {"clear", "set"} /\ IsOfFlicker(g.own, asked)
                /\ g.own.wasEnabled = frame.own.wasEnabled
                /\ IF frame.own.wasEnabled THEN g.dark = ~frame.dark /\ g.enabled = frame.dark
                   ELSE g.dark = frame.dark /\ g.enabled = frame.enabled
             \/ /\ g.state = "idle" /\ g.display = FaceOf(asked) /\ ~g.dark
                /\ g.enabled = (frame.enabled \/ frame.dark \/ (WordUnderFlag /\ frame.words[0] # None))
      BY <1>3, <3>1, <3>2, FlickerSteps
    <3>4. frame.fade = Full /\ (frame.dark => frame.own.wasEnabled)
      BY <1>3, <2>2 DEF LightIsGivenBack
    <3>5. LightIsGivenBack(g, current)
      BY <2>2, <3>3, <3>4 DEF LightIsGivenBack
    <3>6. SwitchIsKept(g, current)
      BY <1>2, <1>3, <2>2, <3>2, <3>3, <3>4 DEF SwitchIsKept
    <3> QED BY <2>2, <3>3, <3>5, <3>6, BuiltIn DEF RestsAt, RunsTo, Animated
  <2>3. CASE current \in OnWords
    <3>1. StepsToItsWords(frame, g)
      BY <1>1, <1>3, <2>3, TaskSteps
    <3>2. frame.words = WordsListOf(asked) /\ current \notin {"Fade", "Flicker", NoAnimation}
      BY <1>3, <2>3, BuiltIn DEF RunsTo, OnWords
    <3>3. /\ IsFrame(g) /\ g.fade = frame.fade /\ g.dark = frame.dark /\ g.enabled = frame.enabled
          /\ \/ g.state \in {"clear", "set", "spin"} /\ g.words = WordsListOf(asked)
             \/ g.state = "idle" /\ g.display = FaceOf(asked)
      BY <3>1, <3>2 DEF StepsToItsWords, GoesOnToItsWords, EndsOnItsWords, FaceOf
    <3> QED BY <1>2, <1>3, <3>2, <3>3 DEF RestsAt, RunsTo, LightIsGivenBack, SwitchIsKept
  <2> QED BY <1>3, <2>1, <2>2, <2>3 DEF OnWords
<1> QED BY <1>1, <1>2, <1>4, <1>5, RestInvIsNext

\* Every step keeps the invariant.
LEMMA NextRests ==
  ASSUME RestInv, [Next]_vars, Selectable \subseteq AnimationIds \cup {NoAnimation}
  PROVE  RestInv'
<1>0. ChoiceIsKept
  BY DEF RestInv
<1>1. CASE \E t \in Times : WordChange(t)
  BY <1>1, WordChangeRests
<1>2. CASE StartAnimation
  BY <1>2, SetTimeRests DEF StartAnimation
<1>3. CASE AbortAnimation
  BY <1>3, AbortRests
<1>4. CASE RefreshClock
  BY <1>4, RefreshRests
<1>5. CASE \E id \in Selectable : SetAnimation(id)
  <2>1. PICK id \in AnimationIds \cup {NoAnimation} : SetAnimation(id)
    BY <1>5
  <2>2. ChoiceIsKept' /\ Leave(id) /\ asked' = asked /\ hand' = hand
    BY <1>0, <2>1 DEF SetAnimation, Leave, ChoiceIsKept
  <2> QED BY <2>2, LeaveRests
<1>6. CASE \E m \in Modes : SetMode(m)
  <2>1. PICK m \in Modes : SetMode(m)
    BY <1>6
  <2>2. CASE m = "fixed"
    <3>1. Leave(selected) /\ ChoiceIsKept' /\ asked' = asked /\ hand' = hand
      BY <1>0, <2>1, <2>2 DEF SetMode, Leave, ChoiceIsKept
    <3>2. selected \in AnimationIds \cup {NoAnimation}
      BY <1>0 DEF ChoiceIsKept
    <3> QED BY <3>1, <3>2, LeaveRests
  <2>3. CASE m # "fixed"
    <3>1. /\ UNCHANGED << current, frame, settled, asked, hand, selected, favourites >> /\ mode' = m
      BY <2>1, <2>3 DEF SetMode
    <3> QED BY <2>1, <2>3, <3>1 DEF RestInv, ChoiceIsKept, RunsTo, LightIsGivenBack, SwitchIsKept
  <2> QED BY <2>2, <2>3
<1>7. CASE \E id \in Selectable \ {NoAnimation} : SetFavourite(id)
  <2>1. PICK id \in AnimationIds : SetFavourite(id)
    BY <1>7
  <2>2. UNCHANGED << current, frame, settled, asked, hand, selected, mode >> /\ ChoiceIsKept'
    BY <1>0, <2>1 DEF SetFavourite, ChoiceIsKept
  <2> QED BY <2>2 DEF RestInv, RunsTo, LightIsGivenBack, SwitchIsKept
<1>8. CASE ResetToDefaults
  <2>1. ChoiceIsKept' /\ Leave(NoAnimation) /\ asked' = asked /\ hand' = hand
    BY <1>8, BuiltIn DEF ResetToDefaults, Leave, ChoiceIsKept, Modes
  <2> QED BY <2>1, LeaveRests
<1>9. CASE \E on \in BOOLEAN : SwitchDisplay(on)
  BY <1>9, SwitchRests
<1>10. CASE Task
  BY <1>10, StepRests
<1>11. CASE UNCHANGED vars
  BY <1>0, <1>11 DEF vars, RestInv, ChoiceIsKept, RunsTo, LightIsGivenBack, SwitchIsKept
<1> QED BY <1>1, <1>2, <1>3, <1>4, <1>5, <1>6, <1>7, <1>8, <1>9, <1>10, <1>11 DEF Next

\* A clock that has come to rest shows the newest time and no other letter, bright, and switched
\* as the hand left it; no run leaves the display dimmed or dark when it ends, is aborted or is
\* left for another one (Animations::SetTime(), Task(), SwitchCurrentAnimation()).  Where the union
\* puts a word of Snake under the flag of Flicker the switch is not kept, and the theorem
\* below says what still is.
THEOREM ClockRestsOnTheNewestTime ==
  ASSUME ~WordUnderFlag
  PROVE  Spec => []RestsOnTheNewestTime
<1>1. Selectable \subseteq AnimationIds \cup {NoAnimation}
  BY AnimationsAssumption
<1>2. RestInv /\ [Next]_vars => RestInv'
  BY <1>1, NextRests
<1>3. RestInv => RestsOnTheNewestTime
  BY Rests
<1> QED BY InitRests, <1>2, <1>3, PTL DEF Spec

\* Under either layout of the union the display rests on the newest time, undimmed
\* (AnimationFade.cpp, AnimationFlicker.cpp).
THEOREM DimmedByNothingElse == Spec => [](DimmedOnlyByARun /\ (Idles /\ settled => frame.display = FaceOf(asked)))
<1>1. Selectable \subseteq AnimationIds \cup {NoAnimation}
  BY AnimationsAssumption
<1>2. RestInv /\ [Next]_vars => RestInv'
  BY <1>1, NextRests
<1>3. RestInv => DimmedOnlyByARun /\ (Idles /\ settled => frame.display = FaceOf(asked))
  BY Rests
<1> QED BY InitRests, <1>2, <1>3, PTL DEF Spec

-----------------------------------------------------------------------------
(* A run owes nothing to the one before it *)

\* Frames that differ in nothing an animation reads.
IsAlike(f, g) == \E x : g = [f EXCEPT !.swept = x]

\* A start reads nothing of a frame but what is alike, and what it runs with is the same.
LEMMA StartsAlike ==
  ASSUME NEW f, IsFrame(f), NEW g, IsAlike(f, g), NEW id \in Animated, NEW t, StartOf(id, f, t).state # "idle"
  PROVE  StartOf(id, g, t) = StartOf(id, f, t)
<1>1. PICK x : g = [f EXCEPT !.swept = x]
  BY DEF IsAlike
<1>2. /\ g.display = f.display /\ g.own = f.own /\ g.words = f.words /\ g.enabled = f.enabled
      /\ IsFrame(g)
  BY <1>1 DEF IsFrame, Parts
<1>3. \A phase, own : Run(g, phase, own) = Run(f, phase, own)
  BY <1>1 DEF Run, IsFrame, Parts
<1>4. \A own : DropSetTimeFrom(g, own) = DropSetTimeFrom(f, own)
  BY <1>2, <1>3 DEF DropSetTimeFrom
<1>5. \A own : DropNextPixel(g, own) = DropNextPixel(f, own)
  BY <1>2, <1>3, <1>4 DEF DropNextPixel
<1>6. DropStart(g, t) = DropStart(f, t)
  <2>1. \A w : WordsBefore(g, w) = WordsBefore(f, w)
    BY <1>2 DEF WordsBefore
  <2> QED BY <1>2, <1>5, <2>1 DEF DropStart
<1>7. ExplodePixelsStart(g, t) = ExplodePixelsStart(f, t)
  BY <1>1 DEF ExplodePixelsStart, Run, IsFrame, Parts
<1>8. ExplodeWordsStart(f, t).state # "idle" => ExplodeWordsStart(g, t) = ExplodeWordsStart(f, t)
  <2>1. \A p : ToClear(g, f.own, p) = ToClear(f, f.own, p)
    BY <1>2, <1>3 DEF ToClear
  <2>2. BlocksAhead(g, f.own) = BlocksAhead(f, f.own)
    BY <1>2 DEF BlocksAhead
  <2>3. StartSetTime(f, f.own).state # "idle" => StartSetTime(g, f.own) = StartSetTime(f, f.own)
    <3>1. \A h, own : FinishWithClockWords([h EXCEPT !.own.list = 0]).state = "idle" \/ ~IsFrame(h)
      BY DEF FinishWithClockWords, IsFrame, Parts
    <3> QED BY <1>2, <1>3, <3>1 DEF StartSetTime
  <2> QED BY <1>2, <2>1, <2>2, <2>3 DEF ExplodeWordsStart, ToClearOrSet
<1> QED BY <1>2, <1>3, <1>6, <1>7, <1>8
  DEF StartOf, Animated, CursorStart, TeletypeStart, ShiftStart, SnakeStart, WipeStart, FadeStart, FlickerStart,
      CubeStart, SqueezeStart, MatrixStart, RollStart, CollapseStart

\* An Init() leaves the same counters, and the same table but for Snake, whatever was there.
LEMMA ResetForgets ==
  ASSUME NEW f, IsFrame(f), NEW g, IsFrame(g), NEW id \in Animated
  PROVE  /\ ResetOf(id, f).own = ResetOf(id, g).own
         /\ id # "Snake" => ResetOf(id, f).words = ResetOf(id, g).words
<1>1. \A h, own : IsFrame(h) => Idle(h, own).own = own /\ Idle(h, own).words = NoWords
  BY DEF Idle, IsFrame, Parts
<1>2. \A own : [f EXCEPT !.state = "idle", !.own = own].own = own /\ [g EXCEPT !.state = "idle", !.own = own].own = own
  BY DEF IsFrame, Parts
<1>3. CASE id = "Fade"
  BY <1>3 DEF ResetOf, FadeReset, Idle, IsFrame, Parts, NoAnimation
<1>4. CASE id = "Flicker"
  BY <1>4 DEF ResetOf, FlickerReset, Idle, IsFrame, Parts, NoAnimation
<1>5. CASE id \in OnWords
  BY <1>1, <1>2, <1>5 DEF ResetOf, OnWords, Animated, NoAnimation, CursorReset, TeletypeReset, DropReset,
      ShiftReset, SnakeReset, WipeReset, CubeReset, SqueezeReset, ExplodePixelsReset, ExplodeWordsReset,
      MatrixReset, RollReset, CollapseReset
<1> QED BY <1>3, <1>4, <1>5 DEF OnWords

\* What a frame is that an Init() made of an idle one.
MadeOf(f, old, id) ==
  /\ IsFrame(f) /\ f.display = old.display /\ f.state = "idle" /\ f.fade = Full /\ f.dark = FALSE
  /\ f.enabled = old.enabled
  /\ \E h : IsFrame(h) /\ f.own = ResetOf(id, h).own /\ f.words = ResetOf(id, h).words

\* An Init() of an idle animation that has given everything back.
LEMMA ResetMakes ==
  ASSUME ~WordUnderFlag, NEW f, IsFrame(f), f.state = "idle", f.fade = Full, f.dark = FALSE, f.enabled \in BOOLEAN,
         NEW id \in Animated \cup {NoAnimation}
  PROVE  MadeOf(ResetOf(id, f), f, id)
<1>1. PICK g : g = ResetOf(id, f)
  OBVIOUS
<1>2. /\ IsFrame(g) /\ g.display = f.display
      /\ g.state = IF id = NoAnimation THEN f.state ELSE "idle"
      /\ g.fade = IF id = "Fade" THEN Full ELSE f.fade
      /\ g.dark = IF id = "Flicker" THEN FALSE ELSE f.dark
      /\ id # "Flicker" => g.enabled = f.enabled
      /\ id = "Flicker" => g.enabled = (f.enabled \/ f.dark \/ (WordUnderFlag /\ f.words[0] # None))
  BY <1>1, Resets
<1>3. g.state = "idle" /\ g.fade = Full /\ g.dark = FALSE
  BY <1>2
<1>4. g.enabled = f.enabled
  BY <1>2
<1>5. \E h : IsFrame(h) /\ g.own = ResetOf(id, h).own /\ g.words = ResetOf(id, h).words
  BY <1>1
<1> QED BY <1>1, <1>2, <1>3, <1>4, <1>5 DEF MadeOf

\* So does the change from one animation to another.
LEMMA SwitchMakes ==
  ASSUME ~WordUnderFlag, NEW f, IsFrame(f), f.state = "idle", f.fade = Full, f.dark = FALSE, f.enabled \in BOOLEAN,
         NEW from \in Animated \cup {NoAnimation}, NEW id \in Animated \cup {NoAnimation}
  PROVE  MadeOf(Switched(f, from, id), f, id)
<1>1. PICK g : g = ResetOf(from, f)
  OBVIOUS
<1>2. MadeOf(g, f, from)
  BY <1>1, ResetMakes
<1>3. MadeOf(ResetOf(id, g), g, id)
  BY <1>2, ResetMakes DEF MadeOf
<1> QED BY <1>1, <1>2, <1>3 DEF Switched, MadeOf

\* Frames made alike start alike.
LEMMA TimesStartAlike ==
  ASSUME NEW old, NEW id \in AnimationIds, NEW f, MadeOf(f, old, id), NEW g, MadeOf(g, old, id), NEW t,
         TimeSet(id, f, t).state # "idle"
  PROVE  TimeSet(id, g, t) = TimeSet(id, f, t)
<1>0. id # NoAnimation /\ id \in Animated
  BY BuiltIn
<1>1. f.own = g.own /\ (id # "Snake" => f.words = g.words)
  <2>1. PICK h : IsFrame(h) /\ f.own = ResetOf(id, h).own /\ f.words = ResetOf(id, h).words
    BY DEF MadeOf
  <2>2. PICK k : IsFrame(k) /\ g.own = ResetOf(id, k).own /\ g.words = ResetOf(id, k).words
    BY DEF MadeOf
  <2>3. /\ ResetOf(id, h).own = ResetOf(id, k).own
        /\ id # "Snake" => ResetOf(id, h).words = ResetOf(id, k).words
    BY <1>0, <2>1, <2>2, ResetForgets
  <2> QED BY <2>1, <2>2, <2>3
<1>2. CASE id \in {"Fade", "Flicker"}
  <2>1. TimeSet(id, f, t) = StartOf(id, f, t) /\ TimeSet(id, g, t) = StartOf(id, g, t)
    BY <1>0, <1>2 DEF TimeSet, MadeOf
  <2>2. g = [f EXCEPT !.swept = g.swept]
    BY <1>1, <1>2 DEF MadeOf, IsFrame, Parts
  <2>3. IsAlike(f, g) /\ IsFrame(f)
    BY <2>2 DEF IsAlike, MadeOf
  <2> QED BY <1>0, <2>1, <2>3, StartsAlike
<1>3. CASE id \in OnWords
  <2>1. PICK h, k : h = TakeWords(f, t) /\ k = TakeWords(g, t)
    OBVIOUS
  <2>2. TimeSet(id, f, t) = StartOf(id, h, t) /\ TimeSet(id, g, t) = StartOf(id, k, t)
    BY <1>0, <1>3, <2>1 DEF TimeSet, MadeOf, OnWords
  <2>3. k = [h EXCEPT !.swept = g.swept] /\ IsFrame(h)
    <3>1. PICK words : words = WordsListOf(t)
      OBVIOUS
    <3>2. h = [f EXCEPT !.words = words] /\ k = [g EXCEPT !.words = words]
      BY <2>1, <3>1 DEF TakeWords
    <3>3. /\ f.display = g.display /\ f.enabled = g.enabled /\ f.dark = g.dark /\ f.fade = g.fade
          /\ f.state = g.state /\ f.own = g.own /\ IsFrame(f) /\ IsFrame(g)
      BY <1>1 DEF MadeOf
    <3>4. IsFrame(h) /\ IsFrame(k)
      BY <3>2, <3>3 DEF IsFrame, Parts
    <3>5. /\ h.display = k.display /\ h.enabled = k.enabled /\ h.dark = k.dark /\ h.fade = k.fade
          /\ h.state = k.state /\ h.own = k.own /\ h.words = k.words /\ k.swept = g.swept
      BY <3>2, <3>3 DEF IsFrame, Parts
    <3>6. IsFrame([h EXCEPT !.swept = g.swept])
      BY <3>4 DEF IsFrame, Parts
    <3> QED BY <3>4, <3>5, <3>6 DEF IsFrame, Parts
  <2>4. IsAlike(h, k)
    BY <2>3 DEF IsAlike
  <2> QED BY <1>0, <2>2, <2>3, <2>4, StartsAlike
<1> QED BY <1>0, <1>2, <1>3 DEF OnWords

\* No run inherits: the step that begins one, as RunsStartFresh states it.
StartsFresh ==
  Idles /\ frame'.state \in {"clear", "set"} =>
    LET first == TimeSet(current', ResetOf(current', [AFrame(frame.display, <<>>) EXCEPT
                                                        !.enabled = frame.enabled]), asked')
    IN  /\ frame'.state = first.state
        /\ frame'.own = first.own
        /\ frame'.words = first.words
        /\ frame'.display = first.display

\* Animations::SetTime() on an idle animation begins as a first run.
LEMMA SetTimeIsFresh ==
  ASSUME RestInv, ~WordUnderFlag, NEW t, SetTime(t), asked' = t
  PROVE  StartsFresh
<1> SUFFICES ASSUME Idles, frame'.state \in {"clear", "set"}
             PROVE  LET first == TimeSet(current', ResetOf(current', [AFrame(frame.display, <<>>) EXCEPT
                                                                        !.enabled = frame.enabled]), asked')
                    IN  frame' = first
  BY DEF StartsFresh
<1>1. PICK id \in ChoicesOfMode :
        /\ current' = id
        /\ frame' = TimeSet(id, CASE ~ Idles                   -> frame
                                  [] Idles /\ mode = "fixed" -> ResetOf(id, frame)
                                  [] Idles /\ mode # "fixed" -> Switched(frame, current, id), t)
  BY Zenon DEF SetTime
<1>2. /\ IsFrame(frame) /\ frame.state = "idle" /\ frame.fade = Full /\ frame.dark = FALSE
      /\ frame.enabled \in BOOLEAN /\ ChoiceIsKept
  BY DEF RestInv, LightIsGivenBack, Idles
<1>3. id \in AnimationIds \cup {NoAnimation} /\ current \in AnimationIds \cup {NoAnimation}
  <2>1. CASE mode = "fixed"
    BY <1>1, <1>2, <2>1 DEF ChoicesOfMode, ChoiceIsKept
  <2>2. CASE mode = "random"
    BY <1>1, <1>2, <2>2 DEF ChoicesOfMode, ChoiceIsKept
  <2>3. CASE mode = "sequence"
    BY <1>1, <1>2, <2>3, NextIsAFavourite DEF ChoicesOfMode, ChoiceIsKept
  <2> QED BY <1>2, <2>1, <2>2, <2>3 DEF ChoiceIsKept, Modes
<1>4. id \in Animated \cup {NoAnimation} /\ current \in Animated \cup {NoAnimation}
  BY <1>3, InAnimated
<1>5. PICK f : f = (IF mode = "fixed" THEN ResetOf(id, frame) ELSE Switched(frame, current, id)) /\ MadeOf(f, frame, id)
  <2>1. MadeOf(ResetOf(id, frame), frame, id) /\ MadeOf(Switched(frame, current, id), frame, id)
    BY <1>2, <1>4, ResetMakes, SwitchMakes
  <2> QED BY <2>1
<1>6. frame' = TimeSet(id, f, t)
  BY <1>1, <1>5, Zenon
<1>7. id \in AnimationIds
  <2>1. id = NoAnimation => TimeSet(id, f, t).state = f.state
    <3>1. id = NoAnimation => TimeSet(id, f, t) = [f EXCEPT !.display = SetClockWords(f.display, WordsListOf(t), 0)]
      BY BuiltIn DEF TimeSet, NoAnimation
    <3> QED BY <1>5, <3>1 DEF MadeOf, IsFrame, Parts
  <2> QED BY <1>3, <1>5, <1>6, <2>1 DEF MadeOf
<1>8. PICK a : a = [AFrame(frame.display, <<>>) EXCEPT !.enabled = frame.enabled]
  OBVIOUS
<1>9. /\ IsFrame(a) /\ a.display = frame.display /\ a.state = "idle" /\ a.fade = Full /\ a.dark = FALSE
      /\ a.enabled = frame.enabled
  BY <1>8 DEF AFrame, IsFrame, Parts
<1>10. MadeOf(ResetOf(id, a), frame, id)
  <2>1. MadeOf(ResetOf(id, a), a, id)
    BY <1>2, <1>4, <1>9, ResetMakes
  <2> QED BY <1>9, <2>1 DEF MadeOf
<1>11. TimeSet(id, ResetOf(id, a), t) = TimeSet(id, f, t)
  BY <1>5, <1>6, <1>7, <1>10, TimesStartAlike
<1> QED BY <1>1, <1>6, <1>8, <1>11

\* Every other step leaves an idle animation idle.
LEMMA NextIsFresh ==
  ASSUME RestInv, ~WordUnderFlag, [Next]_vars, Selectable \subseteq AnimationIds \cup {NoAnimation}
  PROVE  StartsFresh
<1>1. CASE \E t \in Times : WordChange(t)
  <2>1. PICK t \in Times : WordChange(t)
    BY <1>1
  <2>2. CASE mode = "fixed" /\ selected = NoAnimation
    BY <2>1, <2>2 DEF WordChange, ShowClock, StartsFresh, Idles, RestInv, IsFrame, Parts
  <2>3. CASE ~(mode = "fixed" /\ selected = NoAnimation)
    BY <2>1, <2>3, SetTimeIsFresh DEF WordChange
  <2> QED BY <2>2, <2>3
<1>2. CASE StartAnimation
  BY <1>2, SetTimeIsFresh DEF StartAnimation
<1> SUFFICES ASSUME ~(\E t \in Times : WordChange(t)), ~StartAnimation, Idles
             PROVE  frame'.state = "idle"
  BY <1>1, <1>2 DEF StartsFresh
<1>0. /\ IsFrame(frame) /\ frame.state = "idle" /\ current \in Animated \cup {NoAnimation}
      /\ selected \in Animated \cup {NoAnimation} /\ NoAnimation \in Animated \cup {NoAnimation}
  BY InAnimated DEF RestInv, ChoiceIsKept, Idles
<1>3. \A id \in Animated \cup {NoAnimation} : IsFrame(ResetOf(id, frame)) /\ ResetOf(id, frame).state = "idle"
  BY <1>0, Resets
<1>4. \A id \in Animated \cup {NoAnimation} : Switched(frame, current, id).state = "idle"
  <2>1. PICK g : g = ResetOf(current, frame)
    OBVIOUS
  <2>2. IsFrame(g) /\ g.state = "idle"
    BY <1>0, <1>3, <2>1
  <2>3. \A id \in Animated \cup {NoAnimation} : ResetOf(id, g).state = "idle"
    BY <2>2, Resets
  <2> QED BY <2>1, <2>3 DEF Switched
<1>5. \A f : IsFrame(f) /\ f.state = "idle" => ShowClock(f, asked).state = "idle"
  BY DEF ShowClock, IsFrame, Parts
<1>6. CASE AbortAnimation
  BY <1>0, <1>3, <1>5, <1>6 DEF AbortAnimation
<1>7. CASE RefreshClock
  BY <1>0, <1>5, <1>7 DEF RefreshClock
<1>8. CASE \E id \in Selectable : SetAnimation(id)
  BY <1>4, <1>8, InAnimated DEF SetAnimation, Leave
<1>9. CASE \E m \in Modes : SetMode(m)
  BY <1>0, <1>4, <1>9 DEF SetMode, Leave
<1>10. CASE \E id \in Selectable \ {NoAnimation} : SetFavourite(id)
  BY <1>0, <1>10 DEF SetFavourite
<1>11. CASE ResetToDefaults
  BY <1>0, <1>4, <1>11 DEF ResetToDefaults, Leave
<1>12. CASE \E on \in BOOLEAN : SwitchDisplay(on)
  BY <1>0, <1>12 DEF SwitchDisplay, IsFrame, Parts
<1>13. CASE Task
  BY <1>0, <1>13 DEF Task, Pending
<1>14. CASE UNCHANGED vars
  BY <1>0, <1>14 DEF vars
<1> QED BY <1>6, <1>7, <1>8, <1>9, <1>10, <1>11, <1>12, <1>13, <1>14 DEF Next

\* No run inherits anything of an earlier one, its own or that of another animation in the same
\* memory: it begins with the counters, the words and the letters a first run would begin with
\* (Animations::SetTime(), SwitchCurrentAnimation()), unless a word lies under Flicker's flag.
THEOREM RunsAlwaysStartFresh ==
  ASSUME ~WordUnderFlag
  PROVE  Spec => RunsStartFresh
<1>1. Selectable \subseteq AnimationIds \cup {NoAnimation}
  BY AnimationsAssumption
<1>2. RestInv /\ [Next]_vars => RestInv'
  BY <1>1, NextRests
<1>3. RestInv /\ [Next]_vars => [StartsFresh]_vars
  BY <1>1, NextIsFresh
<1>4. Spec => [][StartsFresh]_vars
  BY InitRests, <1>2, <1>3, PTL DEF Spec
<1> QED BY <1>4, Zenon DEF RunsStartFresh, StartsFresh

=============================================================================
