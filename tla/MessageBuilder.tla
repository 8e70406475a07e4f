--------------------------- MODULE MessageBuilder ---------------------------
(***************************************************************************)
(* The simulator's dialog that builds a command line: a command is picked, *)
(* its options are ticked and given an argument, and the line goes to the  *)
(* firmware, whose answer is read back into names.  The rows are built     *)
(* once and shown, hidden and reset with the command.                      *)
(***************************************************************************)
EXTENDS CommandOptions, SequencesExt, TLC

(***************************************************************************)
(* What the commands are called and which options they take, for those who *)
(* build a line and those who read an answer.  A label is the letter it    *)
(* stands beside, and the names of an option's values are how many there   *)
(* are.                                                                    *)
(***************************************************************************)

MESSAGE_CATALOG_MAX_NUMBER_OF_OPTIONS == 9

ByteMax == 255
NumberOfPixels == 110

\* MsgCmdParser::CommandType, from the first command a line can ask for.
CommandType ==
  << "RemoteProcedureCall", "DisplayColor", "DisplayBrightness", "DisplayPixel", "OverlayDate",
     "OverlayTemperature", "OverlayText", "ClockMode", "Animation", "Time", "Date", "Status",
     "Network", "NightSwitch", "ColorCycle", "Console" >>

\* An option: its letter, the type of its argument, its range, how many of its values are named.
Option(letter, argument, minimum, maximum) ==
  [shortName |-> letter, argument |-> argument, minimum |-> minimum, maximum |-> maximum,
   names |-> 0, readOnly |-> FALSE]

Byte(letter, minimum, maximum) == Option(letter, "uint8", minimum, maximum)
Text(letter)                   == Option(letter, "text", 0, 0)
ReadOnly(letter, argument)     == [Option(letter, argument, 0, 0) EXCEPT !.readOnly = TRUE]

\* NAMED: the names are the range.
Named(letter, minimum, names) == [Byte(letter, minimum, minimum + names - 1) EXCEPT !.names = names]
Flag(letter) == Named(letter, 0, 2)

\* MEASURED: the bounds of what the firmware's own predicate takes.
Measured(letter, argument, valid) == Option(letter, argument, Min(valid), Max(valid))

OverlayTable ==
  << Byte("P", 1, ByteMax), Byte("E", 1, ByteMax), Byte("M", 0, 12), Byte("D", 0, 31),
     Byte("V", 0, ByteMax), Flag("A"), Byte("S", 0, ByteMax), Named("F", 0, 5), Text("T") >>

\* Only the text overlay reads a text, so the other two stop one short.
OverlayTableWithoutText == SubSeq(OverlayTable, 1, Len(OverlayTable) - 1)

StatusTable ==
  << ReadOnly("V", "text"), ReadOnly("U", "uint16"), ReadOnly("H", "uint8"), ReadOnly("N", "uint8"),
     ReadOnly("I", "uint16"), ReadOnly("T", "text"), ReadOnly("A", "text"), ReadOnly("Q", "text"),
     ReadOnly("M", "uint16") >>

Commands == {CommandType[number] : number \in DOMAIN CommandType}

\* kCommands, by the command's name.
Table == [command \in Commands |->
  CASE command = "RemoteProcedureCall" -> << Named("P", 1, 40) >>
    [] command = "DisplayColor"        -> << Byte("R", 0, ByteMax), Byte("G", 0, ByteMax), Byte("B", 0, ByteMax) >>
    [] command = "DisplayBrightness"   -> << Byte("B", 0, ByteMax), Flag("A"), Flag("G") >>
    [] command = "DisplayPixel"        -> << Byte("I", 0, NumberOfPixels - 1), Flag("S") >>
    [] command = "OverlayText"         -> OverlayTable
    [] command \in {"OverlayDate", "OverlayTemperature"} -> OverlayTableWithoutText
    [] command = "ClockMode"           -> << Named("M", 0, 4), Flag("I") >>
    [] command = "Animation"           -> << Named("A", 0, 16), Named("M", 0, 3), Byte("S", 0, ByteMax),
                                             Byte("F", 0, ByteMax) >>
    [] command = "Time"                ->
         LET minutes == {value \in 0 .. ByteMax : IsMinuteValid(value)}
         IN << Measured("H", "uint8", {value \in 0 .. ByteMax : IsHourValid(value)}),
               Measured("M", "uint8", minutes), Measured("S", "uint8", minutes) >>
    [] command = "Date"                ->
         << Measured("Y", "uint16", {value \in 1900 .. 2200 : IsYearValid(value)}),
            Measured("M", "uint8", {value \in 0 .. ByteMax : IsMonthValid(value)}),
            Measured("D", "uint8", {value \in 0 .. ByteMax : IsDayValid(value)}) >>
    [] command = "Status"              -> StatusTable
    [] command = "Network"             -> << Text("S"), Text("P") >>
    [] command = "NightSwitch"         -> << Flag("A"), Byte("H", 0, 23), Byte("M", 0, 59), Byte("E", 0, 23),
                                             Byte("N", 0, 59), Byte("B", 0, ByteMax) >>
    [] command = "ColorCycle"          -> << Flag("A"), Byte("S", 0, ByteMax), ReadOnly("H", "uint8") >>
    [] command = "Console"             -> << Text("P"), ReadOnly("A", "uint8") >>]

Options(command) == Table[command]

\* The number a command is asked for by, and the command of a number or none.
NumberOf(command) == CHOOSE number \in DOMAIN CommandType : CommandType[number] = command
FindCommandByNumber(number) == IF number \in DOMAIN CommandType THEN {CommandType[number]} ELSE {}

\* The option of that letter, or none.
FindOption(command, letter) ==
  {Options(command)[at] : at \in {i \in DOMAIN Options(command) : Options(command)[i].shortName = letter}}

ASSUME AreOptionCountsWithinBounds ==
  \A command \in Commands : Len(Options(command)) <= MESSAGE_CATALOG_MAX_NUMBER_OF_OPTIONS

ASSUME AreNamedRangesConsistent ==
  \A command \in Commands : \A at \in DOMAIN Options(command) :
    LET option == Options(command)[at]
    IN option.names # 0 => option.maximum - option.minimum + 1 = option.names

(***************************************************************************)
(* How a line the firmware prints is read back into names.  A line is the  *)
(* sequence of its words: a number, a "letter=value" field, one of the     *)
(* three shapes of an error or the number of a remote procedure; a word    *)
(* that is none of them is "other".  A description is the sequence of the  *)
(* labels with what stands behind them: the position of a name, or the     *)
(* value as it is on the wire.                                             *)
(***************************************************************************)

ErrorValueNames == 9   \* kErrorValueNames, from "No error" to "Unknown"
ApiValueNames   == 7   \* kApiValueNames

Number(value)        == [kind |-> "number", value |-> value]
Field(letter, value) == [kind |-> "field", letter |-> letter, value |-> value]
RpcId(value)         == [kind |-> "rpc", value |-> value]
Error(value)         == [kind |-> "error", value |-> value, option |-> ""]
OptionError(value, letter) == [Error(value) EXCEPT !.option = letter]

Plain(value)    == [named |-> FALSE, at |-> value]
Name(position)  == [named |-> TRUE, at |-> position]

\* (bug) The last name of a list is out of it.
DescribeValue_OneShort(label, value, names, minimum) ==
  << [label |-> label, is |-> IF names # 0 /\ value \in minimum .. minimum + names - 2
                              THEN Name(value - minimum) ELSE Plain(value)] >>

DescribeValue(label, value, names, minimum) ==
  << [label |-> label, is |-> IF names # 0 /\ value \in minimum .. minimum + names - 1
                              THEN Name(value - minimum) ELSE Plain(value)] >>

\* A letter the catalog does not know is kept as it is.
DescribeArgument(command, word) ==
  IF word.kind # "field" THEN << >>
  ELSE IF FindOption(command, word.letter) = {} THEN << [label |-> "", is |-> Plain(word.value)] >>
  ELSE LET option == CHOOSE o \in FindOption(command, word.letter) : TRUE
       IN DescribeValue(option.shortName, word.value, option.names, option.minimum)

\* An error, alone, with the option it belongs to, or behind the call that failed.
DescribeErrorPart(word) ==
  CASE word.kind = "error" ->
         DescribeValue("Error", word.value, ErrorValueNames, 0)
         \o (IF word.option = "" THEN << >> ELSE << [label |-> "Option", is |-> Plain(word.option)] >>)
    [] word.kind = "api"   -> DescribeValue("Api", word.value, ApiValueNames, 0)
                                \o DescribeValue("Error", word.error, ErrorValueNames, 0)
    [] OTHER               -> << >>

DescribeError(line) == FlattenSeq([at \in DOMAIN line |-> DescribeErrorPart(line[at])])

\* The number of a known command, and an argument at least.
DescribeAnswer(line) ==
  IF line = << >> \/ Head(line).kind # "number" THEN << >>
  ELSE LET commands == FindCommandByNumber(Head(line).value)
       IN IF commands = {} THEN << >>
          ELSE FlattenSeq([at \in DOMAIN Tail(line) |->
                             DescribeArgument(CHOOSE c \in commands : TRUE, Tail(line)[at])])

\* The one answer that is taken not to begin with its command's number.
DescribeRemoteProcedureCall(line) ==
  IF line = << >> \/ Head(line).kind # "rpc" THEN << >>
  ELSE LET option == Options("RemoteProcedureCall")[1]
       IN DescribeValue(option.shortName, Head(line).value, option.names, option.minimum)
          \o DescribeError(Tail(line))

Describe(line) ==
  IF DescribeAnswer(line) # << >> THEN DescribeAnswer(line)
  ELSE IF DescribeRemoteProcedureCall(line) # << >> THEN DescribeRemoteProcedureCall(line)
  ELSE DescribeError(line)

(***************************************************************************)
(* The dialog.                                                             *)
(***************************************************************************)

CONSTANTS
  Words,       \* what a hand types where a text is wanted
  MaxTouched   \* bound: rows that are not as they were built

ASSUME MessageBuilderAssumption == MaxTouched \in Nat

RowNumbers == 1 .. MESSAGE_CATALOG_MAX_NUMBER_OF_OPTIONS

VARIABLES
  selected,  \* the command
  rows,      \* per row whether it is ticked, what is typed and which name is chosen
  preview,   \* the line as the dialog shows it
  dialog,    \* "open", or closed with a line "inserted" in the input field or "answered"
  input,     \* that line
  answer,    \* what the firmware printed for it
  before     \* the firmware's settings when that line came, as far as the answer tells of them

vars == << selected, rows, preview, dialog, input, answer, before >>

FreshRow == [use |-> FALSE, value |-> << >>, choice |-> 0]
NoLine   == [command |-> "", tokens |-> << >>]
NoSettings == << >>

OptionOf(row)  == Options(selected)[row]
Exists(row)    == row <= Len(Options(selected))
IsShown(row)   == Exists(row) /\ ~OptionOf(row).readOnly
IsNamed(row)   == OptionOf(row).names # 0

\* What a field may hold: nothing, the ends of the range it hints at, one beyond.
Typed(option) ==
  IF option.argument = "text" THEN {<< >>} \cup Words
  ELSE {<< >>, << ToString(option.minimum) >>, << ToString(option.maximum) >>,
        << ToString(option.maximum + 1) >>}

TypeOK ==
  /\ selected \in Commands
  /\ rows \in [RowNumbers -> [use : BOOLEAN, value : Seq(Numerals \cup {"w", Blank}), choice : 0 .. 39]]
  /\ dialog \in {"open", "inserted", "answered"}
  /\ {preview.command, input.command} \subseteq Commands \cup {""}

\* (bug) The line carries the position in the list.
Argument_Position(option, row) ==
  IF option.names # 0 THEN << ToString(row.choice) >> ELSE row.value

\* The names run upwards from the minimum.
Argument(option, row) ==
  IF option.names # 0 THEN << ToString(option.minimum + row.choice) >> ELSE row.value

BuildMessage(command, rs) ==
  LET options == Options(command)
      from[row \in 1 .. Len(options) + 1] ==
        IF row > Len(options) THEN << >>
        ELSE (IF rs[row].use
                THEN << Blank, Start, options[row].shortName >> \o Argument(options[row], rs[row])
                ELSE << >>) \o from[row + 1]
  IN [command |-> command, tokens |-> from[1]]

\* A row of the command loses its tick, shown or not; what it holds is emptied if it is shown.
Reset(option, row) ==
  CASE option.readOnly  -> [row EXCEPT !.use = FALSE]
    [] option.names # 0 -> [row EXCEPT !.use = FALSE, !.choice = 0]
    [] OTHER            -> [row EXCEPT !.use = FALSE, !.value = << >>]

ShowOptionsOf(command, rs) ==
  [row \in RowNumbers |->
     IF row <= Len(Options(command)) THEN Reset(Options(command)[row], rs[row]) ELSE rs[row]]

Init ==
  /\ selected = CommandType[1]
  /\ rows = [row \in RowNumbers |-> FreshRow]
  /\ preview = BuildMessage(selected, rows)
  /\ dialog = "open"
  /\ input = NoLine
  /\ answer = << >>
  /\ before = NoSettings

Touched(rs) == {row \in RowNumbers : rs[row] # FreshRow}

Elsewhere == UNCHANGED << dialog, input, answer, before >>

OnCommand ==
  /\ dialog = "open"
  /\ \E command \in Commands :
       /\ selected' = command
       /\ rows' = ShowOptionsOf(command, rows)
  /\ preview' = BuildMessage(selected', rows')
  /\ Elsewhere

OnOptionUsed ==
  /\ dialog = "open"
  /\ \E row \in RowNumbers : IsShown(row) /\ rows' = [rows EXCEPT ![row].use = ~@]
  /\ Cardinality(Touched(rows')) <= MaxTouched
  /\ preview' = BuildMessage(selected, rows')
  /\ UNCHANGED selected
  /\ Elsewhere

\* An argument is greyed out while its option is not ticked.
OnOptionChanged ==
  /\ dialog = "open"
  /\ \E row \in RowNumbers :
       /\ IsShown(row) /\ rows[row].use
       /\ IF IsNamed(row)
            THEN \E choice \in {0, OptionOf(row).names - 1} : rows' = [rows EXCEPT ![row].choice = choice]
            ELSE \E value \in Typed(OptionOf(row)) : rows' = [rows EXCEPT ![row].value = value]
  /\ preview' = BuildMessage(selected, rows')
  /\ UNCHANGED selected
  /\ Elsewhere

\* The line is handed to the input field, the dialog hidden as it is.
OnInsert ==
  /\ dialog = "open"
  /\ dialog' = "inserted"
  /\ input' = BuildMessage(selected, rows)
  /\ UNCHANGED << selected, rows, preview, answer, before >>

\* Closed without a line, and shown again as it was: the next line replaces the one before.
Reveal ==
  /\ dialog = "answered"
  /\ dialog' = "open"
  /\ input' = NoLine
  /\ answer' = << >>
  /\ before' = NoSettings
  /\ UNCHANGED << selected, rows, preview >>

(***************************************************************************)
(* The firmware's answer to a line: the command's number, an error for     *)
(* every option it refused, and the fields of the command.  A field has    *)
(* the value the line set, or the setting there was, of which only those   *)
(* are told apart that decide about another: the animations', a pixel's    *)
(* and whether a procedure is refused.  The pass phrase and the console's  *)
(* password are never answered, and fields stand in the catalog's order.   *)
(***************************************************************************)
IsAnswered(command, letter) == ~(command \in {"Network", "Console"} /\ letter = "P")

SettingsBefore(command) ==
  CASE command = "Animation" -> [selected : {0, 15}, favourites : {{1}, {15}, {1, 15}}]
    [] command = "DisplayPixel" ->
         {pixel \in [lit : BOOLEAN, black : BOOLEAN] : pixel.black => ~pixel.lit}
    [] command = "RemoteProcedureCall" -> [refuses : BOOLEAN]
    [] OTHER -> {NoSettings}

ReadOf(line) == Parse(ParameterTable(line.command), line.tokens)

\* The value each option was given that the parser could read, the last one of a letter.
GivenValues(read) ==
  LET PlacesOf(letter) == {at \in DOMAIN read : read[at].option = letter /\ read[at].result = "ok"}
  IN [letter \in {l \in {read[at].option : at \in DOMAIN read} : PlacesOf(l) # {}} |->
        read[Max(PlacesOf(letter))].value]

Given(line) == GivenValues(ReadOf(line))
Or(given, letter, own) == IF letter \in DOMAIN given THEN given[letter] ELSE own

\* The options a setter refuses: by their value alone, or by the settings and the rest of the line.
Addressed(given, settings) == Or(given, "A", settings.selected)
IsRefused(command, given, letter, settings) ==
  /\ letter \in DOMAIN given
  /\ \/ ~Accepts(command, letter, given[letter])
     \/ command = "DisplayPixel" /\ letter = "I" /\ given[letter] >= NumberOfPixels
     \/ /\ command = "Animation" /\ letter = "F"
        /\ \/ Addressed(given, settings) = 0
           \/ given[letter] = 0 /\ settings.favourites = {Addressed(given, settings)}

ErrorOf(result) ==
  CASE result = "unknown" -> 3 [] result = "overflow" -> 4 [] result = "noValue" -> 5

OptionErrors(command, read, settings) ==
  FlattenSeq([at \in DOMAIN read |->
    IF read[at].result # "ok" THEN << OptionError(ErrorOf(read[at].result), read[at].option) >>
    ELSE IF IsRefused(command, GivenValues(read), read[at].option, settings)
           THEN << OptionError(4, read[at].option) >>
    ELSE << >>])

\* Any number but 0 makes a favourite.
AsAnswered(command, letter, value) ==
  IF command = "Animation" /\ letter = "F" THEN IF value = 0 THEN 0 ELSE 1
  ELSE AsKept(command, letter, value)

FavouritesAfter(given, settings) ==
  LET addressed == {Addressed(given, settings)}
  IN IF "F" \notin DOMAIN given \/ IsRefused("Animation", given, "F", settings) THEN settings.favourites
     ELSE IF given["F"] = 0 THEN settings.favourites \ addressed ELSE settings.favourites \cup addressed

\* A pixel is written only beside its index, and one lit in black is dark.
IsLitAfter(given, settings) ==
  IF {"I", "S"} \subseteq DOMAIN given THEN given["S"] # 0 /\ ~settings.black ELSE settings.lit

AnsweredValue(command, given, option, settings) ==
  LET letter == option.shortName
      own == IF option.argument = "text" THEN << >> ELSE option.minimum
      OneIf(condition) == IF condition THEN 1 ELSE 0
  IN CASE command = "Animation" /\ letter = "A" -> Addressed(given, settings)
       [] command = "Animation" /\ letter = "F" ->
            OneIf(Addressed(given, settings) \in FavouritesAfter(given, settings))
       [] command = "DisplayPixel" /\ letter = "I" -> Or(given, "I", 0)
       [] command = "DisplayPixel" /\ letter = "S" -> OneIf(IsLitAfter(given, settings))
       [] OTHER -> IF letter \notin DOMAIN given \/ IsRefused(command, given, letter, settings) THEN own
                   ELSE AsKept(command, letter, given[letter])

\* A text with a blank in it is two words to whoever splits the line at its blanks.
FieldWords(letter, value, isText) ==
  IF isText /\ Blank \in {value[at] : at \in DOMAIN value}
  THEN << Field(letter, SubSeq(value, 1, (CHOOSE at \in DOMAIN value : value[at] = Blank) - 1)),
          [kind |-> "other"] >>
  ELSE << Field(letter, value) >>

Fields(command, given, settings) ==
  LET options == Options(command)
  IN FlattenSeq([at \in DOMAIN options |->
       IF IsAnswered(command, options[at].shortName)
         THEN FieldWords(options[at].shortName, AnsweredValue(command, given, options[at], settings),
                         options[at].argument = "text")
         ELSE << >>])

\* The procedures that return whether they were carried out.
Refusable == {1, 2, 5} \cup 20 .. 33

\* The simulator keeps no network: it refuses a pair as the parser refuses half of one.
SendAnswer(line, settings) ==
  LET read  == ReadOf(line)
      given == GivenValues(read)
  IN << Number(NumberOf(line.command)) >> \o OptionErrors(line.command, read, settings) \o
     CASE line.command = "RemoteProcedureCall" ->
            << RpcId(Or(given, "P", 0)),
               Error(IF Or(given, "P", 0) = 0 THEN 7
                     ELSE IF Or(given, "P", 0) \in Refusable /\ settings.refuses THEN 8 ELSE 0) >>
       [] line.command = "Network" ->
            << Field("S", << >>), Error(IF DOMAIN given = {} THEN 0 ELSE 8) >>
       [] line.command = "DisplayPixel" /\ IsRefused(line.command, given, "I", settings) -> << >>
       [] OTHER -> Fields(line.command, given, settings)

Send ==
  /\ dialog = "inserted"
  /\ dialog' = "answered"
  /\ before' \in SettingsBefore(input.command)
  /\ answer' = SendAnswer(input, before')
  /\ UNCHANGED << selected, rows, preview, input >>

Next == OnCommand \/ OnOptionUsed \/ OnOptionChanged \/ OnInsert \/ Send \/ Reveal

Spec == Init /\ [][Next]_vars

(***************************************************************************)
(* Properties.                                                             *)
(***************************************************************************)
\* What a row shows beside its tick: the name's own number, or what is typed.
Shows(row) ==
  IF OptionOf(row).argument = "text" THEN rows[row].value
  ELSE IF IsNamed(row) THEN OptionOf(row).minimum + rows[row].choice
  ELSE ValueOf[rows[row].value[1]]

IsInRange(row) ==
  \/ OptionOf(row).argument = "text" \/ IsNamed(row)
  \/ rows[row].value # << >> /\ Shows(row) \in OptionOf(row).minimum .. OptionOf(row).maximum

TickedRows == {row \in RowNumbers : IsShown(row) /\ rows[row].use}

\* A line of options in their range is read by the firmware's parser as those options, in their
\* order and with nothing beside them, and no value of the range is out of its setter's bounds:
\* catalog, dialog and the parameter tables of the commands agree (BuildMessage, ParseOption).
\* It may be refused for the settings or for the rest of the line (IsRefused, SendAnswer).
FirmwareReadsWhatIsTicked ==
  (\A row \in TickedRows : IsInRange(row)) =>
    LET read == Parse(ParameterTable(selected), BuildMessage(selected, rows).tokens)
    IN /\ Len(read) = Cardinality(TickedRows)
       /\ \A row \in TickedRows :
            LET position == Cardinality({r \in TickedRows : r <= row})
            IN /\ read[position].option = OptionOf(row).shortName
               /\ read[position].result = "ok"
               /\ AsKept(selected, OptionOf(row).shortName, read[position].value)
                    = AsKept(selected, OptionOf(row).shortName, Shows(row))
               /\ Accepts(selected, OptionOf(row).shortName, read[position].value)

\* Nothing is in a line that the dialog does not show: a tick left from another command does
\* not come back under an option that has no row (ShowOptionsOfSelectedCommand).
OnlyWhatIsShownIsSent == \A row \in RowNumbers : Exists(row) /\ rows[row].use => IsShown(row)

\* The preview is the line that Insert would hand over, after every event of the dialog.
PreviewIsTheLine == preview = BuildMessage(selected, rows)

\* What the dialog shows, its preview says and the firmware reads.
DialogMeansItsLine == FirmwareReadsWhatIsTicked /\ OnlyWhatIsShownIsSent /\ PreviewIsTheLine

\* An option the firmware refused, a pixel's state without an index it took or lit in black, and a
\* text with a blank in it, which the decoder takes for two words, do not come back as ticked; the
\* simulator keeps no network, and the decoder takes the answer to a procedure call for one without
\* its command's number, which it has as every answer, so that it never tells the procedure.
ComesBack(row) ==
  LET letter == OptionOf(row).shortName
  IN /\ IsInRange(row) /\ IsAnswered(selected, letter)
     /\ selected \notin {"Network", "RemoteProcedureCall"}
     /\ \A at \in DOMAIN answer : answer[at].kind = "error" => answer[at].option # letter
     /\ selected = "DisplayPixel" /\ letter = "S" =>
          /\ "I" \in DOMAIN Given(input) /\ ~IsRefused(selected, Given(input), "I", before)
          /\ rows[row].choice = 1 => ~before.black
     /\ OptionOf(row).argument = "text" =>
          Blank \notin {rows[row].value[at] : at \in DOMAIN rows[row].value}

\* What was ticked, and the firmware took, is read back from its answer under its own label and
\* name: as it keeps it, a switch as 0 or 1 (Describe, SendAnswer).
WhatWasTickedIsReadBack ==
  dialog = "answered" =>
    \A row \in TickedRows : ComesBack(row) =>
      [label |-> OptionOf(row).shortName,
       is |-> IF IsNamed(row) THEN Name(rows[row].choice)
              ELSE Plain(AsAnswered(selected, OptionOf(row).shortName, Shows(row)))] \in Range(Describe(answer))
=============================================================================
