--------------------------- MODULE CommandOptions ---------------------------
(***************************************************************************)
(* How the options of a command line are read.  A line is a sequence of    *)
(* tokens: the "-" that starts an option, blanks, letters, numerals and    *)
(* words.  An option is the token behind a "-", and its argument, if the   *)
(* table of the command knows the option, is what follows directly.        *)
(***************************************************************************)
EXTENDS Integers, Sequences

CONSTANT ValueOf    \* the value of each numeral token

Start == "-"
Blank == " "
Numerals == DOMAIN ValueOf

ASSUME NumeralAssumption == /\ ValueOf \in [Numerals -> Nat]
                            /\ Numerals \cap {"", Start, Blank} = {}

\* The largest number each type of argument holds; a text has none.
Limits == [uint8 |-> 255, uint16 |-> 65535]

TokenAt(tokens, at) == IF at <= Len(tokens) THEN tokens[at] ELSE ""

\* The first token at or behind `at` that is no blank.
SkipBlanks(tokens, at) ==
  CHOOSE found \in at .. Len(tokens) + 1 :
    /\ TokenAt(tokens, found) # Blank
    /\ \A between \in at .. found - 1 : TokenAt(tokens, between) = Blank

\* strtoul() and what StringTools makes of it: `used` tokens, and a value or a refusal.
StringTo(type, tokens, at) ==
  LET found == SkipBlanks(tokens, at)
      Read(used, result, value) == [used |-> used, result |-> result, value |-> value]
      Signed(value, used) == IF value = 0 THEN Read(used, "ok", 0) ELSE Read(used, "overflow", 0)
  IN CASE TokenAt(tokens, found) \in Numerals ->
            IF ValueOf[TokenAt(tokens, found)] <= Limits[type]
            THEN Read(found + 1 - at, "ok", ValueOf[TokenAt(tokens, found)])
            ELSE Read(found + 1 - at, "overflow", 0)
       [] TokenAt(tokens, found) = Start /\ TokenAt(tokens, found + 1) \in Numerals ->
            Signed(ValueOf[TokenAt(tokens, found + 1)], found + 2 - at)
       [] OTHER -> Read(0, "noValue", 0)

\* A text runs to the next option or to the end of the line, blanks included.
TextFrom(tokens, at) ==
  LET end == CHOOSE stop \in at .. Len(tokens) + 1 :
               /\ TokenAt(tokens, stop) \in {Start, ""}
               /\ \A between \in at .. stop - 1 : tokens[between] # Start
  IN [used |-> end - at, result |-> "ok", value |-> SubSeq(tokens, at, end - 1)]

\* An unknown option reads nothing, so that what follows it is read again.
ParseOption(types, option, tokens, at) ==
  IF option \notin DOMAIN types THEN [used |-> 0, result |-> "unknown", value |-> 0]
  ELSE IF types[option] = "text" THEN TextFrom(tokens, at) ELSE StringTo(types[option], tokens, at)

\* Every option of the line, in order, with what its argument was read as.
Parse(types, tokens) ==
  LET parsed[at \in 1 .. Len(tokens) + 1] ==
        IF at >= Len(tokens) THEN <<>>
        ELSE IF tokens[at] # Start THEN parsed[at + 1]
        ELSE LET read == ParseOption(types, tokens[at + 1], tokens, at + 2)
             IN <<[option |-> tokens[at + 1], result |-> read.result, value |-> read.value]>>
                \o parsed[at + 2 + read.used]
  IN parsed[1]

-----------------------------------------------------------------------------

(***************************************************************************)
(* The options each command knows, the values it takes for them and what   *)
(* it keeps of a value.                                                    *)
(***************************************************************************)

Overlays == {"OverlayDate", "OverlayTemperature", "OverlayText"}

Numbers(letters) == [letter \in letters |-> "uint8"]
Texts(letters) == [letter \in letters |-> "text"]

OverlayOptions ==
  [letter \in {"P", "E", "M", "D", "V", "A", "T", "S", "F"} |-> IF letter = "T" THEN "text" ELSE "uint8"]

\* The parameter table of each command.
ParameterTable(command) ==
  CASE command = "RemoteProcedureCall" -> Numbers({"P"})
    [] command = "DisplayColor"        -> Numbers({"R", "G", "B"})
    [] command = "DisplayBrightness"   -> Numbers({"B", "A", "G"})
    [] command = "DisplayPixel"        -> Numbers({"I", "S"})
    [] command \in Overlays            -> OverlayOptions
    [] command = "ClockMode"           -> Numbers({"M", "I"})
    [] command = "Animation"           -> Numbers({"A", "M", "S", "F"})
    [] command = "Time"                -> Numbers({"H", "M", "S"})
    [] command = "Date"                -> [Numbers({"Y", "M", "D"}) EXCEPT !["Y"] = "uint16"]
    [] command = "Status"              -> Numbers({})
    [] command = "Network"             -> Texts({"S", "P"})
    [] command = "NightSwitch"         -> Numbers({"A", "H", "M", "E", "N", "B"})
    [] command = "ColorCycle"          -> Numbers({"A", "S"})
    [] command = "Console"             -> Texts({"P"})

\* The setter's refusals; every other byte is taken as it is.
IsPeriodValid(minutes) == minutes >= 1
IsEnduranceValid(seconds) == seconds >= 1
IsFontValid(font) == font \in 0 .. 4
IsModeValid(mode) == mode \in 0 .. 3
IsHourValid(hour) == hour \in 0 .. 23
IsMinuteValid(minute) == minute \in 0 .. 59
IsYearValid(year) == year \in 2000 .. 2099
IsMonthValid(month) == month \in 1 .. 12
IsDayValid(day) == day \in 1 .. 31
IsAnimationValid(animation) == animation \in 0 .. 15
IsAnimationModeValid(mode) == mode \in 0 .. 2

\* What a setter judges by the value alone.  What it refuses for the settings there are or for the
\* rest of the line is in the commands: a favourite of no animation or the last one, half a network.
Accepts(command, letter, value) ==
  CASE command \in Overlays /\ letter = "P" -> IsPeriodValid(value)
    [] command \in Overlays /\ letter = "E" -> IsEnduranceValid(value)
    [] command \in Overlays /\ letter = "F" -> IsFontValid(value)
    [] command = "ClockMode" /\ letter = "M" -> IsModeValid(value)
    [] command = "Animation" /\ letter = "A" -> IsAnimationValid(value)
    [] command = "Animation" /\ letter = "M" -> IsAnimationModeValid(value)
    [] command = "Time" /\ letter = "H" -> IsHourValid(value)
    [] command = "Time" /\ letter \in {"M", "S"} -> IsMinuteValid(value)
    [] command = "Date" /\ letter = "Y" -> IsYearValid(value)
    [] command = "Date" /\ letter = "M" -> IsMonthValid(value)
    [] command = "Date" /\ letter = "D" -> IsDayValid(value)
    [] OTHER -> TRUE

\* Options that are switches keep only whether the value was none.
IsFlag(command, letter) ==
  \/ command \in Overlays \cup {"NightSwitch", "ColorCycle"} /\ letter = "A"
  \/ command = "ClockMode" /\ letter = "I"
  \/ command = "DisplayBrightness" /\ letter \in {"A", "G"}

\* A name or a pass phrase cannot end in a blank; the text of an overlay can.
TrimTrailingBlanks(text) ==
  SubSeq(text, 1, CHOOSE last \in 0 .. Len(text) :
                    /\ last = 0 \/ text[last] # Blank
                    /\ \A behind \in last + 1 .. Len(text) : text[behind] = Blank)

AsKept(command, letter, value) ==
  CASE IsFlag(command, letter) -> IF value = 0 THEN 0 ELSE 1
    [] command \in {"Network", "Console"} -> TrimTrailingBlanks(value)
    [] OTHER -> value

ConvertSpeedToTaskCycle(speed) == IF speed = 0 THEN 0 ELSE 256 - speed

(***************************************************************************)
(* What a command line asks for, said without its parser: the options as   *)
(* the sender wrote them, each with its letter and the tokens behind it,   *)
(* against the settings as they were.                                      *)
(***************************************************************************)

Read(command, written) ==
  IF written.option \notin DOMAIN ParameterTable(command) THEN "unknown"
  ELSE IF ParameterTable(command)[written.option] = "text" THEN "ok"
  ELSE IF {written.text[at] : at \in DOMAIN written.text} \cap Numerals = {} THEN "noValue"
  ELSE "number"

\* What the sender wrote behind an option: the number, or the text up to the next option.
NumberWritten(written) ==
  LET sign == IF Start \in {written.text[at] : at \in DOMAIN written.text} THEN -1 ELSE 1
      numeral == CHOOSE token \in {written.text[at] : at \in DOMAIN written.text} : token \in Numerals
  IN sign * ValueOf[numeral]
ValueWritten(command, written) ==
  IF Read(command, written) = "number" THEN NumberWritten(written) ELSE written.text

\* An option that its reader understood, and one that its setter took as well.
Understood(command, written) ==
  \/ Read(command, written) = "ok"
  \/ /\ Read(command, written) = "number"
     /\ NumberWritten(written) \in 0 .. Limits[ParameterTable(command)[written.option]]
Taken(command, written) ==
  Understood(command, written) /\ Accepts(command, written.option, ValueWritten(command, written))

\* The last one of a kind stands.
LastOf(options, IsOne(_)) == {at \in DOMAIN options :
  IsOne(options[at]) /\ \A behind \in at + 1 .. Len(options) : ~IsOne(options[behind])}
Meant(options, IsOne(_), command, otherwise) ==
  IF LastOf(options, IsOne) = {} THEN otherwise
  ELSE LET written == options[CHOOSE at \in LastOf(options, IsOne) : TRUE]
       IN AsKept(command, written.option, ValueWritten(command, written))

\* The animation a line names is the one its favourite and its speed are for; what was refused
\* in the end is refused as a whole.
LastUnderstood(command, options, option, otherwise) ==
  Meant(options, LAMBDA written : written.option = option /\ Understood(command, written),
        command, otherwise)

DropsTheLastFavourite(options, before) ==
  /\ LastUnderstood("Animation", options, "F", 1) = 0
  /\ before["F"] = {LastUnderstood("Animation", options, "A", before["A"])}

MeaningForAnimations(options, before) ==
  LET Last(option, otherwise) == LastUnderstood("Animation", options, option, otherwise)
      addressed == Last("A", before["A"])
      favourite == Last("F", -1)
  IN [A |-> IF addressed \in 0 .. 15 THEN addressed ELSE before["A"],
      M |-> IF Last("M", 0) \in 0 .. 2 THEN Last("M", before["M"]) ELSE before["M"],
      F |-> CASE favourite = -1 \/ addressed \notin 1 .. 15 \/ DropsTheLastFavourite(options, before) ->
                   before["F"]
              [] favourite = 0 /\ addressed \in 1 .. 15 /\ ~DropsTheLastFavourite(options, before) ->
                   before["F"] \ {addressed}
              [] OTHER -> before["F"] \cup {addressed},
      S |-> [animation \in DOMAIN before["S"] |->
               IF animation = addressed /\ Last("S", -1) # -1
               THEN (256 - Last("S", 0)) % 256 ELSE before["S"][animation]]]

Mentions(options, option) == \E at \in DOMAIN options : options[at].option = option

MeaningForNetwork(options, before) ==
  LET Last(option) == LastUnderstood("Network", options, option, << >>)
  IN CASE ~Mentions(options, "S") \/ ~Mentions(options, "P") -> before
       [] OTHER -> IF Last("S") = << >> THEN [option \in {"S", "P"} |-> << >>]
                   ELSE [option \in {"S", "P"} |-> Last(option)]

Meaning(command, options, before) ==
  CASE command = "Animation" -> MeaningForAnimations(options, before)
    [] command = "Network" -> MeaningForNetwork(options, before)
    [] OTHER -> [option \in DOMAIN before |->
         IF option = "T" /\ command # "OverlayText" THEN before[option] ELSE
         Meant(options, LAMBDA written : written.option = option /\ Taken(command, written),
               command, before[option])]

RefusedInLine(command, options, before) ==
  LET Last(option, otherwise) == LastUnderstood(command, options, option, otherwise)
      addressed == Last("A", before["A"])
      refusedAtOnce(written) ==
        ~Understood(command, written) \/ (command # "Animation" /\ ~Taken(command, written))
  IN {options[at].option : at \in {i \in DOMAIN options : refusedAtOnce(options[i])}}
     \cup IF command # "Animation" THEN {}
          ELSE {option \in {"A", "S", "F", "M"} :
                 /\ \E at \in DOMAIN options :
                      options[at].option = option /\ Understood(command, options[at])
                 /\ \/ option \in {"A", "S"} /\ addressed \notin 0 .. 15
                    \/ option = "F" /\ (addressed \notin 1 .. 15 \/ DropsTheLastFavourite(options, before))
                    \/ option = "M" /\ Last("M", 0) \notin 0 .. 2}

\* The text of an overlay keeps the blanks in front of the next option.
Comparable(command, values) ==
  IF command \in Overlays THEN [values EXCEPT !["T"] = TrimTrailingBlanks(@)] ELSE values
=============================================================================
