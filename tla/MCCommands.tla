---------------------------- MODULE MCCommands ----------------------------
(* Lines of one to three options, written with and without blanks, for each *)
(* command; for the display three LEDs on a supply for two and a half.      *)
EXTENDS Commands, SequencesExt

SomeNumbers == (0 .. 40) \cup {90, 200, 255, 300, 1999, 2024}
MCValueOf == [numeral \in {ToString(value) : value \in SomeNumbers} |->
  CHOOSE value \in SomeNumbers : ToString(value) = numeral]

MCLeds == 0 .. 2

\* Options written one behind the other, or with a blank between.
Spelled(options, between) ==
  FlattenSeq([at \in DOMAIN options |->
    << Start, options[at].option >> \o options[at].text \o
    (IF at < Len(options) THEN between ELSE << >>)])
Lines(command, optionLists) ==
  {[command |-> command, options |-> options, tokens |-> Spelled(options, between)] :
     options \in optionLists, between \in {<< >>, << Blank >>}}

AnOption(letter, text) == [option |-> letter, text |-> text]
OptionsOf(letters, texts) == {AnOption(letter, text) : letter \in letters, text \in texts}
UpTo(options, length) == UNION {[1 .. n -> options] : n \in 0 .. length}

Num(token) == << token >>
NoNumber == << >>
Unknown == AnOption("X", NoNumber)

Line(command, options) == [command |-> command, options |-> options, tokens |-> Spelled(options, << Blank >>)]
Call(id) == Line("RemoteProcedureCall", << AnOption("P", Num(id)) >>)

NewSettings == [
  OverlayText |-> [P |-> 1, E |-> 1, M |-> 0, D |-> 0, V |-> 0, A |-> 0, T |-> << >>, S |-> 1, F |-> 4],
  OverlayTemperature |-> [P |-> 1, E |-> 1, M |-> 0, D |-> 0, V |-> 0, A |-> 0, T |-> << >>, S |-> 1, F |-> 4],
  OverlayDate |-> [P |-> 1, E |-> 1, M |-> 0, D |-> 0, V |-> 0, A |-> 0, T |-> << >>, S |-> 1, F |-> 4],
  ClockMode   |-> [M |-> 0, I |-> 1],
  Animation   |-> [A |-> 1, M |-> 0, F |-> {1, 2}, S |-> [animation \in 0 .. 2 |-> 50]],
  Time        |-> [H |-> 12, M |-> 30, S |-> 0],
  Date        |-> [Y |-> 2024, M |-> 1, D |-> 31],
  NightSwitch |-> [A |-> 0, H |-> 23, M |-> 0, E |-> 6, N |-> 0, B |-> 0],
  ColorCycle  |-> [S |-> 10],
  Network     |-> [S |-> << "home" >>, P |-> << "secret" >>],
  Console     |-> [P |-> << "secret" >>]]

(* A command on its own: what it stores and what it refuses. *)
Plain(lines, count) ==
  [lines |-> lines, count |-> count, settings |-> NewSettings,
   faces |-> {}, trails |-> {<< >>}, nights |-> {}, fades |-> {}, hues |-> {}, lux |-> {}]

SettingScenarios == <<
  Plain(Lines("OverlayText", UpTo(OptionsOf({"P", "F"}, {Num("0"), Num("2"), Num("7")}) \cup {Unknown}
              \cup {AnOption("T", << "hello", Blank, "world" >>), AnOption("A", Num("7"))}, 2)), 2),
  \* two overlays of the three, one after the other
  Plain(UNION {Lines(overlay, UpTo({AnOption("T", << "hello" >>), AnOption("E", Num("0")), AnOption("E", Num("3")),
              AnOption("M", << Blank, "2" >>)}, 2)) : overlay \in {"OverlayDate", "OverlayTemperature"}}, 2),
  Plain(Lines("ClockMode", UpTo(OptionsOf({"M", "I"}, {Num("2"), Num("7"), Num("300"), NoNumber}) \cup {Unknown}, 3)), 1),
  Plain(Lines("Animation", UpTo(OptionsOf({"A", "F", "S"}, {Num("0"), Num("1"), Num("2"), Num("24")}) \cup
              {AnOption("M", Num("1")), AnOption("M", Num("7"))}, 3)), 1),
  Plain(Lines("Animation", UpTo(OptionsOf({"A", "F"}, {Num("0"), Num("1"), Num("2")}), 2)), 2),
  Plain(Lines("Time", UpTo(OptionsOf({"H", "M"}, {Num("7"), Num("24"), Num("90"), << Start, "0" >>, << Start, "7" >>}), 3)), 1),
  Plain(Lines("Date", UpTo(OptionsOf({"Y"}, {Num("300"), Num("1999"), Num("2024")}) \cup
              OptionsOf({"M", "D"}, {Num("2"), Num("300")}), 3)), 1),
  Plain(Lines("Status", UpTo({Unknown, AnOption("I", Num("3"))}, 2)), 1),
  Plain(Lines("Network", UpTo(OptionsOf({"S", "P"}, {<< >>, << "name", Blank >>, << Blank >>}) \cup {Unknown}, 3)), 1),
  Plain(Lines("Console", UpTo({AnOption("P", << "word" >>), AnOption("P", << >>), AnOption("A", Num("1"))}, 2)), 2),
  Plain(Lines("NightSwitch", UpTo(OptionsOf({"A", "H"}, {Num("0"), Num("7"), NoNumber}), 3)), 1),
  \* a step between two lines that go to the animation chosen
  Plain(Lines("Animation", UpTo(OptionsOf({"A", "F"}, {Num("0"), Num("1")}), 2)) \cup
        Lines("ClockMode", {<< AnOption("M", Num("2")) >>}) \cup {Call(id) : id \in {"34", "35", "36"}}, 3) >>

(* The light: lines of several commands, among the tasks. *)
Light(lines, count) ==
  [lines |-> lines, count |-> count, settings |-> [ColorCycle |-> [S |-> 10]],
   faces |-> {}, trails |-> {<< >>}, nights |-> {}, fades |-> {}, hues |-> {}, lux |-> {}]

LightScenarios == <<
  \* colours, against the current limit
  [Light({Line("DisplayColor", << AnOption(c, Num(v)) >>) : c \in {"R", "G"}, v \in {"0", "200"}}
         \cup {Call("7"), Call("4"), Call("3")}
         \cup {Line("DisplayColor", << AnOption("R", Num(r)), AnOption("G", Num("0")), AnOption("B", Num(b)) >>) :
                 r \in {"0", "255"}, b \in {"0", "255"}}, 3) EXCEPT !.faces = {{0}, {0, 2}, {0, 1, 2}}, !.trails = {<< >>, 1 :> 2}],
  \* the brightness and what stands above it
  [Light({Line("DisplayBrightness", << AnOption("B", Num("3")), AnOption("A", Num("1")) >>),
          Line("DisplayBrightness", << AnOption("A", Num("1")), AnOption("B", Num("200")) >>),
          Line("DisplayBrightness", << AnOption("G", Num("1")) >>)}, 2)
     EXCEPT !.faces = {{0, 2}}, !.trails = {1 :> 2}, !.nights = {0, 255}, !.fades = {7}, !.lux = {0, 90, 2024}],
  \* the sensor's bounds, in order and out of order
  [Light({Line("DisplayBrightness", << AnOption("A", Num("1")), AnOption("B", Num("200")) >>),
          Call("1"), Call("2"), Call("30")}, 3) EXCEPT !.lux = {0, 90, 2024}],
  \* the procedures that take one step, and a pixel
  [Light({Call(ToString(id)) : id \in {0, 5, 6, 8, 11, 14, 15, 16, 18, 38, 39, 40, 90}}
         \cup {Line("DisplayPixel", << AnOption("I", Num(led)), AnOption("S", Num("1")) >>) : led \in {"1", "7"}}
         \cup {Line("DisplayPixel", << AnOption("I", Num("0")), AnOption("I", Num("1")) >>)}, 3)
     EXCEPT !.faces = {{0, 2}}],
  \* the wheel
  [Light({Line("ColorCycle", << AnOption("A", Num("1")) >>), Line("ColorCycle", << AnOption("A", Num("0")) >>),
          Line("DisplayColor", << AnOption("B", Num("0")) >>), Call("37"), Call("30")}, 3)
     EXCEPT !.faces = {{0}}, !.trails = {1 :> 3 @@ 2 :> 6}, !.hues = 0 .. 3],
  \* the wheel over black
  [Light({Line("ColorCycle", << AnOption("A", Num(active)) >>) : active \in {"0", "1"}}
         \cup {Line("DisplayColor", << AnOption("R", Num("0")), AnOption("G", Num("0")), AnOption("B", Num("0")) >>)}, 3)
     EXCEPT !.faces = {{0, 2}}, !.hues = 0 .. 3],
  \* from a dark blue to the brightest hue
  [Light({Line("DisplayColor", << AnOption("R", Num("0")), AnOption("G", Num("0")) >>),
          Line("ColorCycle", << AnOption("A", Num("1")), AnOption("S", Num("0")) >>)}, 2)
     EXCEPT !.faces = {{0, 1, 2}}, !.hues = 0 .. 42] >>
MCScenarios == SettingScenarios \o LightScenarios
=============================================================================
