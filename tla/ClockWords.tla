---------------------------- MODULE ClockWords ----------------------------
(***************************************************************************)
(* Clock: the words in which a clock of one of four regions tells a time.  *)
(* A word is its name as the face spells it; what stands for FUENF, ZEHN   *)
(* and DREI among the minutes is not what stands for them among the hours. *)
(***************************************************************************)
EXTENDS Integers, Sequences, SequencesExt

Modes == << "Wessi", "Ossi", "RheinRuhr", "Schwaben" >>

\* ToNextMode(): after the last comes the first.
NextMode(mode) == IF mode = Len(Modes) THEN 1 ELSE mode + 1

\* kHoursTable, from 0 for twelve on; only a full hour says UHR, and EIN for EINS.
HourNames == << "HourZwoelf", "HourEins", "HourZwei", "HourDrei", "HourVier", "HourFuenf",
                "HourSechs", "HourSieben", "HourAcht", "HourNeun", "HourZehn", "HourElf" >>

GetHoursTableElement(isFullHour, hour) ==
  IF ~isFullHour THEN << HourNames[hour + 1] >>
  ELSE << IF hour = 1 THEN "HourEin" ELSE HourNames[hour + 1], "Uhr" >>

Step(offset, words) == [offset |-> offset, words |-> words]

Quarter == [ Wessi     |-> Step(0, << "Viertel", "Nach" >>), Ossi     |-> Step(1, << "Viertel" >>),
             RheinRuhr |-> Step(0, << "Viertel", "Nach" >>), Schwaben |-> Step(1, << "Viertel" >>) ]

ThreeQuarters == [ Wessi     |-> Step(1, << "Viertel", "Vor" >>), Ossi     |-> Step(1, << "Dreiviertel" >>),
                   RheinRuhr |-> Step(1, << "Viertel", "Vor" >>), Schwaben |-> Step(1, << "Dreiviertel" >>) ]

Twenty == [ Wessi     |-> Step(1, << "Zehn", "Vor", "Halb" >>), Ossi     |-> Step(1, << "Zehn", "Vor", "Halb" >>),
            RheinRuhr |-> Step(0, << "Zwanzig", "Nach" >>),     Schwaben |-> Step(0, << "Zwanzig", "Nach" >>) ]

Forty == [ Wessi     |-> Step(1, << "Zehn", "Nach", "Halb" >>), Ossi     |-> Step(1, << "Zehn", "Nach", "Halb" >>),
           RheinRuhr |-> Step(1, << "Zwanzig", "Vor" >>),       Schwaben |-> Step(1, << "Zwanzig", "Vor" >>) ]

\* kMinutesTable: for each step of five minutes its words and what is added to the hour.
MinutesTable(region) ==
  << Step(0, << >>),
     Step(0, << "Fuenf", "Nach" >>),
     Step(0, << "Zehn", "Nach" >>),
     Quarter[region],
     Twenty[region],
     Step(1, << "Fuenf", "Vor", "Halb" >>),
     Step(1, << "Halb" >>),
     Step(1, << "Fuenf", "Nach", "Halb" >>),
     Forty[region],
     ThreeQuarters[region],
     Step(1, << "Zehn", "Vor" >>),
     Step(1, << "Fuenf", "Vor" >>) >>

GetMinutesTableElement(mode, minute) == MinutesTable(Modes[mode])[minute \div 5 + 1]

\* CalculateItIs(): at the full and at the half hour.
CalculateItIs(minute) == minute \div 5 \in {0, 6}

\* The hour that is said, of the hour it is.
HourSaid_BeforeNoon(hour, offset) == IF hour < 12 THEN (hour + offset) % 12 ELSE hour % 12

\* Taken to twelve hours first, and to them again once the minutes have counted on.
HourSaid(hour, offset) == ((hour % 12) + offset) % 12

\* Clock::GetClockWords() and ClockWords::GetWordsList(): ES IST, the minutes, the hour.
GetWordsList(hour, minute, mode, showItIs) ==
  LET element == GetMinutesTableElement(mode, minute)
      isFullHour == minute \div 5 = 0
  IN  (IF showItIs \/ CalculateItIs(minute) THEN << "Es", "Ist" >> ELSE << >>)
        \o element.words
        \o GetHoursTableElement(isFullHour, HourSaid(hour, element.offset))

-----------------------------------------------------------------------------
(* What the words mean to who reads them. *)

NumberRead == [ Fuenf |-> 5, Zehn |-> 10, Viertel |-> 15, Zwanzig |-> 20 ]

\* The minutes the words before the hour add to it, or take from it.
MinutesRead(words) ==
  CASE words = << >>                                     -> 0
    [] words = << "Halb" >>                              -> -30
    [] words = << "Viertel" >>                           -> -45
    [] words = << "Dreiviertel" >>                       -> -15
    [] Len(words) = 2 /\ words[2] = "Nach"               -> NumberRead[words[1]]
    [] Len(words) = 2 /\ words[2] = "Vor"                -> -NumberRead[words[1]]
    [] Len(words) = 3 /\ words[2] = "Nach"               -> NumberRead[words[1]] - 30
    [] Len(words) = 3 /\ words[2] = "Vor"                -> -NumberRead[words[1]] - 30

HourRead(word) ==
  IF word = "HourEin" THEN 1 ELSE SelectInSeq(HourNames, LAMBDA name : name = word) - 1

\* The time of twelve hours that a list of words is read as, in minutes.
TimeRead(words) ==
  LET said == SelectSeq(words, LAMBDA word : word \notin {"Es", "Ist", "Uhr"})
  IN  (60 * HourRead(Last(said)) + MinutesRead(Front(said))) % 720
=============================================================================
