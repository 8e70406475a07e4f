----------------------------- MODULE MCClockFace -----------------------------
(***************************************************************************)
(* Two overlays of different endurance and period, one of which waits for  *)
(* a reading.                                                              *)
(***************************************************************************)
EXTENDS ClockFace, TLC

TwoOverlays == << "date", "temperature" >>

\* The endurance of a new clock, and a longer one.
SomeSeconds == "date" :> 1 @@ "temperature" :> 3

DifferentMinutes == "date" :> 2 @@ "temperature" :> 1
=============================================================================
