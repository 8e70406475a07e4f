-------------------------------- MODULE Rail --------------------------------
(***************************************************************************)
(* What the supply switch promises the strip, whatever asks for it: data   *)
(* reaches DIN only while the rail is up and the gate is open, and the     *)
(* rail goes down only between two frames and with the gate closed.  The   *)
(* rail comes back with the gate still closed; opening it is a step of its *)
(* own, so the strip has its rail before the first frame.                  *)
(***************************************************************************)

VARIABLES
  rail,  \* "up" or "down": the strip's 5 V
  gate,  \* "open" or "closed": whether a frame may start
  line   \* "idle" or "busy": whether a frame is on the data line

railVars == << rail, gate, line >>

RailTypeOK ==
  /\ rail \in {"up", "down"}
  /\ gate \in {"open", "closed"}
  /\ line \in {"idle", "busy"}

RailInit ==
  /\ rail = "up"
  /\ gate = "open"
  /\ line = "idle"

StartFrame ==
  /\ rail = "up"
  /\ gate = "open"
  /\ line = "idle"
  /\ line' = "busy"
  /\ UNCHANGED << rail, gate >>

EndFrame ==
  /\ line = "busy"
  /\ line' = "idle"
  /\ UNCHANGED << rail, gate >>

\* The gate closes and the rail drops in one step of the clock's tick.
Cut ==
  /\ line = "idle"
  /\ rail' = "down"
  /\ gate' = "closed"
  /\ UNCHANGED line

Raise ==
  /\ rail = "down"
  /\ rail' = "up"
  /\ UNCHANGED << gate, line >>

OpenGate ==
  /\ rail = "up"
  /\ gate = "closed"
  /\ gate' = "open"
  /\ UNCHANGED << rail, line >>

\* A reset of the controller: the port floats, the line stops, the rail is
\* brought up again before the line is claimed.
Reset ==
  /\ rail' = "up"
  /\ gate' = "open"
  /\ line' = "idle"

RailNext == StartFrame \/ EndFrame \/ Cut \/ Raise \/ OpenGate \/ Reset

RailSpec == RailInit /\ [][RailNext]_railVars
=============================================================================
