------------------------------- MODULE Supply -------------------------------
(***************************************************************************)
(* The strip's supply as the firmware's calls change it: Display's enable  *)
(* and disable, Pixels' dirty mark and output gate, the platform's         *)
(* PowerSwitch, and Power, which orders the three.  Every operator takes   *)
(* the clock's state as a record and gives the record the call leaves.     *)
(*                                                                         *)
(* The picture is abstracted to whether the strip's master lets any of it  *)
(* out: "lit" stands for every master above 0, "dark" for a master of 0.   *)
(***************************************************************************)

CONSTANT
  Fitted  \* POWER_SWITCH_IS_FITTED: whether the board has the switch

ASSUME FittedAssumption == Fitted \in BOOLEAN

PowerStates == {"on", "blanking", "off", "settling"}

Masters == {"dark", "lit"}

\* The buffer is marked: a write, a redraw or Show().
MarkDirty(c) == [c EXCEPT !.dirty = TRUE]

\* A master written without the mark that sends it.
SetMaster_NoMark(c, master) == [c EXCEPT !.master = master]

SetMaster(c, master) == [c EXCEPT !.master = master, !.dirty = TRUE]

\* A disabled display keeps its master of 0; an enabled one has the cap
\* written again where it moved.
ApplyCurrentLimit(c) == IF c.enabled THEN SetMaster(c, "lit") ELSE c

\* A pass that rewrites pixels, with the cap that follows from what is lit.
Draw(c) == ApplyCurrentLimit(MarkDirty(c))

Enable(c) == SetMaster([c EXCEPT !.enabled = TRUE], "lit")

Disable(c) == SetMaster([c EXCEPT !.enabled = FALSE], "dark")

Toggle(c) == IF c.enabled THEN Disable(c) ELSE Enable(c)

SuspendOutput(c) == [c EXCEPT !.suspended = TRUE]

ResumeOutput(c) == [c EXCEPT !.suspended = FALSE, !.dirty = TRUE]

RaiseRail(c) == [c EXCEPT !.rail = TRUE]

DropRail(c) == [c EXCEPT !.rail = FALSE]

-----------------------------------------------------------------------------

CutSupply(c) == [DropRail(SuspendOutput(c)) EXCEPT !.state = "off"]

ReleaseSupply(c) == [Enable(ResumeOutput(c)) EXCEPT !.state = "on"]

SwitchSupplyOn(c) ==
  CASE ~Fitted \/ c.state \in {"on", "settling"} -> c
    [] Fitted /\ c.state = "off"      -> [RaiseRail(c) EXCEPT !.state = "settling"]
    [] Fitted /\ c.state = "blanking" -> ReleaseSupply(c)

\* A plausible shortcut: dropping the port at once, as for a settling supply.
SwitchSupplyOff_AtOnce(c) ==
  IF Fitted /\ c.state \in {"on", "settling"} THEN CutSupply(c) ELSE c

SwitchSupplyOff(c) ==
  CASE ~Fitted \/ c.state \in {"blanking", "off"} -> c
    [] Fitted /\ c.state = "on"       -> [Disable(c) EXCEPT !.state = "blanking"]
    [] Fitted /\ c.state = "settling" -> [DropRail(c) EXCEPT !.state = "off"]

IsStripDarkAndIdle(c, onTheWire) == ~c.dirty /\ ~onTheWire

PowerTask(c, onTheWire) ==
  CASE c.state = "blanking" -> IF IsStripDarkAndIdle(c, onTheWire) THEN CutSupply(c) ELSE c
    [] c.state = "settling" -> ReleaseSupply(c)
    [] c.state \in {"on", "off"} -> c
=============================================================================
