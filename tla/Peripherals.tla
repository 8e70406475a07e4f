----------------------------- MODULE Peripherals -----------------------------
(***************************************************************************)
(* The supply's tick, for which a frame is on the wire or is not, and the  *)
(* two peripherals that work beside a tick with interrupts or transfers of *)
(* their own: the strip's transmitter and the AVR's console port.  They    *)
(* share no state with each other; a behaviour is of one of the three.     *)
(***************************************************************************)
EXTENDS NightSupply, Strip, SerialPort

VARIABLE part

peripheralVars == << vars, stripVars, serialVars, part >>

PeripheralsInit ==
  /\ part \in {"supply", "strip", "console"}
  /\ Init /\ StripInit /\ SerialInit
  /\ part # "strip" => build = "AVR-Dx"

OnSupply(action) == part = "supply" /\ action /\ UNCHANGED << stripVars, serialVars, part >>
OnStrip(action)  == part = "strip" /\ action /\ UNCHANGED << vars, serialVars, part >>
OnSerial(action) == part = "console" /\ action /\ UNCHANGED << vars, stripVars, part >>

PeripheralsNext == OnSupply(Next) \/ OnStrip(StripNext) \/ OnSerial(SerialNext)

\* The tick goes on, and interrupts, transfers and wires do; no hand owes the clock anything.
PeripheralsSpec ==
  /\ PeripheralsInit /\ [][PeripheralsNext]_peripheralVars
  /\ WF_vars(OnSupply(Tick)) /\ WF_vars(OnSupply(FrameLeaves))
  /\ WF_stripVars(OnStrip(StripTick)) /\ WF_stripVars(OnStrip(StripWire))
  /\ WF_serialVars(OnSerial(Wire)) /\ WF_serialVars(OnSerial(Firmware))

\* Whatever the clock waits for comes: the supply that was asked for, a line that is free for a
\* frame, and the end of what was printed (Power::Task(), Pixels::Render(), flush()).
WaitsEnd == SwitchingEnds /\ FramesAreSent /\ RestartTakesPlace
=============================================================================
