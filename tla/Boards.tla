------------------------------- MODULE Boards -------------------------------
(***************************************************************************)
(* A clock is one controller: one of the two with a network of its own, or *)
(* the AVR, of which there is the timer.                                   *)
(***************************************************************************)
EXTENDS EspBoard, Timer

VARIABLE controller

boardsVars == << vars, timerVars, controller >>

On(name, action) == controller = name /\ action /\ UNCHANGED << timerVars, controller >>
OnAvr(action)    == controller = "AVR-Dx" /\ action /\ UNCHANGED << vars, controller >>

BoardsInit ==
  /\ TimerInit
  /\ \/ controller \in {"RP2350", "AVR-Dx"} /\ Init
     \/ controller = "ESP32" /\ EspInit

BoardsNext == On("RP2350", Next) \/ On("ESP32", EspNext) \/ OnAvr(TimerNext)

BoardsSpec == BoardsInit /\ [][BoardsNext]_boardsVars

\* The loop goes on; neither hand, server, radio nor mains owes it anything.
BoardsFairSpec ==
  /\ BoardsSpec
  /\ WF_vars(On("RP2350", Loop))
  /\ WF_vars(On("ESP32", EspLoop))

\* On the ESP32 a partition is claimed by an upload that is under way, and by nothing else: the
\* next one finds it free, however the ones before it ended (HandleUpdate).
PartitionIsFreeAgain ==
  controller = "ESP32" /\ disk.isOpen => \E r \in Requests : requests[r].at = "sending"

(***************************************************************************)
(* A board without a network of its own compiled in, and a timer that      *)
(* counts to four and has two prescalers.                                  *)
(***************************************************************************)

MCPrescalers == << 1, 2 >>

MCCompiledIn == [ssid |-> Empty, password |-> Empty]
=============================================================================
