----------------------------- MODULE WebBackends -----------------------------
(***************************************************************************)
(* The two web servers a browser may talk to: the clock's, whose task runs *)
(* beside the firmware's tick, and the simulator's, which is polled from   *)
(* the tick.  A build has one of them.                                     *)
(***************************************************************************)
EXTENDS WebClients, WebHost

VARIABLE backend

webVars == << clientsVars, hostVars, backend >>

Server(name) == backend = name /\ UNCHANGED backend

ClockStep(action)     == Server("clock") /\ UNCHANGED hostVars /\ action
SimulatorStep(action) == Server("simulator") /\ UNCHANGED clientsVars /\ action

WebInit ==
  /\ ClientsInit /\ HostInit
  /\ backend \in {"clock", "simulator"}
  /\ backend = "clock" => listening

WebNext == ClockStep(ClientsNext) \/ SimulatorStep(HostNext)

\* On the clock the main loop runs for ever and the server finishes a handshake it has begun.
WebSpec ==
  /\ WebInit
  /\ [][WebNext]_webVars
  /\ WF_clientsVars(ClockStep(Answers))
  /\ WF_clientsVars(ClockStep(BroadcastFrame))
  /\ WF_clientsVars(ClockStep(ClientStored))

(***************************************************************************)
(* A document that fills its last chunk, and one that does not.            *)
(***************************************************************************)

MCDocuments == {<< 1, 2 >>, << 1, 2, 3 >>}
==============================================================================
