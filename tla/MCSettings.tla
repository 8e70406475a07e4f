----------------------------- MODULE MCSettings -----------------------------
(***************************************************************************)
(* The settings of the clock: what a line makes of them (Commands), and    *)
(* what of them survives a restart (Persistence).  Persistence sees a      *)
(* setting that was set only as a field that changed, whatever the line;   *)
(* the two share no variable, so that a behaviour is of one of them.       *)
(***************************************************************************)
EXTENDS MCCommands, MCPersistence

VARIABLE part

settingsVars == << vars, storeVars, part >>

OnLines(action) == part = "lines" /\ action /\ UNCHANGED << storeVars, part >>
OnStore(action) == part = "store" /\ action /\ UNCHANGED << vars, part >>

\* Where the other part starts makes no difference.
SettingsInit ==
  /\ part \in {"lines", "store"}
  /\ Init /\ StoreInit
  /\ part = "lines" => store = Emptied(Blob(Defaults))
  /\ part = "store" => scenario = 1

SettingsNext == OnLines(Next) \/ OnStore(StoreNext)

\* The fairness of FairStoreSpec; nobody has to send a line.
SettingsSpec ==
  /\ SettingsInit
  /\ [][SettingsNext]_settingsVars
  /\ WF_settingsVars(OnStore(Task))
  /\ SF_settingsVars(OnStore(TaskWrites))
=============================================================================
