---------------------------- MODULE Persistence ----------------------------
(***************************************************************************)
(* What survives a restart: the settings live in the modules that own them,*)
(* Persistence writes them to the store as one blob when they differ from  *)
(* what it wrote last, and puts them back at the start.  Writing may fail, *)
(* and the power may go in the middle of it.                               *)
(*                                                                         *)
(* A setting is a field with a number; the blob holds one byte for each,   *)
(* in their order, and the sum of them last.                               *)
(***************************************************************************)
EXTENDS Naturals, Functions, TLAPS

CONSTANTS
  NumberOfFields,  \* fields of the blob ahead of its checksum
  MaxValue,        \* bound: the largest number a field may hold
  Accepted,        \* the values the module that owns a field takes, per field
  Width,           \* 2^8: the values of the checksum's byte
  InPlace,         \* a write changes the blob byte by byte, the length last (AVR's EEPROM)
  MaxCommands      \* bound: commands of a hand and restarts in a behaviour

Fields == 1 .. NumberOfFields
Values == 0 .. MaxValue
Settings == [Fields -> Values]

ASSUME PersistenceAssumption ==
  /\ NumberOfFields \in Nat \ {0}
  /\ MaxValue \in Nat
  /\ Accepted \in [Fields -> SUBSET Values]
  /\ \A i \in Fields : 0 \in Accepted[i]
  /\ Width \in Nat \ {0}
  /\ InPlace \in BOOLEAN
  /\ MaxCommands \in Nat

VARIABLES
  held,       \* what the modules hold
  lastSaved,  \* last_saved
  store,      \* the blob in the store
  \* what only bounds and properties read
  commands,   \* commands and restarts so far
  failed,     \* the store refused what it was last told
  touched     \* a setting was set since the store was last written, read or emptied

storeVars == << held, lastSaved, store, commands, failed, touched >>

Defaults == [i \in Fields |-> 0]

\* CalcChecksum(): the sum of every other byte, in one byte.
CalcChecksum(bytes) == FoldFunction(LAMBDA v, sum : (v + sum) % Width, 0, bytes)

Gather == held

\* The blob as it is once a write is through.
Blob(s) == [has |-> TRUE, bytes |-> s, sum |-> CalcChecksum(s)]

\* Storage::Clear() leaves nothing to read.
Emptied(blob) == [has |-> FALSE, bytes |-> blob.bytes, sum |-> blob.sum]

\* Storage::Read() hands over a blob of the right length, IsValid() looks at the sum.
IsValid(blob) == blob.has /\ blob.sum = CalcChecksum(blob.bytes)

\* Every module refuses on its own what it cannot hold and keeps its default.
Apply(bytes) == [i \in Fields |-> IF bytes[i] \in Accepted[i] THEN bytes[i] ELSE Defaults[i]]

\* What a start makes of the store.
Restored(blob) == IF IsValid(blob) THEN Apply(blob.bytes) ELSE Defaults

\* What a write may leave behind that did not get to its end: on the EEPROM the bytes so
\* far, elsewhere the blob before it, or a file too short to be read.
Interrupted(old, new) ==
  IF InPlace
    THEN {[ has   |-> old.has,
            bytes |-> [i \in Fields |-> IF i <= n THEN new.bytes[i] ELSE old.bytes[i]],
            sum   |-> IF n > NumberOfFields THEN new.sum ELSE old.sum ] :
              n \in 0 .. NumberOfFields + 1}
    ELSE {old, Emptied(old)}

-----------------------------------------------------------------------------

TypeOK ==
  /\ held \in Settings
  /\ \A i \in Fields : held[i] \in Accepted[i]
  /\ lastSaved \in Settings
  /\ store \in [has: BOOLEAN, bytes: Settings, sum: 0 .. Width - 1]
  /\ commands \in 0 .. MaxCommands
  /\ failed \in BOOLEAN
  /\ touched \in BOOLEAN

\* A start on a store that is empty, or that another build or this one wrote.
StoreInit ==
  /\ store \in {Emptied(Blob(Defaults))} \union {Blob(s) : s \in Settings}
  /\ held = Restored(store)
  /\ lastSaved = Gather
  /\ commands = 0
  /\ failed = FALSE
  /\ touched = FALSE

Counts == commands < MaxCommands /\ commands' = commands + 1

\* A command sets a setting to a value its module takes.
Set ==
  /\ Counts
  /\ \E i \in Fields : \E v \in Accepted[i] \ {held[i]} :
       held' = [held EXCEPT ![i] = v]
  /\ touched' = TRUE
  /\ UNCHANGED << lastSaved, store, failed >>

Written ==
  /\ store' = Blob(Gather)
  /\ lastSaved' = Gather
  /\ failed' = FALSE
  /\ touched' = FALSE

\* A failed write that passes for one that was made.
WriteRefused_Remembered ==
  /\ ~InPlace
  /\ store' \in Interrupted(store, Blob(Gather))
  /\ lastSaved' = Gather
  /\ failed' = TRUE
  /\ touched' = touched

\* The EEPROM refuses nothing; a file system may.
WriteRefused ==
  /\ ~InPlace
  /\ store' \in Interrupted(store, Blob(Gather))
  /\ lastSaved' = lastSaved
  /\ failed' = TRUE
  /\ touched' = touched

\* Task() writes what differs from what was written last, and nothing else.
TaskRests == Gather = lastSaved /\ UNCHANGED storeVars

TaskWrites == Gather # lastSaved /\ Written /\ UNCHANGED << held, commands >>

TaskFails == Gather # lastSaved /\ WriteRefused /\ UNCHANGED << held, commands >>

SaveWrites == Counts /\ Written /\ UNCHANGED held

SaveFails == Counts /\ WriteRefused /\ UNCHANGED held

\* A reset that forgets the store.
ResetTo_StoreStays(blob) == held' = Defaults /\ lastSaved' = Defaults /\ store' = store

ResetTo(blob) == held' = Defaults /\ lastSaved' = Defaults /\ store' = blob

\* Every module back to its defaults, and the store emptied.
Reset ==
  /\ Counts
  /\ ResetTo(Emptied(store))
  /\ failed' = FALSE
  /\ touched' = FALSE

ResetFails ==
  /\ Counts
  /\ ~InPlace
  /\ ResetTo(store)
  /\ failed' = TRUE
  /\ touched' = FALSE

\* Load(): what the modules then hold is what counts as written.
Load(blob, cleared) ==
  /\ held' = Restored(blob)
  /\ lastSaved' = held'
  /\ store' = IF ~IsValid(blob) /\ cleared THEN Emptied(blob) ELSE blob

\* The clock starts on what the store holds.
Started(blob) ==
  /\ \E cleared \in {TRUE, InPlace} :
       /\ Load(blob, cleared)
       /\ failed' = ~(IsValid(blob) \/ cleared)
  /\ touched' = FALSE

Restart == Counts /\ Started(store)

\* The power goes while Task() or Save() writes.
PowerFails ==
  /\ Counts
  /\ \E blob \in Interrupted(store, Blob(Gather)) : Started(blob)

Task == TaskRests \/ TaskWrites \/ TaskFails

StoreNext ==
  \/ Set \/ Task \/ SaveWrites \/ SaveFails
  \/ Reset \/ ResetFails \/ Restart \/ PowerFails

StoreSpec == StoreInit /\ [][StoreNext]_storeVars

\* The task comes round for ever, and a store does not refuse for ever.
FairStoreSpec == StoreSpec /\ WF_storeVars(Task) /\ SF_storeVars(TaskWrites)

-----------------------------------------------------------------------------
(* Properties *)

\* With nothing left to write and nothing refused, pulling the plug loses nothing: a
\* start would bring back what the modules hold (Persistence::Load(), Task(), Reset()).
QuietClockSurvives ==
  (held = lastSaved /\ ~failed) => Restored(store) = held

\* The store is worn only by what a hand set: neither a start nor a reset leaves the
\* task anything to write, not even a start that found a value its module rejects
\* (Persistence::Load(), Reset()).
OnlyAHandWearsTheStore == held # lastSaved => touched

\* A change reaches the store, however often the store refuses it, unless another
\* command comes between (Persistence::Task()).
ChangeReachesTheStore ==
  \A n \in 0 .. MaxCommands :
    (held # lastSaved /\ commands = n) ~> (Restored(store) = held \/ commands # n)

\* What Persistence.h says of that value: it is a difference to the next task, which corrects
\* it in the store.  It is not: Load() takes for written what the modules hold, so the task
\* finds nothing to write, and the value is read and rejected at every start
\* (Persistence::Load(), Task()).
RejectedIsCorrected ==
  \A n \in 0 .. MaxCommands :
    (IsValid(store) /\ Apply(store.bytes) # store.bytes /\ commands = n)
      ~> (Apply(store.bytes) = store.bytes \/ commands # n)

\* So the store is written where it has to be, and only there.
StoreFollowsTheHand == []OnlyAHandWearsTheStore /\ ChangeReachesTheStore

(***************************************************************************)
(* For any number of fields, any values and any store, one that is written *)
(* in place included: as long as the store did what it was told, a start   *)
(* would bring back the configuration that counts as written; and nothing  *)
(* but a hand's setting ever makes the task write.                         *)
(***************************************************************************)

\* Every setting is one its module takes.
SettingsAccepted ==
  held \in [Fields -> Values] /\ \A i \in Fields : held[i] \in Accepted[i]

\* The store is a blob, whatever its sum.
StoreShape(blob) ==
  \E has \in BOOLEAN : \E bytes, sum : blob = [has |-> has, bytes |-> bytes, sum |-> sum]

\* What counts as written is what a start would bring back.
LastSavedIsRestored == ~failed => Restored(store) = lastSaved

IInv ==
  /\ SettingsAccepted
  /\ StoreShape(store)
  /\ LastSavedIsRestored
  /\ OnlyAHandWearsTheStore

-----------------------------------------------------------------------------
(* Lemmas about the blob *)

\* What the modules hold, written and read back, is what they hold: the sum passes for
\* its own bytes and no module rejects its own setting (Persistence::Apply()).
LEMMA WrittenIsRestored ==
  ASSUME SettingsAccepted
  PROVE  Restored(Blob(held)) = held /\ StoreShape(Blob(held))
  BY DEF SettingsAccepted, Restored, IsValid, Blob, Apply, StoreShape

\* A start leaves every module with a setting it takes.
LEMMA RestoredIsAccepted ==
  ASSUME NEW blob
  PROVE  /\ Restored(blob) \in [Fields -> Values]
         /\ \A i \in Fields : Restored(blob)[i] \in Accepted[i]
<1>1. 0 \in Values /\ \A i \in Fields : 0 \in Accepted[i] /\ Accepted[i] \subseteq Values
  BY PersistenceAssumption DEF Values
<1>2. /\ Defaults \in [Fields -> Values]
      /\ \A i \in Fields : Defaults[i] \in Accepted[i]
  BY <1>1 DEF Defaults
<1>3. /\ Apply(blob.bytes) \in [Fields -> Values]
      /\ \A i \in Fields : Apply(blob.bytes)[i] \in Accepted[i]
  BY <1>1, <1>2 DEF Apply
<1>. QED  BY <1>2, <1>3 DEF Restored

\* An emptied store brings back the defaults.
LEMMA EmptiedRestoresDefaults ==
  ASSUME NEW blob, StoreShape(blob)
  PROVE  Restored(Emptied(blob)) = Defaults /\ StoreShape(Emptied(blob))
<1>. PICK has \in BOOLEAN :
       \E bytes, sum : blob = [has |-> has, bytes |-> bytes, sum |-> sum]
  BY DEF StoreShape
<1>. PICK bytes, sum : blob = [has |-> has, bytes |-> bytes, sum |-> sum]
  OBVIOUS
<1>1. Emptied(blob) = [has |-> FALSE, bytes |-> bytes, sum |-> sum]
  BY DEF Emptied
<1>2. ~Emptied(blob).has
  BY <1>1
<1>. QED  BY <1>1, <1>2 DEF StoreShape, Restored, IsValid

\* A write that did not end leaves a blob, too.
LEMMA InterruptedShape ==
  ASSUME NEW old, StoreShape(old), NEW new, NEW blob \in Interrupted(old, new)
  PROVE  StoreShape(blob)
<1>1. CASE InPlace
  BY <1>1 DEF Interrupted, StoreShape
<1>2. CASE ~InPlace
  BY <1>2, EmptiedRestoresDefaults DEF Interrupted
<1>. QED  BY <1>1, <1>2

-----------------------------------------------------------------------------
(* The invariant *)

LEMMA InitIInv ==
  ASSUME StoreInit
  PROVE  IInv
<1>1. SettingsAccepted
  BY RestoredIsAccepted DEF StoreInit, SettingsAccepted
<1>2. StoreShape(store)
  BY DEF StoreInit, Emptied, Blob, StoreShape
<1>3. LastSavedIsRestored /\ OnlyAHandWearsTheStore
  BY DEF StoreInit, Gather, LastSavedIsRestored, OnlyAHandWearsTheStore
<1>. QED  BY <1>1, <1>2, <1>3 DEF IInv

LEMMA WrittenPreserves ==
  ASSUME IInv, Written, UNCHANGED held
  PROVE  IInv'
<1>1. SettingsAccepted'
  BY DEF IInv, SettingsAccepted
<1>2. store' = Blob(held) /\ lastSaved' = held /\ held' = held
  BY DEF Written, Gather
<1>3. Restored(Blob(held)) = held /\ StoreShape(Blob(held))
  BY WrittenIsRestored DEF IInv
<1>4. StoreShape(store)'
  BY <1>2, <1>3 DEF StoreShape
<1>5. LastSavedIsRestored'
  BY <1>2, <1>3 DEF LastSavedIsRestored, Restored, IsValid
<1>6. OnlyAHandWearsTheStore'
  BY <1>2 DEF OnlyAHandWearsTheStore
<1>. QED  BY <1>1, <1>4, <1>5, <1>6 DEF IInv

LEMMA RefusedPreserves ==
  ASSUME IInv, WriteRefused, UNCHANGED held
  PROVE  IInv'
<1>1. SettingsAccepted'
  BY DEF IInv, SettingsAccepted
<1>2. StoreShape(store')
  BY InterruptedShape DEF IInv, WriteRefused
<1>3. LastSavedIsRestored'
  BY DEF WriteRefused, LastSavedIsRestored
<1>4. OnlyAHandWearsTheStore'
  BY DEF IInv, WriteRefused, OnlyAHandWearsTheStore
<1>. QED  BY <1>1, <1>2, <1>3, <1>4 DEF IInv, StoreShape

LEMMA StartedPreserves ==
  ASSUME IInv, NEW blob, StoreShape(blob), Started(blob)
  PROVE  IInv'
<1>. PICK cleared \in {TRUE, InPlace} :
       /\ Load(blob, cleared)
       /\ failed' = ~(IsValid(blob) \/ cleared)
  BY DEF Started
<1>1. held' = Restored(blob) /\ lastSaved' = Restored(blob)
  BY DEF Load
<1>2. SettingsAccepted'
  BY <1>1, RestoredIsAccepted DEF SettingsAccepted
<1>3. CASE ~IsValid(blob) /\ cleared
  <2>1. store' = Emptied(blob) /\ Restored(blob) = Defaults
    BY <1>3 DEF Load, Restored
  <2>2. StoreShape(store') /\ Restored(store') = lastSaved'
    BY <1>1, <2>1, EmptiedRestoresDefaults
  <2>. QED  BY <1>1, <1>2, <2>2
       DEF IInv, StoreShape, LastSavedIsRestored, Restored, IsValid, OnlyAHandWearsTheStore
<1>4. CASE ~(~IsValid(blob) /\ cleared)
  <2>1. store' = blob
    BY <1>4 DEF Load
  <2>2. StoreShape(store') /\ Restored(store') = lastSaved'
    BY <1>1, <2>1
  <2>. QED  BY <1>1, <1>2, <2>2
       DEF IInv, StoreShape, LastSavedIsRestored, Restored, IsValid, OnlyAHandWearsTheStore
<1>. QED  BY <1>3, <1>4

LEMMA ResetPreserves ==
  ASSUME IInv, Reset \/ ResetFails
  PROVE  IInv'
<1>1. held' = Defaults /\ lastSaved' = Defaults
  BY DEF Reset, ResetFails, ResetTo
<1>2. SettingsAccepted'
  <2>1. 0 \in Values /\ \A i \in Fields : 0 \in Accepted[i]
    BY PersistenceAssumption DEF Values
  <2>. QED  BY <1>1, <2>1 DEF SettingsAccepted, Defaults
<1>3. StoreShape(store') /\ (~failed' => Restored(store') = Defaults)
  BY EmptiedRestoresDefaults DEF IInv, Reset, ResetFails, ResetTo
<1>. QED  BY <1>1, <1>2, <1>3
     DEF IInv, StoreShape, LastSavedIsRestored, Restored, IsValid, OnlyAHandWearsTheStore

LEMMA NextIInv ==
  ASSUME IInv, [StoreNext]_storeVars
  PROVE  IInv'
<1>1. CASE Set
  <2>1. SettingsAccepted'
    BY <1>1, PersistenceAssumption DEF IInv, Set, SettingsAccepted
  <2>2. UNCHANGED << lastSaved, store, failed >> /\ touched' = TRUE
    BY <1>1 DEF Set
  <2>3. StoreShape(store)' /\ LastSavedIsRestored' /\ OnlyAHandWearsTheStore'
    BY <2>2 DEF IInv, StoreShape, LastSavedIsRestored, Restored, IsValid,
                OnlyAHandWearsTheStore
  <2>. QED  BY <2>1, <2>3 DEF IInv
<1>2. CASE TaskWrites \/ SaveWrites
  BY <1>2, WrittenPreserves DEF TaskWrites, SaveWrites
<1>3. CASE TaskFails \/ SaveFails
  BY <1>3, RefusedPreserves DEF TaskFails, SaveFails
<1>4. CASE Reset \/ ResetFails
  BY <1>4, ResetPreserves
<1>5. CASE Restart
  BY <1>5, StartedPreserves DEF Restart, IInv
<1>6. CASE PowerFails
  <2>. PICK blob \in Interrupted(store, Blob(Gather)) : Started(blob)
    BY <1>6 DEF PowerFails
  <2>1. StoreShape(blob)
    BY InterruptedShape DEF IInv
  <2>. QED  BY <2>1, StartedPreserves
<1>7. CASE UNCHANGED storeVars
  BY <1>7 DEF storeVars, IInv, SettingsAccepted, StoreShape, LastSavedIsRestored, Restored,
              IsValid, OnlyAHandWearsTheStore
<1>. QED
  BY <1>1, <1>2, <1>3, <1>4, <1>5, <1>6, <1>7 DEF StoreNext, Task, TaskRests

THEOREM Invariance == StoreSpec => []IInv
  BY InitIInv, NextIInv, PTL DEF StoreSpec

\* With nothing left to write and nothing refused, pulling the plug loses nothing
\* (Persistence::Load(), Task(), Save(), Reset()).
THEOREM PlugLosesNothing == StoreSpec => []QuietClockSurvives
<1>1. IInv => QuietClockSurvives
  BY DEF IInv, LastSavedIsRestored, QuietClockSurvives
<1>. QED  BY <1>1, Invariance, PTL

\* Only a setting a hand set leaves the task something to write (Persistence::Task()).
THEOREM HandWearsTheStore == StoreSpec => []OnlyAHandWearsTheStore
<1>1. IInv => OnlyAHandWearsTheStore
  BY DEF IInv
<1>. QED  BY <1>1, Invariance, PTL

\* No module ever holds a setting it would refuse, whatever the store held
\* (Persistence::Apply()).
THEOREM OnlyAcceptedSettings == StoreSpec => []SettingsAccepted
<1>1. IInv => SettingsAccepted
  BY DEF IInv
<1>. QED  BY <1>1, Invariance, PTL

=============================================================================
