------------------------------- MODULE Timer -------------------------------
(***************************************************************************)
(* The AVR's type A timer: a counter that goes up to TOP and down again,   *)
(* an interrupt at BOTTOM, and a PWM per channel.  The driver's calls are  *)
(* register writes; the counter goes on between any two of them, with      *)
(* interrupts off as well, and takes over at BOTTOM what its buffers hold. *)
(***************************************************************************)
EXTENDS Naturals, Sequences, SequencesExt

CONSTANTS
  Resolution,        \* TIMER_RESOLUTION
  Prescalers,        \* what TimerClockSelectType divides by, the smallest first
  CyclesPerHalf,     \* F_CPU / 2000000
  Periods,           \* the microseconds SetPeriod() is asked for
  NumberOfChannels,  \* kNumberOfChannels
  DutyRange,         \* 2 to the kPwmDutyBits
  Callbacks,
  Nothing            \* nullptr, and a buffer register that holds nothing new

ASSUME TimerAssumption ==
  /\ {Resolution, CyclesPerHalf, DutyRange} \subseteq Nat \ {0}
  /\ NumberOfChannels \in Nat
  /\ Prescalers \in Seq(Nat \ {0}) /\ Prescalers # << >>
  /\ Periods \subseteq Nat
  /\ Nothing \notin Callbacks \cup Nat

VARIABLES
  \* the driver
  state,        \* state_
  clockSelect,  \* clock_select_bit_group_, an index into Prescalers
  callback,     \* timer_overflow_callback_
  top,          \* top_
  duty,         \* pwm_duty_
  writing,      \* the buffer registers a call has still to write, with interrupts off
  then,         \* what it does behind them
  \* the timer
  value,        \* PER and CMPn
  buffer,       \* PERBUF and CMPnBUF
  count, isUp,  \* CNT and DIR
  clock,        \* CLKSEL
  isEnabled,    \* ENABLE
  interrupt,    \* INTCTRL.OVF
  overflow      \* INTFLAGS.OVF: clear, or whether anybody was attached when it was set

driverVars  == << state, clockSelect, callback, top, duty >>
callVars    == << writing, then >>
counterVars == << count, isUp >>
timerVars   == << driverVars, callVars, value, buffer, counterVars, clock, isEnabled, interrupt,
                  overflow >>

Channels  == 1 .. NumberOfChannels
Registers == 0 .. NumberOfChannels  \* 0 is PER
AllOfThem == [i \in 1 .. NumberOfChannels + 1 |-> i - 1]

Reset == [r \in Registers |-> IF r = 0 THEN Resolution - 1 ELSE 0]
NothingNew == [r \in Registers |-> Nothing]

TimerInit ==
  /\ state = "none" /\ clockSelect = 1 /\ callback = Nothing /\ top = Resolution - 1
  /\ duty = [c \in Channels |-> 0]
  /\ writing = << >> /\ then = "nothing"
  /\ value = Reset /\ buffer = NothingNew
  /\ count = 0 /\ isUp = TRUE
  /\ clock = 1 /\ isEnabled = FALSE /\ interrupt = FALSE /\ overflow = "clear"

(***************************************************************************)
(* The calls, one after another.                                           *)
(***************************************************************************)
Idle == writing = << >> /\ then = "nothing"

ToCompareValue(period, d) == (period * d) \div DutyRange

ValueOf(r, period) == IF r = 0 THEN period ELSE ToCompareValue(period, duty[r])

IsInRange(microseconds) ==
  microseconds \in 1 .. (Resolution \div (2 * CyclesPerHalf)) * Last(Prescalers) * 2 - 1

Fits(cycles, select) == cycles \div Prescalers[select] < Resolution

\* The smallest prescaler that brings the cycles inside the counter; the largest, should none.
IsClockSelect(cycles, select) ==
  /\ \A smaller \in 1 .. select - 1 : ~Fits(cycles, smaller)
  /\ Fits(cycles, select) \/ select = Len(Prescalers)

\* The counter's half period, and the prescaler it is counted at.
Take(microseconds) ==
  \E select \in DOMAIN Prescalers :
    /\ IsClockSelect(CyclesPerHalf * microseconds, select)
    /\ clockSelect' = select
    /\ top' = (CyclesPerHalf * microseconds) \div Prescalers[select]

\* Only the first call acts; the timer does not run yet.
InitTimer ==
  /\ Idle /\ state = "none"
  /\ state' = "ready"
  /\ value' = Reset /\ count' = 0 /\ isUp' = TRUE /\ clock' = 1 /\ isEnabled' = FALSE
  /\ overflow' = "clear"
  /\ \E period \in Periods :
       IF IsInRange(period)
         THEN Take(period) /\ buffer' = [r \in Registers |-> ValueOf(r, top')]
         ELSE buffer' = NothingNew /\ UNCHANGED << clockSelect, top >>
  /\ \/ interrupt' = FALSE /\ UNCHANGED callback
     \/ interrupt' = TRUE /\ callback' \in Callbacks
  /\ UNCHANGED << duty, callVars >>

SetPeriod ==
  /\ Idle
  /\ \E period \in Periods : IsInRange(period) /\ Take(period)
  /\ writing' = AllOfThem
  /\ then' = IF state = "running" THEN "clock" ELSE "nothing"
  /\ UNCHANGED << state, callback, duty, value, buffer, counterVars, clock, isEnabled, interrupt,
                  overflow >>

\* (bug) PER itself is written, under a counter that may be above it.
SetBuffer_PastIt ==
  /\ writing # << >>
  /\ value' = [value EXCEPT ![Head(writing)] = ValueOf(Head(writing), top)]
  /\ writing' = Tail(writing)
  /\ UNCHANGED << driverVars, then, buffer, counterVars, clock, isEnabled, interrupt, overflow >>

SetBuffer ==
  /\ writing # << >>
  /\ buffer' = [buffer EXCEPT ![Head(writing)] = ValueOf(Head(writing), top)]
  /\ writing' = Tail(writing)
  /\ UNCHANGED << driverVars, then, value, counterVars, clock, isEnabled, interrupt, overflow >>

SetPwmDuty(c) ==
  /\ Idle
  /\ \E d \in 0 .. DutyRange - 1 : duty' = [duty EXCEPT ![c] = d]
  /\ writing' = << c >>
  /\ UNCHANGED << state, clockSelect, callback, top, then, value, buffer, counterVars, clock,
                  isEnabled, interrupt, overflow >>

\* Disabled, loaded past the buffers, restarted from zero.
Start ==
  /\ Idle /\ state \in {"ready", "running", "stopped"}
  /\ state' = "running"
  /\ value' = [r \in Registers |-> ValueOf(r, top)]
  /\ clock' = clockSelect
  /\ count' = 0 /\ isUp' = TRUE /\ isEnabled' = TRUE
  /\ UNCHANGED << clockSelect, callback, top, duty, callVars, buffer, interrupt, overflow >>

Stop ==
  /\ Idle /\ state # "none"
  /\ isEnabled' = FALSE
  /\ state' = IF state = "running" THEN "stopped" ELSE state
  /\ UNCHANGED << clockSelect, callback, top, duty, callVars, value, buffer, counterVars, clock,
                  interrupt, overflow >>

Resume ==
  /\ Idle /\ state = "stopped"
  /\ isEnabled' = TRUE
  /\ state' = "running"
  /\ UNCHANGED << clockSelect, callback, top, duty, callVars, value, buffer, counterVars, clock,
                  interrupt, overflow >>

AttachInterrupt ==
  /\ Idle
  /\ callback' \in Callbacks
  /\ then' = IF interrupt THEN "interrupt" ELSE "flag"
  /\ UNCHANGED << state, clockSelect, top, duty, writing, value, buffer, counterVars, clock,
                  isEnabled, interrupt, overflow >>

DetachInterrupt ==
  /\ Idle
  /\ interrupt' = FALSE
  /\ then' = "callback"
  /\ UNCHANGED << driverVars, writing, value, buffer, counterVars, clock, isEnabled, overflow >>

\* What a call does behind its buffers.
ClockSelected ==
  /\ writing = << >> /\ then = "clock"
  /\ clock' = clockSelect /\ then' = "nothing"
  /\ UNCHANGED << driverVars, writing, value, buffer, counterVars, isEnabled, interrupt, overflow >>

FlagCleared ==
  /\ writing = << >> /\ then = "flag"
  /\ overflow' = "clear" /\ then' = "interrupt"
  /\ UNCHANGED << driverVars, writing, value, buffer, counterVars, clock, isEnabled, interrupt >>

InterruptOn ==
  /\ writing = << >> /\ then = "interrupt"
  /\ interrupt' = TRUE /\ then' = "nothing"
  /\ UNCHANGED << driverVars, writing, value, buffer, counterVars, clock, isEnabled, overflow >>

CallbackForgotten ==
  /\ writing = << >> /\ then = "callback"
  /\ callback' = Nothing /\ then' = "nothing"
  /\ UNCHANGED << state, clockSelect, top, duty, writing, value, buffer, counterVars, clock,
                  isEnabled, interrupt, overflow >>

Calls ==
  \/ InitTimer \/ SetPeriod \/ Start \/ Stop \/ Resume \/ AttachInterrupt \/ DetachInterrupt
  \/ \E c \in Channels : SetPwmDuty(c)
  \/ SetBuffer \/ ClockSelected \/ FlagCleared \/ InterruptOn \/ CallbackForgotten

(***************************************************************************)
(* The timer.                                                              *)
(***************************************************************************)
\* At TOP it turns; above it, it does not see TOP until it has gone all the way round.
Count ==
  /\ isEnabled
  /\ IF isUp /\ count # value[0]
       THEN count' = (IF count = Resolution - 1 THEN 0 ELSE count + 1) /\ UNCHANGED isUp
       ELSE count > 1 /\ count' = count - 1 /\ isUp' = FALSE
  /\ UNCHANGED << driverVars, callVars, value, buffer, clock, isEnabled, interrupt, overflow >>

Bottom ==
  /\ isEnabled
  /\ count <= 1 /\ (isUp => count = value[0])
  /\ count' = 0 /\ isUp' = TRUE
  /\ value' = [r \in Registers |-> IF buffer[r] = Nothing THEN value[r] ELSE buffer[r]]
  /\ buffer' = NothingNew
  /\ overflow' = IF callback = Nothing THEN "unheard" ELSE "heard"
  /\ UNCHANGED << driverVars, callVars, clock, isEnabled, interrupt >>

\* The callback is called, if there is one; its own work is not the driver's.
HandleOverflowInterrupt ==
  /\ interrupt /\ overflow # "clear" /\ writing = << >>
  /\ overflow' = "clear"
  /\ UNCHANGED << driverVars, callVars, value, buffer, counterVars, clock, isEnabled, interrupt >>

TimerNext == Calls \/ Count \/ Bottom \/ HandleOverflowInterrupt

TimerSpec == TimerInit /\ [][TimerNext]_timerVars

(***************************************************************************)
(* Properties.                                                             *)
(***************************************************************************)
\* However the period is changed under a timer that runs, is stopped or was never started, the
\* counter is never above TOP, from where it would go all the way round (SetPeriod).
CounterStaysBelowTop == count <= value[0]

\* The interrupt never comes for an overflow from before anybody was attached (AttachInterrupt).
NoCallForAnOldOverflow == interrupt => overflow # "unheard"
==============================================================================
