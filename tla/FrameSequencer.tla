--------------------------- MODULE FrameSequencer ---------------------------
(***************************************************************************)
(* What the frame sequencer of the APU promises, on the console's own      *)
(* clock: events at odd clocks, a fixed distance apart, and an interrupt   *)
(* flag raised by the first event of a 4-step sequence.  There are no time *)
(* frames here, no predictions and no calls that run the chip piecemeal:   *)
(* Nes_Apu.h says that time frames have no effect on emulation and may be  *)
(* of any length, and NesApuEpoch shows that the code keeps to that.       *)
(***************************************************************************)
EXTENDS Integers

CONSTANTS
  FramePeriod,  \* <<pal, tempo>> -> clocks between two events
  Tempos,
  PalModes

VARIABLES
  now,      \* the clock
  event,    \* when the next event is due
  step,     \* which event that is
  five,     \* $4017 selects five steps, ...
  inhibit,  \* ... and no interrupts
  flag,     \* the interrupt flag
  pal,
  tempo

vars == <<now, event, step, five, inhibit, flag, pal, tempo>>

period == FramePeriod[<<pal, tempo>>]

(* The first odd clock from time on.                                       *)
NextOdd(time) == time + (1 - (time % 2))

Init ==
  /\ now = 0 /\ tempo = "normal" /\ pal = FALSE
  /\ event = NextOdd(now) + period /\ step = 1
  /\ five = FALSE /\ inhibit = FALSE /\ flag = FALSE

(* From event s to the next one.                                           *)
Distance(s) ==
  CASE s = 1 /\ ~pal      -> period - 2
    [] s = 2 /\ pal       -> period - 2
    [] s = 3 /\ five -> 2 * period - (IF pal THEN 2 ELSE 6)
    [] OTHER              -> period

(* Time passes, up to the next event and not beyond it.                    *)
Pass(t) ==
  /\ now < t /\ t <= event
  /\ now' = t
  /\ UNCHANGED <<event, step, five, inhibit, flag, pal, tempo>>

Event ==
  /\ now' = event
  /\ event' = event + Distance(step)
  /\ step' = (step + 1) % 4
  /\ flag' = (flag \/ (step = 0 /\ ~five /\ ~inhibit))
  /\ UNCHANGED <<five, inhibit, pal, tempo>>

Select(f, i) ==
  /\ five' = f /\ inhibit' = i
  /\ flag' = (flag /\ ~i)
  /\ event' = NextOdd(now) + (IF f THEN 0 ELSE period)
  /\ step' = IF f THEN 0 ELSE 1
  /\ UNCHANGED <<now, pal, tempo>>

Acknowledge ==
  /\ flag' = FALSE
  /\ UNCHANGED <<now, event, step, five, inhibit, pal, tempo>>

Retime(t) ==
  /\ tempo' = t
  /\ UNCHANGED <<now, event, step, five, inhibit, flag, pal>>

PowerOn(p) ==
  /\ now' = 0 /\ tempo' = tempo /\ pal' = p
  /\ event' = NextOdd(now') + period' /\ step' = 1
  /\ five' = FALSE /\ inhibit' = FALSE /\ flag' = FALSE

Next ==
  \/ \E t \in now .. event : Pass(t)
  \/ Event
  \/ \E f, i \in BOOLEAN : Select(f, i)
  \/ Acknowledge
  \/ \E t \in Tempos : Retime(t)
  \/ \E p \in PalModes : PowerOn(p)

Spec == Init /\ [][Next]_vars
=============================================================================
