------------------------------ MODULE OscRuns -------------------------------
(***************************************************************************)
(* What the oscillators of all the chips have in common.  They share       *)
(* nothing but the calls that are made to all of a chip, so the state is   *)
(* that of one oscillator.                                                 *)
(*                                                                         *)
(* A run of an oscillator over n clocks gives a record: osc, the           *)
(* oscillator as it leaves it; deltas, the change of the output at each    *)
(* clock from the run's beginning; and marks, whether it calls             *)
(* set_modified.                                                           *)
(*                                                                         *)
(* A definition introduced by "Slip" is not part of the model: it is what  *)
(* a plausible mistake in the code would make of the definition after it.  *)
(***************************************************************************)
EXTENDS Integers, Functions, TLC

CONSTANTS
  Kinds,       \* the oscillators looked at
  low_range,   \* 0x100, what a register holds
  Longest,     \* bound: the longest run that properties look at
  RunLengths   \* bound: the clocks between two calls

ASSUME RunAssumption ==
  low_range \in Nat \ {0} /\ Longest \in Nat \ {0} /\ RunLengths \subseteq Nat

VARIABLES
  osc,        \* the oscillator
  nonlinear,  \* dmc.nonlinear, set once before the chip is used
  modified    \* set_modified was called in this time frame

vars == <<osc, nonlinear, modified>>

Silence(n) == [t \in 0 .. n |-> 0]

(* update_amp at the beginning of a run.                                   *)
First(o, amp, n) == [Silence(n) EXCEPT ![0] = amp - o.last_amp]

Unheard(o, n) == [osc |-> o, deltas |-> Silence(n), marks |-> FALSE]

(* The transitions before the n-th clock when one is due after delay       *)
(* clocks and then every period.                                           *)
Count(delay, period, n) ==
  IF n > delay THEN (n - delay + period - 1) \div period ELSE 0

(* Slip: the clocks beyond the end of the run forgotten.                   *)
DelayLost(delay, period, n) == IF n > delay THEN 0 ELSE delay - n

DelayAfter(delay, period, n) == delay + Count(delay, period, n) * period - n

(* The loop of a run: a pass for each transition, with its clock.          *)
Passes(Pass(_, _), first, delay, period, n) ==
  LET count == Count(delay, period, n)
      after[k \in 0 .. count] ==
        IF k = 0 THEN first ELSE Pass(after[k - 1], delay + (k - 1) * period)
  IN  after[count]

-----------------------------------------------------------------------------
(* What every write to a register does after the run.                      *)
Write(o) == osc' = o /\ UNCHANGED <<nonlinear, modified>>

(* set_output of any chip.                                                 *)
SetOutput == Write([osc EXCEPT !.output = ~@])

(* The end of a time frame, whose times are all kept relative to now.      *)
EndOfFrame == modified' = FALSE /\ UNCHANGED <<osc, nonlinear>>
=============================================================================
