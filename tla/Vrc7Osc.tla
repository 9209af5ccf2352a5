------------------------------ MODULE Vrc7Osc ------------------------------
(***************************************************************************)
(* The VRC7 (Nes_Vrc7_Apu.cpp): six channels mixed to one output by an     *)
(* FM synthesizer from outside the repository, which gives a new amplitude *)
(* every so many clocks.  The synthesizer is represented by a wave of two  *)
(* steps that sounds while a key is on.                                    *)
(*                                                                         *)
(* output says whether mono.output is not null: whether all channels have  *)
(* the same output, and one at all.  delay is next_time.                   *)
(***************************************************************************)
EXTENDS OscRuns

CONSTANT fm_period  \* 36, clocks between two amplitudes

ASSUME Vrc7Assumption == fm_period \in Nat \ {0}

(* OPLL_calc: the amplitude, and the wave a step on.                       *)
OpllAmp(key_on, turn) == IF key_on THEN turn ELSE 0

Vrc7Pass(o, p, t) ==
  LET amp == OpllAmp(o.key_on, p.turn)
  IN  [turn |-> 1 - p.turn, last_amp |-> amp,
       deltas |-> [p.deltas EXCEPT ![t] = @ + amp - p.last_amp]]

(* Slip: the time of the next amplitude counted from the end of the run.   *)
RunVrc7Late(o, n) ==
  LET Pass(p, t) == Vrc7Pass(o, p, t)
      first == [turn |-> o.turn, last_amp |-> o.last_amp, deltas |-> Silence(n)]
      last == Passes(Pass, first, o.delay, fm_period, n)
  IN  [osc |-> [o EXCEPT !.turn = last.turn, !.last_amp = last.last_amp,
                         !.delay = DelayLost(@, fm_period, n)],
       deltas |-> last.deltas, marks |-> FALSE]

(* run_until, which no test of mono.output comes before.  The outputs are  *)
(* marked once a time frame, by end_frame.                                 *)
RunVrc7(o, n) ==
  LET Pass(p, t) == Vrc7Pass(o, p, t)
      first == [turn |-> o.turn, last_amp |-> o.last_amp, deltas |-> Silence(n)]
      last == Passes(Pass, first, o.delay, fm_period, n)
  IN  [osc |-> [o EXCEPT !.turn = last.turn, !.last_amp = last.last_amp,
                         !.delay = DelayAfter(@, fm_period, n)],
       deltas |-> last.deltas, marks |-> FALSE]

(* Without an output a delta would be added through a null pointer.        *)
Crashes(o, n) == ~o.output /\ RunVrc7(o, n).deltas # Silence(n)

ResetVrc7(output) ==
  [kind |-> "vrc7", output |-> output, delay |-> 0, last_amp |-> 0, turn |-> 0,
   key_on |-> FALSE]

(* load_snapshot of what save_snapshot saves at the end of a time frame:   *)
(* the synthesizer begins anew and is given its registers.                 *)
Vrc7Loaded(o) == [ResetVrc7(o.output) EXCEPT !.delay = o.delay, !.key_on = o.key_on]

Vrc7Init ==
  /\ "vrc7" \in Kinds /\ osc = ResetVrc7(FALSE)
  /\ nonlinear = FALSE /\ modified = FALSE

(* write_data of a register with the key-on bit.                           *)
WriteKeyOn == \E on \in BOOLEAN : Write([osc EXCEPT !.key_on = on])

Vrc7Calls ==
  /\ osc.kind = "vrc7"
  /\ \/ WriteKeyOn
     \/ Write(ResetVrc7(osc.output))
     \/ Write(Vrc7Loaded(osc))
     \/ EndOfFrame
=============================================================================
