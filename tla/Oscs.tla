-------------------------------- MODULE Oscs --------------------------------
(***************************************************************************)
(* An oscillator of any of the chips, run for any time between the calls   *)
(* that reach it, and what is expected of all of them.                     *)
(***************************************************************************)
EXTENDS Mmc5Oscs, ExpansionOscs, FdsOsc, Vrc7Osc

Run(o, n) ==
  CASE o.kind \in NesKinds -> NesRun(o, n)
    [] o.kind \in Mmc5Kinds -> Mmc5Run(o, n)
    [] o.kind \in ExpansionKinds -> ExpansionRun(o, n)
    [] o.kind = "fds" -> RunFds(o, n)
    [] o.kind = "vrc7" -> RunVrc7(o, n)

Init == NesInit \/ Mmc5Init \/ ExpansionInit \/ FdsInit \/ Vrc7Init

(* The oscillators run even if no time has passed.                         *)
Unskipped == Kinds \ (NesKinds \cup Mmc5Kinds)

Leave(run) ==
  osc' = run.osc /\ modified' = (modified \/ run.marks) /\ UNCHANGED nonlinear

(* The run that every call begins with, and all that a read does.  The     *)
(* VRC7's may not return.                                                  *)
RunOn(n) ==
  /\ n > 0 \/ osc.kind \in Unskipped
  /\ ~(osc.kind = "vrc7" /\ Crashes(osc, n))
  /\ Leave(Run(osc, n))

Next ==
  \/ \E n \in RunLengths : RunOn(n)
  \/ NesCalls \/ Mmc5Calls \/ ExpansionCalls \/ FdsCalls \/ Vrc7Calls \/ SetOutput

Spec == Init /\ [][Next]_vars

-----------------------------------------------------------------------------
(* Properties.                                                             *)

TypeOK ==
  /\ osc.kind \in Kinds /\ osc.output \in BOOLEAN
  /\ osc.last_amp \in Nat /\ (osc.kind # "fds" => osc.delay \in Nat)
  /\ osc.kind \in NesKinds => osc.length_counter \in Nat
  /\ osc.kind \in squares => osc.phase \in 0 .. phase_range - 1
  /\ osc.kind = "triangle" => osc.phase \in 1 .. tri_range * 2
  /\ osc.kind \in squares \cup {"triangle"} => osc.period \in 0 .. period_range - 1
  /\ osc.kind = "vrc6_square" => osc.phase \in 0 .. vrc6_phases - 1
  /\ osc.kind = "vrc6_saw" => osc.phase \in 1 .. 7 /\ osc.amp \in 0 .. amp_range - 1
  /\ osc.kind = "fme7" => osc.phase \in {0, 1}
  /\ osc.kind = "namco" => osc.wave_pos \in DOMAIN osc.wave
  /\ osc.kind = "mmc5_square" =>
       osc.phase \in 0 .. phase_range - 1 /\ osc.frame_delay \in 0 .. mmc5_frame_period
  /\ osc.kind = "fds" =>
       /\ osc.wave_fract \in 1 .. fract_range /\ osc.mod_fract \in 1 .. fract_range
       /\ osc.env.delay \in Nat /\ osc.sweep.delay \in Nat
       /\ osc.bias \in 0 .. bias_range - 1 /\ osc.mod_write_pos \in DOMAIN osc.mod_wave

(* The runs that properties look at: a clock, and a few transitions.       *)
Lengths == {1, Longest}

(* Two runs, one after the other.                                          *)
Joint(first, second, m, n) ==
  [osc |-> second.osc,
   deltas |-> [t \in 0 .. m + n |->
                 (IF t <= m THEN first.deltas[t] ELSE 0)
                 + IF t >= m THEN second.deltas[t - m] ELSE 0]]

Onward(first, m, n) == Joint(first, Run(first.osc, n), m, n)
Then(o, m, n) == Onward(Run(o, m), m, n)

(* What is kept of an oscillator.                                          *)
Kept(o) == IF o.kind = "fds" THEN Settled(o) ELSE o

Same(twice, once) == Kept(twice.osc) = Kept(once.osc) /\ twice.deltas = once.deltas
SameRun(o, m, n) == Same(Then(o, m, n), Run(o, m + n))

(* The code only approximates a silent noise, as its comment says, and a   *)
(* muted triangle; of a muted noise it loses whole periods when the next   *)
(* shift is two or more of them away, the period having been shortened;    *)
(* and a saw that stays at 0 stands still only from the next run on.       *)
Hurried(o) == o.kind = "noise" /\ ~o.output /\ o.delay >= 2 * o.period

Approximated(o) ==
  \/ o.kind = "triangle" /\ ~o.output
  \/ o.kind = "noise" /\ o.output /\ volume(o) = 0 /\ ~o.mode
  \/ Hurried(o)
  \/ o.kind = "vrc6_saw" /\ o.rate = 0

(* Where a run is cut - by a time frame, a call or a frame event - is not  *)
(* heard, and not seen in the oscillator's state, even where a call comes  *)
(* when no time has passed.  It is enough to cut off the first clock, of   *)
(* every state.                                                            *)
CutsHaveNoEffect ==
  ~Approximated(osc) =>
    \A n \in {1, Longest - 1} \cup (IF osc.kind \in Unskipped THEN {0} ELSE {}) :
      \/ SameRun(osc, 1, n)
      \/ n = 0 /\ osc.kind = "fds" /\ Restless(Run(osc, 1).osc)

Undisturbed(twice, once) == twice.osc = once.osc /\ twice.deltas = once.deltas

(* Nes_Apu_Base.h:15-17, of every oscillator: time frames have no effect   *)
(* on emulation.  One that ends just before a call makes it a run of no    *)
(* time.                                                                   *)
TimeFramesHaveNoEffect ==
  \A n \in 1 .. Longest : Undisturbed(Then(osc, n, 0), Run(osc, n))

Pulses == squares \cup {"mmc5_square"}

(* The level of the wave by the oscillator's phase.                        *)
Wave(o) ==
  CASE o.kind \in Pulses -> IF Audible(o) THEN SquareAmp(o) ELSE 0
    [] o.kind = "triangle" -> calc_amp(o)
    [] o.kind = "noise" -> (o.noise % 2) * volume(o)
    [] o.kind = "vrc6_square" -> Vrc6Amp(o)
    [] o.kind = "fme7" -> o.phase * Fme7Volume(o)
    [] OTHER -> o.last_amp

OfTheWave(run) ==
  /\ run.osc.last_amp = Wave(run.osc)
  /\ run.osc.last_amp = osc.last_amp + FoldFunction(+, 0, run.deltas)

(* What a run adds to the buffer brings it from the last amplitude to that *)
(* of the wave, in however many transitions, and last_amp says so.  Saw    *)
(* and wavetable follow theirs in the next transition.                     *)
PlayedIsTheWave == osc.output => \A n \in Lengths : OfTheWave(Run(osc, n))

Heard(on) == [osc EXCEPT !.output = on]

InStep(heard, muted) ==
  /\ ~Hurried(Heard(FALSE)) => heard.osc.delay = muted.osc.delay
  /\ osc.kind \in Pulses => heard.osc.phase = muted.osc.phase

(* The time to the next transition is kept the same, and for a square its  *)
(* phase, whether the channel is heard or muted: a channel switched back   *)
(* on is in step.  (Those of the cartridges stand still.)                  *)
MutingKeepsTime ==
  osc.kind \in NesKinds \cup Mmc5Kinds =>
    \A n \in Lengths : InStep(Run(Heard(TRUE), n), Run(Heard(FALSE), n))

Marked(run, n) == run.marks \/ run.deltas = Silence(n)

(* Whoever changes the output marks the buffer, for Tracked buffers take   *)
(* the unmarked for silent.  end_frame changes it without: the level that  *)
(* it brings back to 0 was reached in the same time frame.  (The VRC7      *)
(* marks its outputs when the frame ends.)                                 *)
DeltasAreMarked ==
  /\ osc.kind # "vrc7" => \A n \in Lengths : Marked(Run(osc, n), n)
  /\ Zeroed # 0 => modified

PlaysOn(loaded, on, n) ==
  IF osc.kind = "vrc7" THEN loaded.osc.delay = on.osc.delay
  ELSE /\ [loaded.osc EXCEPT !.last_amp = on.osc.last_amp] = on.osc
       /\ osc.output /\ n > osc.delay => loaded.osc.last_amp = on.osc.last_amp

(* A state that is saved and loaded plays on as it would have, from its    *)
(* first transition on; the VRC7 at least at the same clocks.              *)
LoadedPlaysOn ==
  osc.kind \in {"vrc7"} \cup (ExpansionKinds \ {"namco"}) =>
    \A n \in Lengths :
      PlaysOn(Run(IF osc.kind = "vrc7" THEN Vrc7Loaded(osc) ELSE Loaded(osc), n),
              Run(osc, n), n)

(* The cartridge's interrupt line is as the PCM channel's flag, since the  *)
(* notifier is told of every change but that of reset.                     *)
LineFollowsFlag == osc.kind = "mmc5_pcm" => osc.line = (osc.irq_flag \/ osc.dropped)

(* The noise register never becomes 0, from where it could not leave.      *)
NoiseNeverStuck == osc.kind = "noise" => osc.noise \in 1 .. two_to[noise_bits] - 1

(* Nes_Apu_Base.h:11-12: an output of 0 mutes; nothing is added to it.     *)
MutedIsNotWritten == ~osc.output => \A n \in Lengths : Run(osc, n).deltas = Silence(n)

(* Nes_Mmc5_Apu.h:61: reset resets the registers, so none of them that the *)
(* chip's user cannot write has any effect.                                *)
UnsetIsNotHeard ==
  osc.kind = "mmc5_square" =>
    \A n \in Lengths, sweep \in Sweeps :
      Run([osc EXCEPT !.sweep = sweep], n).deltas = Run(osc, n).deltas
=============================================================================
