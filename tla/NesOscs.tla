------------------------------ MODULE NesOscs -------------------------------
(***************************************************************************)
(* The square, triangle and noise oscillators of Nes_Oscs.cpp and the      *)
(* calls of Nes_Apu, as they reach an oscillator.                          *)
(*                                                                         *)
(* Registers are kept by what they mean: control and sweep are regs [0]    *)
(* and [1], period is that of regs [2] and [3], written1 and written3 are  *)
(* reg_written [1] and [3].                                                *)
(***************************************************************************)
EXTENDS OscRuns

CONSTANTS
  period_range,   \* 0x800
  min_period,     \* 8
  envelope_top,   \* 15, a volume and an envelope's beginning
  tri_range,      \* 16, the triangle's phase_range
  noise_bits,     \* 15, of the noise register
  mode_tap,       \* 6, the bit its short mode takes
  Periods,        \* bound: the periods written to squares and triangle
  NoisePeriods,   \* noise_period_table
  Controls,       \* bound: the values written to regs [0]
  Sweeps,         \* bound: the values written to a square's regs [1]
  LinearLoads,    \* bound: the triangle's linear counter loads
  LengthLoads     \* bound: the length counter's loads

ASSUME OscAssumption ==
  /\ min_period \in 1 .. period_range - 1 /\ period_range \in Nat
  /\ envelope_top \in Nat \ {0} /\ tri_range \in Nat \ {0}
  /\ noise_bits \in Nat /\ mode_tap \in 2 .. noise_bits - 1
  /\ Periods \subseteq 0 .. period_range - 1 /\ NoisePeriods \subseteq Nat \ {0}
  /\ NoisePeriods # {}
  /\ Controls \subseteq [duty_select : 0 .. 3, halt : BOOLEAN, constant : BOOLEAN,
                         low : 0 .. envelope_top]
  /\ Sweeps \subseteq [enabled : BOOLEAN, delay : Nat, negate : BOOLEAN, shift : Nat]
  /\ LinearLoads \subseteq Nat /\ LengthLoads \subseteq Nat \ {0}

squares == {"square1", "square2"}
NesKinds == squares \cup {"triangle", "noise"}
phase_range == 8

(* In C++, 1 << n.                                                         *)
two_to[n \in Nat] == IF n = 0 THEN 1 ELSE 2 * two_to[n - 1]

-----------------------------------------------------------------------------
(* Nes_Osc and Nes_Envelope.                                               *)

clock_length(o) ==
  IF o.length_counter # 0 /\ ~o.control.halt
  THEN [o EXCEPT !.length_counter = @ - 1] ELSE o

(* The decay loops by the bit that halts the length counter.               *)
clock_envelope(o) ==
  IF o.written3
  THEN [o EXCEPT !.written3 = FALSE, !.env_delay = o.control.low, !.envelope = envelope_top]
  ELSE IF o.env_delay > 0 THEN [o EXCEPT !.env_delay = @ - 1]
  ELSE [o EXCEPT
         !.env_delay = o.control.low,
         !.envelope = IF @ # 0 THEN @ - 1
                      ELSE IF o.control.halt THEN envelope_top ELSE 0]

volume(o) ==
  IF o.length_counter = 0 THEN 0
  ELSE IF o.control.constant THEN o.control.low ELSE o.envelope

-----------------------------------------------------------------------------
(* Nes_Square.                                                             *)

(* The negative offset of the first square is one more, in ones'           *)
(* complement.                                                             *)
SweepTarget(o) ==
  LET offset == o.period \div two_to[o.sweep.shift]
  IN  o.period + (IF ~o.sweep.negate THEN offset
                  ELSE IF o.kind = "square1" THEN -1 - offset ELSE -offset)

Sweeping(o) == o.sweep_delay = 0 /\ o.sweep.shift # 0 /\ o.sweep.enabled

(* Slip: the target not compared with the range of the register.           *)
clock_sweep_over(o) ==
  [o EXCEPT
    !.period = IF Sweeping(o) /\ @ >= min_period THEN SweepTarget(o) ELSE @,
    !.written1 = FALSE,
    !.sweep_delay = IF @ = 0 \/ o.written1 THEN o.sweep.delay ELSE @ - 1]

clock_sweep(o) ==
  [o EXCEPT
    !.period = IF Sweeping(o) /\ @ >= min_period /\ SweepTarget(o) < period_range
               THEN SweepTarget(o) ELSE @,
    !.written1 = FALSE,
    !.sweep_delay = IF @ = 0 \/ o.written1 THEN o.sweep.delay ELSE @ - 1]

timer_period(o) == (o.period + 1) * 2

(* Slip: the phase left as it is while the channel is silent.              *)
maintain_phase_not(o, n) ==
  [o EXCEPT !.delay = DelayAfter(@, timer_period(o), n)]

(* What is skipped at once of a square that is not heard.                  *)
maintain_phase(o, n) ==
  [o EXCEPT
    !.phase = (@ + Count(o.delay, timer_period(o), n)) % phase_range,
    !.delay = DelayAfter(@, timer_period(o), n)]

(* The squares of the MMC5 are given the least period 0.                   *)
Audible(o) ==
  LET least == IF o.kind = "mmc5_square" THEN 0 ELSE min_period
      offset == IF o.sweep.negate THEN 0 ELSE o.period \div two_to[o.sweep.shift]
  IN  volume(o) # 0 /\ o.period >= least /\ o.period + offset < period_range

duty(o) == IF o.control.duty_select = 3 THEN 2 ELSE two_to[o.control.duty_select]

SquareAmp(o) ==
  IF (o.phase < duty(o)) # (o.control.duty_select = 3) THEN volume(o) ELSE 0

(* Slip: the half of the wave that begins it forgotten.                    *)
SquarePassHalf(o, p, t) ==
  LET phase == (p.phase + 1) % phase_range
      delta == IF phase = duty(o) THEN -p.delta ELSE p.delta
  IN  [phase |-> phase, delta |-> delta,
       deltas |-> IF delta = p.delta THEN p.deltas ELSE [p.deltas EXCEPT ![t] = @ + delta]]

(* A pass of run's loop, at clock t: a transition at either end of the     *)
(* duty.                                                                   *)
SquarePass(o, p, t) ==
  LET phase == (p.phase + 1) % phase_range
      turns == phase = 0 \/ phase = duty(o)
      delta == IF turns THEN -p.delta ELSE p.delta
  IN  [phase |-> phase, delta |-> delta,
       deltas |-> IF turns THEN [p.deltas EXCEPT ![t] = @ + delta] ELSE p.deltas]

PlaySquare(o, n) ==
  LET amp == SquareAmp(o)
      first == [phase |-> o.phase, delta |-> amp * 2 - volume(o), deltas |-> First(o, amp, n)]
      Pass(p, t) == SquarePass(o, p, t)
      last == Passes(Pass, first, o.delay, timer_period(o), n)
  IN  [osc |-> [o EXCEPT
                 !.phase = last.phase,
                 !.last_amp = (last.delta + volume(o)) \div 2,
                 !.delay = DelayAfter(@, timer_period(o), n)],
       deltas |-> last.deltas, marks |-> TRUE]

(* Slip: the buffer not marked when a square falls silent.                 *)
RunSquareUnmarked(o, n) ==
  IF ~o.output THEN Unheard(maintain_phase(o, n), n)
  ELSE IF Audible(o) THEN PlaySquare(o, n)
  ELSE [osc |-> [maintain_phase(o, n) EXCEPT !.last_amp = 0],
        deltas |-> First(o, 0, n), marks |-> FALSE]

RunSquare(o, n) ==
  IF ~o.output THEN Unheard(maintain_phase(o, n), n)
  ELSE IF Audible(o) THEN PlaySquare(o, n)
  ELSE [osc |-> [maintain_phase(o, n) EXCEPT !.last_amp = 0],
        deltas |-> First(o, 0, n), marks |-> o.last_amp # 0]

-----------------------------------------------------------------------------
(* Nes_Triangle.                                                           *)

clock_linear_counter(o) ==
  [o EXCEPT
    !.linear_counter = IF o.written3 THEN o.linear_load ELSE IF @ # 0 THEN @ - 1 ELSE 0,
    !.written3 = @ /\ o.control.halt]

calc_amp(o) ==
  IF o.phase <= tri_range THEN tri_range - o.phase ELSE o.phase - (tri_range + 1)

Sounding(o) == o.length_counter # 0 /\ o.linear_counter # 0 /\ o.period + 1 >= 3

(* Muted, the phase is kept by a formula of its own.                       *)
SkipTriangle(o, n) ==
  LET count == Count(o.delay, o.period + 1, n)
  IN  IF ~Sounding(o) THEN [o EXCEPT !.delay = 0]
      ELSE [o EXCEPT
             !.phase = IF n > o.delay THEN ((@ + 1 - count) % (tri_range * 2)) + 1 ELSE @,
             !.delay = DelayAfter(@, o.period + 1, n)]

(* Slip: a step of the output where the wave turns, too.                   *)
TrianglePassTurns(p, t) ==
  [phase |-> IF p.phase = 1 THEN tri_range ELSE p.phase - 1,
   volume |-> IF p.phase = 1 THEN -p.volume ELSE p.volume,
   deltas |-> [p.deltas EXCEPT ![t] = @ + p.volume]]

(* The phase counts down; where the wave turns the output stays.           *)
TrianglePass(p, t) ==
  IF p.phase = 1 THEN [phase |-> tri_range, volume |-> -p.volume, deltas |-> p.deltas]
  ELSE [p EXCEPT !.phase = @ - 1, !.deltas[t] = @ + p.volume]

PlayTriangle(o, n) ==
  LET falling == o.phase > tri_range
      count == Count(o.delay, o.period + 1, n)
      first == [phase |-> IF falling THEN o.phase - tri_range ELSE o.phase,
                volume |-> IF falling THEN -1 ELSE 1, deltas |-> First(o, calc_amp(o), n)]
      last == Passes(TrianglePass, first, o.delay, o.period + 1, n)
      after == [o EXCEPT
                 !.phase = IF last.volume < 0 THEN last.phase + tri_range ELSE last.phase,
                 !.delay = DelayAfter(@, o.period + 1, n)]
  IN  [osc |-> [after EXCEPT !.last_amp = calc_amp(after)],
       deltas |-> last.deltas, marks |-> count > 0 \/ calc_amp(o) # o.last_amp]

RunTriangle(o, n) ==
  IF ~o.output THEN Unheard(SkipTriangle(o, n), n)
  ELSE IF Sounding(o) THEN PlayTriangle(o, n)
  ELSE [osc |-> [o EXCEPT !.last_amp = calc_amp(o), !.delay = 0],
        deltas |-> First(o, calc_amp(o), n), marks |-> calc_amp(o) # o.last_amp]

-----------------------------------------------------------------------------
(* Nes_Noise.                                                              *)

Bit(noise, i) == (noise \div two_to[i]) % 2

(* Slip: only the lowest bit fed back.                                     *)
ShiftedLow(noise, tap) == (noise \div 2) + Bit(noise, 0) * Bit(noise, tap) * two_to[noise_bits - 1]

Shifted(noise, tap) ==
  (noise \div 2) + ((Bit(noise, tap) + Bit(noise, 0)) % 2) * two_to[noise_bits - 1]

(* Without an output the time to the next shift is found by a division     *)
(* that rounds towards 0.                                                  *)
SkipNoise(o, n) ==
  LET late == n - o.delay + o.period - 1
      count == IF late >= 0 THEN late \div o.period ELSE -((-late) \div o.period)
  IN  [o EXCEPT !.delay = @ + count * o.period - n]

(* Silent, the register is shifted once a run, if not in the short mode.   *)
SilentNoise(o, n) ==
  [osc |-> [o EXCEPT
             !.noise = IF n > o.delay /\ ~o.mode THEN Shifted(@, 1) ELSE @,
             !.last_amp = 0,
             !.delay = DelayAfter(@, o.period, n)],
   deltas |-> First(o, 0, n), marks |-> o.last_amp # 0]

NoisePass(o, p, t) ==
  LET delta == IF Bit(p.noise + 1, 1) = 1 THEN -p.delta ELSE p.delta
  IN  [noise |-> Shifted(p.noise, IF o.mode THEN mode_tap ELSE 1), delta |-> delta,
       deltas |-> IF delta # p.delta THEN [p.deltas EXCEPT ![t] = @ + delta] ELSE p.deltas]

PlayNoise(o, n) ==
  LET amp == (o.noise % 2) * volume(o)
      count == Count(o.delay, o.period, n)
      first == [noise |-> o.noise, delta |-> amp * 2 - volume(o), deltas |-> First(o, amp, n)]
      Pass(p, t) == NoisePass(o, p, t)
      last == Passes(Pass, first, o.delay, o.period, n)
  IN  [osc |-> [o EXCEPT
                 !.noise = last.noise,
                 !.last_amp = (last.delta + volume(o)) \div 2,
                 !.delay = DelayAfter(@, o.period, n)],
       deltas |-> last.deltas, marks |-> count > 0 \/ amp # o.last_amp]

RunNoise(o, n) ==
  IF ~o.output THEN Unheard(SkipNoise(o, n), n)
  ELSE IF volume(o) = 0 THEN SilentNoise(o, n)
  ELSE PlayNoise(o, n)

-----------------------------------------------------------------------------
(* The calls of Nes_Apu, as they reach an oscillator.                      *)

NesRun(o, n) ==
  CASE o.kind \in squares -> RunSquare(o, n)
    [] o.kind = "triangle" -> RunTriangle(o, n)
    [] o.kind = "noise" -> RunNoise(o, n)

(* As Nes_Apu::reset leaves it.  Its writes of 0 and, to regs [0], of 10   *)
(* hex set every reg_written, the square's phase and the triangle's        *)
(* linear_load, here 1.                                                    *)
ResetControl == [duty_select |-> 0, halt |-> FALSE, constant |-> TRUE, low |-> 0]

Reset(kind, linear) ==
  CASE kind \in squares ->
         [kind |-> kind, output |-> FALSE, delay |-> 0, last_amp |-> 0, phase |-> phase_range - 1,
          period |-> 0, length_counter |-> 0, control |-> ResetControl, written3 |-> TRUE,
          envelope |-> 0, env_delay |-> 0, sweep_delay |-> 0, written1 |-> TRUE,
          sweep |-> [enabled |-> FALSE, delay |-> 0, negate |-> FALSE, shift |-> 0]]
    [] kind = "triangle" ->
         [kind |-> kind, output |-> FALSE, delay |-> 0,
          last_amp |-> IF linear THEN tri_range - 1 ELSE 0, phase |-> 1, period |-> 0,
          length_counter |-> 0, control |-> ResetControl, written3 |-> TRUE,
          linear_counter |-> 0, linear_load |-> 1]
    [] kind = "noise" ->
         [kind |-> kind, output |-> FALSE, delay |-> 0, last_amp |-> 0,
          noise |-> two_to[noise_bits - 1], mode |-> FALSE,
          period |-> CHOOSE p \in NoisePeriods : \A q \in NoisePeriods : p <= q,
          length_counter |-> 0, control |-> ResetControl, written3 |-> TRUE,
          envelope |-> 0, env_delay |-> 0]

NesInit ==
  /\ nonlinear \in BOOLEAN
  /\ \E kind \in Kinds \cap NesKinds : osc = Reset(kind, ~nonlinear)
  /\ modified = FALSE

(* A frame event of run_until_: every other one clocks length and sweep.   *)
FrameClock(half) ==
  LET length == IF half THEN clock_length(osc) ELSE osc
      sweep == IF half /\ osc.kind \in squares THEN clock_sweep(length) ELSE length
  IN  /\ osc' = IF osc.kind = "triangle" THEN clock_linear_counter(sweep)
                ELSE clock_envelope(sweep)
      /\ UNCHANGED <<nonlinear, modified>>

WriteControl ==
  /\ osc.kind # "triangle"
  /\ \E c \in Controls : Write([osc EXCEPT !.control = c])

WriteLinear ==
  /\ osc.kind = "triangle"
  /\ \E c \in Controls, load \in LinearLoads :
       Write([osc EXCEPT !.control = c, !.linear_load = load])

WriteSweep ==
  /\ osc.kind \in squares
  /\ \E w \in Sweeps : Write([osc EXCEPT !.sweep = w, !.written1 = TRUE])

WritePeriodLow ==
  /\ osc.kind # "noise"
  /\ \E p \in Periods :
       p \div low_range = osc.period \div low_range /\ Write([osc EXCEPT !.period = p])

WriteNoise ==
  /\ osc.kind = "noise"
  /\ \E p \in NoisePeriods, mode \in BOOLEAN :
       Write([osc EXCEPT !.period = p, !.mode = mode])

(* regs [3].  The length counter is loaded if the channel is enabled.      *)
WriteLength ==
  \E length \in LengthLoads \cup {osc.length_counter} :
    LET loaded == [osc EXCEPT !.length_counter = length, !.written3 = TRUE]
    IN  IF osc.kind = "noise" THEN Write(loaded)
        ELSE \E p \in {q \in Periods : q % low_range = osc.period % low_range} :
               Write(IF osc.kind = "triangle" THEN [loaded EXCEPT !.period = p]
                     ELSE [loaded EXCEPT !.period = p, !.phase = phase_range - 1])

Disable == Write([osc EXCEPT !.length_counter = 0])

ResetAll == Write([Reset(osc.kind, ~nonlinear) EXCEPT !.output = osc.output])

(* The change that end_frame makes when mixing is nonlinear.               *)
Zeroed == IF nonlinear /\ osc.output THEN -osc.last_amp ELSE 0

NesEndFrame ==
  /\ osc' = IF nonlinear THEN [osc EXCEPT !.last_amp = 0] ELSE osc
  /\ modified' = FALSE
  /\ nonlinear' = nonlinear

NesCalls ==
  /\ osc.kind \in NesKinds
  /\ \/ \E half \in BOOLEAN : FrameClock(half)
     \/ WriteControl \/ WriteLinear \/ WriteSweep \/ WritePeriodLow \/ WriteNoise \/ WriteLength
     \/ Disable \/ ResetAll \/ NesEndFrame
=============================================================================
