------------------------------- MODULE FdsOsc -------------------------------
(***************************************************************************)
(* The channel of the FDS (Nes_Fds_Apu.cpp): a wavetable whose frequency   *)
(* is swept by a modulator, with two units, envelope and sweep, that step  *)
(* a gain.  Its run merges four clocks: it goes from each step of a unit   *)
(* or the modulator to the next and plays the wave between them.           *)
(*                                                                         *)
(* Registers are kept by what they mean: a unit's off and up are bits 7    *)
(* and 6 of its register, mod_off is bit 7 of $4087, hold that of $4089,   *)
(* and master the entry of master_volumes that its low bits select.        *)
(***************************************************************************)
EXTENDS OscRuns, Sequences

CONSTANTS
  wave_size,     \* 0x40, also of mod_wave
  fract_range,   \* 65536, of a phase between two clocks of wave or modulator
  bias_range,    \* 0x80, of $4085
  gain_unit,     \* 0x10, the sweep gain that leaves the bias as it is
  lfo_tempo,     \* 8 if the tempo is 1.0
  master_volumes, \* the four levels that $4089 selects
  FreqHighs,     \* bound: the upper four bits of the wave's frequency, 0 to 15
  ModHighs,      \* bound: those of the modulator's
  FdsClients     \* bound: name -> the writes that set the chip up, and those after

wave_steps == bias_range \div 2   \* 64: the frequency is modulated in such steps
gain_top == 2 * gain_unit         \* 0x20, of a unit stepping up, and vol_max
mod_table == <<0, 1, 2, 4, 0, -4, -2, -1>>

ASSUME FdsAssumption ==
  /\ wave_size \in Nat \ {0} /\ wave_size % 2 = 0
  /\ fract_range \in Nat \ {0} /\ bias_range \in Nat /\ bias_range >= 8 /\ bias_range % 2 = 0
  /\ gain_unit \in Nat \ {0} /\ lfo_tempo \in Nat \ {0}
  /\ master_volumes \in Seq(Nat) /\ Len(master_volumes) = 4
  /\ \A highs \in {FreqHighs, ModHighs} : highs \subseteq Nat /\ 0 \in highs

(* The most that modulation makes of a frequency.                          *)
Highest(freq) == freq + (freq * (3 * wave_steps + 1)) \div wave_steps

(* No more than a step of the wave, or of the modulator's, in a clock.     *)
ASSUME FdsFreqAssumption ==
  /\ \A high \in FreqHighs : Highest((high + 1) * low_range - 1) <= fract_range
  /\ \A high \in ModHighs : (high + 1) * low_range - 1 <= fract_range

(* A register write: which register, and what the code reads out of data.  *)
FdsWrites ==
  [reg : {"wave"}, pos : 0 .. wave_size - 1, value : Nat]
    \cup [reg : {"env", "sweep"}, off : BOOLEAN, up : BOOLEAN, value : 0 .. 4 * gain_unit - 1]
    \cup [reg : {"freq_low", "mod_low"}, value : 0 .. low_range - 1]
    \cup [reg : {"freq_high"}, value : FreqHighs, off : BOOLEAN, lfo_off : BOOLEAN]
    \cup [reg : {"mod_high"}, value : ModHighs, off : BOOLEAN]
    \cup [reg : {"bias"}, value : 0 .. bias_range - 1]
    \cup [reg : {"mod_wave"}, value : 0 .. 7]
    \cup [reg : {"volume"}, hold : BOOLEAN, master : DOMAIN master_volumes]
    \cup [reg : {"lfo"}, value : 0 .. low_range - 1]

ASSUME FdsClientsAssumption ==
  \A client \in DOMAIN FdsClients :
    FdsClients[client].setup \in Seq(FdsWrites) /\ FdsClients[client].writes \subseteq FdsWrites

-----------------------------------------------------------------------------
(* Registers.                                                              *)

UnitWritten(u, w) ==
  [u EXCEPT !.off = w.off, !.up = w.up,
            !.gain = IF w.off THEN w.value ELSE @,
            !.speed = IF w.off THEN @ ELSE w.value + 1]

LowWritten(now, value) == (now \div low_range) * low_range + value
HighWritten(now, value) == value * low_range + (now % low_range)

(* Two entries at once, and only while the modulator is off.               *)
ModWaveWritten(o, entry) ==
  IF ~o.mod_off THEN o
  ELSE [o EXCEPT !.mod_wave[o.mod_write_pos] = entry,
                 !.mod_wave[o.mod_write_pos + 1] = entry,
                 !.mod_write_pos = (@ + 2) % wave_size,
                 !.mod_pos = (@ + 2) % wave_size]

(* write_.                                                                 *)
FdsWritten(o, w) ==
  CASE w.reg = "wave" -> IF o.hold THEN [o EXCEPT !.wave[w.pos] = w.value] ELSE o
    [] w.reg = "env" -> [o EXCEPT !.env = UnitWritten(@, w)]                    \* $4080
    [] w.reg = "freq_low" -> [o EXCEPT !.freq = LowWritten(@, w.value)]         \* $4082
    [] w.reg = "freq_high" ->                                                   \* $4083
         [o EXCEPT !.freq = HighWritten(@, w.value), !.wave_off = w.off, !.lfo_off = w.lfo_off]
    [] w.reg = "sweep" -> [o EXCEPT !.sweep = UnitWritten(@, w)]                \* $4084
    [] w.reg = "bias" -> [o EXCEPT !.mod_pos = o.mod_write_pos, !.bias = w.value] \* $4085
    [] w.reg = "mod_low" -> [o EXCEPT !.mod_freq = LowWritten(@, w.value)]      \* $4086
    [] w.reg = "mod_high" ->                                                    \* $4087
         [o EXCEPT !.mod_freq = HighWritten(@, w.value), !.mod_off = w.off]
    [] w.reg = "mod_wave" -> ModWaveWritten(o, w.value)                         \* $4088
    [] w.reg = "volume" -> [o EXCEPT !.hold = w.hold, !.master = w.master]      \* $4089
    [] w.reg = "lfo" -> [o EXCEPT !.lfo = w.value]                              \* $408A

AllWritten(o, writes) ==
  LET after[i \in 0 .. Len(writes)] ==
        IF i = 0 THEN o ELSE FdsWritten(after[i - 1], writes[i])
  IN  after[Len(writes)]

-----------------------------------------------------------------------------
(* run_until.                                                              *)

Ceil(a, b) == (a + b - 1) \div b
Earlier(a, b) == IF a < b THEN a ELSE b

UnitPeriod(o, u) == IF o.lfo_off THEN 0 ELSE o.lfo * lfo_tempo * u.speed
Idle(o, u) == u.off \/ UnitPeriod(o, u) = 0

(* A unit that can step no further is switched off, "optimization only".   *)
Stepped(u) ==
  LET gain == u.gain + (IF u.up THEN 1 ELSE -1)
  IN  IF gain < 0 \/ (u.up /\ gain > gain_top) THEN [u EXCEPT !.off = TRUE]
      ELSE [u EXCEPT !.gain = gain]

mod_freq(o) == IF o.mod_off THEN 0 ELSE o.mod_freq

(* The modulator some clocks on, no further than to its next step.         *)
Modulated(o, clocks) ==
  LET left == o.mod_fract - clocks * mod_freq(o)
      entry == o.mod_wave[o.mod_pos]
  IN  IF left > 0 THEN [o EXCEPT !.mod_fract = left]
      ELSE [o EXCEPT
             !.mod_fract = left + fract_range,
             !.mod_pos = (@ + 1) % wave_size,
             !.bias = IF entry = 4 THEN 0 ELSE (@ + mod_table[entry + 1]) % bias_range]

(* bias * gain, divided with the chip's odd rounding and wrapping.         *)
Rounded(product, bias) ==
  product \div gain_unit
  + (IF product % gain_unit = 0 THEN 0 ELSE IF bias < 0 THEN -1 ELSE 2)

WrappedAbove(factor) ==
  IF factor > 3 * wave_steps + 1 THEN factor - (4 * wave_steps + 2) ELSE factor
WrappedBelow(factor) == IF factor < -wave_steps THEN factor + 4 * wave_steps ELSE factor

Factor(bias, gain) == WrappedBelow(WrappedAbove(Rounded(bias * gain, bias)))

SignedBias(o) == IF o.bias < wave_steps THEN o.bias ELSE o.bias - bias_range

(* The wave's frequency.                                                   *)
Freq(o) ==
  IF mod_freq(o) = 0 THEN o.freq
  ELSE o.freq + (o.freq * Factor(SignedBias(o), o.sweep.gain)) \div wave_steps

(* A clock of the wave.  The time to the next is found without division.   *)
WaveClock(o, freq, p) ==
  LET amp == o.wave[p.wave_pos] * Earlier(o.env.gain, gain_top) * master_volumes[o.master]
      fract == p.wave_fract + fract_range - p.delay * freq
      min_delay == fract_range \div freq
      delay == IF fract > min_delay * freq THEN min_delay + 1 ELSE min_delay
  IN  [wave_pos |-> (p.wave_pos + 1) % wave_size, wave_fract |-> fract, delay |-> delay,
       last_amp |-> amp, deltas |-> [p.deltas EXCEPT ![p.time] = @ + amp - p.last_amp],
       time |-> p.time + delay]

(* The wave clocked until the end of a pass.                               *)
WaveClocked(o, freq, first, start, end) ==
  LET after[k \in 0 .. end - start] ==
        IF k = 0 THEN first
        ELSE LET p == after[k - 1]
             IN  IF p.time > end THEN p ELSE WaveClock(o, freq, p)
  IN  after[end - start]

WaveBefore(o, delay, s) ==
  [wave_pos |-> o.wave_pos, wave_fract |-> o.wave_fract, delay |-> delay,
   last_amp |-> o.last_amp, deltas |-> s.deltas, time |-> s.end + delay]

WaveAfter(s, o, p, freq, end) ==
  [s EXCEPT !.end = end, !.deltas = p.deltas,
            !.osc = [o EXCEPT !.wave_pos = p.wave_pos, !.last_amp = p.last_amp,
                              !.wave_fract = p.wave_fract - (end - (p.time - p.delay)) * freq]]

(* The wave from the end of the pass before to that of this one, at one    *)
(* frequency.                                                              *)
WavePlayed(s, o, freq, end) ==
  IF freq <= 0 THEN [s EXCEPT !.osc = o, !.end = end]
  ELSE WaveAfter(s, o, WaveClocked(o, freq, WaveBefore(o, Ceil(o.wave_fract, freq), s), s.end, end),
                 freq, end)

(* The units that are due step.                                            *)
UnitsStepped(s) ==
  LET sweep_due == s.sweep_time <= s.end
      env_due == s.env_time <= s.end
  IN  [s EXCEPT !.osc.sweep = IF sweep_due THEN Stepped(@) ELSE @,
                !.osc.env = IF env_due THEN Stepped(@) ELSE @,
                !.sweep_time = @ + IF sweep_due THEN UnitPeriod(s.osc, s.osc.sweep) ELSE 0,
                !.env_time = @ + IF env_due THEN UnitPeriod(s.osc, s.osc.env) ELSE 0]

(* A pass ends with the run or at the next step of a unit or modulator.    *)
PassEnd(s, n) ==
  LET next == Earlier(n, Earlier(s.env_time, s.sweep_time))
  IN  IF mod_freq(s.osc) = 0 THEN next
      ELSE Earlier(next, s.end + Ceil(s.osc.mod_fract, mod_freq(s.osc)))

(* Slip: the wave's frequency by the bias after the modulator's step.      *)
PassToEarly(s, end) ==
  LET o == IF mod_freq(s.osc) = 0 THEN s.osc ELSE Modulated(s.osc, end - s.end)
  IN  WavePlayed(s, o, Freq(o), end)

(* The modulator's step at the end is not heard in the pass.               *)
PassTo(s, end) ==
  LET o == IF mod_freq(s.osc) = 0 THEN s.osc ELSE Modulated(s.osc, end - s.end)
  IN  WavePlayed(s, o, Freq(s.osc), end)

(* A pass of the outer loop, in a run over n clocks.                       *)
PassFrom(s, n) == PassTo(s, PassEnd(s, n))
FdsPass(s, n) == PassFrom(UnitsStepped(s), n)

FdsPasses(first, n) ==
  LET after[k \in 0 .. n] ==
        IF k = 0 THEN FdsPass(first, n)
        ELSE LET s == after[k - 1]
             IN  IF s.end >= n THEN s ELSE FdsPass(s, n)
  IN  after[n]

FdsPlaying(o) == o.freq # 0 /\ o.output /\ ~o.hold /\ ~o.wave_off

FdsRunEnd(s, n) ==
  [osc |-> [s.osc EXCEPT !.sweep.delay = s.sweep_time - n, !.env.delay = s.env_time - n],
   deltas |-> s.deltas, marks |-> TRUE]

RunFds(o, n) ==
  LET first == [osc |-> o, deltas |-> Silence(n), end |-> 0,
                sweep_time |-> IF Idle(o, o.sweep) THEN n ELSE o.sweep.delay,
                env_time |-> IF Idle(o, o.env) THEN n ELSE o.env.delay]
  IN  IF FdsPlaying(o) THEN FdsRunEnd(FdsPasses(first, n), n) ELSE Unheard(o, n)

(* A run of no time, which a write at the clock of the last call makes,    *)
(* steps a unit that is due, a little early, but also those that are       *)
(* switched off or have no period.                                         *)
Restless(o) ==
  FdsPlaying(o) /\ \E u \in {o.env, o.sweep} : (Idle(o, u) \/ u.delay = 0) /\ Stepped(u) # u

(* A unit switched off in a run keeps its delay for that run only.         *)
Settled(o) ==
  [o EXCEPT !.env.delay = IF o.env.off THEN 0 ELSE @,
            !.sweep.delay = IF o.sweep.off THEN 0 ELSE @]

-----------------------------------------------------------------------------
(* A unit as the two writes of reset leave it.                             *)
ResetUnit == [delay |-> 0, speed |-> 1, gain |-> 0, off |-> TRUE, up |-> FALSE]

(* What reset writes after that; 0xC0 to $4083 and 0x80 to $4087 disable   *)
(* wave, lfo and modulator.  The two writes to $4088 find it disabled.     *)
ResetFds(client, output) ==
  LET silent == [i \in 0 .. wave_size - 1 |-> 0]
  IN  [kind |-> "fds", client |-> client, output |-> output, last_amp |-> 0,
       env |-> ResetUnit, sweep |-> ResetUnit,
       freq |-> 0, wave_off |-> TRUE, lfo_off |-> TRUE, hold |-> FALSE, master |-> 1,
       lfo |-> low_range - 1, mod_off |-> TRUE, mod_freq |-> 0, bias |-> 0,
       mod_pos |-> 4 % wave_size, mod_write_pos |-> 4 % wave_size, mod_wave |-> silent,
       mod_fract |-> fract_range, wave |-> silent, wave_pos |-> 0, wave_fract |-> fract_range]

FdsInit ==
  /\ "fds" \in Kinds
  /\ \E client \in DOMAIN FdsClients :
       osc = AllWritten(ResetFds(client, FALSE), FdsClients[client].setup)
  /\ nonlinear = FALSE /\ modified = FALSE

WriteAfter(run) ==
  /\ \E w \in FdsClients[osc.client].writes : osc' = FdsWritten(run.osc, w)
  /\ modified' = (modified \/ run.marks)
  /\ UNCHANGED nonlinear

(* write runs the chip even if no time has passed.                         *)
FdsWrite(n) == WriteAfter(RunFds(osc, n))

FdsCalls ==
  /\ osc.kind = "fds"
  /\ \/ \E n \in RunLengths : FdsWrite(n)
     \/ Write(ResetFds(osc.client, osc.output))
     \/ EndOfFrame
=============================================================================
