--------------------------- MODULE ExpansionOscs ---------------------------
(***************************************************************************)
(* The oscillators of three cartridge chips: squares and saw of the VRC6   *)
(* (Nes_Vrc6_Apu.cpp), squares of the FME-7 (Nes_Fme7_Apu.cpp) and a       *)
(* wavetable channel of the Namco 163 (Nes_Namco_Apu.cpp).  All of them    *)
(* stand still while they have no output.                                  *)
(*                                                                         *)
(* Registers are kept by what they mean.  An oscillator of the Namco chip  *)
(* counts in the buffer's resampled time, which is taken for clocks here.  *)
(***************************************************************************)
EXTENDS OscRuns

CONSTANTS
  vrc6_phases,     \* 16
  vrc6_shortest,   \* 4, the VRC6's longest period that is not heard
  Vrc6Duties,      \* bound: bits 4 to 6 of a square's regs [0]
  Vrc6Periods,     \* bound: what regs [1] and [2] hold
  amp_range,       \* 0x100, of the saw's amp
  amp_step,        \* 8, of it in a step of the output
  SawRates,        \* bound: bits 0 to 5 of the saw's regs [0]
  period_factor,   \* 16, clocks of the FME-7's period
  shortest_period, \* 50, the FME-7's shortest that is heard
  Fme7Periods,     \* bound: what an FME-7 period register pair holds
  delay_range,     \* 0x10000, of a delay in 16 bits
  low_period,      \* resampled_duration (lowest_freq_period / 8)
  freq_scale,      \* 8, by which that is divided
  least_freq,      \* 64
  NamcoFreqs,      \* bound: frequencies of the Namco chip
  NamcoActives,    \* bound: the numbers of its oscillators that are active
  NamcoRanks,      \* bound: which of its oscillators are looked at
  WaveSizes,       \* bound: sizes of its waves
  Samples,         \* bound: samples of its waves
  Volumes          \* bound: volumes written

ASSUME ExpansionAssumption ==
  /\ vrc6_phases \in Nat \ {0, 1} /\ Vrc6Duties \subseteq 0 .. vrc6_phases - 2
  /\ vrc6_shortest \in Nat \ {0}
  /\ \A periods \in {Vrc6Periods, Fme7Periods, NamcoFreqs} : periods \subseteq Nat /\ 0 \in periods
  /\ amp_range \in Nat \ {0} /\ amp_step \in Nat \ {0} /\ SawRates \subseteq 0 .. amp_range - 1
  /\ period_factor \in Nat \ {0} /\ period_factor <= delay_range /\ shortest_period \in Nat
  /\ delay_range \in Nat
  /\ \A period \in Fme7Periods : period * period_factor <= delay_range
  /\ \A period \in Vrc6Periods : (period + 1) * 2 <= delay_range
  /\ low_period \in Nat /\ \A freq \in NamcoFreqs : freq <= low_period
  /\ freq_scale \in Nat \ {0} /\ least_freq \in Nat \ {0}
  /\ NamcoActives \subseteq Nat \ {0} /\ NamcoRanks \subseteq Nat
  /\ WaveSizes \subseteq Nat \ {0} /\ Samples \subseteq Nat
  /\ \E largest \in WaveSizes : \A size \in WaveSizes : size <= largest
  /\ Volumes \subseteq Nat

Vrc6Kinds == {"vrc6_square", "vrc6_saw"}
ExpansionKinds == Vrc6Kinds \cup {"fme7", "namco"}

-----------------------------------------------------------------------------
(* Nes_Vrc6_Apu.                                                           *)

Vrc6Volume(o) == IF o.enabled THEN o.volume ELSE 0

Vrc6Amp(o) == IF o.gate \/ o.phase < o.duty + 1 THEN Vrc6Volume(o) ELSE 0

Vrc6Playing(o) == Vrc6Volume(o) # 0 /\ ~o.gate /\ o.period + 1 > vrc6_shortest

Vrc6Pass(o, p, t) ==
  LET phase == (p.phase + 1) % vrc6_phases
      delta == IF phase = 0 THEN o.volume ELSE IF phase = o.duty + 1 THEN -o.volume ELSE 0
  IN  [phase |-> phase, deltas |-> [p.deltas EXCEPT ![t] = @ + delta],
       last_amp |-> IF phase = 0 THEN o.volume ELSE IF phase = o.duty + 1 THEN 0 ELSE p.last_amp]

(* A square that does not play starts again without delay, in the phase    *)
(* that it had.                                                            *)
RunVrc6Square(o, n) ==
  LET amp == Vrc6Amp(o)
      Pass(p, t) == Vrc6Pass(o, p, t)
      first == [phase |-> o.phase, last_amp |-> amp, deltas |-> First(o, amp, n)]
      last == Passes(Pass, first, o.delay, o.period + 1, n)
  IN  IF ~o.output THEN Unheard(o, n)
      ELSE IF ~Vrc6Playing(o)
      THEN [osc |-> [o EXCEPT !.delay = 0, !.last_amp = amp],
            deltas |-> first.deltas, marks |-> amp # o.last_amp]
      ELSE [osc |-> [o EXCEPT !.phase = last.phase, !.last_amp = last.last_amp,
                              !.delay = DelayAfter(@, o.period + 1, n)],
            deltas |-> last.deltas, marks |-> amp # o.last_amp \/ n > o.delay]

(* The output follows amp in the pass after that which changes it.         *)
SawPass(o, p, t) ==
  LET amp == IF p.phase = 1 THEN 0 ELSE p.amp
      level == amp \div amp_step
  IN  [phase |-> IF p.phase = 1 THEN 7 ELSE p.phase - 1,
       amp |-> (amp + o.rate) % amp_range, last_amp |-> level,
       deltas |-> [p.deltas EXCEPT ![t] = @ + level - p.last_amp]]

RunSaw(o, n) ==
  LET level == o.amp \div amp_step
      period == (o.period + 1) * 2
      Pass(p, t) == SawPass(o, p, t)
      first == [phase |-> o.phase, amp |-> o.amp, last_amp |-> o.last_amp,
                deltas |-> Silence(n)]
      last == Passes(Pass, first, o.delay, period, n)
  IN  IF ~o.output THEN Unheard(o, n)
      ELSE IF ~o.enabled \/ (o.rate = 0 /\ o.amp = 0)
      THEN [osc |-> [o EXCEPT !.delay = 0, !.last_amp = level],
            deltas |-> First(o, level, n), marks |-> TRUE]
      ELSE [osc |-> [o EXCEPT !.phase = last.phase, !.amp = last.amp,
                              !.last_amp = last.last_amp, !.delay = DelayAfter(@, period, n)],
            deltas |-> last.deltas, marks |-> TRUE]

-----------------------------------------------------------------------------
(* Nes_Fme7_Apu.                                                           *)

(* Noise and envelopes are not supported, and not heard.                   *)
Fme7Volume(o) ==
  IF o.tone_off \/ o.envelope \/ o.period * period_factor < shortest_period THEN 0
  ELSE o.volume

Fme7Period(o) == (IF o.period = 0 THEN 1 ELSE o.period) * period_factor

(* The phase is inverted the same way whether the square is silent or not, *)
(* silent without the loop.                                                *)
RunFme7(o, n) ==
  LET volume == Fme7Volume(o)
      Pass(p, t) == [phase |-> 1 - p.phase,
                     deltas |-> [p.deltas EXCEPT ![t] = @ + volume * (1 - 2 * p.phase)]]
      first == [phase |-> o.phase, deltas |-> First(o, o.phase * volume, n)]
      last == Passes(Pass, first, o.delay, Fme7Period(o), n)
  IN  IF ~o.output THEN Unheard(o, n)
      ELSE [osc |-> [o EXCEPT !.phase = last.phase, !.last_amp = last.phase * volume,
                              !.delay = DelayAfter(@, Fme7Period(o), n) % delay_range],
            deltas |-> last.deltas,
            marks |-> n > o.delay \/ o.phase * volume # o.last_amp]

-----------------------------------------------------------------------------
(* Nes_Namco_Apu.                                                          *)

(* The last of the oscillators are active; rank counts from the end.       *)
NamcoActive(o) == o.output /\ o.rank < o.active

NamcoPeriod(o) == (low_period \div o.freq) * freq_scale * o.active

NamcoPlaying(o) == o.wave_on /\ o.volume # 0 /\ o.freq >= least_freq * o.active

NamcoPass(o, p, t) ==
  LET amp == o.wave[p.wave_pos] * o.volume
  IN  [wave_pos |-> IF p.wave_pos + 1 >= o.wave_size THEN 0 ELSE p.wave_pos + 1,
       last_amp |-> amp, deltas |-> [p.deltas EXCEPT ![t] = @ + amp - p.last_amp]]

RunNamco(o, n) ==
  LET Pass(p, t) == NamcoPass(o, p, t)
      first == [wave_pos |-> o.wave_pos, last_amp |-> o.last_amp, deltas |-> Silence(n)]
      last == Passes(Pass, first, o.delay, NamcoPeriod(o), n)
  IN  IF ~NamcoActive(o) THEN Unheard(o, n)
      ELSE IF ~NamcoPlaying(o)
      THEN Unheard([o EXCEPT !.delay = IF @ < n THEN 0 ELSE @ - n], n)
      ELSE [osc |-> [o EXCEPT !.wave_pos = last.wave_pos, !.last_amp = last.last_amp,
                              !.delay = DelayAfter(@, NamcoPeriod(o), n)],
            deltas |-> last.deltas, marks |-> n > o.delay]
-----------------------------------------------------------------------------
ExpansionRun(o, n) ==
  CASE o.kind = "vrc6_square" -> RunVrc6Square(o, n)
    [] o.kind = "vrc6_saw" -> RunSaw(o, n)
    [] o.kind = "fme7" -> RunFme7(o, n)
    [] o.kind = "namco" -> RunNamco(o, n)

LargestWave == CHOOSE size \in WaveSizes : \A other \in WaveSizes : other <= size

ResetVrc6(kind, output) ==
  IF kind = "vrc6_saw"
  THEN [kind |-> kind, output |-> output, delay |-> 0, last_amp |-> 0, phase |-> 1,
        period |-> 0, enabled |-> FALSE, amp |-> 0, rate |-> 0]
  ELSE [kind |-> kind, output |-> output, delay |-> 0, last_amp |-> 0, phase |-> 1,
        period |-> 0, enabled |-> FALSE, volume |-> 0, gate |-> FALSE, duty |-> 0]

ResetFme7(output) ==
  [kind |-> "fme7", output |-> output, delay |-> 0, last_amp |-> 0, phase |-> 0, period |-> 0,
   tone_off |-> FALSE, envelope |-> FALSE, volume |-> 0]

ResetNamco(rank, output) ==
  [kind |-> "namco", output |-> output, delay |-> 0, last_amp |-> 0, wave_pos |-> 0,
   rank |-> rank, active |-> 1, wave_on |-> FALSE, volume |-> 0, freq |-> 0,
   wave_size |-> LargestWave, wave |-> [i \in 0 .. LargestWave - 1 |-> 0]]

(* Slip: the delay not restored.                                           *)
LoadedLate(o) == [o EXCEPT !.delay = 0, !.last_amp = 0]

(* load_state of what save_state saves.                                    *)
Loaded(o) ==
  [o EXCEPT
    !.delay = @ % delay_range,
    !.last_amp = 0,
    !.phase = IF o.kind = "vrc6_saw" /\ @ = 0 THEN 1 ELSE @]

ExpansionInit ==
  /\ \/ \E kind \in Vrc6Kinds \cap Kinds : osc = ResetVrc6(kind, FALSE)
     \/ "fme7" \in Kinds /\ osc = ResetFme7(FALSE)
     \/ "namco" \in Kinds /\ \E rank \in NamcoRanks : osc = ResetNamco(rank, FALSE)
  /\ nonlinear = FALSE /\ modified = FALSE

ResetExpansion ==
  Write(IF osc.kind = "fme7" THEN ResetFme7(osc.output)
        ELSE IF osc.kind = "namco" THEN ResetNamco(osc.rank, osc.output)
        ELSE ResetVrc6(osc.kind, osc.output))

LoadState == osc.kind # "namco" /\ Write(Loaded(osc))

(* A register pair is written in two calls, and with its upper half other  *)
(* bits.                                                                   *)
Low(now, values) == {v \in values : v \div low_range = now \div low_range}
High(now, values) == {v \in values : v % low_range = now % low_range}

WriteVrc6 ==
  \/ /\ osc.kind = "vrc6_square"
     /\ \E volume \in Volumes, duty \in Vrc6Duties, gate \in BOOLEAN :
          Write([osc EXCEPT !.volume = volume, !.duty = duty, !.gate = gate])
  \/ osc.kind = "vrc6_saw" /\ \E rate \in SawRates : Write([osc EXCEPT !.rate = rate])

WriteVrc6Period ==
  \/ \E p \in Low(osc.period, Vrc6Periods) : Write([osc EXCEPT !.period = p])
  \/ \E p \in High(osc.period, Vrc6Periods), enabled \in BOOLEAN :
       Write([osc EXCEPT !.period = p, !.enabled = enabled])

(* write_data to the registers of the oscillator; latches beyond those of  *)
(* the chip are ignored.                                                   *)
WriteFme7 ==
  \/ \E p \in Low(osc.period, Fme7Periods) \cup High(osc.period, Fme7Periods) :
       Write([osc EXCEPT !.period = p])
  \/ \E tone_off \in BOOLEAN : Write([osc EXCEPT !.tone_off = tone_off])
  \/ \E volume \in Volumes, envelope \in BOOLEAN :
       Write([osc EXCEPT !.volume = volume, !.envelope = envelope])

(* write_data, where the wave does not lie in the registers.  The volume   *)
(* of the last oscillator has the number of the active ones beside it.     *)
WriteNamco ==
  \/ \E freq \in Low(osc.freq, NamcoFreqs) : Write([osc EXCEPT !.freq = freq])
  \/ \E freq \in High(osc.freq, NamcoFreqs), size \in WaveSizes, wave_on \in BOOLEAN :
       Write([osc EXCEPT !.freq = freq, !.wave_size = size, !.wave_on = wave_on])
  \/ \E volume \in Volumes \cup {osc.volume}, active \in NamcoActives :
       /\ osc.rank = 0 \/ volume = osc.volume \/ active = osc.active
       /\ Write([osc EXCEPT !.volume = volume, !.active = active])
  \/ \E i \in DOMAIN osc.wave, sample \in Samples : Write([osc EXCEPT !.wave[i] = sample])

ExpansionCalls ==
  \/ osc.kind \in Vrc6Kinds /\ (WriteVrc6 \/ WriteVrc6Period)
  \/ osc.kind = "fme7" /\ WriteFme7
  \/ osc.kind = "namco" /\ WriteNamco
  \/ osc.kind \in ExpansionKinds /\ (ResetExpansion \/ LoadState \/ EndOfFrame)
=============================================================================
