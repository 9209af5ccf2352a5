------------------------------- MODULE NesApu -------------------------------
(***************************************************************************)
(* The timing core of the 2A03 APU (nes_apu/Nes_Apu.cpp and the Nes_Dmc    *)
(* part of nes_apu/Nes_Oscs.cpp): the frame sequencer, the length          *)
(* counters, the DMC's sample fetches, the two interrupt sources and the   *)
(* cached time of the earliest interrupt that the CPU loop polls.          *)
(*                                                                         *)
(* A call of the class is several steps.  The client's call sets op and    *)
(* goal; run_until_ then goes through one step per iteration of the        *)
(* DMC's bit loop and one per iteration of the frame loop; the call's own  *)
(* effect is its last step.  All times are relative to the client's        *)
(* current time frame, which end_frame rebases.  Waveforms, volumes and    *)
(* the sample bits are left out: nothing here depends on them.             *)
(*                                                                         *)
(* A definition introduced by "Slip" is not part of the model: it is what  *)
(* a plausible slip in the code would make of the definition after it, and *)
(* the properties are shown to notice it.                                  *)
(***************************************************************************)
EXTENDS Integers

CONSTANTS
  Tones,        \* the channels with a length counter: squares, triangle, noise
  Tempos,       \* the tempos the client may set
  FramePeriod,  \* <<pal_mode, tempo>> -> the frame period set_tempo computes
  DmcRates,     \* the values of the rate field of $4010
  DmcPeriod,    \* <<pal_mode, rate>> -> dmc_period_table
  DmcLengths,   \* the sample lengths $4013 can select, in bytes
  LengthLoads,  \* the values of length_table
  CallTimes,    \* bound: the times of a time frame at which the client calls
  FrameLengths, \* bound: the lengths of its time frames
  PalModes,     \* the video standards the client may reset to
  Outputs,      \* TRUE: the DMC may be given an output buffer, FALSE: NULL
  StatusGap,    \* read_status is called at least this long after last_time
  CpuWrites     \* the register writes the client makes

no_irq == 1073741824   \* INT_MAX / 2 + 1
irq_waiting == 0
max_time == 536870912    \* bounds: no time frame is longer than five minutes,
max_period == 16777216   \* and the tempo leaves a frame period below this
max_length == 4081       \* the longest sample $4013 selects

Oscs == Tones \cup {"dmc"}

(* A register write: which register, and what the code reads out of data.  *)
Writes ==
  [reg : {"halt"}, tone : Tones, on : BOOLEAN]                \* $4000 $4004 $4008 $400C
    \cup [reg : {"length"}, tone : Tones, count : LengthLoads]  \* $4003 $4007 $400B $400F
    \cup [reg : {"dmc_mode"}, rate : DmcRates, loop : BOOLEAN, irq : BOOLEAN]  \* $4010
    \cup [reg : {"dmc_length"}, count : DmcLengths]             \* $4013
    \cup [reg : {"enables"}, on : SUBSET Oscs]                  \* $4015
    \cup [reg : {"frame_mode"}, five : BOOLEAN, inhibit : BOOLEAN]  \* $4017
    \cup [reg : {"other"}]      \* the registers with no effect on timing

ASSUME TonesAssumption == "dmc" \notin Tones

ASSUME TempoAssumption ==
  /\ "normal" \in Tempos
  /\ FramePeriod \in [BOOLEAN \X Tempos -> {p \in Nat : p >= 4 /\ p <= max_period /\ p % 2 = 0}]

ASSUME DmcAssumption ==
  /\ 0 \in DmcRates
  /\ DmcPeriod \in [BOOLEAN \X DmcRates -> 1 .. 428]
  /\ DmcLengths \subseteq 1 .. max_length

(* Times are ints, and no_irq must stay out of reach of a prediction.      *)
ASSUME HorizonAssumption ==
  /\ CallTimes \subseteq 0 .. max_time
  /\ FrameLengths \subseteq 0 .. max_time

ASSUME ClientAssumption ==
  /\ LengthLoads \subseteq Nat
  /\ PalModes \subseteq BOOLEAN /\ Outputs \subseteq BOOLEAN
  /\ StatusGap \in Nat
  /\ CpuWrites \subseteq Writes

VARIABLES
  last_time,       \* the tones and the frame sequencer have run up to here
  last_dmc_time,   \* the DMC has run up to here
  tempo,           \* tempo_
  pal_mode,        \* dmc.pal_mode
  frame_delay,     \* clocks from last_time to the next sequencer event
  frame,           \* which event that is
  five_step,       \* bit 7 of frame_mode
  inhibit,         \* bit 6 of frame_mode
  irq_flag,        \* the frame sequencer's interrupt flag
  next_irq,        \* predicted time of the next frame interrupt
  earliest_irq,    \* earliest_irq_, what the client polls
  osc_enables,     \* the channels enabled by $4015
  length_counter,  \* of each tone
  halt,            \* of each tone, the halt bit of its register 0
  dmc_delay,       \* clocks from last_dmc_time to the DMC's next bit
  dmc_period,      \* clocks per bit
  dmc_length,      \* bytes of the sample still to fetch
  bits_remain,     \* bits of the current byte still to play
  buf_full,        \* the byte after it has been fetched
  silence,         \* the current byte is not played
  dmc_irq_enabled, \* bit 7 of $4010, if its bit 6 is clear
  dmc_irq_flag,    \* the DMC's interrupt flag
  dmc_next_irq,    \* predicted time of the DMC's interrupt
  dmc_loop,        \* bit 6 of $4010
  dmc_reload,      \* sample length selected by $4013
  dmc_output,      \* the DMC has an output buffer
  pc,              \* where in the current call the program is
  op,              \* the call being executed
  goal,            \* the end_time of the run in progress
  dmc_time,        \* the local variable time of Nes_Dmc::run
  status           \* the result of read_status

timeVars  == <<last_time, last_dmc_time>>
modeVars  == <<tempo, pal_mode>>
frameVars == <<frame_delay, frame, five_step, inhibit, irq_flag, next_irq>>
toneVars  == <<length_counter, halt>>
bitVars   == <<dmc_delay, bits_remain, silence>>
fetchVars == <<dmc_length, buf_full, dmc_irq_flag, dmc_next_irq>>
regVars   == <<dmc_period, dmc_irq_enabled, dmc_loop, dmc_reload>>
dmcVars   == <<bitVars, fetchVars, regVars, dmc_output>>
callVars  == <<pc, op, goal, dmc_time, status>>
vars == <<timeVars, modeVars, frameVars, earliest_irq, osc_enables, toneVars,
          dmcVars, callVars>>

frame_period == FramePeriod[<<pal_mode, tempo>>]

-----------------------------------------------------------------------------
(* Helpers of Nes_Dmc and of the interrupt logic.                          *)

(* irq_changed stores this in earliest_irq_.                               *)
Earliest ==
  IF dmc_irq_flag \/ irq_flag THEN irq_waiting
  ELSE IF dmc_next_irq > next_irq THEN next_irq ELSE dmc_next_irq

(* Slip: the current byte's bits counted once too often.                   *)
DmcIrqTimeLate ==
  IF dmc_irq_enabled /\ dmc_length # 0
  THEN last_dmc_time + dmc_delay
         + ((dmc_length - 1) * 8 + bits_remain) * dmc_period + 1
  ELSE no_irq

(* recalc_irq: when the sample playing now will have been read to its end. *)
DmcIrqTime ==
  IF dmc_irq_enabled /\ dmc_length # 0
  THEN last_dmc_time + dmc_delay
         + ((dmc_length - 1) * 8 + bits_remain - 1) * dmc_period + 1
  ELSE no_irq

(* next_read_time: when the DMC will next fetch a byte.                    *)
NextDmcReadTime ==
  IF dmc_length = 0 THEN no_irq
  ELSE last_dmc_time + dmc_delay + (bits_remain - 1) * dmc_period

(* Slip: a fetch at the end of the run counted as within it.               *)
CountReadsInclusive(first, time) ==
  LET count == (time - first) \div (dmc_period * 8) + 1
  IN  IF dmc_length = 0 \/ time < first THEN 0
      ELSE IF ~dmc_loop /\ count > dmc_length THEN dmc_length
      ELSE count

(* count_reads: the fetches before time if the next one is at first.       *)
CountReads(first, time) ==
  LET count == (time - first - 1) \div (dmc_period * 8) + 1
  IN  IF dmc_length = 0 \/ time <= first THEN 0
      ELSE IF ~dmc_loop /\ count > dmc_length THEN dmc_length
      ELSE count

(* The byte fetched with length bytes to go is the last of a sample that   *)
(* does not loop.                                                          *)
SampleEnds(length) == length = 1 /\ ~dmc_loop

LengthAfter(length) ==
  IF length # 1 THEN length - 1 ELSE IF dmc_loop THEN dmc_reload ELSE 0

(* Slip: the end of a sample leaves its bit of $4015 set.                  *)
FillBufferStaysOn ==
  /\ buf_full' = (dmc_length # 0)
  /\ dmc_length' = IF dmc_length = 0 THEN 0 ELSE LengthAfter(dmc_length)
  /\ osc_enables' = osc_enables
  /\ IF SampleEnds(dmc_length)
     THEN /\ dmc_irq_flag' = dmc_irq_enabled
          /\ dmc_next_irq' = no_irq
          /\ earliest_irq' = Earliest'
     ELSE UNCHANGED <<dmc_irq_flag, dmc_next_irq, earliest_irq>>

(* fill_buffer when the buffer is empty.  The end of a sample disables the *)
(* channel, raises the flag if it is enabled and calls irq_changed.        *)
FillBuffer ==
  /\ buf_full' = (dmc_length # 0)
  /\ dmc_length' = IF dmc_length = 0 THEN 0 ELSE LengthAfter(dmc_length)
  /\ IF SampleEnds(dmc_length)
     THEN /\ osc_enables' = osc_enables \ {"dmc"}
          /\ dmc_irq_flag' = dmc_irq_enabled
          /\ dmc_next_irq' = no_irq
          /\ earliest_irq' = Earliest'
     ELSE UNCHANGED <<osc_enables, dmc_irq_flag, dmc_next_irq, earliest_irq>>

-----------------------------------------------------------------------------
(* Construction and reset, which leave the same state but for the tempo    *)
(* and for where the DMC's output goes.                                    *)

Init ==
  /\ last_time = 0 /\ last_dmc_time = 0
  /\ tempo = "normal" /\ pal_mode = FALSE
  /\ frame_delay = frame_period + 1 /\ frame = 1
  /\ five_step = FALSE /\ inhibit = FALSE /\ irq_flag = FALSE
  /\ next_irq = 4 * frame_period + 2
  /\ earliest_irq = next_irq
  /\ osc_enables = {}
  /\ length_counter = [c \in Tones |-> 0]
  /\ halt = [c \in Tones |-> FALSE]
  /\ dmc_delay = 0 /\ bits_remain = 1 /\ silence = TRUE
  /\ dmc_length = 0 /\ buf_full = FALSE
  /\ dmc_irq_flag = FALSE /\ dmc_next_irq = no_irq
  /\ dmc_period = DmcPeriod[<<pal_mode, 0>>]
  /\ dmc_irq_enabled = FALSE /\ dmc_loop = FALSE /\ dmc_reload = 1
  /\ dmc_output = FALSE
  /\ pc = "idle" /\ op = "none" /\ goal = 0 /\ dmc_time = 0 /\ status = {}

Reset(pal) ==
  /\ pc = "idle"
  /\ last_time' = 0 /\ last_dmc_time' = 0
  /\ pal_mode' = pal /\ tempo' = tempo
  /\ frame_delay' = frame_period' + 1 /\ frame' = 1
  /\ five_step' = FALSE /\ inhibit' = FALSE /\ irq_flag' = FALSE
  /\ next_irq' = 4 * frame_period' + 2
  /\ earliest_irq' = next_irq'
  /\ osc_enables' = {}
  /\ length_counter' = [c \in Tones |-> 0]
  /\ halt' = [c \in Tones |-> FALSE]
  /\ dmc_delay' = 0 /\ bits_remain' = 1 /\ silence' = TRUE
  /\ dmc_length' = 0 /\ buf_full' = FALSE
  /\ dmc_irq_flag' = FALSE /\ dmc_next_irq' = no_irq
  /\ dmc_period' = DmcPeriod[<<pal, 0>>]
  /\ dmc_irq_enabled' = FALSE /\ dmc_loop' = FALSE /\ dmc_reload' = 1
  /\ UNCHANGED <<dmc_output, callVars>>

SetTempo(t) ==
  /\ pc = "idle"
  /\ tempo' = t
  /\ UNCHANGED <<timeVars, pal_mode, frameVars, earliest_irq, osc_enables,
                 toneVars, dmcVars, callVars>>

(* set_output( 4, buffer ): NULL mutes the DMC.                            *)
SetDmcOutput(on) ==
  /\ pc = "idle"
  /\ dmc_output' = on
  /\ UNCHANGED <<timeVars, modeVars, frameVars, earliest_irq, osc_enables,
                 toneVars, bitVars, fetchVars, regVars, callVars>>

-----------------------------------------------------------------------------
(* The client's calls.  What a write writes is chosen at the step that     *)
(* first looks at it, when the chip has been run.                          *)

Call(name, end, at) ==
  /\ pc = "idle"
  /\ op' = name /\ goal' = end /\ pc' = at /\ status' = {}
  /\ UNCHANGED <<last_time, modeVars, frameVars, earliest_irq, osc_enables,
                 toneVars, dmcVars>>

CallWrite(t) ==
  /\ t >= last_time
  /\ Call("write", t, "run_until_")
  /\ UNCHANGED <<last_dmc_time, dmc_time>>

CallReadStatus(t) ==
  /\ t >= last_time + StatusGap
  /\ Call("read_status", t - 1, "run_until_")
  /\ UNCHANGED <<last_dmc_time, dmc_time>>

(* Slip: end_frame looks at the DMC's time, which run_until advances.      *)
CallEndFrameDmc(t) ==
  /\ Call("end_frame", t, IF t > last_dmc_time THEN "run_until_" ELSE "return")
  /\ UNCHANGED <<last_dmc_time, dmc_time>>

CallEndFrame(t) ==
  /\ Call("end_frame", t, IF t > last_time THEN "run_until_" ELSE "return")
  /\ UNCHANGED <<last_dmc_time, dmc_time>>

(* run_until, which runs the DMC alone, and only past its next read.       *)
CallRunUntil(t) ==
  /\ t >= last_dmc_time
  /\ t > NextDmcReadTime
  /\ Call("run_until", t, "dmc_run")
  /\ last_dmc_time' = t
  /\ dmc_time' = last_dmc_time

-----------------------------------------------------------------------------
(* run_until_, and Nes_Dmc::run, which it calls when the DMC is behind.    *)

RunUntil_ ==
  /\ pc = "run_until_"
  /\ goal >= last_time
  /\ IF goal = last_time
     THEN pc' = "return" /\ UNCHANGED <<last_dmc_time, dmc_time>>
     ELSE IF last_dmc_time < goal
     THEN pc' = "dmc_run" /\ last_dmc_time' = goal /\ dmc_time' = last_dmc_time
     ELSE pc' = "frames" /\ UNCHANGED <<last_dmc_time, dmc_time>>
  /\ UNCHANGED <<last_time, modeVars, frameVars, earliest_irq, osc_enables,
                 toneVars, dmcVars, op, goal, status>>

Silenced == silence \/ ~dmc_output

(* The end of Nes_Dmc::run, at the time its loops have reached.            *)
DmcStops(time) ==
  /\ dmc_delay' = time - goal
  /\ pc' = IF op = "run_until" THEN "return" ELSE "frames"

(* Slips: the bits skipped rounded down, and left at 0 instead of 8.       *)
SkipSilenceShort(start) ==
  LET count == (goal - start) \div dmc_period
      time == start + count * dmc_period
  IN  /\ bits_remain' = ((bits_remain - 1 + 8 - (count % 8)) % 8) + 1
      /\ dmc_time' = time
      /\ DmcStops(time)

SkipSilenceToZero(start) ==
  LET count == (goal - start + dmc_period - 1) \div dmc_period
      time == start + count * dmc_period
  IN  /\ bits_remain' = (bits_remain + 8 - (count % 8)) % 8
      /\ dmc_time' = time
      /\ DmcStops(time)

(* Nothing to play and nothing buffered: skip over the bits at once.       *)
SkipSilence(start) ==
  LET count == (goal - start + dmc_period - 1) \div dmc_period
      time == start + count * dmc_period
  IN  /\ bits_remain' = ((bits_remain - 1 + 8 - (count % 8)) % 8) + 1
      /\ dmc_time' = time
      /\ DmcStops(time)

DmcRun ==
  LET start == dmc_time + dmc_delay
  IN  /\ pc = "dmc_run"
      /\ silence' = Silenced
      /\ IF start < goal /\ Silenced /\ ~buf_full
         THEN SkipSilence(start)
         ELSE /\ dmc_time' = start
              /\ bits_remain' = bits_remain
              /\ IF start < goal THEN pc' = "dmc_bits" /\ dmc_delay' = dmc_delay
                 ELSE DmcStops(start)
      /\ UNCHANGED <<timeVars, modeVars, frameVars, earliest_irq, osc_enables,
                     toneVars, fetchVars, regVars, dmc_output, op, goal, status>>

(* One iteration of the bit loop.  At the end of a byte the buffered one   *)
(* is taken and the buffer refilled.                                       *)
DmcBit ==
  LET time == dmc_time + dmc_period
  IN  /\ pc = "dmc_bits"
      /\ UNCHANGED <<timeVars, modeVars, frameVars, toneVars, regVars,
                     dmc_output, op, goal, status>>
      /\ dmc_time' = time
      /\ bits_remain' = IF bits_remain = 1 THEN 8 ELSE bits_remain - 1
      /\ IF bits_remain = 1 /\ buf_full
         THEN silence' = ~dmc_output /\ FillBuffer
         ELSE /\ silence' = (silence \/ bits_remain = 1)
              /\ UNCHANGED <<fetchVars, osc_enables, earliest_irq>>
      /\ IF time < goal THEN pc' = "dmc_bits" /\ dmc_delay' = dmc_delay
         ELSE DmcStops(time)

-----------------------------------------------------------------------------
(* The frame loop of run_until_.                                           *)

(* clock_length, on the events that clock the length counters.             *)
ClockLength(lengths) ==
  [c \in Tones |-> IF halt[c] \/ lengths[c] = 0 THEN lengths[c] ELSE lengths[c] - 1]

(* Slips: no short step on NTSC, and the delay not reloaded.               *)
DelayAfterEven(f) ==
  IF f = 2 /\ pal_mode THEN frame_period - 2
  ELSE IF f = 3 /\ five_step THEN 2 * frame_period - (IF pal_mode THEN 2 ELSE 6)
  ELSE frame_period

DelayAfterNothing(f) == 0

(* The delay from the event numbered f to the one after it.                *)
DelayAfter(f) ==
  IF f = 1 /\ ~pal_mode THEN frame_period - 2
  ELSE IF f = 2 /\ pal_mode THEN frame_period - 2
  ELSE IF f = 3 /\ five_step THEN 2 * frame_period - (IF pal_mode THEN 2 ELSE 6)
  ELSE frame_period

FrameIrqEnabled == ~five_step /\ ~inhibit

FrameEvent ==
  LET time == last_time + frame_delay
      raises == frame = 0 /\ FrameIrqEnabled
  IN  /\ pc = "frames"
      /\ time < goal
      /\ last_time' = time
      /\ frame_delay' = DelayAfter(frame)
      /\ frame' = IF frame = 3 THEN 0 ELSE frame + 1
      /\ irq_flag' = (irq_flag \/ raises)
      /\ next_irq' = IF raises THEN time + frame_period * 4 + 2 ELSE next_irq
      /\ length_counter' = IF frame \in {0, 2} THEN ClockLength(length_counter)
                           ELSE length_counter
      /\ UNCHANGED <<last_dmc_time, modeVars, five_step, inhibit, earliest_irq,
                     osc_enables, halt, dmcVars, callVars>>

(* Slip: the time run since the last event is not taken off the delay.     *)
FramesDoneForgets ==
  /\ pc = "frames"
  /\ last_time + frame_delay >= goal
  /\ last_time' = goal
  /\ pc' = "return"
  /\ UNCHANGED <<last_dmc_time, modeVars, frameVars, earliest_irq, osc_enables,
                 toneVars, dmcVars, op, goal, dmc_time, status>>

FramesDone ==
  /\ pc = "frames"
  /\ last_time + frame_delay >= goal
  /\ frame_delay' = frame_delay - (goal - last_time)
  /\ last_time' = goal
  /\ pc' = "return"
  /\ UNCHANGED <<last_dmc_time, modeVars, frame, five_step, inhibit, irq_flag,
                 next_irq, earliest_irq, osc_enables, toneVars, dmcVars,
                 op, goal, dmc_time, status>>

-----------------------------------------------------------------------------
(* What each call does once the chip has been run up to its time.          *)

Return(name, result) ==
  /\ pc = "return" /\ op = name
  /\ pc' = "idle" /\ op' = "none" /\ goal' = 0 /\ dmc_time' = 0
  /\ status' = result

WriteReturns(write, reg) ==
  /\ Return("write", {}) /\ write.reg = reg
  /\ UNCHANGED <<timeVars, modeVars, dmc_output, bitVars>>

WriteHalt(write) ==
  /\ WriteReturns(write, "halt")
  /\ halt' = [halt EXCEPT ![write.tone] = write.on]
  /\ UNCHANGED <<frameVars, earliest_irq, osc_enables, length_counter,
                 fetchVars, regVars>>

(* Slip: a disabled channel is loaded too.                                 *)
WriteLengthAlways(write) ==
  /\ WriteReturns(write, "length")
  /\ length_counter' = [length_counter EXCEPT ![write.tone] = write.count]
  /\ UNCHANGED <<frameVars, earliest_irq, osc_enables, halt, fetchVars, regVars>>

WriteLength(write) ==
  /\ WriteReturns(write, "length")
  /\ length_counter' = IF write.tone \in osc_enables
                       THEN [length_counter EXCEPT ![write.tone] = write.count]
                       ELSE length_counter
  /\ UNCHANGED <<frameVars, earliest_irq, osc_enables, halt, fetchVars, regVars>>

(* $4010: the interrupt is enabled only if the loop is disabled.  The      *)
(* cache is refreshed only if the prediction changed.                      *)
WriteDmcMode(write) ==
  /\ WriteReturns(write, "dmc_mode")
  /\ dmc_period' = DmcPeriod[<<pal_mode, write.rate>>]
  /\ dmc_loop' = write.loop
  /\ dmc_irq_enabled' = (write.irq /\ ~write.loop)
  /\ dmc_irq_flag' = (dmc_irq_flag /\ dmc_irq_enabled')
  /\ UNCHANGED <<dmc_reload, dmc_length, buf_full>>
  /\ dmc_next_irq' = DmcIrqTime'
  /\ UNCHANGED <<frameVars, osc_enables, toneVars>>
  /\ earliest_irq' = IF dmc_next_irq' # dmc_next_irq THEN Earliest' ELSE earliest_irq

WriteDmcLength(write) ==
  /\ WriteReturns(write, "dmc_length")
  /\ dmc_reload' = write.count
  /\ UNCHANGED <<frameVars, earliest_irq, osc_enables, toneVars, fetchVars,
                 dmc_period, dmc_irq_enabled, dmc_loop>>

WriteOther(write) ==
  /\ WriteReturns(write, "other")
  /\ UNCHANGED <<frameVars, earliest_irq, osc_enables, toneVars, fetchVars, regVars>>

(* $4015, with the DMC's bit clear, ...                                    *)
DisableDmc(on) ==
  /\ "dmc" \notin on
  /\ osc_enables' = on
  /\ dmc_length' = 0 /\ buf_full' = buf_full
  /\ dmc_irq_flag' = FALSE /\ dmc_next_irq' = no_irq
  /\ earliest_irq' = Earliest'

(* ... set when it was set already, ...                                    *)
KeepDmc(on) ==
  /\ "dmc" \in on /\ "dmc" \in osc_enables
  /\ osc_enables' = on
  /\ dmc_irq_flag' = FALSE
  /\ UNCHANGED <<dmc_length, buf_full, dmc_next_irq>>
  /\ earliest_irq' = IF dmc_irq_flag THEN Earliest' ELSE earliest_irq

(* Slip: irq_changed not called when the sample starts.                    *)
StartDmcUnannounced(on) ==
  LET ends == ~buf_full /\ SampleEnds(dmc_reload)
  IN  /\ "dmc" \in on /\ "dmc" \notin osc_enables
      /\ osc_enables' = IF ends THEN on \ {"dmc"} ELSE on
      /\ buf_full' = TRUE
      /\ dmc_length' = IF buf_full THEN dmc_reload ELSE LengthAfter(dmc_reload)
      /\ dmc_irq_flag' = (ends /\ dmc_irq_enabled)
      /\ dmc_next_irq' = DmcIrqTime'
      /\ earliest_irq' = earliest_irq

(* ... and set when it was clear: Nes_Dmc::start reloads the sample,       *)
(* fetches its first byte, which may be its last, and recalculates the     *)
(* prediction.                                                             *)
StartDmc(on) ==
  LET ends == ~buf_full /\ SampleEnds(dmc_reload)
  IN  /\ "dmc" \in on /\ "dmc" \notin osc_enables
      /\ osc_enables' = IF ends THEN on \ {"dmc"} ELSE on
      /\ buf_full' = TRUE
      /\ dmc_length' = IF buf_full THEN dmc_reload ELSE LengthAfter(dmc_reload)
      /\ dmc_irq_flag' = (ends /\ dmc_irq_enabled)
      /\ dmc_next_irq' = DmcIrqTime'
      /\ earliest_irq' =
           IF \/ dmc_irq_flag \/ ends
              \/ dmc_next_irq' # dmc_next_irq
           THEN Earliest' ELSE earliest_irq

WriteEnables(write) ==
  /\ WriteReturns(write, "enables")
  /\ length_counter' = [c \in Tones |-> IF c \in write.on THEN length_counter[c] ELSE 0]
  /\ UNCHANGED <<frameVars, halt, regVars>>
  /\ DisableDmc(write.on) \/ KeepDmc(write.on) \/ StartDmc(write.on)

(* Slips: irq_changed not called, and the low bit of the delay dropped.    *)
WriteFrameModeUnannounced(write) ==
  LET jitter == frame_delay % 2
  IN  /\ WriteReturns(write, "frame_mode")
      /\ five_step' = write.five /\ inhibit' = write.inhibit
      /\ irq_flag' = (irq_flag /\ ~write.inhibit)
      /\ frame' = IF write.five THEN 0 ELSE 1
      /\ frame_delay' = IF write.five THEN jitter ELSE jitter + frame_period
      /\ next_irq' = IF write.five \/ write.inhibit THEN no_irq
                     ELSE goal + frame_delay' + frame_period * 3 + 1
      /\ UNCHANGED <<osc_enables, toneVars, fetchVars, regVars, earliest_irq>>

WriteFrameModeAtOnce(write) ==
  /\ WriteReturns(write, "frame_mode")
  /\ five_step' = write.five /\ inhibit' = write.inhibit
  /\ irq_flag' = (irq_flag /\ ~write.inhibit)
  /\ frame' = IF write.five THEN 0 ELSE 1
  /\ frame_delay' = IF write.five THEN 0 ELSE frame_period
  /\ next_irq' = IF write.five \/ write.inhibit THEN no_irq
                 ELSE goal + frame_delay' + frame_period * 3 + 1
  /\ UNCHANGED <<osc_enables, toneVars, fetchVars, regVars>>
  /\ earliest_irq' = Earliest'

(* $4017: the sequencer restarts, in step with odd clocks.                 *)
WriteFrameMode(write) ==
  LET jitter == frame_delay % 2
  IN  /\ WriteReturns(write, "frame_mode")
      /\ five_step' = write.five /\ inhibit' = write.inhibit
      /\ irq_flag' = (irq_flag /\ ~write.inhibit)
      /\ frame' = IF write.five THEN 0 ELSE 1
      /\ frame_delay' = IF write.five THEN jitter ELSE jitter + frame_period
      /\ next_irq' = IF write.five \/ write.inhibit THEN no_irq
                     ELSE goal + frame_delay' + frame_period * 3 + 1
      /\ UNCHANGED <<osc_enables, toneVars, fetchVars, regVars>>
      /\ earliest_irq' = Earliest'

(* read_status runs to the clock before the read, samples the flags, runs  *)
(* the last clock, and acknowledges a frame interrupt.                     *)
Sampled ==
  {c \in Tones : length_counter[c] # 0}
    \cup {b \in {"dmc"} : dmc_length # 0}
    \cup {b \in {"dmc_irq"} : dmc_irq_flag}
    \cup {b \in {"frame_irq"} : irq_flag}

ReadStatusSample ==
  /\ pc = "return" /\ op = "read_status"
  /\ status' = Sampled
  /\ op' = "read_status_now" /\ goal' = goal + 1 /\ pc' = "run_until_"
  /\ UNCHANGED <<timeVars, modeVars, frameVars, earliest_irq, osc_enables,
                 toneVars, dmcVars, dmc_time>>

ReadStatusReturns ==
  /\ Return("read_status_now", status \cup {b \in {"frame_irq"} : irq_flag})
  /\ irq_flag' = FALSE
  /\ UNCHANGED <<timeVars, modeVars, frame_delay, frame, five_step, inhibit,
                 next_irq, osc_enables, toneVars, dmcVars>>
  /\ earliest_irq' = IF irq_flag THEN Earliest' ELSE earliest_irq

(* end_frame makes every time relative to the next time frame.             *)
Rebased(time) == IF time = no_irq THEN no_irq ELSE time - goal

EndFrame ==
  /\ Return("end_frame", {})
  /\ last_time' = last_time - goal
  /\ last_dmc_time' = last_dmc_time - goal
  /\ next_irq' = Rebased(next_irq)
  /\ dmc_next_irq' = Rebased(dmc_next_irq)
  /\ earliest_irq' = IF Rebased(earliest_irq) < 0 THEN 0 ELSE Rebased(earliest_irq)
  /\ UNCHANGED <<modeVars, frame_delay, frame, five_step, inhibit, irq_flag,
                 osc_enables, toneVars, bitVars, dmc_length, buf_full,
                 dmc_irq_flag, regVars, dmc_output>>

RunUntilReturns ==
  /\ Return("run_until", {})
  /\ UNCHANGED <<timeVars, modeVars, frameVars, earliest_irq, osc_enables,
                 toneVars, dmcVars>>

-----------------------------------------------------------------------------
Calls ==
  \/ \E t \in CallTimes : CallWrite(t) \/ CallReadStatus(t) \/ CallRunUntil(t)
  \/ \E t \in FrameLengths : CallEndFrame(t)

Settings ==
  \/ \E t \in Tempos : SetTempo(t)
  \/ \E on \in Outputs : SetDmcOutput(on)

Running == RunUntil_ \/ DmcRun \/ DmcBit \/ FrameEvent \/ FramesDone

Returns ==
  \/ \E write \in CpuWrites :
       \/ WriteHalt(write) \/ WriteLength(write) \/ WriteDmcMode(write)
       \/ WriteDmcLength(write) \/ WriteEnables(write)
       \/ WriteFrameMode(write) \/ WriteOther(write)
  \/ ReadStatusSample \/ ReadStatusReturns \/ RunUntilReturns

Next ==
  \/ Calls \/ Settings
  \/ \E pal \in PalModes : Reset(pal)
  \/ Running \/ Returns \/ EndFrame

(* A call that has begun is executed by the CPU: its steps are fair.  The  *)
(* client need not make another call.                                      *)
Spec == Init /\ [][Next]_vars /\ WF_vars(Running \/ Returns \/ EndFrame)
-----------------------------------------------------------------------------
(* Properties.                                                             *)

(* Every variable keeps to the values its declaration in Nes_Apu.h,        *)
(* Nes_Oscs.h and the register decoding allow.                             *)
TypeOK ==
  /\ last_time \in Int /\ last_dmc_time \in Int
  /\ tempo \in Tempos /\ pal_mode \in BOOLEAN
  /\ frame_delay \in Int /\ frame \in 0 .. 3
  /\ five_step \in BOOLEAN /\ inhibit \in BOOLEAN
  /\ irq_flag \in BOOLEAN /\ next_irq \in Int /\ earliest_irq \in Int
  /\ osc_enables \subseteq Oscs
  /\ length_counter \in [Tones -> Nat]
  /\ halt \in [Tones -> BOOLEAN]
  /\ dmc_delay \in Int /\ dmc_period \in Nat \ {0} /\ dmc_length \in Nat
  /\ bits_remain \in 1 .. 8 /\ buf_full \in BOOLEAN /\ silence \in BOOLEAN
  /\ dmc_irq_enabled \in BOOLEAN /\ dmc_irq_flag \in BOOLEAN
  /\ dmc_next_irq \in Int
  /\ dmc_loop \in BOOLEAN /\ dmc_reload \in Nat \ {0} /\ dmc_output \in BOOLEAN
  /\ pc \in {"idle", "run_until_", "dmc_run", "dmc_bits", "frames", "return"}
  /\ op \in {"none", "write", "read_status", "read_status_now", "end_frame",
             "run_until"}
  /\ goal \in Int /\ dmc_time \in Int
  /\ status \subseteq Oscs \cup {"dmc_irq", "frame_irq"}

(* The assertions of run_until_ and end_frame never fail: no run goes      *)
(* backwards, and the chip has been run to the end of every frame.         *)
AssertsHold ==
  /\ pc = "run_until_" => goal >= last_time
  /\ pc = "return" /\ op = "end_frame" =>
       last_time >= goal /\ last_dmc_time >= goal

(* The DMC never starves: while a sample has bytes left, the next one is   *)
(* already buffered whenever the last is used up, $4015 shows the channel  *)
(* enabled exactly then, and the flag stands only for a finished sample.   *)
DmcReady ==
  /\ dmc_length # 0 => buf_full
  /\ dmc_length # 0 <=> "dmc" \in osc_enables
  /\ dmc_irq_flag => dmc_length = 0 /\ dmc_irq_enabled
  /\ dmc_irq_enabled => ~dmc_loop

(* A tone disabled by $4015 is silent whatever is written to it: its       *)
(* length counter stays 0.                                                 *)
DisabledIsSilent == \A c \in Tones : c \notin osc_enables => length_counter[c] = 0

(* The clock at which the sequencer, left alone, next raises the flag.     *)
FrameIrqTime ==
  last_time + frame_delay
    + CASE frame = 0 -> 0
        [] frame = 1 -> 3 * frame_period - 2
        [] frame = 2 -> 2 * frame_period - (IF pal_mode THEN 2 ELSE 0)
        [] OTHER     -> frame_period

(* A client that runs the chip only as far as earliest_irq says and then   *)
(* looks misses no interrupt: a raised DMC flag is reported at once, a     *)
(* frame flag within the 3 clocks by which the prediction trails the       *)
(* sequencer, and the cache never lies beyond an interrupt still to come.  *)
PollingIsEnough ==
  pc = "idle" =>
    /\ dmc_irq_flag => earliest_irq = irq_waiting
    /\ irq_flag => earliest_irq <= last_time + 3
    /\ ~irq_flag /\ FrameIrqEnabled => earliest_irq <= FrameIrqTime + 4
    /\ earliest_irq <= DmcIrqTime

(* The frame prediction made when $4017 is written or an interrupt raised  *)
(* is never early and at most 4 clocks late, and there is one exactly when *)
(* the mode raises interrupts.                                             *)
FramePrediction ==
  IF FrameIrqEnabled
  THEN next_irq - FrameIrqTime \in {3, 4}
  ELSE next_irq = no_irq

(* When the last byte of a sample is fetched during a run, the interrupt   *)
(* had been predicted for exactly that clock.                              *)
DmcIrqOnTime ==
  [][pc = "dmc_bits" /\ ~dmc_irq_flag /\ dmc_irq_flag'
       => dmc_next_irq = dmc_time + 1]_vars

(* count_reads tells exactly how many bytes a run will fetch: at every     *)
(* step of Nes_Dmc::run the reads still counted go down by the byte        *)
(* fetched at that step, and none are left when it stops.                  *)
ReadsLeft ==
  CASE pc = "dmc_run"  -> CountReads(dmc_time + dmc_delay + (bits_remain - 1) * dmc_period, goal)
    [] pc = "dmc_bits" -> CountReads(dmc_time + (bits_remain - 1) * dmc_period, goal)
    [] OTHER           -> 0

CountReadsExact ==
  [][pc = "dmc_run" \/ pc = "dmc_bits"
       => LET fetches == pc = "dmc_bits" /\ bits_remain = 1 /\ dmc_length # 0
          IN  ReadsLeft = ReadsLeft' + (IF fetches THEN 1 ELSE 0)]_vars

(* Skipping silence at once leaves the DMC where the bit loop would: at    *)
(* the first bit clock not before the goal, with as many bits used up.     *)
SilenceInStep ==
  [][pc = "dmc_run" /\ pc' # "dmc_bits" /\ dmc_time + dmc_delay < goal
       => LET start == dmc_time + dmc_delay
              bits == (dmc_time' - start) \div dmc_period
          IN  /\ dmc_time' = start + bits * dmc_period
              /\ dmc_time' >= goal /\ dmc_time' - dmc_period < goal
              /\ (bits_remain' + bits - bits_remain) % 8 = 0]_vars

(* earliest_irq says an interrupt is waiting only if one is.               *)
WaitingMeansPending ==
  pc = "idle" /\ earliest_irq = irq_waiting => irq_flag \/ dmc_irq_flag

(* The state in which the properties above are preserved.  Where the times *)
(* stand in each part of a call, ...                                       *)
TimeInv ==
  /\ 0 <= last_time /\ last_time <= last_dmc_time
  /\ last_dmc_time <= max_time
  /\ 0 <= frame_delay
  /\ pc = "idle" <=> op = "none"
  /\ op = "run_until" => pc \in {"dmc_run", "dmc_bits", "return"}
  /\ pc # "idle" => 0 <= goal /\ goal <= max_time
  /\ op = "read_status" => goal < max_time
  /\ pc = "run_until_" => goal >= last_time
  /\ pc \in {"dmc_run", "dmc_bits"} => goal = last_dmc_time
  /\ pc \in {"dmc_run", "dmc_bits"} /\ op # "run_until" => goal > last_time
  /\ pc = "frames" => goal > last_time /\ goal <= last_dmc_time
  /\ pc = "return" /\ op \notin {"end_frame", "run_until"} => goal = last_time
  /\ pc = "return" /\ op = "end_frame" => goal <= last_time

(* ... how far the DMC's next bit is, ...                                  *)
DmcClock ==
  CASE pc = "dmc_run"  -> dmc_time + dmc_delay
    [] pc = "dmc_bits" -> dmc_time
    [] OTHER           -> last_dmc_time + dmc_delay

DmcTimeInv ==
  /\ 0 <= dmc_delay /\ dmc_delay <= 428
  /\ pc = "dmc_run" => 0 <= dmc_time /\ dmc_time <= goal
  /\ pc = "dmc_bits" => 0 <= dmc_time /\ dmc_time < goal
  /\ dmc_period <= 428
  /\ dmc_length <= max_length /\ dmc_reload <= max_length

(* ... that the DMC's prediction is the clock at which the bit loop will   *)
(* fetch the last byte, ...                                                *)
BitsToIrq == (dmc_length - 1) * 8 + bits_remain - 1

DmcPrediction ==
  dmc_next_irq = IF dmc_irq_enabled /\ dmc_length # 0
                 THEN DmcClock + BitsToIrq * dmc_period + 1
                 ELSE no_irq

(* ... and what the cache may hold.                                        *)
CacheInv ==
  /\ dmc_irq_flag => earliest_irq = irq_waiting
  /\ irq_flag => earliest_irq <= last_time + (IF pc = "frames" THEN 4 ELSE 3)
  /\ ~irq_flag => earliest_irq <= next_irq
  /\ ~dmc_irq_flag => earliest_irq <= dmc_next_irq

(* Every call returns, however far the chip is behind.                     *)
CallsReturn == pc # "idle" ~> pc = "idle"
=============================================================================
