---------------------------- MODULE NesApuProofs ----------------------------
(***************************************************************************)
(* Proofs about NesApu, for every frame period, DMC period, sample length  *)
(* and calling pattern the assumptions allow: type correctness, the        *)
(* assertions - no run of the chip goes backwards, every frame is run to   *)
(* its end - and the DMC's bookkeeping, which never starves.  Each part of *)
(* the inductive invariant is preserved in a lemma of its own.             *)
(***************************************************************************)
EXTENDS NesApu, TLAPS

(* What set_tempo computes is even and long enough for the sequencer.      *)
LEMMA PeriodFacts ==
  ASSUME NEW p \in BOOLEAN, NEW t \in Tempos
  PROVE  /\ FramePeriod[<<p, t>>] \in Nat
         /\ FramePeriod[<<p, t>>] >= 4
         /\ FramePeriod[<<p, t>>] % 2 = 0
<1>1. FramePeriod[<<p, t>>] \in {q \in Nat : q >= 4 /\ q % 2 = 0}
  BY SMT, TempoAssumption DEF TempoAssumption
<1> QED
  BY SMT, <1>1

(* A DMC period of the table is at least a clock.                          *)
LEMMA DmcPeriodFacts ==
  ASSUME NEW p \in BOOLEAN, NEW r \in DmcRates
  PROVE  DmcPeriod[<<p, r>>] \in Nat \ {0}
BY SMT, DmcAssumption DEF DmcAssumption

(* The bounds keep every prediction below no_irq.                          *)
LEMMA Horizon ==
  /\ max_time \in Nat /\ max_period \in Nat /\ no_irq \in Nat
  /\ max_length \in Nat
  /\ max_time + 5 * max_period < no_irq
  /\ irq_waiting = 0 /\ 0 <= max_time
BY SMT DEF max_time, max_period, max_length, no_irq, irq_waiting

(* The client's times are within the horizon.                              *)
LEMMA TimeFacts ==
  ASSUME NEW t \in CallTimes \cup FrameLengths
  PROVE  t \in Int /\ 0 <= t /\ t <= max_time
<1>1. t \in 0 .. max_time
  BY Zenon, HorizonAssumption DEF HorizonAssumption
<1> QED
  BY SMT, <1>1, Horizon

(* A sample has at least a byte.                                           *)
LEMMA LengthFacts ==
  ASSUME NEW length \in DmcLengths
  PROVE  length \in Nat \ {0}
<1>1. length \in 1 .. max_length
  BY Zenon, DmcAssumption DEF DmcAssumption
<1> QED
  BY SMT, <1>1, Horizon

-----------------------------------------------------------------------------
(* Type correctness, action by action.                                     *)

LEMMA TypeInit == Init => TypeOK
<1> SUFFICES ASSUME Init PROVE TypeOK
  OBVIOUS
<1>1. tempo \in Tempos /\ 0 \in DmcRates
  BY SMT, TempoAssumption, DmcAssumption DEF Init, TempoAssumption, DmcAssumption
<1>2. /\ pal_mode \in BOOLEAN /\ five_step \in BOOLEAN /\ inhibit \in BOOLEAN
      /\ irq_flag \in BOOLEAN /\ buf_full \in BOOLEAN /\ silence \in BOOLEAN
      /\ dmc_irq_enabled \in BOOLEAN /\ dmc_irq_flag \in BOOLEAN
      /\ dmc_loop \in BOOLEAN /\ dmc_output \in BOOLEAN
  BY Zenon DEF Init
<1>3. frame_period \in Nat
  BY SMT, <1>1, <1>2, PeriodFacts DEF frame_period
<1>4. DmcPeriod[<<pal_mode, 0>>] \in Nat \ {0}
  BY SMT, <1>1, <1>2, DmcPeriodFacts
<1>5. halt \in [Tones -> BOOLEAN]
  BY SMT DEF Init
<1> QED
  BY SMT, <1>1, <1>2, <1>3, <1>4, <1>5 DEF Init, TypeOK, no_irq

LEMMA TypeReset ==
  ASSUME TypeOK, NEW pal \in PalModes, Reset(pal)
  PROVE  TypeOK'
<1>1. tempo' \in Tempos /\ pal_mode' \in BOOLEAN /\ 0 \in DmcRates /\ pal_mode' = pal
  BY SMT, ClientAssumption, DmcAssumption
     DEF Reset, TypeOK, ClientAssumption, DmcAssumption
<1>2. frame_period' \in Nat
  BY SMT, <1>1, PeriodFacts DEF frame_period
<1>3. DmcPeriod[<<pal, 0>>] \in Nat \ {0}
  BY SMT, <1>1, DmcPeriodFacts
<1>4. /\ five_step' \in BOOLEAN /\ inhibit' \in BOOLEAN /\ irq_flag' \in BOOLEAN
      /\ buf_full' \in BOOLEAN /\ silence' \in BOOLEAN
      /\ dmc_irq_enabled' \in BOOLEAN /\ dmc_irq_flag' \in BOOLEAN
      /\ dmc_loop' \in BOOLEAN
  BY Zenon DEF Reset
<1>5. halt' \in [Tones -> BOOLEAN]
  BY SMT DEF Reset
<1> QED
  BY SMT, <1>1, <1>2, <1>3, <1>4, <1>5 DEF Reset, TypeOK, callVars, no_irq

LEMMA TypeRunning ==
  ASSUME TypeOK, Running
  PROVE  TypeOK'
<1>1. CASE RunUntil_
  BY SMT, <1>1 DEF TypeOK, RunUntil_, modeVars, frameVars, toneVars, dmcVars,
     bitVars, fetchVars, regVars
<1>2. CASE DmcRun
  <2>1. bits_remain' \in 1 .. 8
    BY SMT, <1>2 DEF TypeOK, DmcRun, SkipSilence
  <2>2. dmc_time' \in Int /\ dmc_delay' \in Int
    BY SMT, <1>2 DEF TypeOK, DmcRun, SkipSilence, DmcStops
  <2> QED
    BY SMT, <1>2, <2>1, <2>2 DEF TypeOK, DmcRun, SkipSilence, DmcStops, Silenced,
       timeVars, modeVars, frameVars, toneVars, fetchVars, regVars
<1>3. CASE DmcBit
  <2>1. dmc_length' \in Nat
    BY SMT, <1>3 DEF TypeOK, DmcBit, FillBuffer, LengthAfter, fetchVars
  <2>2. /\ buf_full' \in BOOLEAN /\ dmc_irq_flag' \in BOOLEAN
        /\ silence' \in BOOLEAN
    BY Zenon, <1>3 DEF TypeOK, DmcBit, FillBuffer, fetchVars
  <2>3. dmc_next_irq' \in Int /\ earliest_irq' \in Int
    BY SMT, <1>3 DEF TypeOK, DmcBit, FillBuffer, Earliest, fetchVars, frameVars,
       no_irq, irq_waiting
  <2>4. osc_enables' \subseteq Oscs
    BY SMT, <1>3 DEF TypeOK, DmcBit, FillBuffer
  <2> QED
    BY SMT, <1>3, <2>1, <2>2, <2>3, <2>4 DEF TypeOK, DmcBit, DmcStops,
       timeVars, modeVars, frameVars, toneVars, regVars
<1>4. CASE FrameEvent
  <2>1. frame_period \in Nat
    BY SMT, PeriodFacts DEF TypeOK, frame_period
  <2>2. length_counter' \in [Tones -> Nat]
    BY SMT, <1>4 DEF TypeOK, FrameEvent, ClockLength
  <2> QED
    BY SMT, <1>4, <2>1, <2>2 DEF TypeOK, FrameEvent, DelayAfter, modeVars,
       dmcVars, bitVars, fetchVars, regVars, callVars
<1>5. CASE FramesDone
  BY SMT, <1>5 DEF TypeOK, FramesDone, modeVars, toneVars, dmcVars, bitVars,
     fetchVars, regVars
<1> QED
  BY SMT, <1>1, <1>2, <1>3, <1>4, <1>5 DEF Running

LEMMA TypeReturns ==
  ASSUME TypeOK, Returns
  PROVE  TypeOK'
<1>1. ASSUME NEW write \in CpuWrites,
             \/ WriteHalt(write) \/ WriteLength(write) \/ WriteDmcLength(write)
             \/ WriteOther(write)
      PROVE  TypeOK'
  <2>1. write \in Writes
    BY SMT, ClientAssumption DEF ClientAssumption
  <2>2. length_counter' \in [Tones -> Nat]
    <3>1. CASE WriteLength(write)
      <4>1. write.tone \in Tones /\ write.count \in LengthLoads
        BY SMT, <2>1, <3>1 DEF Writes, WriteLength, WriteReturns
      <4>2. write.count \in Nat
        BY Zenon, <4>1, ClientAssumption DEF ClientAssumption
      <4> QED
        BY SMT, <3>1, <4>1, <4>2 DEF TypeOK, WriteLength
    <3> QED
      BY SMT, <1>1, <3>1 DEF TypeOK, WriteHalt, WriteDmcLength, WriteOther, toneVars
  <2>3. halt' \in [Tones -> BOOLEAN]
    <3>1. CASE WriteHalt(write)
      <4>1. write.tone \in Tones /\ write.on \in BOOLEAN
        BY SMT, <2>1, <3>1 DEF Writes, WriteHalt, WriteReturns
      <4> QED
        BY SMT, <3>1, <4>1 DEF TypeOK, WriteHalt
    <3> QED
      BY SMT, <1>1, <3>1 DEF TypeOK, WriteLength, WriteDmcLength, WriteOther, toneVars
  <2>4. dmc_reload' \in Nat \ {0}
    <3>1. CASE WriteDmcLength(write)
      <4>1. write.count \in DmcLengths
        BY SMT, <2>1, <3>1 DEF Writes, WriteDmcLength, WriteReturns
      <4>2. write.count \in Nat \ {0}
        BY SMT, <4>1, LengthFacts
      <4> QED
        BY SMT, <3>1, <4>2 DEF WriteDmcLength
    <3> QED
      BY SMT, <1>1, <3>1 DEF TypeOK, WriteHalt, WriteLength, WriteOther, regVars
  <2> QED
    BY SMT, <1>1, <2>2, <2>3, <2>4
       DEF TypeOK, WriteHalt, WriteLength, WriteDmcLength, WriteOther,
           WriteReturns, Return, timeVars, modeVars, frameVars, bitVars,
           fetchVars, regVars, toneVars
<1>2. ASSUME NEW write \in CpuWrites, WriteDmcMode(write)
      PROVE  TypeOK'
  <2>1. write \in Writes /\ write.reg = "dmc_mode"
    BY SMT, <1>2, ClientAssumption DEF ClientAssumption, WriteDmcMode, WriteReturns
  <2>2. write.rate \in DmcRates /\ write.loop \in BOOLEAN /\ write.irq \in BOOLEAN
    BY SMT, <2>1 DEF Writes
  <2>3. dmc_period' \in Nat \ {0}
    BY SMT, <1>2, <2>2, DmcPeriodFacts DEF TypeOK, WriteDmcMode
  <2>4. dmc_next_irq' \in Int
    BY SMT, <1>2, <2>3 DEF TypeOK, WriteDmcMode, WriteReturns, DmcIrqTime,
       timeVars, bitVars, no_irq
  <2>5. earliest_irq' \in Int
    BY SMT, <1>2, <2>4 DEF TypeOK, WriteDmcMode, Earliest, frameVars, irq_waiting
  <2> QED
    BY SMT, <1>2, <2>2, <2>3, <2>4, <2>5
       DEF TypeOK, WriteDmcMode, WriteReturns, Return, timeVars, modeVars,
           frameVars, bitVars, toneVars
<1>3. ASSUME NEW write \in CpuWrites, WriteEnables(write)
      PROVE  TypeOK'
  <2>1. write.on \subseteq Oscs
    BY SMT, <1>3, ClientAssumption
       DEF ClientAssumption, WriteEnables, WriteReturns, Writes
  <2>2. length_counter' \in [Tones -> Nat]
    BY SMT, <1>3 DEF TypeOK, WriteEnables
  <2>3. dmc_length' \in Nat /\ osc_enables' \subseteq Oscs
    BY SMT, <1>3, <2>1 DEF TypeOK, WriteEnables, DisableDmc, KeepDmc, StartDmc,
       LengthAfter
  <2>4. dmc_irq_flag' \in BOOLEAN /\ buf_full' \in BOOLEAN
    BY Zenon, <1>3 DEF TypeOK, WriteEnables, DisableDmc, KeepDmc, StartDmc
  <2>5. dmc_next_irq' \in Int
    BY SMT, <1>3, <2>3 DEF TypeOK, WriteEnables, WriteReturns, DisableDmc,
       KeepDmc, StartDmc, DmcIrqTime, timeVars, bitVars, regVars, no_irq
  <2>6. earliest_irq' \in Int
    BY SMT, <1>3, <2>5 DEF TypeOK, WriteEnables, DisableDmc, KeepDmc, StartDmc,
       Earliest, frameVars, irq_waiting
  <2> QED
    BY SMT, <1>3, <2>2, <2>3, <2>4, <2>5, <2>6
       DEF TypeOK, WriteEnables, WriteReturns, Return, timeVars, modeVars,
           frameVars, bitVars, regVars
<1>4. ASSUME NEW write \in CpuWrites, WriteFrameMode(write)
      PROVE  TypeOK'
  <2>1. write.five \in BOOLEAN /\ write.inhibit \in BOOLEAN
    BY SMT, <1>4, ClientAssumption
       DEF ClientAssumption, WriteFrameMode, WriteReturns, Writes
  <2>2. frame_period \in Nat
    BY SMT, PeriodFacts DEF TypeOK, frame_period
  <2>3. frame_delay' \in Int /\ next_irq' \in Int
    BY SMT, <1>4, <2>2 DEF TypeOK, WriteFrameMode, no_irq
  <2>4. earliest_irq' \in Int
    BY SMT, <1>4, <2>3 DEF TypeOK, WriteFrameMode, Earliest, fetchVars, irq_waiting
  <2> QED
    BY SMT, <1>4, <2>1, <2>3, <2>4
       DEF TypeOK, WriteFrameMode, WriteReturns, Return, timeVars, modeVars,
           bitVars, fetchVars, regVars, toneVars
<1>5. CASE ReadStatusSample
  BY SMT, <1>5 DEF TypeOK, ReadStatusSample, Sampled, Oscs, timeVars, modeVars,
     frameVars, toneVars, dmcVars, bitVars, fetchVars, regVars
<1>6. CASE ReadStatusReturns
  <2>1. earliest_irq' \in Int
    BY SMT, <1>6 DEF TypeOK, ReadStatusReturns, Earliest, dmcVars, fetchVars,
       irq_waiting
  <2>2. irq_flag' \in BOOLEAN
    BY Zenon, <1>6 DEF ReadStatusReturns
  <2>3. status' \subseteq Oscs \cup {"dmc_irq", "frame_irq"}
    BY SMT, <1>6 DEF TypeOK, ReadStatusReturns, Return
  <2> QED
    BY SMT, <1>6, <2>1, <2>2, <2>3 DEF TypeOK, ReadStatusReturns, Return, timeVars, modeVars,
       toneVars, dmcVars, bitVars, fetchVars, regVars
<1>7. CASE RunUntilReturns
  BY SMT, <1>7 DEF TypeOK, RunUntilReturns, Return, timeVars, modeVars,
     frameVars, toneVars, dmcVars, bitVars, fetchVars, regVars
<1> QED
  BY SMT, <1>1, <1>2, <1>3, <1>4, <1>5, <1>6, <1>7 DEF Returns

(* The lemmas on calls and settings are about any time and any output, for *)
(* whoever calls the chip.                                                 *)
LEMMA TypeCalls ==
  ASSUME TypeOK, NEW t \in Int,
         CallWrite(t) \/ CallReadStatus(t) \/ CallRunUntil(t) \/ CallEndFrame(t)
  PROVE  TypeOK'
BY SMT, ClientAssumption
   DEF TypeOK, ClientAssumption, CallWrite, CallReadStatus, CallRunUntil,
       CallEndFrame, Call, modeVars, frameVars, toneVars, dmcVars, bitVars,
       fetchVars, regVars

LEMMA TypeOutput ==
  ASSUME TypeOK, NEW on \in BOOLEAN, SetDmcOutput(on)
  PROVE  TypeOK'
BY SMT DEF TypeOK, SetDmcOutput, timeVars, modeVars, frameVars, toneVars,
   bitVars, fetchVars, regVars, callVars

LEMMA TypeEndFrame ==
  ASSUME TypeOK, EndFrame
  PROVE  TypeOK'
BY SMT DEF TypeOK, EndFrame, Return, Rebased, no_irq, modeVars, toneVars,
   bitVars, regVars

LEMMA TypeUnchanged ==
  ASSUME TypeOK, UNCHANGED vars
  PROVE  TypeOK'
BY SMT DEF TypeOK, vars, timeVars, modeVars, frameVars, toneVars, dmcVars,
   bitVars, fetchVars, regVars, callVars

LEMMA TypeStep ==
  ASSUME TypeOK, [Next]_vars
  PROVE  TypeOK'
<1>1. CASE Calls
  BY Zenon, <1>1, TimeFacts, TypeCalls DEF Calls
<1>2. ASSUME NEW t \in Tempos, SetTempo(t)
      PROVE  TypeOK'
  BY SMT, <1>2
     DEF TypeOK, SetTempo, timeVars, frameVars, toneVars, dmcVars, bitVars,
         fetchVars, regVars, callVars
<1>3. ASSUME NEW on \in Outputs, SetDmcOutput(on)
      PROVE  TypeOK'
  BY Zenon, <1>3, ClientAssumption, TypeOutput DEF ClientAssumption
<1> QED
  BY Zenon, <1>1, <1>2, <1>3, TypeReset, TypeRunning, TypeReturns, TypeEndFrame,
     TypeUnchanged DEF Next, Settings

(* Every reachable state is well typed.                                    *)
THEOREM TypeCorrect == Spec => []TypeOK
BY TypeInit, TypeStep, PTL DEF Spec

-----------------------------------------------------------------------------
(* Facts about constants and about groups of actions.                      *)

LEMMA PeriodBound ==
  ASSUME TypeOK
  PROVE  /\ frame_period \in Nat /\ frame_period >= 4
         /\ frame_period <= max_period /\ frame_period % 2 = 0
<1>1. <<pal_mode, tempo>> \in BOOLEAN \X Tempos
  BY SMT DEF TypeOK
<1>2. frame_period \in {p \in Nat : p >= 4 /\ p <= max_period /\ p % 2 = 0}
  BY SMT, <1>1, TempoAssumption DEF TempoAssumption, frame_period
<1> QED
  BY SMT, <1>2

(* Every write and RunUntilReturns and ReadStatusReturns end the call they *)
(* belong to and leave the clocks and the DMC's bit position alone.        *)
ReturnsKeep == UNCHANGED <<timeVars, bitVars, modeVars>>

LEMMA ReturnsEnd ==
  ASSUME Returns
  PROVE  /\ ReturnsKeep
         /\ pc = "return"
         /\ \/ /\ op \in {"write", "read_status_now", "run_until"}
               /\ pc' = "idle" /\ op' = "none" /\ goal' = 0
            \/ ReadStatusSample
<1>1. ASSUME NEW write \in CpuWrites,
             \/ WriteHalt(write) \/ WriteLength(write) \/ WriteDmcMode(write)
             \/ WriteDmcLength(write) \/ WriteEnables(write)
             \/ WriteFrameMode(write) \/ WriteOther(write)
      PROVE  Return("write", {}) /\ ReturnsKeep
  BY Zenon, <1>1 DEF WriteHalt, WriteLength, WriteDmcMode, WriteDmcLength,
     WriteEnables, WriteFrameMode, WriteOther, WriteReturns, ReturnsKeep
<1>2. ASSUME NEW write \in CpuWrites, Return("write", {})
      PROVE  op = "write" /\ pc = "return" /\ pc' = "idle" /\ op' = "none" /\ goal' = 0
  BY Zenon, <1>2 DEF Return
<1>3. CASE ReadStatusReturns
  BY Zenon, <1>3 DEF ReadStatusReturns, Return, ReturnsKeep, dmcVars
<1>4. CASE RunUntilReturns
  BY Zenon, <1>4 DEF RunUntilReturns, Return, ReturnsKeep, dmcVars
<1>5. CASE ReadStatusSample
  BY Zenon, <1>5 DEF ReadStatusSample, ReturnsKeep, dmcVars
<1> QED
  BY Zenon, <1>1, <1>2, <1>3, <1>4, <1>5 DEF Returns

-----------------------------------------------------------------------------
(* The assertions.                                                         *)

LEMMA TimeInit == Init => TimeInv
<1> SUFFICES ASSUME Init PROVE TimeInv
  OBVIOUS
<1>1. TypeOK
  BY SMT, TypeInit
<1>2. frame_period \in Nat
  BY SMT, <1>1, PeriodBound
<1> QED
  BY SMT, <1>2, Horizon DEF Init, TimeInv

LEMMA TimeCalls ==
  ASSUME TypeOK, TimeInv, NEW t \in Int, 0 <= t, t <= max_time,
         \/ CallWrite(t) \/ CallRunUntil(t) \/ CallEndFrame(t)
         \/ CallReadStatus(t) /\ t > last_time
  PROVE  TimeInv'
<1>1. CASE CallWrite(t) \/ CallRunUntil(t) \/ CallEndFrame(t)
  BY SMT, <1>1, Horizon
     DEF TypeOK, TimeInv, CallWrite, CallRunUntil, CallEndFrame, Call, frameVars
<1>2. CASE CallReadStatus(t) /\ t > last_time
  BY SMT, <1>2, Horizon DEF TypeOK, TimeInv, CallReadStatus, Call, frameVars
<1> QED
  BY Zenon, <1>1, <1>2

LEMMA TimeRunning ==
  ASSUME TypeOK, TimeInv, Running
  PROVE  TimeInv'
<1>1. CASE RunUntil_
  BY SMT, <1>1, Horizon DEF TypeOK, TimeInv, RunUntil_, frameVars
<1>2. CASE DmcRun
  <2>1. pc' \in {"dmc_bits", "frames", "return"} /\ (op = "run_until" => pc' # "frames")
        /\ (op # "run_until" => pc' # "return")
    BY SMT, <1>2 DEF DmcRun, SkipSilence, DmcStops
  <2>2. UNCHANGED <<last_time, last_dmc_time, frame_delay, op, goal>>
    BY SMT, <1>2 DEF DmcRun, timeVars, frameVars
  <2>3. pc = "dmc_run"
    BY SMT, <1>2 DEF DmcRun
  <2> QED
    BY SMT, <2>1, <2>2, <2>3, Horizon DEF TypeOK, TimeInv
<1>3. CASE DmcBit
  <2>1. pc' \in {"dmc_bits", "frames", "return"} /\ (op = "run_until" => pc' # "frames")
        /\ (op # "run_until" => pc' # "return")
    BY SMT, <1>3 DEF DmcBit, DmcStops
  <2>2. UNCHANGED <<last_time, last_dmc_time, frame_delay, op, goal>>
    BY SMT, <1>3 DEF DmcBit, timeVars, frameVars
  <2>3. pc = "dmc_bits"
    BY SMT, <1>3 DEF DmcBit
  <2> QED
    BY SMT, <2>1, <2>2, <2>3, Horizon DEF TypeOK, TimeInv
<1>4. CASE FrameEvent
  BY SMT, <1>4, PeriodBound, Horizon
     DEF TypeOK, TimeInv, FrameEvent, DelayAfter, callVars
<1>5. CASE FramesDone
  BY SMT, <1>5, Horizon DEF TypeOK, TimeInv, FramesDone
<1> QED
  BY SMT, <1>1, <1>2, <1>3, <1>4, <1>5 DEF Running

LEMMA TimeReturns ==
  ASSUME TypeOK, TimeInv, Returns
  PROVE  TimeInv'
<1>1. CASE ReadStatusSample
  BY SMT, <1>1, Horizon DEF TypeOK, TimeInv, ReadStatusSample, timeVars, frameVars
<1>2. CASE ~ReadStatusSample
  <2>1. UNCHANGED <<last_time, last_dmc_time>> /\ pc' = "idle" /\ op' = "none"
    BY SMT, <1>2, ReturnsEnd DEF ReturnsKeep, timeVars
  <2>2. frame_delay' \in Int /\ 0 <= frame_delay'
    <3>1. ASSUME NEW write \in CpuWrites, WriteFrameMode(write)
          PROVE  frame_delay' \in Int /\ 0 <= frame_delay'
      <4>1. frame_delay % 2 \in 0 .. 1
        BY SMT DEF TypeOK
      <4> QED
        BY SMT, <3>1, <4>1, PeriodBound DEF WriteFrameMode
    <3>2. frame_delay \in Int /\ 0 <= frame_delay
      BY SMT DEF TypeOK, TimeInv
    <3>3. frame_delay' = frame_delay \/ \E write \in CpuWrites : WriteFrameMode(write)
      BY Zenon, <1>2
         DEF Returns, WriteHalt, WriteLength, WriteDmcMode, WriteDmcLength,
             WriteEnables, WriteOther, ReadStatusReturns, RunUntilReturns, frameVars
    <3> QED
      BY SMT, <3>1, <3>2, <3>3
  <2> QED
    BY SMT, <2>1, <2>2 DEF TimeInv
<1> QED
  BY Zenon, <1>1, <1>2

LEMMA TimeEndFrame ==
  ASSUME TypeOK, TimeInv, EndFrame
  PROVE  TimeInv'
BY SMT, Horizon DEF TypeOK, TimeInv, EndFrame, Return

LEMMA TimeOutput ==
  ASSUME TimeInv, NEW on, SetDmcOutput(on)
  PROVE  TimeInv'
BY SMT DEF TimeInv, SetDmcOutput, timeVars, frameVars, callVars

LEMMA TimeUnchanged ==
  ASSUME TimeInv, UNCHANGED vars
  PROVE  TimeInv'
BY SMT DEF TimeInv, vars, timeVars, frameVars, callVars

LEMMA TimeStep ==
  ASSUME TypeOK, TimeInv, [Next]_vars, StatusGap >= 1
  PROVE  TimeInv'
<1>1. CASE Calls
  <2>1. ASSUME NEW t \in CallTimes, CallReadStatus(t)
        PROVE  t > last_time
    BY SMT, <2>1, TimeFacts, ClientAssumption
       DEF ClientAssumption, TypeOK, CallReadStatus
  <2> QED
    BY Zenon, <1>1, <2>1, TimeFacts, TimeCalls DEF Calls
<1>2. ASSUME NEW t \in Tempos, SetTempo(t)
      PROVE  TimeInv'
  BY SMT, <1>2 DEF TimeInv, SetTempo, timeVars, frameVars, callVars
<1>3. ASSUME NEW pal \in PalModes, Reset(pal) PROVE TimeInv'
  <2>1. pal_mode' \in BOOLEAN /\ tempo' \in Tempos
    BY SMT, <1>3, ClientAssumption DEF TypeOK, ClientAssumption, Reset
  <2>2. PICK period \in Nat : period = frame_period'
    BY SMT, <2>1, PeriodFacts DEF frame_period
  <2>3. /\ last_time' = 0 /\ last_dmc_time' = 0
        /\ frame_delay' = frame_period' + 1
        /\ pc = "idle" /\ pc' = pc /\ op' = op
    BY Zenon, <1>3 DEF Reset, callVars
  <2>4. op' = "none"
    BY SMT, <2>3 DEF TimeInv
  <2>5. frame_delay' = period + 1
    BY Zenon, <2>2, <2>3
  <2> QED
    BY SMT, <2>3, <2>4, <2>5, Horizon DEF TimeInv
<1> QED
  BY Zenon, <1>1, <1>2, <1>3, TimeOutput, TimeRunning, TimeReturns, TimeEndFrame,
     TimeUnchanged DEF Next, Settings

(* No run of the chip goes backwards, and every time frame is run to its   *)
(* end, whatever the client calls and however short its frames, provided   *)
(* that it does not read the status at the time it last ran the chip to.   *)
THEOREM AssertionsHold ==
  ASSUME StatusGap >= 1
  PROVE  Spec => []AssertsHold
<1>1. Init => TimeInv
  BY TimeInit
<1>2. TypeOK /\ TimeInv /\ [Next]_vars => TimeInv'
  BY TimeStep
<1>3. TypeOK /\ TimeInv => AssertsHold
  BY SMT DEF TypeOK, TimeInv, AssertsHold
<1> QED
  BY <1>1, <1>2, <1>3, TypeCorrect, PTL DEF Spec

-----------------------------------------------------------------------------
(* The DMC never starves.                                                  *)

LEMMA ReadyInit == Init => DmcReady
BY SMT DEF Init, DmcReady

LEMMA ReadyDmcBit ==
  ASSUME TypeOK, DmcReady, DmcBit
  PROVE  DmcReady'
<1>1. UNCHANGED <<dmc_irq_enabled, dmc_loop>>
  BY SMT DEF DmcBit, regVars
<1>2. CASE FillBuffer
  BY SMT, <1>1, <1>2 DEF TypeOK, DmcReady, FillBuffer, SampleEnds, LengthAfter
<1>3. CASE UNCHANGED <<fetchVars, osc_enables, earliest_irq>>
  BY SMT, <1>1, <1>3 DEF TypeOK, DmcReady, fetchVars
<1> QED
  BY Zenon, <1>2, <1>3 DEF DmcBit

LEMMA ReadyEnables ==
  ASSUME TypeOK, DmcReady, NEW write \in CpuWrites, WriteEnables(write)
  PROVE  DmcReady'
<1>1. UNCHANGED <<dmc_irq_enabled, dmc_loop, dmc_reload>>
  BY SMT DEF WriteEnables, regVars
<1>2. CASE DisableDmc(write.on)
  BY SMT, <1>1, <1>2 DEF TypeOK, DmcReady, DisableDmc
<1>3. CASE KeepDmc(write.on)
  BY SMT, <1>1, <1>3 DEF TypeOK, DmcReady, KeepDmc
<1>4. CASE StartDmc(write.on)
  BY SMT, <1>1, <1>4 DEF TypeOK, DmcReady, StartDmc, SampleEnds, LengthAfter
<1> QED
  BY Zenon, <1>2, <1>3, <1>4 DEF WriteEnables

(* Whatever is written to the DMC's registers, and whenever: while the     *)
(* channel has bytes to fetch one is buffered, $4015 agrees, and its flag  *)
(* stands only at the end of a sample that may interrupt.                  *)
THEOREM DmcNeverStarves == Spec => []DmcReady
<1>1. TypeOK /\ DmcReady /\ [Next]_vars => DmcReady'
  <2> SUFFICES ASSUME TypeOK, DmcReady, [Next]_vars PROVE DmcReady'
    OBVIOUS
  <2> DEFINE readyVars == <<dmc_length, buf_full, osc_enables, dmc_irq_flag,
                            dmc_irq_enabled, dmc_loop>>
  <2>1. CASE UNCHANGED readyVars
    BY SMT, <2>1 DEF DmcReady
  <2>2. CASE DmcBit
    BY SMT, <2>2, ReadyDmcBit
  <2>3. CASE \E write \in CpuWrites : WriteEnables(write)
    BY SMT, <2>3, ReadyEnables
  <2>4. ASSUME NEW write \in CpuWrites, WriteDmcMode(write)
        PROVE  DmcReady'
    <3>1. UNCHANGED <<dmc_length, buf_full, osc_enables>>
      BY SMT, <2>4 DEF WriteDmcMode
    <3>2. /\ dmc_irq_enabled' = (write.irq /\ ~write.loop)
          /\ dmc_loop' = write.loop
          /\ dmc_irq_flag' = (dmc_irq_flag /\ dmc_irq_enabled')
      BY Zenon, <2>4 DEF WriteDmcMode
    <3> QED
      BY Zenon, <3>1, <3>2 DEF DmcReady
  <2>5. CASE \E pal \in PalModes : Reset(pal)
    BY SMT, <2>5 DEF Reset, DmcReady
  <2>6. CASE \/ Calls \/ Settings \/ EndFrame \/ UNCHANGED vars
    BY Zenon, <2>6, <2>1 DEF Calls, CallWrite, CallReadStatus, CallRunUntil,
       CallEndFrame, Call, Settings, SetTempo, SetDmcOutput, EndFrame, vars,
       dmcVars, fetchVars, regVars
  <2>7. CASE RunUntil_ \/ DmcRun \/ FrameEvent \/ FramesDone
    BY Zenon, <2>7, <2>1 DEF RunUntil_, DmcRun, FrameEvent, FramesDone, dmcVars,
       fetchVars, regVars
  <2>8. CASE ReadStatusSample \/ ReadStatusReturns \/ RunUntilReturns
    BY Zenon, <2>8, <2>1 DEF ReadStatusSample, ReadStatusReturns,
       RunUntilReturns, dmcVars, fetchVars, regVars
  <2>9. ASSUME NEW write \in CpuWrites,
               \/ WriteHalt(write) \/ WriteLength(write) \/ WriteDmcLength(write)
               \/ WriteFrameMode(write) \/ WriteOther(write)
        PROVE  DmcReady'
    BY Zenon, <2>9, <2>1 DEF WriteHalt, WriteLength, WriteDmcLength,
       WriteFrameMode, WriteOther, fetchVars, regVars
  <2> QED
    BY Zenon, <2>2, <2>3, <2>4, <2>5, <2>6, <2>7, <2>8, <2>9
       DEF Next, Running, Returns
<1> QED
  BY ReadyInit, <1>1, TypeCorrect, PTL DEF Spec
=============================================================================
