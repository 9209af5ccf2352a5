------------------------- MODULE NesApuTimingProofs -------------------------
(***************************************************************************)
(* The predictions of NesApu, by which the CPU loop knows how far it may   *)
(* run the chip: that of the frame sequencer, that of the DMC, and what    *)
(* earliest_irq keeps of them.  A prediction is not made again when the    *)
(* tempo changes, so the theorems are about a client that keeps it.  Then  *)
(* the time frames, which have no effect on the frame sequencer:           *)
(* NesApuEpoch refines FrameSequencer for every frame period, tempo and    *)
(* calling pattern.                                                        *)
(***************************************************************************)
EXTENDS NesApuEpoch, NesApuProofs, Arithmetic

-----------------------------------------------------------------------------
(* A tone that $4015 disables.                                             *)

LEMMA SilentInit == Init => DisabledIsSilent
BY SMT DEF Init, DisabledIsSilent

(* The DMC's end of a sample does not concern the tones.                   *)
LEMMA SilentDmcBit ==
  ASSUME TypeOK, DisabledIsSilent, DmcBit
  PROVE  DisabledIsSilent'
<1>1. length_counter' = length_counter /\ "dmc" \notin Tones
  BY SMT, TonesAssumption DEF DmcBit, toneVars, TonesAssumption
<1>2. osc_enables' = osc_enables \/ osc_enables' = osc_enables \ {"dmc"}
  BY Zenon DEF DmcBit, FillBuffer
<1> QED
  BY SMT, <1>1, <1>2 DEF DisabledIsSilent

LEMMA SilentEnables ==
  ASSUME TypeOK, NEW write \in CpuWrites, WriteEnables(write)
  PROVE  DisabledIsSilent'
<1>1. osc_enables' = write.on \/ osc_enables' = write.on \ {"dmc"}
  BY Zenon DEF WriteEnables, DisableDmc, KeepDmc, StartDmc
<1>2. length_counter' = [c \in Tones |-> IF c \in write.on THEN length_counter[c] ELSE 0]
  BY Zenon DEF WriteEnables
<1>3. "dmc" \notin Tones
  BY Zenon, TonesAssumption DEF TonesAssumption
<1> QED
  BY SMT, <1>1, <1>2, <1>3 DEF DisabledIsSilent

(* Whatever is written, and whenever the sequencer clocks it: the length   *)
(* counter of a channel that $4015 has disabled stays 0.                   *)
THEOREM DisabledStaysSilent == Spec => []DisabledIsSilent
<1>1. TypeOK /\ DisabledIsSilent /\ [Next]_vars => DisabledIsSilent'
  <2> SUFFICES ASSUME TypeOK, DisabledIsSilent, [Next]_vars PROVE DisabledIsSilent'
    OBVIOUS
  <2>1. CASE UNCHANGED <<length_counter, osc_enables>>
    BY SMT, <2>1 DEF DisabledIsSilent
  <2>2. CASE DmcBit
    BY SMT, <2>2, SilentDmcBit
  <2>3. CASE \E write \in CpuWrites : WriteEnables(write)
    BY SMT, <2>3, SilentEnables
  <2>4. CASE FrameEvent
    <3>1. osc_enables' = osc_enables
          /\ length_counter' \in {length_counter, ClockLength(length_counter)}
      BY SMT, <2>4 DEF FrameEvent
    <3> QED
      BY SMT, <3>1 DEF DisabledIsSilent, ClockLength
  <2>5. ASSUME NEW write \in CpuWrites, WriteLength(write)
        PROVE  DisabledIsSilent'
    BY SMT, <2>5 DEF TypeOK, DisabledIsSilent, WriteLength
  <2>6. CASE \E pal \in PalModes : Reset(pal)
    BY SMT, <2>6 DEF Reset, DisabledIsSilent
  <2>7. CASE Calls \/ Settings \/ EndFrame \/ UNCHANGED vars
    BY Zenon, <2>7, <2>1 DEF Calls, CallWrite, CallReadStatus, CallRunUntil,
       CallEndFrame, Call, Settings, SetTempo, SetDmcOutput, EndFrame, vars, toneVars
  <2>8. CASE RunUntil_ \/ DmcRun \/ FramesDone
    BY Zenon, <2>8, <2>1 DEF RunUntil_, DmcRun, FramesDone, toneVars
  <2>9. CASE ReadStatusSample \/ ReadStatusReturns \/ RunUntilReturns
    BY Zenon, <2>9, <2>1 DEF ReadStatusSample, ReadStatusReturns, RunUntilReturns, toneVars
  <2>10. ASSUME NEW write \in CpuWrites,
                \/ WriteHalt(write) \/ WriteDmcMode(write) \/ WriteDmcLength(write)
                \/ WriteFrameMode(write) \/ WriteOther(write)
         PROVE  DisabledIsSilent'
    BY Zenon, <2>10, <2>1 DEF WriteHalt, WriteDmcMode, WriteDmcLength,
       WriteFrameMode, WriteOther, toneVars
  <2> QED
    BY Zenon, <2>2, <2>3, <2>4, <2>5, <2>6, <2>7, <2>8, <2>9, <2>10
       DEF Next, Running, Returns
<1> QED
  BY SilentInit, <1>1, TypeCorrect, PTL DEF Spec

-----------------------------------------------------------------------------
(* The frame sequencer's prediction.                                       *)

(* The next event is never farther than the longest step.                  *)
DelayInv == frame_delay <= 2 * max_period

LEMMA DelayInit == Init => DelayInv
<1> SUFFICES ASSUME Init PROVE DelayInv
  OBVIOUS
<1>1. TypeOK
  BY SMT, TypeInit
<1> QED
  BY SMT, <1>1, PeriodBound, Horizon DEF Init, DelayInv

(* After any step the period is one that set_tempo may compute.            *)
LEMMA NextPeriod ==
  ASSUME TypeOK'
  PROVE  \E period \in Nat : /\ period = FramePeriod[<<pal_mode', tempo'>>]
                             /\ period >= 4 /\ period <= max_period
<1>1. <<pal_mode', tempo'>> \in BOOLEAN \X Tempos
  BY SMT DEF TypeOK
<1>2. FramePeriod[<<pal_mode', tempo'>>] \in {p \in Nat : p >= 4 /\ p <= max_period /\ p % 2 = 0}
  BY SMT, <1>1, TempoAssumption DEF TempoAssumption
<1> QED
  BY Zenon, <1>2

(* What most steps leave alone.                                            *)
SequencerVars ==
  <<last_time, tempo, pal_mode, frame_delay, frame, five_step, inhibit, next_irq>>

LEMMA SequencerKept ==
  ASSUME [Next]_vars, Tempos = {"normal"}, TypeOK
  PROVE  \/ UNCHANGED SequencerVars
         \/ FrameEvent \/ FramesDone \/ EndFrame
         \/ \E write \in CpuWrites : WriteFrameMode(write)
         \/ \E pal \in PalModes : Reset(pal)
<1>1. ASSUME NEW t \in Tempos, SetTempo(t) PROVE UNCHANGED SequencerVars
  BY SMT, <1>1, Tempos = {"normal"} DEF SetTempo, TypeOK, SequencerVars, timeVars, frameVars
<1>2. ASSUME NEW on \in Outputs, SetDmcOutput(on) PROVE UNCHANGED SequencerVars
  BY Zenon, <1>2 DEF SetDmcOutput, SequencerVars, timeVars, modeVars, frameVars
<1>3. CASE Calls \/ UNCHANGED vars
  BY Zenon, <1>3 DEF Calls, CallWrite, CallReadStatus, CallRunUntil, CallEndFrame,
     Call, SequencerVars, vars, timeVars, modeVars, frameVars
<1>4. CASE RunUntil_ \/ DmcRun \/ DmcBit
  BY Zenon, <1>4 DEF RunUntil_, DmcRun, DmcBit, SequencerVars, timeVars, modeVars, frameVars
<1>5. CASE ReadStatusSample \/ ReadStatusReturns \/ RunUntilReturns
  BY Zenon, <1>5 DEF ReadStatusSample, ReadStatusReturns, RunUntilReturns,
     SequencerVars, timeVars, modeVars, frameVars
<1>6. ASSUME NEW write \in CpuWrites,
             \/ WriteHalt(write) \/ WriteLength(write) \/ WriteDmcMode(write)
             \/ WriteDmcLength(write) \/ WriteEnables(write) \/ WriteOther(write)
      PROVE  UNCHANGED SequencerVars
  BY Zenon, <1>6 DEF WriteHalt, WriteLength, WriteDmcMode, WriteDmcLength,
     WriteEnables, WriteOther, WriteReturns, SequencerVars, timeVars, modeVars, frameVars
<1> QED
  BY Zenon, <1>1, <1>2, <1>3, <1>4, <1>5, <1>6 DEF Next, Settings, Running, Returns

LEMMA DelayStep ==
  ASSUME TypeOK, TypeOK', TimeInv, DelayInv, [Next]_vars, Tempos = {"normal"}
  PROVE  DelayInv'
<1>1. CASE UNCHANGED SequencerVars
  BY SMT, <1>1 DEF DelayInv, SequencerVars
<1>2. CASE FrameEvent
  BY SMT, <1>2, PeriodBound, Horizon DEF TypeOK, DelayInv, FrameEvent, DelayAfter
<1>3. CASE FramesDone
  BY SMT, <1>3, Horizon DEF TypeOK, TimeInv, DelayInv, FramesDone
<1>4. CASE EndFrame
  BY SMT, <1>4 DEF DelayInv, EndFrame
<1>5. ASSUME NEW write \in CpuWrites, WriteFrameMode(write)
      PROVE  DelayInv'
  <2>1. frame_delay % 2 \in 0 .. 1
    BY SMT DEF TypeOK
  <2> QED
    BY SMT, <1>5, <2>1, PeriodBound, Horizon DEF DelayInv, WriteFrameMode
<1>6. ASSUME NEW pal \in PalModes, Reset(pal)
      PROVE  DelayInv'
  <2>1. PICK period \in Nat : /\ period = FramePeriod[<<pal_mode', tempo'>>]
                             /\ period >= 4 /\ period <= max_period
    BY Zenon, NextPeriod
  <2>2. frame_delay' = period + 1
    BY SMT, <1>6, <2>1 DEF Reset, frame_period
  <2> QED
    BY SMT, <2>1, <2>2, Horizon DEF DelayInv
<1> QED
  BY Zenon, <1>1, <1>2, <1>3, <1>4, <1>5, <1>6, SequencerKept

LEMMA FrameInit == Init => FramePrediction
<1> SUFFICES ASSUME Init PROVE FramePrediction
  OBVIOUS
<1>1. TypeOK
  BY SMT, TypeInit
<1> QED
  BY SMT, <1>1, PeriodBound DEF Init, FramePrediction, FrameIrqEnabled, FrameIrqTime

(* An event brings the interrupt no nearer and no farther, except that     *)
(* which raises it.                                                        *)
LEMMA FrameEventPredicts ==
  ASSUME TypeOK, FramePrediction, FrameEvent
  PROVE  FramePrediction'
<1>1. UNCHANGED <<pal_mode, tempo, five_step, inhibit>>
  BY SMT DEF FrameEvent, modeVars
<1>2. PICK period \in Nat : period = FramePeriod[<<pal_mode, tempo>>] /\ period >= 4
  BY Zenon, PeriodBound DEF frame_period
<1>3. CASE ~FrameIrqEnabled
  BY SMT, <1>1, <1>3 DEF FramePrediction, FrameIrqEnabled, FrameEvent
<1>4. CASE FrameIrqEnabled
  <2>1. FrameIrqEnabled' /\ ~five_step /\ pal_mode \in BOOLEAN
    BY SMT, <1>1, <1>4 DEF FrameIrqEnabled, TypeOK
  <2>2. frame \in 0 .. 3 /\ last_time \in Int /\ frame_delay \in Int /\ next_irq \in Int
    BY SMT DEF TypeOK
  <2>3. next_irq - FrameIrqTime \in {3, 4}
    BY SMT, <1>4 DEF FramePrediction
  <2>4. FramePeriod[<<pal_mode', tempo'>>] = period
    BY SMT, <1>1, <1>2
  <2> DEFINE time == last_time + frame_delay
  <2>5. last_time' = time /\ frame_delay' = DelayAfter(frame)
        /\ frame' = (IF frame = 3 THEN 0 ELSE frame + 1)
        /\ next_irq' = IF frame = 0 THEN time + period * 4 + 2 ELSE next_irq
    BY SMT, <1>2, <1>4 DEF FrameEvent, frame_period
  <2>6. pal_mode' = pal_mode
    BY Zenon, <1>1
  <2>7. next_irq' - FrameIrqTime' \in {3, 4}
    <3>1. CASE frame = 0
      <4>1. frame' = 1 /\ last_time' + frame_delay' = time + period
            /\ next_irq' = time + period * 4 + 2
        BY SMT, <1>2, <2>1, <2>2, <2>5, <3>1 DEF DelayAfter, frame_period
      <4>2. FrameIrqTime' = time + period + (3 * period - 2)
        BY SMT, <4>1, <2>4 DEF FrameIrqTime, frame_period
      <4> QED
        BY SMT, <4>1, <4>2, <2>2
    <3>2. CASE frame = 1
      <4>1. frame' = 2 /\ next_irq' = next_irq
            /\ last_time' + frame_delay' = time + (IF pal_mode THEN period ELSE period - 2)
        BY SMT, <1>2, <2>1, <2>2, <2>5, <3>2 DEF DelayAfter, frame_period
      <4>2. FrameIrqTime' = last_time' + frame_delay' + (2 * period - (IF pal_mode THEN 2 ELSE 0))
        BY SMT, <4>1, <2>4, <2>6 DEF FrameIrqTime, frame_period
      <4>3. FrameIrqTime = time + (3 * period - 2)
        BY SMT, <1>2, <3>2 DEF FrameIrqTime, frame_period
      <4> QED
        BY SMT, <4>1, <4>2, <4>3, <2>1, <2>2, <2>3
    <3>3. CASE frame = 2
      <4>1. frame' = 3 /\ next_irq' = next_irq
            /\ last_time' + frame_delay' = time + (IF pal_mode THEN period - 2 ELSE period)
        BY SMT, <1>2, <2>1, <2>2, <2>5, <3>3 DEF DelayAfter, frame_period
      <4>2. FrameIrqTime' = last_time' + frame_delay' + period
        BY SMT, <4>1, <2>4 DEF FrameIrqTime, frame_period
      <4>3. FrameIrqTime = time + (2 * period - (IF pal_mode THEN 2 ELSE 0))
        BY SMT, <1>2, <3>3 DEF FrameIrqTime, frame_period
      <4> QED
        BY SMT, <4>1, <4>2, <4>3, <2>1, <2>2, <2>3
    <3>4. CASE frame = 3
      <4>1. frame' = 0 /\ next_irq' = next_irq /\ last_time' + frame_delay' = time + period
        BY SMT, <1>2, <2>1, <2>2, <2>5, <3>4 DEF DelayAfter, frame_period
      <4>2. FrameIrqTime' = last_time' + frame_delay'
        BY SMT, <4>1, <1>2, <2>2, <2>5 DEF FrameIrqTime, frame_period
      <4>3. FrameIrqTime = time + period
        BY SMT, <1>2, <3>4 DEF FrameIrqTime, frame_period
      <4> QED
        BY SMT, <4>1, <4>2, <4>3, <2>2, <2>3
    <3> QED
      BY SMT, <2>2, <3>1, <3>2, <3>3, <3>4
  <2> QED
    BY Zenon, <2>1, <2>7 DEF FramePrediction
<1> QED
  BY Zenon, <1>3, <1>4

LEMMA FrameModePredicts ==
  ASSUME TypeOK, TimeInv, NEW write \in CpuWrites, WriteFrameMode(write)
  PROVE  FramePrediction'
<1>1. PICK period \in Nat : period = FramePeriod[<<pal_mode, tempo>>] /\ period >= 4
  BY Zenon, PeriodBound DEF frame_period
<1>2. FramePeriod[<<pal_mode', tempo'>>] = period /\ last_time' = last_time /\ last_time \in Int
  BY SMT, <1>1 DEF TypeOK, WriteFrameMode, WriteReturns, timeVars, modeVars
<1>3. goal = last_time
  BY SMT DEF TypeOK, TimeInv, WriteFrameMode, WriteReturns, Return
<1>4. frame_delay % 2 \in 0 .. 1
  BY SMT DEF TypeOK
<1>5. FrameIrqEnabled' = ~(write.five \/ write.inhibit)
  BY Zenon DEF WriteFrameMode, FrameIrqEnabled
<1>6. CASE write.five \/ write.inhibit
  BY Zenon, <1>5, <1>6 DEF WriteFrameMode, FramePrediction
<1>7. CASE ~(write.five \/ write.inhibit)
  <2>1. /\ frame' = 1 /\ frame_delay' = (frame_delay % 2) + period
        /\ next_irq' = goal + frame_delay' + period * 3 + 1
    BY SMT, <1>1, <1>7 DEF WriteFrameMode, frame_period
  <2>2. FrameIrqTime' = last_time + frame_delay' + (3 * period - 2)
    BY SMT, <1>2, <2>1 DEF FrameIrqTime, frame_period
  <2>3. next_irq' - FrameIrqTime' \in {3, 4}
    BY SMT, <1>2, <1>3, <1>4, <2>1, <2>2
  <2> QED
    BY Zenon, <1>5, <1>7, <2>3 DEF FramePrediction
<1> QED
  BY Zenon, <1>6, <1>7

(* The end of a time frame takes as much off the prediction as off the     *)
(* clock of the event, which is below no_irq.                              *)
LEMMA EndFramePredicts ==
  ASSUME TypeOK, TimeInv, DelayInv, FramePrediction, EndFrame
  PROVE  FramePrediction'
<1>1. PICK period \in Nat : /\ period = FramePeriod[<<pal_mode, tempo>>]
                           /\ period >= 4 /\ period <= max_period
  BY Zenon, PeriodBound DEF frame_period
<1>2. FramePeriod[<<pal_mode', tempo'>>] = period /\ pal_mode' = pal_mode
  BY SMT, <1>1 DEF EndFrame, modeVars
<1>3. /\ FrameIrqEnabled' = FrameIrqEnabled
      /\ frame' = frame /\ frame_delay' = frame_delay
      /\ last_time' = last_time - goal /\ next_irq' = Rebased(next_irq)
  BY Zenon DEF EndFrame, FrameIrqEnabled
<1>4. CASE ~FrameIrqEnabled
  BY Zenon, <1>3, <1>4 DEF FramePrediction, Rebased
<1>5. CASE FrameIrqEnabled
  <2>1. next_irq - FrameIrqTime \in {3, 4}
    BY Zenon, <1>5 DEF FramePrediction
  <2>2. /\ last_time \in Int /\ frame_delay \in Int /\ next_irq \in Int /\ goal \in Int
        /\ pal_mode \in BOOLEAN
    BY SMT DEF TypeOK
  <2>3. last_time <= max_time /\ frame_delay <= 2 * max_period
    BY SMT, <2>2, Horizon DEF TypeOK, TimeInv, DelayInv
  <2> DEFINE rest == CASE frame = 0 -> 0
                       [] frame = 1 -> 3 * period - 2
                       [] frame = 2 -> 2 * period - (IF pal_mode THEN 2 ELSE 0)
                       [] OTHER     -> period
  <2>4. rest \in Int /\ rest <= 3 * max_period
    BY SMT, <1>1, <2>2, Horizon
  <2>5. FrameIrqTime = last_time + frame_delay + rest
    BY SMT, <1>1 DEF FrameIrqTime, frame_period
  <2>6. FrameIrqTime' = last_time - goal + frame_delay + rest
    BY SMT, <1>2, <1>3 DEF FrameIrqTime, frame_period
  <2> HIDE DEF rest
  <2>7. next_irq # no_irq
    <3>1. max_time + 5 * max_period + 4 < no_irq
      BY SMT DEF max_time, max_period, no_irq
    <3> QED
      BY SMT, <2>1, <2>2, <2>3, <2>4, <2>5, <3>1, Horizon
  <2>8. next_irq' = next_irq - goal
    BY Zenon, <1>3, <2>7 DEF Rebased
  <2>9. next_irq' - FrameIrqTime' \in {3, 4}
    BY SMT, <2>1, <2>2, <2>4, <2>5, <2>6, <2>8
  <2> QED
    BY Zenon, <1>3, <1>5, <2>9 DEF FramePrediction
<1> QED
  BY Zenon, <1>4, <1>5

LEMMA FrameStep ==
  ASSUME TypeOK, TypeOK', TimeInv, DelayInv, FramePrediction, [Next]_vars,
         Tempos = {"normal"}
  PROVE  FramePrediction'
<1>1. CASE UNCHANGED SequencerVars
  BY Zenon, <1>1 DEF SequencerVars, FramePrediction, FrameIrqEnabled, FrameIrqTime, frame_period
<1>2. CASE FrameEvent
  BY Zenon, <1>2, FrameEventPredicts
<1>3. CASE FramesDone
  <2>1. UNCHANGED <<pal_mode, tempo, frame, five_step, inhibit, next_irq>>
    BY Zenon, <1>3 DEF FramesDone, modeVars
  <2>2. last_time' + frame_delay' = last_time + frame_delay
    BY SMT, <1>3 DEF TypeOK, FramesDone
  <2> QED
    BY Zenon, <2>1, <2>2 DEF FramePrediction, FrameIrqEnabled, FrameIrqTime, frame_period
<1>4. CASE EndFrame
  BY Zenon, <1>4, EndFramePredicts
<1>5. ASSUME NEW write \in CpuWrites, WriteFrameMode(write)
      PROVE  FramePrediction'
  BY Zenon, <1>5, FrameModePredicts
<1>6. ASSUME NEW pal \in PalModes, Reset(pal)
      PROVE  FramePrediction'
  <2>1. PICK period \in Nat : period = FramePeriod[<<pal_mode', tempo'>>] /\ period >= 4
    BY Zenon, NextPeriod
  <2>2. /\ frame' = 1 /\ last_time' = 0 /\ five_step' = FALSE /\ inhibit' = FALSE
        /\ frame_delay' = period + 1 /\ next_irq' = 4 * period + 2
    BY SMT, <1>6, <2>1 DEF Reset, frame_period
  <2>3. FrameIrqTime' = period + 1 + (3 * period - 2)
    BY SMT, <2>1, <2>2 DEF FrameIrqTime, frame_period
  <2>4. next_irq' - FrameIrqTime' \in {3, 4}
    BY SMT, <2>2, <2>3
  <2> QED
    BY Zenon, <2>2, <2>4 DEF FramePrediction, FrameIrqEnabled
<1> QED
  BY Zenon, <1>1, <1>2, <1>3, <1>4, <1>5, <1>6, SequencerKept

(* While the tempo stays, the predicted frame interrupt is never early,    *)
(* and at most 4 clocks late, across writes to $4017 at any time, resets   *)
(* and time frames; and one is predicted exactly when one will come.       *)
THEOREM FramePredicted ==
  ASSUME StatusGap >= 1, Tempos = {"normal"}
  PROVE  Spec => []FramePrediction
<1> DEFINE Inv == TypeOK /\ TimeInv /\ DelayInv /\ FramePrediction
<1>1. Init => Inv
  BY Zenon, TypeInit, TimeInit, DelayInit, FrameInit
<1>2. Inv /\ [Next]_vars => Inv'
  BY Zenon, TypeStep, TimeStep, DelayStep, FrameStep, StatusGap >= 1, Tempos = {"normal"}
<1> QED
  BY <1>1, <1>2, PTL DEF Spec

-----------------------------------------------------------------------------
(* The DMC's clocks.                                                       *)

LEMMA DmcPeriodBound ==
  ASSUME NEW p \in BOOLEAN, NEW r \in DmcRates
  PROVE  DmcPeriod[<<p, r>>] \in Nat /\ 1 <= DmcPeriod[<<p, r>>] /\ DmcPeriod[<<p, r>>] <= 428
<1>1. DmcPeriod[<<p, r>>] \in 1 .. 428
  BY SMT, DmcAssumption DEF DmcAssumption
<1> QED
  BY SMT, <1>1

(* Rounding up a quotient passes the dividend by less than the divisor.    *)
LEMMA RoundedUp ==
  ASSUME NEW n \in Nat, NEW p \in Nat \ {0}
  PROVE  /\ ((n + p - 1) \div p) * p \in Int
         /\ n <= ((n + p - 1) \div p) * p
         /\ ((n + p - 1) \div p) * p < n + p
<1>1. PICK product : product = ((n + p - 1) \div p) * p
  BY Zenon
<1>2. n + p - 1 \in Int /\ p \in Int /\ p > 0 /\ n \in Int
  BY SMT
<1>3. product <= n + p - 1 /\ n + p - 1 < product + p /\ product \in Int
  BY SMT, <1>1
<1>4. n <= product /\ product < n + p
  BY SMT, <1>2, <1>3
<1> QED
  BY Zenon, <1>1, <1>3, <1>4

LEMMA DmcTimeInit == Init => DmcTimeInv
<1> SUFFICES ASSUME Init PROVE DmcTimeInv
  OBVIOUS
<1>1. pal_mode \in BOOLEAN /\ 0 \in DmcRates
  BY Zenon, DmcAssumption DEF Init, DmcAssumption
<1>2. DmcPeriod[<<pal_mode, 0>>] <= 428
  BY SMT, <1>1, DmcPeriodBound
<1>3. dmc_period <= 428
  BY Zenon, <1>2 DEF Init
<1>4. dmc_delay = 0 /\ dmc_length = 0 /\ dmc_reload = 1 /\ pc = "idle"
  BY Zenon DEF Init
<1>5. pc # "dmc_run" /\ pc # "dmc_bits"
  BY SMT, <1>4
<1> QED
  BY SMT, <1>3, <1>4, <1>5 DEF DmcTimeInv, max_length

(* Where skipping silence leaves the DMC.                                  *)
LEMMA Skipped ==
  ASSUME NEW start, SkipSilence(start)
  PROVE  /\ dmc_time' = start + ((goal - start + dmc_period - 1) \div dmc_period) * dmc_period
         /\ dmc_delay' = dmc_time' - goal
<1>1. dmc_time' = start + ((goal - start + dmc_period - 1) \div dmc_period) * dmc_period
  BY Zenon DEF SkipSilence
<1>2. dmc_delay' = dmc_time' - goal
  BY SMT DEF SkipSilence, DmcStops
<1> QED
  BY Zenon, <1>1, <1>2

LEMMA DmcTimeRun ==
  ASSUME TypeOK, TimeInv, DmcTimeInv, DmcRun
  PROVE  DmcTimeInv'
<1> DEFINE start == dmc_time + dmc_delay
<1>1. UNCHANGED <<dmc_period, dmc_length, dmc_reload, last_dmc_time, goal>>
  BY SMT DEF DmcRun, fetchVars, regVars, timeVars
<1>2. /\ dmc_time \in Int /\ dmc_delay \in Int /\ goal \in Int /\ dmc_period \in Nat \ {0}
      /\ 0 <= dmc_time /\ dmc_time <= goal /\ 0 <= dmc_delay /\ dmc_delay <= 428
      /\ dmc_period <= 428
  BY SMT DEF TypeOK, DmcTimeInv, DmcRun
<1>3. CASE SkipSilence(start) /\ start < goal
  <2>1. goal - start \in Nat
    BY SMT, <1>2, <1>3
  <2> DEFINE skipped == ((goal - start + dmc_period - 1) \div dmc_period) * dmc_period
  <2>2. skipped \in Int /\ goal - start <= skipped /\ skipped < goal - start + dmc_period
    BY Zenon, <1>2, <2>1, RoundedUp
  <2>3. dmc_time' = start + skipped /\ dmc_delay' = dmc_time' - goal
    BY Zenon, <1>3, Skipped
  <2>4. pc' \in {"return", "frames"}
    BY SMT, <1>3 DEF SkipSilence, DmcStops
  <2> HIDE DEF skipped
  <2> QED
    BY SMT, <1>1, <1>2, <2>2, <2>3, <2>4 DEF DmcTimeInv
<1>4. CASE dmc_time' = start /\ start < goal /\ pc' = "dmc_bits" /\ dmc_delay' = dmc_delay
  BY SMT, <1>1, <1>2, <1>4 DEF DmcTimeInv
<1>5. CASE ~(start < goal) /\ DmcStops(start)
  BY SMT, <1>1, <1>2, <1>5 DEF DmcTimeInv, DmcStops
<1> QED
  BY Zenon, <1>3, <1>4, <1>5 DEF DmcRun

LEMMA DmcTimeBit ==
  ASSUME TypeOK, DmcTimeInv, DmcBit
  PROVE  DmcTimeInv'
<1>1. UNCHANGED <<dmc_period, dmc_reload, last_dmc_time, goal>>
  BY SMT DEF DmcBit, regVars, timeVars
<1>2. dmc_length' \in {dmc_length, dmc_length - 1, dmc_reload, 0}
  BY SMT DEF TypeOK, DmcBit, FillBuffer, LengthAfter, fetchVars
<1>3. dmc_length' <= max_length
  BY SMT, <1>2, Horizon DEF TypeOK, DmcTimeInv
<1>4. /\ dmc_time' = dmc_time + dmc_period /\ pc = "dmc_bits"
      /\ \/ dmc_time' < goal /\ pc' = "dmc_bits" /\ dmc_delay' = dmc_delay
         \/ /\ ~(dmc_time' < goal) /\ dmc_delay' = dmc_time' - goal
            /\ pc' \in {"return", "frames"}
  BY SMT DEF DmcBit, DmcStops
<1> QED
  BY SMT, <1>1, <1>3, <1>4 DEF TypeOK, DmcTimeInv

LEMMA DmcTimeWrites ==
  ASSUME TypeOK, DmcTimeInv, NEW write \in CpuWrites,
         WriteDmcMode(write) \/ WriteDmcLength(write) \/ WriteEnables(write)
  PROVE  DmcTimeInv'
<1>1. dmc_delay' = dmc_delay /\ pc' = "idle"
  BY Zenon DEF WriteDmcMode, WriteDmcLength, WriteEnables, WriteReturns, Return, bitVars
<1>2. dmc_period' <= 428
  <2>1. CASE WriteDmcMode(write)
    <3>1. write.rate \in DmcRates
      BY SMT, <2>1, ClientAssumption DEF ClientAssumption, Writes, WriteDmcMode, WriteReturns
    <3> QED
      BY SMT, <2>1, <3>1, DmcPeriodBound DEF TypeOK, WriteDmcMode
  <2>2. CASE ~WriteDmcMode(write)
    BY Zenon, <2>2 DEF DmcTimeInv, WriteDmcLength, WriteEnables, regVars
  <2> QED
    BY Zenon, <2>1, <2>2
<1>3. dmc_reload' <= max_length
  <2>1. CASE WriteDmcLength(write)
    <3>1. write.count \in DmcLengths
      BY SMT, <2>1, ClientAssumption DEF ClientAssumption, Writes, WriteDmcLength, WriteReturns
    <3>2. write.count \in 1 .. max_length
      BY Zenon, <3>1, DmcAssumption DEF DmcAssumption
    <3> QED
      BY SMT, <2>1, <3>2, Horizon DEF WriteDmcLength
  <2>2. CASE ~WriteDmcLength(write)
    BY Zenon, <2>2 DEF DmcTimeInv, WriteDmcMode, WriteEnables, regVars
  <2> QED
    BY Zenon, <2>1, <2>2
<1>4. dmc_length' \in {dmc_length, 0, dmc_reload, dmc_reload - 1}
  <2>1. CASE WriteEnables(write)
    BY SMT, <2>1 DEF TypeOK, WriteEnables, DisableDmc, KeepDmc, StartDmc, LengthAfter
  <2>2. CASE ~WriteEnables(write)
    BY Zenon, <2>2 DEF WriteDmcMode, WriteDmcLength, fetchVars
  <2> QED
    BY Zenon, <2>1, <2>2
<1>5. dmc_length' <= max_length
  BY SMT, <1>4, Horizon DEF TypeOK, DmcTimeInv
<1> QED
  BY SMT, <1>1, <1>2, <1>3, <1>5 DEF DmcTimeInv

LEMMA DmcTimeStep ==
  ASSUME TypeOK, TimeInv, DmcTimeInv, [Next]_vars
  PROVE  DmcTimeInv'
<1>1. CASE UNCHANGED <<dmc_delay, dmc_period, dmc_length, dmc_reload>>
           /\ pc' \notin {"dmc_run", "dmc_bits"}
  BY SMT, <1>1 DEF DmcTimeInv
<1>2. CASE Calls
  <2>1. UNCHANGED <<dmc_delay, dmc_period, dmc_length, dmc_reload>>
    BY Zenon, <1>2 DEF Calls, CallWrite, CallReadStatus, CallRunUntil, CallEndFrame, Call,
       dmcVars, bitVars, fetchVars, regVars
  <2>2. \/ pc' \in {"run_until_", "return"}
        \/ pc' = "dmc_run" /\ dmc_time' = last_dmc_time /\ goal' >= last_dmc_time
    BY SMT, <1>2 DEF Calls, CallWrite, CallReadStatus, CallRunUntil, CallEndFrame, Call
  <2> QED
    BY SMT, <2>1, <2>2 DEF TypeOK, TimeInv, DmcTimeInv
<1>3. CASE RunUntil_
  <2>1. UNCHANGED <<dmc_delay, dmc_period, dmc_length, dmc_reload, goal>>
    BY Zenon, <1>3 DEF RunUntil_, dmcVars, bitVars, fetchVars, regVars
  <2>2. \/ pc' \in {"frames", "return"}
        \/ pc' = "dmc_run" /\ dmc_time' = last_dmc_time /\ last_dmc_time < goal
    BY SMT, <1>3 DEF RunUntil_
  <2> QED
    BY SMT, <2>1, <2>2 DEF TypeOK, TimeInv, DmcTimeInv
<1>4. CASE DmcRun
  BY Zenon, <1>4, DmcTimeRun
<1>5. CASE DmcBit
  BY Zenon, <1>5, DmcTimeBit
<1>6. CASE FrameEvent \/ FramesDone
  BY SMT, <1>6 DEF FrameEvent, FramesDone, dmcVars, bitVars, fetchVars, regVars, callVars,
     DmcTimeInv
<1>7. ASSUME NEW write \in CpuWrites,
             WriteDmcMode(write) \/ WriteDmcLength(write) \/ WriteEnables(write)
      PROVE  DmcTimeInv'
  BY Zenon, <1>7, DmcTimeWrites
<1>8. ASSUME NEW write \in CpuWrites,
             \/ WriteHalt(write) \/ WriteLength(write)
             \/ WriteFrameMode(write) \/ WriteOther(write)
      PROVE  DmcTimeInv'
  <2>1. UNCHANGED <<dmc_delay, dmc_period, dmc_length, dmc_reload>> /\ pc' = "idle"
    BY Zenon, <1>8 DEF WriteHalt, WriteLength, WriteFrameMode, WriteOther, WriteReturns,
       Return, bitVars, fetchVars, regVars
  <2> QED
    BY SMT, <1>1, <2>1
<1>9. CASE ReadStatusSample \/ ReadStatusReturns \/ RunUntilReturns \/ EndFrame
  <2>1. UNCHANGED <<dmc_delay, dmc_period, dmc_length, dmc_reload>>
        /\ pc' \in {"idle", "run_until_"}
    BY SMT, <1>9 DEF ReadStatusSample, ReadStatusReturns, RunUntilReturns, EndFrame,
       Return, dmcVars, bitVars, fetchVars, regVars
  <2> QED
    BY SMT, <1>1, <2>1
<1>10. ASSUME NEW pal \in PalModes, Reset(pal)
       PROVE  DmcTimeInv'
  <2>1. pal \in BOOLEAN /\ 0 \in DmcRates
    BY SMT, ClientAssumption, DmcAssumption DEF ClientAssumption, DmcAssumption
  <2>2. DmcPeriod[<<pal, 0>>] <= 428
    BY SMT, <2>1, DmcPeriodBound
  <2> QED
    BY SMT, <1>10, <2>2 DEF Reset, callVars, DmcTimeInv, max_length
<1>11. CASE Settings \/ UNCHANGED vars
  BY Zenon, <1>11 DEF Settings, SetTempo, SetDmcOutput, vars, dmcVars, bitVars, fetchVars,
     regVars, callVars, timeVars, DmcTimeInv
<1> QED
  BY Zenon, <1>2, <1>3, <1>4, <1>5, <1>6, <1>7, <1>8, <1>9, <1>10, <1>11
     DEF Next, Running, Returns

-----------------------------------------------------------------------------
(* The DMC's prediction.                                                   *)

DmcIrqVars == <<dmc_next_irq, dmc_irq_enabled, dmc_length, bits_remain, dmc_period>>

(* A step that moves neither the clock of the next bit nor what it counts. *)
LEMMA DmcClockKept ==
  ASSUME DmcPrediction, UNCHANGED DmcIrqVars, DmcClock' = DmcClock
  PROVE  DmcPrediction'
BY Zenon DEF DmcPrediction, DmcIrqVars, BitsToIrq

(* So many bits earlier, so many periods later.                            *)
LEMMA OnePeriodLess ==
  ASSUME NEW n \in Int, NEW p \in Int
  PROVE  (n - 1) * p + p = n * p
BY SMT

(* The longest sample at the lowest rate.                                  *)
max_bits == 32647 * 428

LEMMA BitsBound ==
  ASSUME TypeOK, DmcTimeInv, dmc_length # 0
  PROVE  /\ BitsToIrq \in Nat /\ BitsToIrq * dmc_period \in Nat
         /\ BitsToIrq * dmc_period <= max_bits
<1>1. PICK bits : bits = BitsToIrq
  BY Zenon
<1>2. bits \in Nat /\ bits <= 32647 /\ dmc_period \in Nat /\ dmc_period <= 428
  BY SMT, <1>1 DEF TypeOK, DmcTimeInv, BitsToIrq, max_length
<1>3. bits * dmc_period \in Nat /\ bits * dmc_period <= max_bits
  BY SMT, <1>2 DEF max_bits
<1>4. bits \in Nat
  BY SMT, <1>2
<1> QED
  BY Zenon, <1>1, <1>3, <1>4

LEMMA DmcRunPredicts ==
  ASSUME TypeOK, TimeInv, DmcReady, DmcPrediction, DmcRun
  PROVE  DmcPrediction'
<1> DEFINE start == dmc_time + dmc_delay
<1>1. UNCHANGED <<dmc_next_irq, dmc_irq_enabled, dmc_length, dmc_period, last_dmc_time, goal>>
  BY Zenon DEF DmcRun, fetchVars, regVars, timeVars
<1>2. DmcClock = start /\ goal = last_dmc_time /\ start \in Int /\ goal \in Int
  BY SMT DEF TypeOK, TimeInv, DmcRun, DmcClock
<1>3. CASE SkipSilence(start) /\ ~buf_full
  <2>1. dmc_length = 0
    BY Zenon, <1>3 DEF DmcReady
  <2> QED
    BY Zenon, <1>1, <2>1 DEF DmcPrediction
<1>4. CASE dmc_time' = start /\ bits_remain' = bits_remain /\ pc' = "dmc_bits"
  <2>1. DmcClock' = start
    BY SMT, <1>4 DEF DmcClock
  <2> QED
    BY Zenon, <1>1, <1>2, <1>4, <2>1, DmcClockKept DEF DmcIrqVars
<1>5. CASE bits_remain' = bits_remain /\ DmcStops(start)
  <2>1. DmcClock' = last_dmc_time' + dmc_delay'
    BY SMT, <1>5 DEF DmcClock, DmcStops
  <2>2. DmcClock' = start
    BY SMT, <1>1, <1>2, <1>5, <2>1 DEF DmcStops
  <2> QED
    BY Zenon, <1>1, <1>2, <1>5, <2>2, DmcClockKept DEF DmcIrqVars
<1> QED
  BY Zenon, <1>3, <1>4, <1>5 DEF DmcRun

(* What a bit of the loop does to the length and to the prediction.        *)
LEMMA BitFetches ==
  ASSUME TypeOK, DmcReady, DmcBit
  PROVE  \/ dmc_length = 0 /\ dmc_length' = 0 /\ dmc_next_irq' = dmc_next_irq
         \/ dmc_length' = 0 /\ dmc_next_irq' = no_irq
         \/ dmc_length # 0 /\ ~dmc_irq_enabled /\ dmc_next_irq' = dmc_next_irq
         \/ /\ dmc_length # 0 /\ dmc_length' # 0
            /\ dmc_next_irq' = dmc_next_irq
            /\ (dmc_length' - 1) * 8 + bits_remain' = (dmc_length - 1) * 8 + bits_remain - 1
<1>1. bits_remain' = IF bits_remain = 1 THEN 8 ELSE bits_remain - 1
  BY Zenon DEF DmcBit
<1>2. CASE bits_remain = 1 /\ buf_full
  <2>1. FillBuffer
    BY Zenon, <1>2 DEF DmcBit
  <2>2. bits_remain' = 8
    BY Zenon, <1>1, <1>2
  <2>3. CASE SampleEnds(dmc_length)
    BY SMT, <2>1, <2>3 DEF TypeOK, FillBuffer, SampleEnds, LengthAfter
  <2>4. CASE ~SampleEnds(dmc_length)
    <3>1. dmc_next_irq' = dmc_next_irq
          /\ dmc_length' = IF dmc_length = 0 THEN 0 ELSE LengthAfter(dmc_length)
      BY Zenon, <2>1, <2>4 DEF FillBuffer
    <3>2. CASE dmc_length = 1
      BY SMT, <2>4, <3>1, <3>2 DEF TypeOK, DmcReady, SampleEnds
    <3>3. CASE dmc_length # 1
      BY SMT, <1>2, <2>2, <3>1, <3>3 DEF TypeOK, LengthAfter
    <3> QED
      BY Zenon, <3>2, <3>3
  <2> QED
    BY Zenon, <2>3, <2>4
<1>3. CASE ~(bits_remain = 1 /\ buf_full)
  <2>1. dmc_length' = dmc_length /\ dmc_next_irq' = dmc_next_irq
    BY Zenon, <1>3 DEF DmcBit, fetchVars
  <2>2. CASE bits_remain = 1
    BY SMT, <1>3, <2>1, <2>2 DEF DmcReady
  <2>3. CASE bits_remain # 1
    BY SMT, <1>1, <2>1, <2>3 DEF TypeOK
  <2> QED
    BY Zenon, <2>2, <2>3
<1> QED
  BY Zenon, <1>2, <1>3

LEMMA DmcBitPredicts ==
  ASSUME TypeOK, TypeOK', TimeInv, DmcReady, DmcPrediction, DmcBit
  PROVE  DmcPrediction'
<1>1. UNCHANGED <<dmc_irq_enabled, dmc_period, last_dmc_time, goal>>
  BY Zenon DEF DmcBit, regVars, timeVars
<1>2. /\ dmc_time' = dmc_time + dmc_period /\ DmcClock = dmc_time
      /\ dmc_time \in Int /\ dmc_period \in Int /\ goal = last_dmc_time /\ goal \in Int
  BY SMT DEF TypeOK, TimeInv, DmcBit, DmcClock
<1>3. DmcClock' = DmcClock + dmc_period
  <2>1. CASE pc' = "dmc_bits"
    BY SMT, <1>2, <2>1 DEF DmcClock
  <2>2. CASE DmcStops(dmc_time + dmc_period)
    <3>1. DmcClock' = last_dmc_time' + dmc_delay'
      BY SMT, <2>2 DEF DmcClock, DmcStops
    <3> QED
      BY SMT, <1>1, <1>2, <2>2, <3>1 DEF DmcStops
  <2> QED
    BY Zenon, <2>1, <2>2 DEF DmcBit
<1>4. CASE dmc_length # 0 /\ dmc_length' # 0 /\ dmc_next_irq' = dmc_next_irq
           /\ (dmc_length' - 1) * 8 + bits_remain' = (dmc_length - 1) * 8 + bits_remain - 1
  <2>1. BitsToIrq \in Int /\ BitsToIrq' = BitsToIrq - 1
    <3>1. /\ dmc_length \in Int /\ dmc_length' \in Int
          /\ bits_remain \in Int /\ bits_remain' \in Int
      BY SMT DEF TypeOK
    <3>2. PICK length, bits, after, left :
                /\ length = dmc_length /\ bits = bits_remain
                /\ after = dmc_length' /\ left = bits_remain'
      BY Zenon
    <3>3. length \in Int /\ bits \in Int /\ after \in Int /\ left \in Int
      BY Zenon, <3>1, <3>2
    <3>4. (after - 1) * 8 + left = (length - 1) * 8 + bits - 1
      BY Zenon, <1>4, <3>2
    <3>5. (length - 1) * 8 + bits - 1 \in Int
          /\ (after - 1) * 8 + left - 1 = ((length - 1) * 8 + bits - 1) - 1
      BY SMT, <3>3, <3>4
    <3> QED
      BY Zenon, <3>2, <3>5 DEF BitsToIrq
  <2>2. BitsToIrq' * dmc_period + dmc_period = BitsToIrq * dmc_period
    BY Zenon, <1>2, <2>1, OnePeriodLess
  <2>3. PICK before, after : /\ before = BitsToIrq * dmc_period
                             /\ after = BitsToIrq' * dmc_period
                             /\ before \in Int /\ after \in Int
    BY SMT, <1>2, <2>1
  <2>4. after + dmc_period = before
    BY Zenon, <2>2, <2>3
  <2>5. DmcClock' + after + 1 = DmcClock + before + 1
    BY SMT, <1>2, <1>3, <2>3, <2>4
  <2> QED
    BY Zenon, <1>1, <1>4, <2>3, <2>5 DEF DmcPrediction
<1>5. CASE dmc_length' = 0 /\ ((dmc_length = 0 /\ dmc_next_irq' = dmc_next_irq)
                                 \/ dmc_next_irq' = no_irq)
  BY Zenon, <1>5 DEF DmcPrediction
<1>6. CASE ~dmc_irq_enabled /\ dmc_next_irq' = dmc_next_irq
  BY Zenon, <1>1, <1>6 DEF DmcPrediction
<1> QED
  BY Zenon, <1>4, <1>5, <1>6, BitFetches

LEMMA EndFramePredictsDmc ==
  ASSUME TypeOK, TimeInv, DmcTimeInv, DmcPrediction, EndFrame
  PROVE  DmcPrediction'
<1>1. /\ UNCHANGED <<dmc_irq_enabled, dmc_length, bits_remain, dmc_period, dmc_delay>>
      /\ last_dmc_time' = last_dmc_time - goal /\ dmc_next_irq' = Rebased(dmc_next_irq)
  BY Zenon DEF EndFrame, bitVars, regVars
<1>2. CASE dmc_irq_enabled /\ dmc_length # 0
  <2>1. DmcClock = last_dmc_time + dmc_delay /\ DmcClock' = last_dmc_time' + dmc_delay'
    BY SMT DEF EndFrame, Return, DmcClock
  <2>2. PICK bits \in Nat : bits = BitsToIrq * dmc_period /\ bits <= max_bits
    BY Zenon, <1>2, BitsBound
  <2>3. dmc_next_irq = last_dmc_time + dmc_delay + bits + 1
    BY Zenon, <1>2, <2>1, <2>2 DEF DmcPrediction
  <2>4. dmc_next_irq # no_irq
    BY SMT, <2>2, <2>3 DEF TypeOK, TimeInv, DmcTimeInv, max_time, max_bits, no_irq
  <2>5. dmc_next_irq' = dmc_next_irq - goal
    BY Zenon, <1>1, <2>4 DEF Rebased
  <2>6. dmc_next_irq' = last_dmc_time' + dmc_delay' + bits + 1
    BY SMT, <1>1, <2>2, <2>3, <2>5 DEF TypeOK
  <2>7. BitsToIrq' * dmc_period' = bits
    BY Zenon, <1>1, <2>2 DEF BitsToIrq
  <2> QED
    BY Zenon, <1>1, <1>2, <2>1, <2>6, <2>7 DEF DmcPrediction
<1>3. CASE ~(dmc_irq_enabled /\ dmc_length # 0)
  BY Zenon, <1>1, <1>3 DEF DmcPrediction, Rebased
<1> QED
  BY Zenon, <1>2, <1>3

(* The steps that leave the DMC's prediction alone.                        *)
LEMMA DmcKept ==
  ASSUME TypeOK, TimeInv,
         \/ Calls \/ Settings \/ RunUntil_ \/ FrameEvent \/ FramesDone
         \/ ReadStatusSample \/ ReadStatusReturns \/ RunUntilReturns
         \/ \E write \in CpuWrites :
              \/ WriteHalt(write) \/ WriteLength(write) \/ WriteDmcLength(write)
              \/ WriteFrameMode(write) \/ WriteOther(write)
         \/ UNCHANGED vars
  PROVE  UNCHANGED DmcIrqVars /\ DmcClock' = DmcClock
<1>1. CASE Calls
  <2>1. UNCHANGED DmcIrqVars /\ dmc_delay' = dmc_delay
    BY Zenon, <1>1 DEF Calls, CallWrite, CallReadStatus, CallRunUntil, CallEndFrame, Call,
       DmcIrqVars, dmcVars, bitVars, fetchVars, regVars
  <2>2. /\ pc = "idle"
        /\ \/ pc' \in {"run_until_", "return"} /\ last_dmc_time' = last_dmc_time
           \/ pc' = "dmc_run" /\ dmc_time' = last_dmc_time
    BY SMT, <1>1 DEF Calls, CallWrite, CallReadStatus, CallRunUntil, CallEndFrame, Call
  <2> QED
    BY SMT, <2>1, <2>2 DEF DmcClock
<1>2. CASE RunUntil_
  <2>1. UNCHANGED DmcIrqVars /\ dmc_delay' = dmc_delay
    BY Zenon, <1>2 DEF RunUntil_, DmcIrqVars, dmcVars, bitVars, fetchVars, regVars
  <2>2. /\ pc = "run_until_"
        /\ \/ pc' \in {"frames", "return"} /\ last_dmc_time' = last_dmc_time
           \/ pc' = "dmc_run" /\ dmc_time' = last_dmc_time
    BY SMT, <1>2 DEF RunUntil_
  <2> QED
    BY SMT, <2>1, <2>2 DEF DmcClock
<1>3. CASE FrameEvent \/ FramesDone
  <2>1. UNCHANGED DmcIrqVars /\ UNCHANGED <<dmc_delay, last_dmc_time>>
    BY Zenon, <1>3 DEF FrameEvent, FramesDone, DmcIrqVars, dmcVars, bitVars, fetchVars, regVars
  <2>2. pc = "frames" /\ pc' \in {"frames", "return"}
    BY SMT, <1>3 DEF FrameEvent, FramesDone, callVars
  <2> QED
    BY SMT, <2>1, <2>2 DEF DmcClock
<1>4. ASSUME \/ ReadStatusSample \/ ReadStatusReturns \/ RunUntilReturns
             \/ \E write \in CpuWrites :
                  \/ WriteHalt(write) \/ WriteLength(write) \/ WriteDmcLength(write)
                  \/ WriteFrameMode(write) \/ WriteOther(write)
      PROVE  UNCHANGED DmcIrqVars /\ DmcClock' = DmcClock
  <2>1. UNCHANGED DmcIrqVars /\ UNCHANGED <<dmc_delay, last_dmc_time>>
    BY Zenon, <1>4 DEF ReadStatusSample, ReadStatusReturns, RunUntilReturns, WriteHalt,
       WriteLength, WriteDmcLength, WriteFrameMode, WriteOther, WriteReturns,
       DmcIrqVars, dmcVars, bitVars, fetchVars, regVars, timeVars
  <2>2. pc = "return" /\ pc' \in {"idle", "run_until_"}
    BY SMT, <1>4 DEF ReadStatusSample, ReadStatusReturns, RunUntilReturns, WriteHalt,
       WriteLength, WriteDmcLength, WriteFrameMode, WriteOther, WriteReturns, Return
  <2> QED
    BY SMT, <2>1, <2>2 DEF DmcClock
<1>5. CASE Settings \/ UNCHANGED vars
  <2>1. UNCHANGED DmcIrqVars /\ UNCHANGED <<dmc_delay, last_dmc_time, pc, dmc_time>>
    BY Zenon, <1>5 DEF Settings, SetTempo, SetDmcOutput, vars, callVars, dmcVars, bitVars,
       fetchVars, regVars, timeVars, DmcIrqVars
  <2> QED
    BY Zenon, <2>1 DEF DmcClock
<1> QED
  BY Zenon, <1>1, <1>2, <1>3, <1>4, <1>5

LEMMA DmcWritesPredict ==
  ASSUME TypeOK, DmcPrediction, NEW write \in CpuWrites,
         WriteDmcMode(write) \/ WriteEnables(write)
  PROVE  DmcPrediction'
<1>1. pc = "return" /\ pc' = "idle" /\ UNCHANGED <<dmc_delay, last_dmc_time, bits_remain>>
  BY Zenon DEF WriteDmcMode, WriteEnables, WriteReturns, Return, bitVars, timeVars
<1>2. DmcClock = last_dmc_time + dmc_delay /\ DmcClock' = last_dmc_time' + dmc_delay'
  BY SMT, <1>1 DEF DmcClock
<1>3. CASE dmc_next_irq' = DmcIrqTime'
  BY Zenon, <1>2, <1>3 DEF DmcPrediction, DmcIrqTime, BitsToIrq
<1>4. CASE dmc_length' = 0 /\ dmc_next_irq' = no_irq
  BY Zenon, <1>4 DEF DmcPrediction
<1>5. CASE UNCHANGED DmcIrqVars
  BY Zenon, <1>1, <1>2, <1>5, DmcClockKept
<1> QED
  BY Zenon, <1>1, <1>3, <1>4, <1>5 DEF WriteDmcMode, WriteEnables, DisableDmc, KeepDmc, StartDmc,
     regVars, DmcIrqVars

LEMMA DmcPredictionInit == Init => DmcPrediction
BY Zenon DEF Init, DmcPrediction

LEMMA DmcPredictionStep ==
  ASSUME TypeOK, TypeOK', TimeInv, DmcTimeInv, DmcReady, DmcPrediction, [Next]_vars
  PROVE  DmcPrediction'
<1>1. CASE DmcRun
  BY Zenon, <1>1, DmcRunPredicts
<1>2. CASE DmcBit
  BY Zenon, <1>2, DmcBitPredicts
<1>3. CASE EndFrame
  BY Zenon, <1>3, EndFramePredictsDmc
<1>4. ASSUME NEW write \in CpuWrites, WriteDmcMode(write) \/ WriteEnables(write)
      PROVE  DmcPrediction'
  BY Zenon, <1>4, DmcWritesPredict
<1>5. ASSUME NEW pal \in PalModes, Reset(pal)
      PROVE  DmcPrediction'
  BY Zenon, <1>5 DEF Reset, DmcPrediction
<1>6. ASSUME UNCHANGED DmcIrqVars, DmcClock' = DmcClock
      PROVE  DmcPrediction'
  BY Zenon, <1>6, DmcClockKept
<1> QED
  BY Zenon, <1>1, <1>2, <1>3, <1>4, <1>5, <1>6, DmcKept DEF Next, Running, Returns

(* The DMC's prediction is the clock at which the bit loop will fetch the  *)
(* last byte, at every point of a call.                                    *)
LEMMA DmcPredicted ==
  ASSUME StatusGap >= 1
  PROVE  Spec => [](DmcTimeInv /\ DmcPrediction)
<1> DEFINE Inv == TypeOK /\ TimeInv /\ DmcTimeInv /\ DmcReady /\ DmcPrediction
<1>1. Init => Inv
  BY Zenon, TypeInit, TimeInit, DmcTimeInit, ReadyInit, DmcPredictionInit
<1>2. Inv /\ TypeOK' /\ DmcReady' /\ [Next]_vars => Inv'
  BY Zenon, TimeStep, DmcTimeStep, DmcPredictionStep, StatusGap >= 1
<1> QED
  BY <1>1, <1>2, TypeCorrect, DmcNeverStarves, PTL DEF Spec

(* While Nes_Dmc::run is at work nothing else is.                          *)
LEMMA RunningSteps ==
  ASSUME Next, pc = "dmc_run" \/ pc = "dmc_bits"
  PROVE  DmcRun \/ DmcBit
<1>0. pc # "idle" /\ pc # "return"
  BY SMT
<1>1. CASE Calls \/ Settings \/ EndFrame \/ \E pal \in PalModes : Reset(pal)
  <2>1. CASE Calls
    BY Zenon, <1>0, <2>1 DEF Calls, CallWrite, CallReadStatus, CallRunUntil, CallEndFrame, Call
  <2>2. CASE Settings
    BY Zenon, <1>0, <2>2 DEF Settings, SetTempo, SetDmcOutput
  <2>3. CASE EndFrame
    BY Zenon, <1>0, <2>3 DEF EndFrame, Return
  <2>4. CASE \E pal \in PalModes : Reset(pal)
    BY Zenon, <1>0, <2>4 DEF Reset
  <2> QED
    BY Zenon, <1>1, <2>1, <2>2, <2>3, <2>4
<1>2. CASE RunUntil_ \/ FrameEvent \/ FramesDone
  <2>1. pc = "run_until_" \/ pc = "frames"
    BY Zenon, <1>2 DEF RunUntil_, FrameEvent, FramesDone
  <2> QED
    BY SMT, <2>1
<1>3. CASE Returns
  <2>1. pc = "return"
    BY Zenon, <1>3 DEF Returns, ReadStatusSample, ReadStatusReturns, RunUntilReturns, WriteHalt,
       WriteLength, WriteDmcMode, WriteDmcLength, WriteEnables, WriteFrameMode, WriteOther,
       WriteReturns, Return
  <2> QED
    BY SMT, <2>1
<1> QED
  BY Zenon, <1>1, <1>2, <1>3 DEF Next, Running

LEMMA OnTimeStep ==
  ASSUME TypeOK, DmcReady, DmcPrediction, Next,
         pc = "dmc_bits", ~dmc_irq_flag, dmc_irq_flag'
  PROVE  dmc_next_irq = dmc_time + 1
<1>1. DmcBit
  <2>1. ~DmcRun
    BY SMT DEF DmcRun
  <2> QED
    BY Zenon, <2>1, RunningSteps
<1>2. bits_remain = 1 /\ FillBuffer
  BY Zenon, <1>1 DEF DmcBit, fetchVars
<1>3. dmc_length = 1 /\ dmc_irq_enabled
  BY Zenon, <1>2 DEF FillBuffer, SampleEnds
<1>4. BitsToIrq = 0
  BY SMT, <1>2, <1>3 DEF BitsToIrq
<1>5. DmcClock = dmc_time
  BY SMT DEF DmcClock
<1>6. dmc_next_irq = DmcClock + BitsToIrq * dmc_period + 1
  BY SMT, <1>3 DEF DmcPrediction
<1> QED
  BY SMT, <1>4, <1>5, <1>6 DEF TypeOK

(* However the chip is run, and whatever is written on the way: the flag   *)
(* is raised by the fetch at exactly the clock it was predicted for.       *)
THEOREM DmcInterruptsOnTime ==
  ASSUME StatusGap >= 1
  PROVE  Spec => DmcIrqOnTime
<1>1. TypeOK /\ DmcReady /\ DmcPrediction /\ [Next]_vars
        => [pc = "dmc_bits" /\ ~dmc_irq_flag /\ dmc_irq_flag' => dmc_next_irq = dmc_time + 1]_vars
  BY Zenon, OnTimeStep
<1> QED
  BY <1>1, TypeCorrect, DmcNeverStarves, DmcPredicted, PTL DEF Spec, DmcIrqOnTime

-----------------------------------------------------------------------------
(* Skipping silence.                                                       *)

LEMMA WholePeriods ==
  ASSUME NEW n \in Int, NEW p \in Nat \ {0}
  PROVE  n * p \in Int /\ (n * p) \div p = n
BY SMT

(* Counting bits down from where they stand, 8 to a byte.                  *)
LEMMA BitsCountDown ==
  ASSUME NEW bits \in 1 .. 8, NEW count \in Int
  PROVE  (((bits - 1 + 8 - (count % 8)) % 8) + 1 + count - bits) % 8 = 0
BY SMT

LEMMA SkipInStep ==
  ASSUME TypeOK, NEW start \in Int, start < goal, SkipSilence(start)
  PROVE  LET bits == (dmc_time' - start) \div dmc_period
         IN  /\ dmc_time' = start + bits * dmc_period
             /\ dmc_time' >= goal /\ dmc_time' - dmc_period < goal
             /\ (bits_remain' + bits - bits_remain) % 8 = 0
<1>1. goal \in Int /\ dmc_period \in Nat \ {0} /\ bits_remain \in 1 .. 8 /\ goal - start \in Nat
  BY SMT DEF TypeOK
<1>2. PICK count : count = (goal - start + dmc_period - 1) \div dmc_period
  BY Zenon
<1>3. count \in Int
  BY SMT, <1>1, <1>2
<1>4. PICK skipped : skipped = count * dmc_period
  BY Zenon
<1>5. skipped \in Int /\ goal - start <= skipped /\ skipped < goal - start + dmc_period
  BY Zenon, <1>1, <1>2, <1>4, RoundedUp
<1>6. dmc_time' = start + skipped
  BY Zenon, <1>2, <1>4, Skipped
<1>7. dmc_time' - start = skipped
  BY SMT, <1>5, <1>6
<1>8. (dmc_time' - start) \div dmc_period = count
  BY Zenon, <1>1, <1>3, <1>4, <1>7, WholePeriods
<1>9. dmc_time' >= goal /\ dmc_time' - dmc_period < goal
  BY SMT, <1>1, <1>5, <1>6
<1>10. bits_remain' = ((bits_remain - 1 + 8 - (count % 8)) % 8) + 1
  BY Zenon, <1>2 DEF SkipSilence
<1>11. (bits_remain' + count - bits_remain) % 8 = 0
  BY Zenon, <1>1, <1>3, <1>10, BitsCountDown
<1> QED
  BY Zenon, <1>4, <1>6, <1>8, <1>9, <1>11

(* A silent DMC that skips over its bits at once comes out at the same     *)
(* clock, and as far into its byte, as one that plays them one by one.     *)
THEOREM SilenceKeepsTime == Spec => SilenceInStep
<1> DEFINE bits == (dmc_time' - (dmc_time + dmc_delay)) \div dmc_period
           skips == pc = "dmc_run" /\ pc' # "dmc_bits" /\ dmc_time + dmc_delay < goal
           inStep == /\ dmc_time' = dmc_time + dmc_delay + bits * dmc_period
                     /\ dmc_time' >= goal /\ dmc_time' - dmc_period < goal
                     /\ (bits_remain' + bits - bits_remain) % 8 = 0
<1>1. ASSUME TypeOK, Next, skips PROVE inStep
  <2>1. DmcRun
    <3>1. ~DmcBit
      BY SMT, <1>1 DEF DmcBit
    <3> QED
      BY Zenon, <1>1, <3>1, RunningSteps
  <2>2. SkipSilence(dmc_time + dmc_delay)
    BY Zenon, <1>1, <2>1 DEF DmcRun
  <2>3. dmc_time + dmc_delay \in Int
    BY SMT, <1>1 DEF TypeOK
  <2> QED
    BY Zenon, <1>1, <2>2, <2>3, SkipInStep
<1>2. TypeOK /\ [Next]_vars => [skips => inStep]_vars
  BY Zenon, <1>1
<1> QED
  BY <1>2, TypeCorrect, PTL DEF Spec, SilenceInStep

-----------------------------------------------------------------------------
(* Counting the bytes that a run will fetch.                               *)

(* CountReads, with what it reads of the DMC as arguments.                 *)
Reads(length, loop, period, first, end) ==
  LET count == (end - first - 1) \div (period * 8) + 1
  IN  IF length = 0 \/ end <= first THEN 0
      ELSE IF ~loop /\ count > length THEN length
      ELSE count

LEMMA ReadsTyped ==
  ASSUME NEW period \in Nat \ {0}, NEW first \in Int, NEW end \in Int, NEW length \in Nat, NEW loop
  PROVE  Reads(length, loop, period, first, end) \in Int
<1>1. end - first - 1 \in Int /\ period * 8 \in Nat \ {0} /\ 0 \in Int /\ length \in Int
  BY SMT
<1>2. PICK d \in Int : d = (end - first - 1) \div (period * 8)
  BY Zenon, <1>1, Division
<1>3. d + 1 \in Int
  BY SMT, <1>2
<1> QED
  BY Zenon, <1>1, <1>2, <1>3 DEF Reads

LEMMA FetchCounted ==
  ASSUME NEW period \in Nat \ {0}, NEW first \in Int, NEW end \in Int, first < end,
         NEW length \in Nat \ {0}, NEW loop \in BOOLEAN, NEW after \in Nat,
         loop => after # 0, ~loop => after = length - 1
  PROVE  Reads(length, loop, period, first, end)
           = Reads(after, loop, period, first + period * 8, end) + 1
<1>0. PICK x \in Nat : x = end - first - 1
  BY SMT
<1>1. PICK unit \in Nat \ {0} : unit = period * 8
  BY SMT
<1>2. x \in Int /\ end - (first + unit) - 1 = x - unit /\ x - unit \in Int
  BY SMT, <1>0, <1>1
<1>3. PICK d \in Int : d = x \div unit /\ d * unit <= x /\ x < d * unit + unit
  BY Zenon, <1>1, <1>2, Division
<1>4. PICK e \in Int : e = (x - unit) \div unit
  BY Zenon, <1>1, <1>2, Division
<1>5. e = d - 1
  <2>1. d - 1 \in Int /\ (d - 1) * unit = d * unit - unit /\ d * unit \in Int
    BY SMT, <1>1, <1>3
  <2>2. (d - 1) * unit <= x - unit /\ x - unit < (d - 1) * unit + unit
    BY SMT, <1>1, <1>2, <1>3, <2>1
  <2> QED
    BY Zenon, <1>1, <1>2, <1>4, <2>1, <2>2, Quotient
<1>6. Reads(length, loop, period, first, end) = IF ~loop /\ d + 1 > length THEN length ELSE d + 1
  <2>1. ~(end <= first) /\ length # 0
    BY SMT
  <2> QED
    BY Zenon, <1>0, <1>1, <1>3, <2>1 DEF Reads
<1>7. Reads(after, loop, period, first + unit, end) =
        IF after = 0 \/ end <= first + unit THEN 0
        ELSE IF ~loop /\ e + 1 > after THEN after ELSE e + 1
  BY Zenon, <1>1, <1>2, <1>4 DEF Reads
<1>8. CASE x < unit
  <2>1. end <= first + unit
    BY SMT, <1>0, <1>1, <1>8
  <2>2. d = 0
    <3>1. 0 \in Int /\ 0 * unit <= x /\ x < 0 * unit + unit
      BY SMT, <1>0, <1>1, <1>2, <1>8
    <3> QED
      BY Zenon, <1>1, <1>2, <1>3, <3>1, Quotient
  <2>3. Reads(length, loop, period, first, end) = 1
    BY SMT, <1>6, <2>2
  <2>4. Reads(after, loop, period, first + unit, end) = 0
    BY Zenon, <1>7, <2>1
  <2> QED
    BY SMT, <1>1, <2>3, <2>4
<1>9. CASE ~(x < unit)
  <2>1. ~(end <= first + unit)
    BY SMT, <1>0, <1>1, <1>9
  <2>2. d >= 1
    <3>1. CASE d <= 0
      <4>1. d * unit <= 0
        BY SMT, <1>1, <1>3, <3>1
      <4> QED
        BY SMT, <1>1, <1>2, <1>3, <1>9, <4>1
    <3> QED
      BY SMT, <1>3, <3>1
  <2>3. Reads(after, loop, period, first + unit, end) =
          IF after = 0 THEN 0 ELSE IF ~loop /\ d > after THEN after ELSE d
    <3>1. e + 1 = d
      BY SMT, <1>3, <1>5
    <3> QED
      BY Zenon, <1>7, <2>1, <3>1
  <2>4. CASE loop
    BY Zenon, <1>1, <1>6, <2>3, <2>4
  <2>5. CASE ~loop
    <3>1. after = length - 1
      BY Zenon, <2>5
    <3>2. Reads(length, loop, period, first, end) = IF d + 1 > length THEN length ELSE d + 1
      BY Zenon, <1>6, <2>5
    <3>3. Reads(after, loop, period, first + unit, end) =
            IF after = 0 THEN 0 ELSE IF d > after THEN after ELSE d
      BY Zenon, <2>3, <2>5
    <3> QED
      BY SMT, <1>1, <1>3, <2>2, <3>1, <3>2, <3>3
  <2> QED
    BY Zenon, <2>4, <2>5
<1> QED
  BY Zenon, <1>8, <1>9

(* Where the fetch that count_reads counts from is due in the loop.        *)
NextRead == DmcClock + (bits_remain - 1) * dmc_period

RunLeft == Reads(dmc_length, dmc_loop, dmc_period, NextRead, goal)

LEMMA LeftIs ==
  ReadsLeft = IF pc = "dmc_run" \/ pc = "dmc_bits" THEN RunLeft ELSE 0
<1>1. CASE pc = "dmc_run"
  BY Zenon, <1>1 DEF ReadsLeft, RunLeft, NextRead, DmcClock, Reads, CountReads
<1>2. CASE pc = "dmc_bits"
  <2>1. pc # "dmc_run"
    BY SMT, <1>2
  <2> QED
    BY Zenon, <1>2, <2>1 DEF ReadsLeft, RunLeft, NextRead, DmcClock, Reads, CountReads
<1>3. CASE pc # "dmc_run" /\ pc # "dmc_bits"
  BY Zenon, <1>3 DEF ReadsLeft
<1> QED
  BY Zenon, <1>1, <1>2, <1>3

LEMMA LeftAfter ==
  ReadsLeft' = IF pc' = "dmc_run" \/ pc' = "dmc_bits" THEN RunLeft' ELSE 0
<1>1. CASE pc' = "dmc_run"
  BY Zenon, <1>1 DEF ReadsLeft, RunLeft, NextRead, DmcClock, Reads, CountReads
<1>2. CASE pc' = "dmc_bits"
  <2>1. pc' # "dmc_run"
    BY SMT, <1>2
  <2> QED
    BY Zenon, <1>2, <2>1 DEF ReadsLeft, RunLeft, NextRead, DmcClock, Reads, CountReads
<1>3. CASE pc' # "dmc_run" /\ pc' # "dmc_bits"
  BY Zenon, <1>3 DEF ReadsLeft
<1> QED
  BY Zenon, <1>1, <1>2, <1>3

(* No fetch is due before the end of a run that stops.                     *)
LEMMA StoppedReads ==
  ASSUME TypeOK, NEW time \in Int, time >= goal
  PROVE  Reads(dmc_length, dmc_loop, dmc_period, time + (bits_remain - 1) * dmc_period, goal) = 0
<1>1. PICK bits \in 0 .. 7, period \in Nat : bits = bits_remain - 1 /\ period = dmc_period
  BY SMT DEF TypeOK
<1>2. bits * period \in Nat
  BY SMT, <1>1
<1>3. goal <= time + bits * period
  BY SMT, <1>2 DEF TypeOK
<1> QED
  BY Zenon, <1>1, <1>3 DEF Reads

LEMMA DmcRunCounts ==
  ASSUME TypeOK, DmcReady, DmcRun
  PROVE  ReadsLeft = ReadsLeft' + 0
<1> DEFINE start == dmc_time + dmc_delay
<1>1. /\ pc = "dmc_run" /\ DmcClock = start /\ start \in Int
      /\ UNCHANGED <<dmc_length, dmc_loop, dmc_period, goal>>
  BY SMT DEF TypeOK, DmcRun, DmcClock, fetchVars, regVars
<1>2. ReadsLeft = RunLeft /\ RunLeft = Reads(dmc_length, dmc_loop, dmc_period,
                                             start + (bits_remain - 1) * dmc_period, goal)
  BY Zenon, <1>1, LeftIs DEF RunLeft, NextRead
<1> HIDE DEF start
<1>6. ReadsLeft + 0 = ReadsLeft
  <2>1. PICK bits \in Int, period \in Nat \ {0} : bits = bits_remain - 1 /\ period = dmc_period
    BY SMT DEF TypeOK
  <2>2. start + bits * period \in Int
    BY SMT, <1>1, <2>1
  <2>3. goal \in Int /\ dmc_length \in Nat
    BY Zenon DEF TypeOK
  <2>4. dmc_period \in Nat \ {0} /\ start + (bits_remain - 1) * dmc_period \in Int
    BY Zenon, <2>1, <2>2
  <2>5. Reads(dmc_length, dmc_loop, dmc_period, start + (bits_remain - 1) * dmc_period, goal) \in Int
    BY Zenon, <2>3, <2>4, ReadsTyped
  <2>6. PICK n \in Int : n = ReadsLeft
    BY Zenon, <1>2, <2>5
  <2> QED
    BY SMT, <2>6
<1> SUFFICES ReadsLeft = ReadsLeft'
  BY Zenon, <1>6
<1>3. CASE SkipSilence(start) /\ ~buf_full
  <2>1. dmc_length = 0
    BY Zenon, <1>3 DEF DmcReady
  <2>2. RunLeft = 0 /\ RunLeft' = 0
    BY Zenon, <1>1, <2>1 DEF RunLeft, Reads
  <2> QED
    BY Zenon, <1>2, <2>2, LeftAfter
<1>4. CASE dmc_time' = start /\ bits_remain' = bits_remain /\ pc' = "dmc_bits"
  <2>1. DmcClock' = start
    BY SMT, <1>4 DEF DmcClock
  <2>2. RunLeft' = RunLeft
    BY Zenon, <1>1, <1>2, <1>4, <2>1 DEF RunLeft, NextRead
  <2> QED
    BY Zenon, <1>2, <1>4, <2>2, LeftAfter
<1>5. CASE ~(start < goal) /\ DmcStops(start)
  <2>1. start >= goal
    BY SMT, <1>1, <1>5 DEF TypeOK
  <2>2. ReadsLeft = 0
    BY Zenon, <1>1, <1>2, <2>1, StoppedReads
  <2>3. pc' # "dmc_run" /\ pc' # "dmc_bits"
    BY SMT, <1>5 DEF DmcStops
  <2> QED
    BY Zenon, <2>2, <2>3, LeftAfter
<1> QED
  BY Zenon, <1>3, <1>4, <1>5 DEF DmcRun, start

LEMMA DmcBitCounts ==
  ASSUME TypeOK, DmcTimeInv, DmcReady, DmcBit
  PROVE  ReadsLeft = ReadsLeft' + (IF bits_remain = 1 /\ dmc_length # 0 THEN 1 ELSE 0)
<1> DEFINE time == dmc_time + dmc_period
           later == Reads(dmc_length', dmc_loop, dmc_period,
                          time + (bits_remain' - 1) * dmc_period, goal)
<1>1. /\ pc = "dmc_bits" /\ DmcClock = dmc_time /\ dmc_time \in Int /\ time \in Int
      /\ dmc_time < goal /\ goal \in Int /\ dmc_period \in Nat \ {0} /\ dmc_period \in Int
      /\ bits_remain \in 1 .. 8 /\ dmc_length \in Nat /\ dmc_time + dmc_period = time
  BY SMT DEF TypeOK, DmcTimeInv, DmcBit, DmcClock
<1>2. UNCHANGED <<dmc_loop, dmc_period, goal>> /\ dmc_time' = time
  BY Zenon DEF DmcBit, regVars
<1>3. bits_remain' = IF bits_remain = 1 THEN 8 ELSE bits_remain - 1
  BY Zenon DEF DmcBit
<1>4. ReadsLeft = Reads(dmc_length, dmc_loop, dmc_period,
                        dmc_time + (bits_remain - 1) * dmc_period, goal)
  BY Zenon, <1>1, LeftIs DEF RunLeft, NextRead
<1> HIDE DEF time
<1>5. \/ time < goal /\ pc' = "dmc_bits"
      \/ time >= goal /\ pc' # "dmc_run" /\ pc' # "dmc_bits"
  <2>1. CASE time < goal
    BY Zenon, <2>1 DEF DmcBit, time
  <2>2. CASE ~(time < goal)
    <3>1. time >= goal
      BY SMT, <1>1, <2>2
    <3>2. DmcStops(time)
      BY Zenon, <2>2 DEF DmcBit, time
    <3> QED
      BY SMT, <3>1, <3>2 DEF DmcStops
  <2> QED
    BY Zenon, <2>1, <2>2
<1>6. /\ time < goal => ReadsLeft' = later
      /\ time >= goal => ReadsLeft' = 0
  <2>1. CASE time < goal /\ pc' = "dmc_bits"
    <3>1. DmcClock' = time
      BY SMT, <1>2, <2>1 DEF DmcClock
    <3>2. ReadsLeft' = later
      BY Zenon, <1>2, <2>1, <3>1, LeftAfter DEF RunLeft, NextRead
    <3>3. ~(time >= goal)
      BY SMT, <1>1, <2>1
    <3> QED
      BY Zenon, <3>2, <3>3
  <2>2. CASE time >= goal /\ pc' # "dmc_run" /\ pc' # "dmc_bits"
    <3>1. ~(time < goal)
      BY SMT, <1>1, <2>2
    <3> QED
      BY Zenon, <2>2, <3>1, LeftAfter
  <2> QED
    BY Zenon, <1>5, <2>1, <2>2
<1>7. bits_remain' \in 1 .. 8
  BY SMT, <1>1, <1>3
<1>8. time >= goal => later = 0
  <2> SUFFICES ASSUME time >= goal PROVE later = 0
    OBVIOUS
  <2>1. PICK bits \in 0 .. 7, period \in Nat : bits = bits_remain' - 1 /\ period = dmc_period
    BY SMT, <1>1, <1>7
  <2>2. bits * period \in Nat
    BY SMT, <2>1
  <2>3. goal <= time + bits * period
    BY SMT, <1>1, <2>2
  <2> QED
    BY Zenon, <2>1, <2>3 DEF Reads
<1>9. ReadsLeft' = later
  BY Zenon, <1>5, <1>6, <1>8
<1>10. CASE bits_remain # 1
  <2>1. dmc_length' = dmc_length
    BY Zenon, <1>10 DEF DmcBit, fetchVars
  <2>2. time + (bits_remain' - 1) * dmc_period = dmc_time + (bits_remain - 1) * dmc_period
    <3>1. PICK bits \in Int : bits = bits_remain - 1
      BY SMT, <1>1
    <3>2. bits_remain' - 1 = bits - 1
      BY SMT, <1>1, <1>3, <1>10, <3>1
    <3>3. (bits - 1) * dmc_period + dmc_period = bits * dmc_period
      BY Zenon, <1>1, <3>1, OnePeriodLess
    <3> QED
      BY SMT, <1>1, <3>1, <3>2, <3>3
  <2>3. later = ReadsLeft
    BY Zenon, <1>4, <2>1, <2>2
  <2>4. (bits_remain - 1) * dmc_period \in Int
    BY SMT, <1>1
  <2>5. dmc_time + (bits_remain - 1) * dmc_period \in Int
    BY SMT, <1>1, <2>4
  <2>6. Reads(dmc_length, dmc_loop, dmc_period,
              dmc_time + (bits_remain - 1) * dmc_period, goal) \in Int
    BY Zenon, <1>1, <2>5, ReadsTyped
  <2>7. PICK n \in Int : n = ReadsLeft
    BY Zenon, <1>4, <2>6
  <2>8. ReadsLeft + 0 = ReadsLeft
    BY SMT, <2>7
  <2> QED
    BY Zenon, <1>9, <1>10, <2>3, <2>8
<1>11. CASE bits_remain = 1 /\ dmc_length = 0
  <2>1. dmc_length' = 0
    BY Zenon, <1>11 DEF DmcBit, FillBuffer, fetchVars
  <2>2. ReadsLeft = 0 /\ later = 0
    BY Zenon, <1>4, <1>11, <2>1 DEF Reads
  <2>3. 0 = 0 + 0
    BY SMT
  <2> QED
    BY Zenon, <1>9, <1>11, <2>2, <2>3
<1>12. CASE bits_remain = 1 /\ dmc_length # 0
  <2>1. FillBuffer
    BY Zenon, <1>12 DEF DmcBit, DmcReady
  <2>2. dmc_length' = LengthAfter(dmc_length)
    BY Zenon, <1>12, <2>1 DEF FillBuffer
  <2>3. /\ dmc_length \in Nat \ {0} /\ dmc_loop \in BOOLEAN /\ dmc_length' \in Nat
        /\ dmc_loop => dmc_length' # 0
        /\ ~dmc_loop => dmc_length' = dmc_length - 1
    BY SMT, <1>12, <2>2 DEF TypeOK, LengthAfter
  <2>4. PICK after \in Nat, length \in Nat \ {0}, period \in Nat \ {0}, first \in Int, end \in Int,
             loop \in BOOLEAN :
          /\ after = dmc_length' /\ length = dmc_length /\ period = dmc_period
          /\ first = dmc_time /\ end = goal /\ loop = dmc_loop
    BY Zenon, <1>1, <2>3
  <2>5. Reads(length, loop, period, first, end)
          = Reads(after, loop, period, first + period * 8, end) + 1
    <3>1. first < end /\ (loop => after # 0) /\ (~loop => after = length - 1)
      BY Zenon, <1>1, <2>3, <2>4
    <3> QED
      BY SMT, <2>4, <3>1, FetchCounted
  <2>6. dmc_time + (bits_remain - 1) * dmc_period = dmc_time
    BY SMT, <1>1, <1>12
  <2>7. time + (bits_remain' - 1) * dmc_period = dmc_time + dmc_period * 8
    <3>1. bits_remain' = 8
      BY Zenon, <1>3, <1>12
    <3> QED
      BY SMT, <1>1, <3>1
  <2>8. ReadsLeft = later + 1
    BY Zenon, <1>4, <2>4, <2>5, <2>6, <2>7
  <2> QED
    BY Zenon, <1>9, <1>12, <2>8
<1> QED
  BY Zenon, <1>10, <1>11, <1>12

(* At every step of a run: what count_reads says is still to be fetched    *)
(* goes down by the byte that is, and the run ends when nothing is left.   *)
THEOREM ReadsCounted ==
  ASSUME StatusGap >= 1
  PROVE  Spec => CountReadsExact
<1> DEFINE runs == pc = "dmc_run" \/ pc = "dmc_bits"
           fetches == pc = "dmc_bits" /\ bits_remain = 1 /\ dmc_length # 0
           counted == ReadsLeft = ReadsLeft' + (IF fetches THEN 1 ELSE 0)
<1>1. ASSUME TypeOK, DmcTimeInv, DmcReady, Next, runs PROVE counted
  <2>1. DmcRun \/ DmcBit
    BY Zenon, <1>1, RunningSteps
  <2>2. CASE DmcRun
    <3>1. ~(pc = "dmc_bits")
      BY SMT, <2>2 DEF DmcRun
    <3>2. ReadsLeft = ReadsLeft' + 0
      BY Zenon, <1>1, <2>2, DmcRunCounts
    <3> QED
      BY Zenon, <3>1, <3>2
  <2>3. CASE DmcBit
    <3>1. pc = "dmc_bits"
      BY Zenon, <2>3 DEF DmcBit
    <3>2. ReadsLeft = ReadsLeft' + (IF bits_remain = 1 /\ dmc_length # 0 THEN 1 ELSE 0)
      BY Zenon, <1>1, <2>3, DmcBitCounts
    <3> QED
      BY Zenon, <3>1, <3>2
  <2> QED
    BY Zenon, <2>1, <2>2, <2>3
<1>2. TypeOK /\ DmcTimeInv /\ DmcReady /\ [Next]_vars => [runs => counted]_vars
  BY Zenon, <1>1
<1> QED
  BY <1>2, TypeCorrect, DmcNeverStarves, DmcPredicted, PTL DEF Spec, CountReadsExact

-----------------------------------------------------------------------------
(* The cache of the earliest interrupt.                                    *)

(* Where the predictions lie.                                              *)
NextInv ==
  /\ 0 <= next_irq /\ next_irq <= no_irq
  /\ 0 <= dmc_next_irq /\ dmc_next_irq <= no_irq

LEMMA NextBounds ==
  ASSUME TypeOK, TimeInv, DelayInv, DmcTimeInv, FramePrediction, DmcPrediction
  PROVE  NextInv
<1>1. PICK period \in Nat : /\ period = frame_period /\ period >= 4 /\ period <= max_period
  BY SMT, PeriodBound DEF TypeOK
<1>2. 0 <= next_irq /\ next_irq <= no_irq
  <2>1. CASE FrameIrqEnabled
    <3>1. /\ last_time \in Int /\ 0 <= last_time /\ last_time <= max_time
          /\ frame_delay \in Int /\ 0 <= frame_delay /\ frame_delay <= 2 * max_period
      BY SMT, Horizon DEF TypeOK, TimeInv, DelayInv
    <3>2. /\ FrameIrqTime \in Int /\ 0 <= FrameIrqTime
          /\ FrameIrqTime <= last_time + frame_delay + 3 * period
      BY SMT, <1>1, <3>1 DEF TypeOK, FrameIrqTime
    <3>3. next_irq - FrameIrqTime \in {3, 4} /\ next_irq \in Int
      BY Zenon, <2>1 DEF TypeOK, FramePrediction
    <3> QED
      BY SMT, <1>1, <3>1, <3>2, <3>3, Horizon DEF max_time, max_period, no_irq
  <2>2. CASE ~FrameIrqEnabled
    BY SMT, <2>2 DEF FramePrediction, no_irq
  <2> QED
    BY Zenon, <2>1, <2>2
<1>3. 0 <= dmc_next_irq /\ dmc_next_irq <= no_irq
  <2>1. CASE dmc_irq_enabled /\ dmc_length # 0
    <3>1. PICK bits \in Nat : bits = BitsToIrq * dmc_period /\ bits <= max_bits
      BY Zenon, <2>1, BitsBound
    <3>2. dmc_next_irq = DmcClock + bits + 1
      BY Zenon, <2>1, <3>1 DEF DmcPrediction
    <3>3. DmcClock \in Int /\ 0 <= DmcClock /\ DmcClock <= max_time + 428
      BY SMT, Horizon DEF TypeOK, TimeInv, DmcTimeInv, DmcClock
    <3> QED
      BY SMT, <3>1, <3>2, <3>3 DEF max_time, max_bits, no_irq
  <2>2. CASE ~(dmc_irq_enabled /\ dmc_length # 0)
    BY SMT, <2>2 DEF DmcPrediction, no_irq
  <2> QED
    BY Zenon, <2>1, <2>2
<1> QED
  BY Zenon, <1>2, <1>3 DEF NextInv

(* irq_changed makes the cache good again.                                 *)
LEMMA Refreshed ==
  ASSUME TypeOK', TimeInv', NextInv', earliest_irq' = Earliest'
  PROVE  CacheInv'
<1>1. /\ next_irq' \in Int /\ dmc_next_irq' \in Int /\ last_time' \in Int
      /\ 0 <= last_time' /\ 0 <= next_irq' /\ 0 <= dmc_next_irq'
  BY SMT DEF TypeOK, TimeInv, NextInv
<1>2. earliest_irq' = IF dmc_irq_flag' \/ irq_flag' THEN 0
                      ELSE IF dmc_next_irq' > next_irq' THEN next_irq' ELSE dmc_next_irq'
  BY Zenon DEF Earliest, irq_waiting
<1>3. CASE dmc_irq_flag' \/ irq_flag'
  <2>1. earliest_irq' = 0
    BY Zenon, <1>2, <1>3
  <2>2. \A time \in Int : 0 <= time => 0 <= time + 3 /\ 0 <= time + 4
    BY SMT
  <2>3. 0 <= last_time' + (IF pc' = "frames" THEN 4 ELSE 3)
    BY Zenon, <1>1, <2>2
  <2> QED
    BY Zenon, <1>1, <2>1, <2>3 DEF CacheInv, irq_waiting
<1>4. CASE ~(dmc_irq_flag' \/ irq_flag')
  <2>1. earliest_irq' = IF dmc_next_irq' > next_irq' THEN next_irq' ELSE dmc_next_irq'
    BY Zenon, <1>2, <1>4
  <2>2. earliest_irq' <= next_irq' /\ earliest_irq' <= dmc_next_irq'
    BY SMT, <1>1, <2>1
  <2> QED
    BY Zenon, <1>4, <2>2 DEF CacheInv
<1> QED
  BY Zenon, <1>3, <1>4

cacheVars == <<earliest_irq, irq_flag, next_irq, dmc_irq_flag, dmc_next_irq>>

(* A step that changes neither, and does not leave the frame loop.         *)
LEMMA CacheKept ==
  ASSUME TypeOK, CacheInv, UNCHANGED cacheVars, UNCHANGED last_time, pc # "frames"
  PROVE  CacheInv'
<1>1. /\ UNCHANGED <<earliest_irq, irq_flag, next_irq, dmc_irq_flag, dmc_next_irq, last_time>>
      /\ earliest_irq \in Int /\ last_time \in Int
  BY SMT DEF TypeOK, cacheVars
<1>2. irq_flag' => earliest_irq' <= last_time' + 3
  BY SMT, <1>1 DEF CacheInv
<1>3. irq_flag' => earliest_irq' <= last_time' + (IF pc' = "frames" THEN 4 ELSE 3)
  BY SMT, <1>1, <1>2
<1> QED
  BY Zenon, <1>1, <1>3 DEF CacheInv

LEMMA CacheFrames ==
  ASSUME TypeOK, TypeOK', TimeInv, FramePrediction, CacheInv, FrameEvent \/ FramesDone
  PROVE  CacheInv'
<1>1. UNCHANGED <<earliest_irq, dmc_irq_flag, dmc_next_irq>> /\ pc = "frames"
  BY Zenon DEF FrameEvent, FramesDone, dmcVars, fetchVars
<1>2. dmc_irq_flag' => earliest_irq' = irq_waiting
  BY Zenon, <1>1 DEF CacheInv
<1>3. ~dmc_irq_flag' => earliest_irq' <= dmc_next_irq'
  BY Zenon, <1>1 DEF CacheInv
<1>4. irq_flag => earliest_irq <= last_time + 4
  BY SMT, <1>1 DEF CacheInv
<1>5. CASE FrameEvent
  <2>1. last_time' = last_time + frame_delay /\ pc' = "frames"
    BY Zenon, <1>5, <1>1 DEF FrameEvent, callVars
  <2>2. CASE frame = 0 /\ FrameIrqEnabled
    <3>1. irq_flag'
      BY Zenon, <1>5, <2>2 DEF FrameEvent
    <3>2. FrameIrqTime = last_time + frame_delay
      BY SMT, <2>2 DEF TypeOK, FrameIrqTime
    <3>3. ~irq_flag => earliest_irq <= next_irq
      BY Zenon DEF CacheInv
    <3>4. next_irq - FrameIrqTime \in {3, 4}
      BY Zenon, <2>2 DEF FramePrediction
    <3>5. earliest_irq <= last_time + frame_delay + 4
      BY SMT, <1>4, <3>2, <3>3, <3>4 DEF TypeOK, TimeInv
    <3>6. earliest_irq' <= last_time' + 4
      BY Zenon, <1>1, <2>1, <3>5
    <3> QED
      BY SMT, <1>2, <1>3, <2>1, <3>1, <3>6 DEF CacheInv
  <2>3. CASE ~(frame = 0 /\ FrameIrqEnabled)
    <3>1. irq_flag' = irq_flag /\ next_irq' = next_irq
      BY SMT, <1>5, <2>3 DEF TypeOK, FrameEvent
    <3>2. irq_flag' => earliest_irq' <= last_time' + 4
      BY SMT, <1>1, <1>4, <2>1, <3>1 DEF TypeOK, TimeInv
    <3>3. ~irq_flag' => earliest_irq' <= next_irq'
      BY Zenon, <1>1, <3>1 DEF CacheInv
    <3> QED
      BY SMT, <1>2, <1>3, <2>1, <3>2, <3>3 DEF CacheInv
  <2> QED
    BY Zenon, <2>2, <2>3
<1>6. CASE FramesDone
  <2>1. UNCHANGED <<irq_flag, next_irq>> /\ last_time' = goal /\ pc' = "return"
    BY Zenon, <1>6 DEF FramesDone
  <2>2. goal > last_time
    BY SMT, <1>1 DEF TimeInv
  <2>3. irq_flag' => earliest_irq' <= last_time' + 3
    BY SMT, <1>1, <1>4, <2>1, <2>2 DEF TypeOK
  <2>4. ~irq_flag' => earliest_irq' <= next_irq'
    BY Zenon, <1>1, <2>1 DEF CacheInv
  <2> QED
    BY SMT, <1>2, <1>3, <2>1, <2>3, <2>4 DEF CacheInv
<1> QED
  BY Zenon, <1>5, <1>6

LEMMA CacheDmc ==
  ASSUME TypeOK, TypeOK', TimeInv', NextInv', CacheInv, DmcRun \/ DmcBit
  PROVE  CacheInv'
<1>1. pc # "frames" /\ UNCHANGED last_time
  BY SMT DEF DmcRun, DmcBit, timeVars
<1>2. CASE UNCHANGED cacheVars
  BY Zenon, <1>1, <1>2, CacheKept
<1>3. CASE earliest_irq' = Earliest'
  BY Zenon, <1>3, Refreshed
<1>4. frameVars' = frameVars
  BY Zenon DEF DmcRun, DmcBit
<1>5. \/ UNCHANGED <<earliest_irq, dmc_irq_flag, dmc_next_irq>>
      \/ earliest_irq' = Earliest'
  BY Zenon DEF DmcRun, DmcBit, FillBuffer, fetchVars
<1> QED
  BY Zenon, <1>2, <1>3, <1>4, <1>5 DEF cacheVars, frameVars

LEMMA CacheWrites ==
  ASSUME TypeOK, TypeOK', TimeInv', NextInv', CacheInv, NEW write \in CpuWrites,
         WriteDmcMode(write) \/ WriteEnables(write) \/ WriteFrameMode(write)
  PROVE  CacheInv'
<1>1. pc = "return" /\ pc' = "idle" /\ UNCHANGED last_time
  BY Zenon DEF WriteDmcMode, WriteEnables, WriteFrameMode, WriteReturns, Return, timeVars
<1>2. CASE earliest_irq' = Earliest'
  BY Zenon, <1>2, Refreshed
<1>3. ASSUME UNCHANGED <<earliest_irq, irq_flag, next_irq, dmc_next_irq>>,
             \/ dmc_irq_flag' => dmc_irq_flag
             \/ ~dmc_irq_flag'
      PROVE  CacheInv'
  <2>1. irq_flag' => earliest_irq' <= last_time' + (IF pc' = "frames" THEN 4 ELSE 3)
    BY SMT, <1>1, <1>3 DEF CacheInv
  <2>2. dmc_irq_flag' => earliest_irq' = irq_waiting
    BY Zenon, <1>3 DEF CacheInv
  <2>3. ~irq_flag' => earliest_irq' <= next_irq'
    BY Zenon, <1>3 DEF CacheInv
  <2>4. earliest_irq' <= dmc_next_irq'
    <3>1. CASE dmc_irq_flag
      <4>1. earliest_irq' = 0 /\ 0 <= dmc_next_irq'
        BY Zenon, <1>3, <3>1 DEF CacheInv, NextInv, irq_waiting
      <4> QED
        BY Zenon, <4>1
    <3>2. CASE ~dmc_irq_flag
      BY Zenon, <1>3, <3>2 DEF CacheInv
    <3> QED
      BY Zenon, <3>1, <3>2
  <2> QED
    BY Zenon, <2>1, <2>2, <2>3, <2>4 DEF CacheInv
<1>4. CASE WriteDmcMode(write)
  <2>1. UNCHANGED <<irq_flag, next_irq>> /\ (dmc_irq_flag' => dmc_irq_flag)
    BY Zenon, <1>4 DEF WriteDmcMode, frameVars
  <2>2. earliest_irq' = Earliest' \/ UNCHANGED <<earliest_irq, dmc_next_irq>>
    BY Zenon, <1>4 DEF WriteDmcMode
  <2> QED
    BY Zenon, <1>2, <1>3, <2>1, <2>2
<1>5. CASE WriteEnables(write)
  <2>1. UNCHANGED <<irq_flag, next_irq>>
    BY Zenon, <1>5 DEF WriteEnables, frameVars
  <2>2. CASE DisableDmc(write.on)
    BY Zenon, <1>2, <2>2 DEF DisableDmc
  <2>3. CASE KeepDmc(write.on)
    <3>1. ~dmc_irq_flag' /\ UNCHANGED dmc_next_irq
      BY Zenon, <2>3 DEF KeepDmc
    <3>2. earliest_irq' = Earliest' \/ UNCHANGED earliest_irq
      BY Zenon, <2>3 DEF KeepDmc
    <3> QED
      BY Zenon, <1>2, <1>3, <2>1, <3>1, <3>2
  <2>4. CASE StartDmc(write.on)
    <3>1. \/ earliest_irq' = Earliest'
          \/ UNCHANGED <<earliest_irq, dmc_next_irq>> /\ ~dmc_irq_flag'
      BY Zenon, <2>4 DEF StartDmc
    <3> QED
      BY Zenon, <1>2, <1>3, <2>1, <3>1
  <2> QED
    BY Zenon, <1>5, <2>2, <2>3, <2>4 DEF WriteEnables
<1>6. CASE WriteFrameMode(write)
  BY Zenon, <1>2, <1>6 DEF WriteFrameMode
<1> QED
  BY Zenon, <1>4, <1>5, <1>6

(* The new time frame takes the same off the cache as off the predictions. *)
LEMMA CacheEndFrame ==
  ASSUME TypeOK, TypeOK', TimeInv, TimeInv', NextInv, NextInv', CacheInv, EndFrame
  PROVE  CacheInv'
<1>1. /\ UNCHANGED <<irq_flag, dmc_irq_flag>> /\ pc = "return"
      /\ last_time' = last_time - goal
      /\ next_irq' = Rebased(next_irq) /\ dmc_next_irq' = Rebased(dmc_next_irq)
      /\ earliest_irq' = IF Rebased(earliest_irq) < 0 THEN 0 ELSE Rebased(earliest_irq)
  BY Zenon DEF EndFrame, Return
<1>2. /\ goal \in Int /\ 0 <= goal /\ last_time \in Int /\ goal <= last_time
      /\ last_time <= max_time
      /\ earliest_irq \in Int /\ next_irq \in Int /\ dmc_next_irq \in Int
  BY SMT, <1>1, Horizon DEF TypeOK, TimeInv, EndFrame, Return
<1>3. ASSUME NEW bound \in Int, bound <= no_irq, earliest_irq <= bound, 0 <= Rebased(bound)
      PROVE  earliest_irq' <= Rebased(bound)
  BY SMT, <1>1, <1>2, <1>3 DEF Rebased, no_irq
<1>4. dmc_irq_flag' => earliest_irq' = irq_waiting
  <2>1. CASE earliest_irq = 0
    BY SMT, <1>1, <1>2, <2>1 DEF Rebased, no_irq, irq_waiting
  <2> QED
    BY Zenon, <1>1, <2>1 DEF CacheInv, irq_waiting
<1>5. irq_flag' => earliest_irq' <= last_time' + 3
  <2>1. CASE earliest_irq <= last_time + 3
    BY SMT, <1>1, <1>2, <2>1 DEF Rebased, no_irq, max_time
  <2>2. irq_flag' => earliest_irq <= last_time + 3
    BY SMT, <1>1 DEF CacheInv
  <2> QED
    BY Zenon, <2>1, <2>2
<1>6. ~irq_flag' => earliest_irq' <= next_irq'
  BY Zenon, <1>1, <1>2, <1>3 DEF CacheInv, NextInv
<1>7. ~dmc_irq_flag' => earliest_irq' <= dmc_next_irq'
  BY Zenon, <1>1, <1>2, <1>3 DEF CacheInv, NextInv
<1>8. irq_flag' => earliest_irq' <= last_time' + (IF pc' = "frames" THEN 4 ELSE 3)
  BY SMT, <1>1, <1>2, <1>5 DEF EndFrame, Return
<1> QED
  BY Zenon, <1>4, <1>6, <1>7, <1>8 DEF CacheInv

LEMMA CacheInit == Init => CacheInv
<1> SUFFICES ASSUME Init PROVE CacheInv
  OBVIOUS
<1>1. ~irq_flag /\ ~dmc_irq_flag /\ earliest_irq = next_irq /\ dmc_next_irq = no_irq
      /\ next_irq = 4 * frame_period + 2
  BY Zenon DEF Init
<1>2. PICK period \in Nat : period = frame_period /\ period <= max_period
  BY SMT, TypeInit, PeriodBound DEF TypeOK
<1>3. earliest_irq <= next_irq /\ earliest_irq <= dmc_next_irq
  BY SMT, <1>1, <1>2, Horizon DEF max_period, no_irq
<1> QED
  BY Zenon, <1>1, <1>3 DEF CacheInv

LEMMA CacheStep ==
  ASSUME TypeOK, TypeOK', TimeInv, TimeInv', NextInv, NextInv', FramePrediction,
         CacheInv, [Next]_vars
  PROVE  CacheInv'
<1>1. CASE FrameEvent \/ FramesDone
  BY Zenon, <1>1, CacheFrames
<1>2. CASE DmcRun \/ DmcBit
  BY Zenon, <1>2, CacheDmc
<1>3. ASSUME NEW write \in CpuWrites,
             WriteDmcMode(write) \/ WriteEnables(write) \/ WriteFrameMode(write)
      PROVE  CacheInv'
  BY Zenon, <1>3, CacheWrites
<1>4. CASE EndFrame
  BY Zenon, <1>4, CacheEndFrame
<1>5. ASSUME NEW pal \in PalModes, Reset(pal)
      PROVE  CacheInv'
  <2>1. ~irq_flag' /\ ~dmc_irq_flag' /\ earliest_irq' = next_irq' /\ dmc_next_irq' = no_irq
    BY Zenon, <1>5 DEF Reset
  <2>2. earliest_irq' <= next_irq' /\ earliest_irq' <= dmc_next_irq'
    BY SMT, <2>1 DEF TypeOK, NextInv
  <2> QED
    BY Zenon, <2>1, <2>2 DEF CacheInv
<1>6. CASE ReadStatusReturns
  <2>1. pc # "frames" /\ UNCHANGED <<last_time, next_irq, dmc_irq_flag, dmc_next_irq>>
    BY SMT, <1>6 DEF ReadStatusReturns, Return, timeVars, dmcVars, fetchVars
  <2>2. \/ earliest_irq' = Earliest'
        \/ UNCHANGED <<earliest_irq, irq_flag>>
    BY SMT, <1>6 DEF TypeOK, ReadStatusReturns
  <2> QED
    BY Zenon, <2>1, <2>2, Refreshed, CacheKept DEF cacheVars
<1>7. ASSUME \/ Calls \/ Settings \/ RunUntil_ \/ ReadStatusSample \/ RunUntilReturns
             \/ \E write \in CpuWrites :
                  WriteHalt(write) \/ WriteLength(write) \/ WriteDmcLength(write) \/ WriteOther(write)
      PROVE  CacheInv'
  <2>1. UNCHANGED cacheVars /\ UNCHANGED last_time
    BY Zenon, <1>7 DEF Calls, CallWrite, CallReadStatus, CallRunUntil, CallEndFrame, Call,
       Settings, SetTempo, SetDmcOutput, RunUntil_, ReadStatusSample, RunUntilReturns,
       WriteHalt, WriteLength, WriteDmcLength, WriteOther, WriteReturns,
       cacheVars, timeVars, frameVars, fetchVars, dmcVars
  <2>2. pc # "frames"
    BY SMT, <1>7 DEF Calls, CallWrite, CallReadStatus, CallRunUntil, CallEndFrame, Call,
       Settings, SetTempo, SetDmcOutput, RunUntil_, ReadStatusSample, RunUntilReturns,
       WriteHalt, WriteLength, WriteDmcLength, WriteOther, WriteReturns, Return
  <2> QED
    BY Zenon, <2>1, <2>2, CacheKept
<1>8. CASE UNCHANGED vars
  BY Zenon, <1>8 DEF vars, timeVars, frameVars, dmcVars, fetchVars, callVars, CacheInv
<1> QED
  BY Zenon, <1>1, <1>2, <1>3, <1>4, <1>5, <1>6, <1>7, <1>8 DEF Next, Running, Returns

LEMMA CacheEnough ==
  ASSUME TypeOK, DmcReady, NextInv, FramePrediction, DmcPrediction, CacheInv
  PROVE  PollingIsEnough
<1> SUFFICES ASSUME pc = "idle" PROVE PollingIsEnough
  BY Zenon DEF PollingIsEnough
<1>1. irq_flag => earliest_irq <= last_time + 3
  BY SMT DEF CacheInv
<1>2. ~irq_flag /\ FrameIrqEnabled => earliest_irq <= FrameIrqTime + 4
  <2> SUFFICES ASSUME ~irq_flag, FrameIrqEnabled PROVE earliest_irq <= FrameIrqTime + 4
    OBVIOUS
  <2>1. earliest_irq <= next_irq /\ next_irq - FrameIrqTime \in {3, 4}
    BY Zenon DEF CacheInv, FramePrediction
  <2>2. PICK period \in Nat : period = frame_period
    BY SMT, PeriodBound DEF TypeOK
  <2>3. FrameIrqTime \in Int
    BY SMT, <2>2 DEF TypeOK, FrameIrqTime
  <2> QED
    BY SMT, <2>1, <2>3 DEF TypeOK
<1>3. earliest_irq <= DmcIrqTime
  <2>1. DmcClock = last_dmc_time + dmc_delay
    BY SMT DEF DmcClock
  <2>2. DmcIrqTime = dmc_next_irq
    BY Zenon, <2>1 DEF DmcPrediction, DmcIrqTime, BitsToIrq
  <2>3. CASE dmc_irq_flag
    BY Zenon, <2>2, <2>3 DEF CacheInv, NextInv, irq_waiting
  <2>4. CASE ~dmc_irq_flag
    BY Zenon, <2>2, <2>4 DEF CacheInv
  <2> QED
    BY Zenon, <2>3, <2>4
<1> QED
  BY Zenon, <1>1, <1>2, <1>3 DEF PollingIsEnough, CacheInv

(* A CPU loop that runs the chip only as far as earliest_irq says misses   *)
(* no interrupt, whatever it writes and however it splits its time into    *)
(* frames, as long as it keeps the tempo.                                  *)
THEOREM PollingSuffices ==
  ASSUME StatusGap >= 1, Tempos = {"normal"}
  PROVE  Spec => []PollingIsEnough
<1> DEFINE Predicted == /\ TypeOK /\ TimeInv /\ DelayInv /\ DmcTimeInv /\ DmcReady
                        /\ FramePrediction /\ DmcPrediction
<1>1. Predicted => NextInv
  BY Zenon, NextBounds
<1>2. Init => Predicted /\ CacheInv
  BY Zenon, TypeInit, TimeInit, DelayInit, DmcTimeInit, ReadyInit, FrameInit,
     DmcPredictionInit, CacheInit
<1>3. Predicted /\ DmcReady' /\ [Next]_vars => Predicted'
  BY Zenon, TypeStep, TimeStep, DelayStep, DmcTimeStep, FrameStep, DmcPredictionStep,
     StatusGap >= 1, Tempos = {"normal"}
<1>4. Predicted /\ Predicted' /\ NextInv /\ NextInv' /\ CacheInv /\ [Next]_vars => CacheInv'
  BY Zenon, CacheStep
<1>5. Predicted /\ NextInv /\ CacheInv => PollingIsEnough
  BY Zenon, CacheEnough
<1> HIDE DEF Predicted
<1>6. Spec => []DmcReady
  BY Zenon, DmcNeverStarves
<1> QED
  BY <1>1, <1>2, <1>3, <1>4, <1>5, <1>6, PTL DEF Spec

-----------------------------------------------------------------------------
(* The time frames and the frame sequencer.                                *)

(* What the parity of a sum depends on.                                    *)
LEMMA EvenPlusOne ==
  ASSUME NEW p \in Int, p % 2 = 0
  PROVE  (0 + (0 + (p + 1))) % 2 = 1
BY SMT

LEMMA OddSums ==
  ASSUME NEW a \in Int, NEW d \in Int, NEW p \in Int, p % 2 = 0
  PROVE  /\ (a + d) % 2 = 1 => (a + (d % 2)) % 2 = 1
         /\ (a + d) % 2 = 1 => (a + ((d % 2) + p)) % 2 = 1
BY SMT

LEMMA OddRest ==
  ASSUME NEW a \in Int, NEW d \in Int, (a + d) % 2 = 1
  PROVE  d % 2 = 1 - (a % 2)
BY SMT

(* A step of the console is a step of the chip.                            *)
LEMMA EpochStep ==
  ASSUME [EpochNext]_epochVars
  PROVE  [Next]_vars
BY Zenon DEF EpochNext, epochVars, Next

(* The period of the next event keeps the clock of the one after it odd.   *)
LEMMA EvenDelay ==
  ASSUME TypeOK, NEW f \in 0 .. 3
  PROVE  DelayAfter(f) \in Int /\ DelayAfter(f) % 2 = 0
BY SMT, PeriodBound DEF TypeOK, DelayAfter

-----------------------------------------------------------------------------
(* Events at odd clocks.                                                   *)

OddInv == epoch \in Int /\ EventsAtOddClocks

LEMMA OddInit == EpochInit => OddInv
<1> SUFFICES ASSUME EpochInit PROVE OddInv
  OBVIOUS
<1>1. TypeOK
  BY SMT, TypeInit DEF EpochInit
<1> QED
  BY SMT, <1>1, PeriodBound DEF EpochInit, Init, OddInv, EventsAtOddClocks

(* The sum that EventsAtOddClocks is about changes only at an event, a     *)
(* reset, a write to $4017 and the end of a time frame.                    *)
Restart == \E write \in CpuWrites : WriteFrameMode(write)

KeepsEvent ==
  \/ Calls \/ Settings \/ RunUntil_ \/ DmcRun \/ DmcBit \/ FramesDone
  \/ Returns /\ ~Restart

LEMMA EventKept ==
  ASSUME TypeOK, KeepsEvent
  PROVE  last_time' + frame_delay' = last_time + frame_delay
<1>1. CASE Calls \/ Settings
  BY Zenon, <1>1 DEF Calls, CallWrite, CallReadStatus, CallRunUntil,
     CallEndFrame, Call, Settings, SetTempo, SetDmcOutput, timeVars, frameVars
<1>2. CASE RunUntil_ \/ DmcRun \/ DmcBit
  BY Zenon, <1>2 DEF RunUntil_, DmcRun, DmcBit, timeVars, frameVars
<1>3. CASE FramesDone
  BY SMT, <1>3 DEF TypeOK, FramesDone
<1>4. CASE Returns /\ ~Restart
  <2>1. UNCHANGED <<last_time, frame_delay>>
    BY Zenon, <1>4 DEF Returns, Restart, WriteHalt, WriteLength, WriteDmcMode,
       WriteDmcLength, WriteEnables, WriteOther, WriteReturns,
       ReadStatusSample, ReadStatusReturns, RunUntilReturns, timeVars, frameVars
  <2> QED
    BY Zenon, <2>1
<1> QED
  BY Zenon, <1>1, <1>2, <1>3, <1>4 DEF KeepsEvent

LEMMA OddStep ==
  ASSUME TypeOK, TypeOK', OddInv, [EpochNext]_epochVars
  PROVE  OddInv'
<1>1. CASE UNCHANGED epochVars
  BY SMT, <1>1 DEF OddInv, EventsAtOddClocks, epochVars, vars, timeVars, frameVars
<1>2. CASE EndFrame /\ epoch' = epoch + goal
  BY SMT, <1>2 DEF TypeOK, OddInv, EventsAtOddClocks, EndFrame
<1>3. CASE (\E pal \in PalModes : Reset(pal)) /\ epoch' = 0
  <2>1. PICK period \in Int : period = frame_period' /\ period % 2 = 0
    BY SMT, PeriodFacts DEF TypeOK, frame_period
  <2>2. epoch' = 0 /\ last_time' = 0 /\ frame_delay' = period + 1
    BY Zenon, <1>3, <2>1 DEF Reset
  <2>3. (0 + (0 + (period + 1))) % 2 = 1
    BY Zenon, <2>1, <2>2, EvenPlusOne
  <2>4. 0 \in Int
    BY SMT
  <2> QED
    BY Zenon, <2>2, <2>3, <2>4 DEF OddInv, EventsAtOddClocks
<1>4. CASE FrameEvent /\ epoch' = epoch
  <2>1. frame_delay' \in Int /\ frame_delay' % 2 = 0
    BY SMT, <1>4, EvenDelay DEF TypeOK, FrameEvent
  <2> QED
    BY SMT, <1>4, <2>1 DEF TypeOK, OddInv, EventsAtOddClocks, FrameEvent
<1>5. ASSUME NEW write \in CpuWrites, WriteFrameMode(write), epoch' = epoch
      PROVE  OddInv'
  <2>1. last_time' = last_time
    BY SMT, <1>5 DEF WriteFrameMode, WriteReturns, timeVars
  <2>2. PICK delay \in Int :
          /\ delay = frame_delay'
          /\ delay = frame_delay % 2 \/ delay = (frame_delay % 2) + frame_period
    BY SMT, <1>5, PeriodBound DEF TypeOK, WriteFrameMode
  <2> DEFINE clock == epoch + last_time
  <2>3. clock \in Int /\ frame_delay \in Int /\ (clock + frame_delay) % 2 = 1
    BY SMT DEF TypeOK, OddInv, EventsAtOddClocks
  <2>4. (clock + delay) % 2 = 1
    <3>1. frame_period \in Int /\ frame_period % 2 = 0
      BY SMT, PeriodBound
    <3> HIDE DEF clock
    <3>2. /\ (clock + (frame_delay % 2)) % 2 = 1
          /\ (clock + ((frame_delay % 2) + frame_period)) % 2 = 1
      BY Zenon, <2>3, <3>1, OddSums
    <3> QED
      BY Zenon, <2>2, <3>2
  <2>5. (epoch + (last_time + delay)) % 2 = 1
    BY SMT, <2>4 DEF TypeOK, OddInv
  <2> QED
    BY Zenon, <1>5, <2>1, <2>2, <2>5 DEF OddInv, EventsAtOddClocks
<1>6. CASE KeepsEvent /\ epoch' = epoch
  <2>1. last_time' + frame_delay' = last_time + frame_delay
    BY SMT, <1>6, EventKept
  <2> QED
    BY Zenon, <1>6, <2>1 DEF OddInv, EventsAtOddClocks
<1> QED
  BY Zenon, <1>1, <1>2, <1>3, <1>4, <1>5, <1>6
     DEF EpochNext, Running, KeepsEvent, Restart

LEMMA EpochInvInit == EpochInit => TypeOK /\ TimeInv /\ OddInv
BY SMT, TypeInit, TimeInit, OddInit DEF EpochInit

LEMMA EpochInvStep ==
  ASSUME TypeOK, TimeInv, OddInv, [EpochNext]_epochVars, StatusGap >= 1
  PROVE  TypeOK' /\ TimeInv' /\ OddInv'
<1>1. [Next]_vars
  BY Zenon, EpochStep
<1>2. TypeOK'
  BY Zenon, <1>1, TypeStep
<1>3. TimeInv'
  BY Zenon, <1>1, TimeStep
<1> QED
  BY Zenon, <1>2, <1>3, OddStep

(* Sequencer events fall on odd clocks, whatever the frame periods, as     *)
(* long as they are even.                                                  *)
THEOREM OddClocks ==
  ASSUME StatusGap >= 1
  PROVE  EpochSpec => []EventsAtOddClocks
<1>1. TypeOK /\ TimeInv /\ OddInv /\ [EpochNext]_epochVars
        => (TypeOK /\ TimeInv /\ OddInv)'
  BY Zenon, EpochInvStep
<1>2. OddInv => EventsAtOddClocks
  BY Zenon DEF OddInv
<1> QED
  BY <1>1, <1>2, EpochInvInit, PTL DEF EpochSpec

-----------------------------------------------------------------------------
(* The refinement.                                                         *)

ConsoleStep == [Console!Next]_(Console!vars)

(* The sequencer sees nothing of a step that keeps its clock, its next     *)
(* event and its modes.                                                    *)
LEMMA Stutter ==
  ASSUME UNCHANGED <<epoch, last_time, frame_delay, frame, five_step, inhibit,
                     irq_flag, pal_mode, tempo>>
  PROVE  ConsoleStep
BY Zenon DEF ConsoleStep, Console!vars

LEMMA StutterCalls ==
  ASSUME epoch' = epoch,
         Calls \/ (\E on \in Outputs : SetDmcOutput(on))
           \/ RunUntil_ \/ DmcRun \/ DmcBit
  PROVE  ConsoleStep
BY Zenon, Stutter DEF Calls, CallWrite, CallReadStatus, CallRunUntil,
   CallEndFrame, Call, SetDmcOutput, RunUntil_, DmcRun, DmcBit, timeVars,
   frameVars, modeVars

LEMMA StutterReturns ==
  ASSUME epoch' = epoch, Returns, ~Restart, ~ReadStatusReturns
  PROVE  ConsoleStep
BY Zenon, Stutter DEF Returns, Restart, WriteHalt, WriteLength, WriteDmcMode,
   WriteDmcLength, WriteEnables, WriteOther, WriteReturns, ReadStatusSample,
   RunUntilReturns, timeVars, frameVars, modeVars

(* The end of a time frame moves the origin of time, not the clock.        *)
LEMMA RebaseIsStutter ==
  ASSUME TypeOK, epoch \in Int, EndFrame, epoch' = epoch + goal
  PROVE  ConsoleStep
<1>1. (epoch + goal) + (last_time - goal) = epoch + last_time
  BY SMT DEF TypeOK
<1>2. UNCHANGED (epoch + last_time)
  BY Zenon, <1>1 DEF EndFrame
<1>3. UNCHANGED <<frame_delay, frame, five_step, inhibit, irq_flag, pal_mode, tempo>>
  BY Zenon DEF EndFrame, modeVars
<1> QED
  BY Zenon, <1>2, <1>3 DEF ConsoleStep, Console!vars

(* The frame loop's last step lets time pass up to the goal.               *)
LEMMA DoneIsPass ==
  ASSUME TypeOK, TimeInv, epoch \in Int, FramesDone, epoch' = epoch
  PROVE  ConsoleStep
<1>1. /\ epoch + last_time < epoch + goal
      /\ epoch + goal <= epoch + last_time + frame_delay
      /\ epoch + goal \in (epoch + last_time) .. (epoch + last_time + frame_delay)
  BY SMT DEF TypeOK, TimeInv, FramesDone
<1>2. epoch + goal + (frame_delay - (goal - last_time)) = epoch + last_time + frame_delay
  BY SMT DEF TypeOK
<1>3. /\ (epoch + last_time)' = epoch + goal
      /\ UNCHANGED (epoch + last_time + frame_delay)
  BY Zenon, <1>2 DEF FramesDone
<1>4. UNCHANGED <<frame, five_step, inhibit, irq_flag, pal_mode, tempo>>
  BY Zenon DEF FramesDone, modeVars
<1>5. Console!Pass(epoch + goal)
  BY Zenon, <1>1, <1>3, <1>4 DEF Console!Pass
<1> QED
  BY Zenon, <1>1, <1>5 DEF ConsoleStep, Console!Next

(* An iteration of the frame loop is an event.                             *)
LEMMA FrameEventIsEvent ==
  ASSUME TypeOK, epoch \in Int, FrameEvent, epoch' = epoch
  PROVE  ConsoleStep
<1>1. DelayAfter(frame) = Console!Distance(frame) /\ DelayAfter(frame) \in Int
  BY SMT, PeriodBound DEF TypeOK, DelayAfter, Console!Distance, Console!period,
     frame_period
<1>2. (IF frame = 3 THEN 0 ELSE frame + 1) = (frame + 1) % 4
  BY SMT DEF TypeOK
<1>3. epoch + (last_time + frame_delay) = epoch + last_time + frame_delay
  BY SMT DEF TypeOK
<1>4. /\ (epoch + last_time)' = epoch + last_time + frame_delay
      /\ (epoch + last_time + frame_delay)'
           = epoch + last_time + frame_delay + Console!Distance(frame)
      /\ frame' = (frame + 1) % 4
  BY Zenon, <1>1, <1>2, <1>3 DEF FrameEvent
<1>5. /\ irq_flag' = (irq_flag \/ (frame = 0 /\ ~five_step /\ ~inhibit))
      /\ UNCHANGED <<five_step, inhibit, pal_mode, tempo>>
  BY Zenon DEF FrameEvent, FrameIrqEnabled, modeVars
<1>6. Console!Event
  BY Zenon, <1>4, <1>5 DEF Console!Event
<1> QED
  BY Zenon, <1>6 DEF ConsoleStep, Console!Next

(* A read of $4015 acknowledges the interrupt.                             *)
LEMMA StatusIsAcknowledge ==
  ASSUME ReadStatusReturns, epoch' = epoch
  PROVE  ConsoleStep
<1>1. Console!Acknowledge
  BY Zenon DEF Console!Acknowledge, ReadStatusReturns, timeVars, modeVars
<1> QED
  BY Zenon, <1>1 DEF ConsoleStep, Console!Next

(* A write to $4017 selects the mode and restarts the sequencer: the low   *)
(* bit of the delay to an event at an odd clock is the low bit of the      *)
(* distance to the next odd clock.                                         *)
LEMMA WriteIsSelect ==
  ASSUME TypeOK, OddInv, NEW write \in CpuWrites, WriteFrameMode(write),
         epoch' = epoch
  PROVE  ConsoleStep
<1>1. write.five \in BOOLEAN /\ write.inhibit \in BOOLEAN
  BY SMT, ClientAssumption DEF ClientAssumption, WriteFrameMode, WriteReturns, Writes
<1> DEFINE clock == epoch + last_time
           odd   == Console!NextOdd(clock)
<1>2. /\ clock \in Int /\ frame_delay \in Int /\ (clock + frame_delay) % 2 = 1
      /\ frame_period \in Int /\ frame_period % 2 = 0
  BY SMT, PeriodBound DEF TypeOK, OddInv, EventsAtOddClocks
<1>3. frame_delay % 2 = 1 - (clock % 2)
  <2> HIDE DEF clock
  <2> QED
    BY Zenon, <1>2, OddRest
<1>4. /\ clock + (frame_delay % 2) = odd + 0
      /\ clock + ((frame_delay % 2) + frame_period) = odd + frame_period
  <2> HIDE DEF clock
  <2> QED
    BY SMT, <1>2, <1>3 DEF Console!NextOdd
<1>5. /\ last_time' = last_time
      /\ frame_delay' = IF write.five THEN frame_delay % 2
                        ELSE (frame_delay % 2) + frame_period
      /\ frame' = IF write.five THEN 0 ELSE 1
      /\ five_step' = write.five /\ inhibit' = write.inhibit
      /\ irq_flag' = (irq_flag /\ ~write.inhibit)
      /\ UNCHANGED <<pal_mode, tempo>>
  BY Zenon DEF WriteFrameMode, WriteReturns, timeVars, modeVars
<1>6. (epoch + last_time + frame_delay)'
        = odd + (IF write.five THEN 0 ELSE Console!period)
  BY Zenon, <1>4, <1>5 DEF Console!period, frame_period
<1>7. Console!Select(write.five, write.inhibit)
  BY Zenon, <1>5, <1>6 DEF Console!Select
<1> QED
  BY Zenon, <1>1, <1>7 DEF ConsoleStep, Console!Next

LEMMA ResetIsPowerOn ==
  ASSUME TypeOK, NEW pal \in PalModes, Reset(pal), epoch' = 0
  PROVE  ConsoleStep
<1>1. PICK period \in Int : period = frame_period'
  <2>1. tempo' \in Tempos /\ pal_mode' \in BOOLEAN
    BY SMT, ClientAssumption DEF TypeOK, ClientAssumption, Reset
  <2> QED
    BY SMT, <2>1, PeriodFacts DEF frame_period
<1>2. 0 + 0 = 0 /\ 0 + 0 + (period + 1) = (0 + (1 - (0 % 2))) + period
  BY SMT
<1>3. /\ last_time' = 0 /\ frame_delay' = period + 1 /\ frame' = 1
      /\ five_step' = FALSE /\ inhibit' = FALSE /\ irq_flag' = FALSE
      /\ pal_mode' = pal /\ tempo' = tempo
  BY Zenon, <1>1 DEF Reset
<1>4. Console!period' = period
  BY Zenon, <1>1 DEF Console!period, frame_period
<1>5. (epoch + last_time)' = 0
  BY Zenon, <1>2, <1>3
<1>6. (epoch + last_time + frame_delay)' = (0 + (1 - (0 % 2))) + period
  BY Zenon, <1>2, <1>3
<1>7. Console!NextOdd(epoch + last_time)' = 0 + (1 - (0 % 2))
  BY Zenon, <1>5 DEF Console!NextOdd
<1>8. Console!PowerOn(pal)
  BY Zenon, <1>3, <1>4, <1>5, <1>6, <1>7 DEF Console!PowerOn
<1> QED
  BY Zenon, <1>8 DEF ConsoleStep, Console!Next

LEMMA TempoIsRetime ==
  ASSUME NEW t \in Tempos, SetTempo(t), epoch' = epoch
  PROVE  ConsoleStep
<1>1. Console!Retime(t)
  BY Zenon DEF Console!Retime, SetTempo, timeVars, frameVars
<1> QED
  BY Zenon, <1>1 DEF ConsoleStep, Console!Next

LEMMA StepRefines ==
  ASSUME TypeOK, TimeInv, OddInv, [EpochNext]_epochVars
  PROVE  ConsoleStep
<1>1. epoch \in Int
  BY Zenon DEF OddInv
<1>2. CASE UNCHANGED epochVars
  BY Zenon, <1>2, Stutter DEF epochVars, vars, timeVars, frameVars, modeVars
<1>3. CASE (\E pal \in PalModes : Reset(pal)) /\ epoch' = 0
  BY Zenon, <1>3, ResetIsPowerOn
<1>4. CASE EndFrame /\ epoch' = epoch + goal
  BY Zenon, <1>1, <1>4, RebaseIsStutter
<1>5. CASE epoch' = epoch /\ (Calls \/ Settings \/ Running \/ Returns)
  <2>1. CASE Calls \/ Settings
    BY Zenon, <1>5, <2>1, StutterCalls, TempoIsRetime DEF Settings
  <2>2. CASE Running
    BY Zenon, <1>1, <1>5, <2>2, StutterCalls, FrameEventIsEvent, DoneIsPass
       DEF Running
  <2>3. CASE Returns
    BY Zenon, <1>5, <2>3, StutterReturns, StatusIsAcknowledge, WriteIsSelect
       DEF Restart
  <2> QED
    BY Zenon, <1>5, <2>1, <2>2, <2>3
<1> QED
  BY Zenon, <1>2, <1>3, <1>4, <1>5 DEF EpochNext

LEMMA InitRefines == EpochInit => Console!Init
<1> SUFFICES ASSUME EpochInit PROVE Console!Init
  OBVIOUS
<1>1. frame_period \in Int
  BY SMT, TypeInit, PeriodBound DEF EpochInit
<1>2. 0 + 0 = 0 /\ 0 + 0 + (frame_period + 1) = (0 + (1 - (0 % 2))) + frame_period
  BY SMT, <1>1
<1>3. epoch + last_time = 0
  BY Zenon, <1>2 DEF EpochInit, Init
<1>4. epoch + last_time + frame_delay = (0 + (1 - (0 % 2))) + Console!period
  BY Zenon, <1>2 DEF EpochInit, Init, Console!period, frame_period
<1>5. Console!NextOdd(epoch + last_time) = 0 + (1 - (0 % 2))
  BY Zenon, <1>3 DEF Console!NextOdd
<1> QED
  BY Zenon, <1>3, <1>4, <1>5 DEF EpochInit, Init, Console!Init

(* However the client cuts time into calls and time frames, the sequencer  *)
(* is the one of FrameSequencer: events, flag and restarts come at the     *)
(* clocks of a machine that knows of neither.                              *)
THEOREM FramesAreInvisible ==
  ASSUME StatusGap >= 1
  PROVE  EpochSpec => FramesHaveNoEffect
<1>1. TypeOK /\ TimeInv /\ OddInv /\ [EpochNext]_epochVars
        => (TypeOK /\ TimeInv /\ OddInv)'
  BY Zenon, EpochInvStep
<1>2. TypeOK /\ TimeInv /\ OddInv /\ [EpochNext]_epochVars
        => [Console!Next]_(Console!vars)
  BY Zenon, StepRefines DEF ConsoleStep
<1> QED
  BY <1>1, <1>2, EpochInvInit, InitRefines, PTL
     DEF EpochSpec, FramesHaveNoEffect, Console!Spec
=============================================================================
