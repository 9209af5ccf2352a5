------------------------------ MODULE Mmc5Oscs ------------------------------
(***************************************************************************)
(* A square and the PCM channel of the MMC5 (Nes_Mmc5_Apu.cpp).  The       *)
(* squares are those of NesOscs without a sweep; the chip itself splits a  *)
(* run at the events of a frame sequencer of its own.  The PCM channel     *)
(* changes its output when it is written to, and has an interrupt.         *)
(***************************************************************************)
EXTENDS NesOscs

CONSTANTS
  mmc5_frame_period, \* 7458 if the tempo is 1.0
  DacLoads           \* bound: what is written to $5011

ASSUME Mmc5Assumption ==
  mmc5_frame_period \in Nat \ {0} /\ DacLoads \subseteq 0 .. low_range - 1

Mmc5Kinds == {"mmc5_square", "mmc5_pcm"}

-----------------------------------------------------------------------------
(* The squares.                                                            *)

(* Slip: last_time not moved on to the event.                              *)
JoinedAgain(s, run, t) ==
  [osc |-> run.osc, at |-> s.at, marks |-> s.marks \/ run.marks,
   deltas |-> [u \in DOMAIN s.deltas |->
                 s.deltas[u] + IF u \in s.at .. t THEN run.deltas[u - s.at] ELSE 0]]

(* The square's run until the clock t added to those before it.            *)
Joined(s, run, t) ==
  [osc |-> run.osc, at |-> t, marks |-> s.marks \/ run.marks,
   deltas |-> [u \in DOMAIN s.deltas |->
                 s.deltas[u] + IF u \in s.at .. t THEN run.deltas[u - s.at] ELSE 0]]

RunTo(s, t) == Joined(s, RunSquare(s.osc, t - s.at), t)

Mmc5RunEnd(s, n) ==
  [osc |-> [s.osc EXCEPT !.frame_delay = DelayAfter(@, mmc5_frame_period, n)],
   deltas |-> s.deltas, marks |-> s.marks]

(* run_until_: the square is run to each event before the end, which       *)
(* clocks it, and then to the end.                                         *)
RunMmc5Square(o, n) ==
  LET events == Count(o.frame_delay, mmc5_frame_period, n)
      first == [osc |-> o, at |-> 0, marks |-> FALSE, deltas |-> Silence(n)]
      after[k \in 0 .. events] ==
        IF k = 0 THEN first
        ELSE [RunTo(after[k - 1], o.frame_delay + (k - 1) * mmc5_frame_period)
                EXCEPT !.osc = clock_envelope(clock_length(@))]
  IN  IF n = 0 THEN Unheard(o, n) ELSE Mmc5RunEnd(RunTo(after[events], n), n)

(* Nothing ever sets regs [1], which holds what the memory held before.    *)
ResetMmc5Square(sweep, output) ==
  [kind |-> "mmc5_square", output |-> output, delay |-> 0, last_amp |-> 0,
   phase |-> phase_range - 1, period |-> 0, length_counter |-> 0, control |-> ResetControl,
   written3 |-> TRUE, envelope |-> 0, env_delay |-> 0, sweep |-> sweep,
   frame_delay |-> 1, enabled |-> FALSE]

WriteMmc5Square ==
  \/ \E c \in Controls : Write([osc EXCEPT !.control = c])
  \/ \E p \in Periods :
       p \div low_range = osc.period \div low_range /\ Write([osc EXCEPT !.period = p])
  \/ \E p \in Periods, length \in LengthLoads :
       /\ p % low_range = osc.period % low_range
       /\ Write([osc EXCEPT !.period = p, !.written3 = TRUE, !.phase = phase_range - 1,
                            !.length_counter = IF osc.enabled THEN length ELSE @])
  \/ \E on \in BOOLEAN :
       Write([osc EXCEPT !.enabled = on, !.length_counter = IF on THEN @ ELSE 0])

-----------------------------------------------------------------------------
(* The PCM channel.  line is what irq_notifier was last called with, and   *)
(* dropped says that reset has cleared the flag since.                     *)

(* Slip: the notifier called only when the flag is raised.                 *)
update_irq_raised(o, flag) ==
  [o EXCEPT !.irq_flag = flag,
            !.line = IF flag # o.irq_flag /\ flag THEN TRUE ELSE @,
            !.dropped = @ /\ flag = o.irq_flag]

update_irq(o, flag) ==
  [o EXCEPT !.irq_flag = flag,
            !.line = IF flag # o.irq_flag THEN flag ELSE @,
            !.dropped = @ /\ flag = o.irq_flag]

(* write_dac: a 0 raises the interrupt instead, if it is enabled.          *)
WriteDac(data) ==
  LET level == data * 16
  IN  IF data = 0 THEN Write(update_irq(osc, osc.irq_enabled))
      ELSE /\ osc' = [osc EXCEPT !.last_amp = level]
           /\ modified' = (modified \/ (osc.output /\ level # osc.last_amp))
           /\ UNCHANGED nonlinear

(* $5010; in read mode writes to the DAC are ignored.                      *)
WritePcmMode ==
  \E read_mode, irq_enabled \in BOOLEAN :
    Write([osc EXCEPT !.read_mode = read_mode, !.irq_enabled = irq_enabled])

read_irq_status == Write(update_irq(osc, FALSE))

(* The last of reset's writes is 0xFF to the DAC.                          *)
ResetPcm(line, output) ==
  [kind |-> "mmc5_pcm", output |-> output, delay |-> 0, last_amp |-> (low_range - 1) * 16,
   irq_flag |-> FALSE, irq_enabled |-> FALSE, read_mode |-> FALSE,
   line |-> line, dropped |-> line]

PcmReset ==
  /\ osc' = ResetPcm(osc.line, osc.output)
  /\ modified' = (modified \/ osc.output)
  /\ UNCHANGED nonlinear

PcmCalls ==
  /\ osc.kind = "mmc5_pcm"
  /\ \/ ~osc.read_mode /\ \E data \in DacLoads : WriteDac(data)
     \/ WritePcmMode \/ read_irq_status \/ PcmReset
-----------------------------------------------------------------------------
Mmc5Run(o, n) == IF o.kind = "mmc5_pcm" THEN Unheard(o, n) ELSE RunMmc5Square(o, n)

Mmc5Init ==
  /\ \/ "mmc5_square" \in Kinds /\ \E sweep \in Sweeps : osc = ResetMmc5Square(sweep, FALSE)
     \/ "mmc5_pcm" \in Kinds /\ osc = ResetPcm(FALSE, FALSE)
  /\ nonlinear = FALSE /\ modified = FALSE

Mmc5Calls ==
  \/ PcmCalls
  \/ osc.kind = "mmc5_square"
     /\ (WriteMmc5Square \/ Write(ResetMmc5Square(osc.sweep, osc.output)))
  \/ osc.kind \in Mmc5Kinds /\ EndOfFrame
=============================================================================
