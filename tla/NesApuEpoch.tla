---------------------------- MODULE NesApuEpoch -----------------------------
(***************************************************************************)
(* NesApu with the console's absolute clock: epoch is the length of all    *)
(* the time frames that end_frame has ended since the last reset, so       *)
(* epoch + last_time is how long the chip has been running.  Nothing in    *)
(* the code holds it; it relates the code's relative times to the          *)
(* sequencer that FrameSequencer specifies.                                *)
(***************************************************************************)
EXTENDS NesApu

CONSTANT MaxEpoch   \* bound: no time frame is ended later than this

VARIABLE epoch

epochVars == <<vars, epoch>>

EpochInit == Init /\ epoch = 0

EpochNext ==
  \/ /\ \E pal \in PalModes : Reset(pal)
     /\ epoch' = 0
  \/ /\ EndFrame
     /\ epoch' = epoch + goal
  \/ /\ Calls \/ Settings \/ Running \/ Returns
     /\ op' = "end_frame" => epoch + goal' <= MaxEpoch
     /\ epoch' = epoch

(* As in NesApu, a call that has begun is executed.                        *)
EpochSpec ==
  EpochInit /\ [][EpochNext]_epochVars /\ WF_epochVars(pc # "idle" /\ EpochNext)

-----------------------------------------------------------------------------
Console ==
  INSTANCE FrameSequencer
    WITH now <- epoch + last_time, event <- epoch + last_time + frame_delay,
         step <- frame, five <- five_step, flag <- irq_flag, pal <- pal_mode

(* Time frames have no effect on the sequencer (Nes_Apu.h:36-37): however  *)
(* the client cuts the run into calls and time frames, events, flag and    *)
(* restarts come at the clocks of a sequencer that knows of neither.       *)
FramesHaveNoEffect == Console!Spec

(* Sequencer events fall on odd clocks, through every restart, short time  *)
(* frame and change of tempo: what lets $4017 take the low bit of the      *)
(* relative frame_delay for that of the clock.                             *)
EventsAtOddClocks == (epoch + (last_time + frame_delay)) % 2 = 1
=============================================================================
