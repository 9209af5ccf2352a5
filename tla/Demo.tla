-------------------------------- MODULE Demo --------------------------------
(***************************************************************************)
(* The demo program (demo/demo.cpp) when it writes to a file: a time frame *)
(* of the tune is played on a SimpleApu, the samples it gave are read and  *)
(* handed to a WaveWriter, until the tune is over and the writer is        *)
(* destroyed.  Which registers the tune writes in a time frame, and        *)
(* whether there is another one, is left open; it has no more than         *)
(* MaxFrames.                                                              *)
(***************************************************************************)
EXTENDS SimpleApu, WaveWriter

CONSTANTS
  MaxAccesses,  \* register accesses in a time frame
  MaxFrames,    \* bound: time frames of the tune
  out_size      \* samples main has room for

(* The tune's accesses are over before its shortest time frame is, ...     *)
ASSUME TuneAssumption ==
  /\ MaxAccesses \in Nat /\ MaxFrames \in Nat
  /\ MaxAccesses * AccessTime <= first_frame_length

(* ... and a time frame gives no more samples than main has room for.      *)
ASSUME OutAssumption ==
  /\ out_size \in Nat \ {0} /\ out_size < buffer_size_
  /\ (first_frame_length + 1) * factor_ <= out_size * Unit

VARIABLES
  main,      \* where main is
  accesses,  \* register accesses in this time frame
  frames,    \* time frames that have ended
  clocks     \* what the chip has run in them: for the properties only

demoVars == <<simpleVars, writerVars, main, accesses, frames, clocks>>

DemoInit ==
  /\ SimpleInit /\ WriterInit
  /\ main = "sample_rate" /\ accesses = 0 /\ frames = 0 /\ clocks = 0

(* There may be no memory for the buffer.                                  *)
SetSampleRate ==
  /\ main = "sample_rate"
  /\ sample_rate
  /\ main' \in {"emulate_frame", "return"}
  /\ UNCHANGED <<writerVars, accesses, frames, clocks>>

(* emulate_frame.                                                          *)
Access ==
  /\ main = "emulate_frame"
  /\ accesses < MaxAccesses /\ frames < MaxFrames
  /\ write_register \/ read_status
  /\ accesses' = accesses + 1
  /\ UNCHANGED <<writerVars, main, frames, clocks>>

TuneEnds ==
  /\ main = "emulate_frame" /\ pc = "idle"
  /\ main' = "return"
  /\ UNCHANGED <<simpleVars, writerVars, accesses, frames, clocks>>

EndsFrame ==
  /\ main = "emulate_frame"
  /\ frames < MaxFrames
  /\ CallSimpleEndFrame
  /\ main' = "end_frame"
  /\ UNCHANGED <<writerVars, accesses, frames, clocks>>

EmulatesFrame ==
  /\ ChipRuns
  /\ UNCHANGED <<writerVars, main, accesses, frames, clocks>>

FrameEnded ==
  /\ SimpleEndFrame
  /\ main' = "read_samples"
  /\ accesses' = 0
  /\ frames' = frames + 1 /\ clocks' = clocks + goal
  /\ UNCHANGED writerVars

(* The samples that are read are written.                                  *)
ReadsAndWrites ==
  /\ main = "read_samples"
  /\ ReadSamples(out_size)
  /\ Write(Readable(out_size))
  /\ main' = "write"
  /\ UNCHANGED <<accesses, frames, clocks>>

WritesSamples ==
  /\ WriterRuns
  /\ main' = IF wpc' = "idle" THEN "emulate_frame" ELSE main
  /\ UNCHANGED <<simpleVars, accesses, frames, clocks>>

Ends ==
  /\ main = "return"
  /\ Destroy
  /\ main' = "destroying"
  /\ UNCHANGED <<simpleVars, accesses, frames, clocks>>

DemoNext ==
  \/ SetSampleRate \/ Access \/ TuneEnds \/ EndsFrame \/ EmulatesFrame
  \/ FrameEnded \/ ReadsAndWrites \/ WritesSamples \/ Ends

(* The program is sequential, and goes on while it can.                    *)
DemoSpec == DemoInit /\ [][DemoNext]_demoVars /\ WF_demoVars(DemoNext)

-----------------------------------------------------------------------------
(* Properties.                                                             *)

(* The assertions of the chip, of the buffer and of the writer hold for    *)
(* any tune: the accesses' clock is never behind the chip, whatever        *)
(* happened at the end of the time frame before, and the buffer always has *)
(* room for one more.                                                      *)
DemoAsserts ==
  /\ AssertsHold
  /\ main = "emulate_frame" /\ accesses < MaxAccesses => ClockNotBehind
  /\ RoomInBuffer
  /\ buf_pos <= buf_size

(* The samples written are those of the time that has been emulated, to    *)
(* the sample: nothing of the odd clocks of the time frames and of the     *)
(* fractions of samples is lost from one time frame to the next.           *)
SamplesOnTime ==
  main = "emulate_frame" => sample_count_ = (clocks * factor_) \div Unit

(* The program ends, and leaves a closed file or has said why not.         *)
RecordingEnds == <>(wpc \in {"closed", "exited"})
=============================================================================
