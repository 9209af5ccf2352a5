----------------------------- MODULE SimpleApu -----------------------------
(***************************************************************************)
(* Simple_Apu (demo/Simple_Apu.cpp): the chip of NesApu and a Blip_Buffer  *)
(* behind an interface without clocks.  Every register access is taken to  *)
(* be 4 clocks after the one before it in its time frame, and time frames  *)
(* are frame_length clocks, by turns odd and even.  What the chip adds to  *)
(* the buffer is left out, but not when: see StereoBuffer for the rest.    *)
(*                                                                         *)
(* A definition introduced by "Slip" is not part of the model: it is what  *)
(* a plausible mistake in the code would make of the definition after it.  *)
(***************************************************************************)
EXTENDS NesApu, BlipBuffer

CONSTANTS
  first_frame_length,  \* what the constructor sets frame_length to
  AccessTime           \* the clocks from one access to the next

ASSUME SimpleApuAssumption ==
  /\ first_frame_length \in Nat \ {0} /\ first_frame_length % 2 = 0
  /\ first_frame_length + 1 <= max_time
  /\ AccessTime \in Nat \ {0}

VARIABLES
  buf,
  time,          \* the clock of the last access in this time frame
  frame_length   \* of the last time frame

simpleVars == <<vars, buf, time, frame_length>>

SimpleInit ==
  /\ Init
  /\ buf = Cleared
  /\ time = 0 /\ frame_length = first_frame_length

(* The chip is given its output before the buffer is given its memory.     *)
sample_rate ==
  /\ SetDmcOutput(TRUE)
  /\ buf' = Cleared
  /\ UNCHANGED <<time, frame_length>>

clock == time + AccessTime

write_register ==
  /\ CallWrite(clock)
  /\ time' = clock
  /\ UNCHANGED <<buf, frame_length>>

read_status ==
  /\ CallReadStatus(clock)
  /\ time' = clock
  /\ UNCHANGED <<buf, frame_length>>

(* In C++, frame_length ^= 1.                                              *)
OtherLength == IF frame_length % 2 = 0 THEN frame_length + 1 ELSE frame_length - 1

(* Slips: the clock of the accesses goes on, and frame_length is changed   *)
(* when the chip has already used it.                                      *)
CallEndFrameTimeKept ==
  /\ frame_length' = OtherLength
  /\ CallEndFrame(frame_length')
  /\ time' = time
  /\ UNCHANGED buf

CallEndFrameTooLate ==
  /\ frame_length' = OtherLength
  /\ CallEndFrame(frame_length)
  /\ time' = 0
  /\ UNCHANGED buf

CallSimpleEndFrame ==
  /\ time' = 0
  /\ frame_length' = OtherLength
  /\ CallEndFrame(frame_length')
  /\ UNCHANGED buf

(* The rest of end_frame, when the chip has been run.                      *)
SimpleEndFrame ==
  /\ EndFrame
  /\ buf' = end_frame(buf, frame_length)
  /\ UNCHANGED <<time, frame_length>>

(* The chip at work on the call that has been made.                        *)
ChipRuns ==
  /\ Running \/ Returns
  /\ UNCHANGED <<buf, time, frame_length>>

(* Blip_Buffer::read_samples.                                              *)
Readable(max_samples) ==
  IF samples_avail(buf) > max_samples THEN max_samples ELSE samples_avail(buf)

ReadSamples(max_samples) ==
  /\ pc = "idle"
  /\ buf' = remove_samples(buf, Readable(max_samples))
  /\ UNCHANGED <<vars, time, frame_length>>

(* What the assertions on this side of the interface ask for: no access    *)
(* before the time the chip has been run to, and no delta and no end of a  *)
(* time frame after the end of the buffer.                                 *)
ClockNotBehind == pc = "idle" => clock > last_time

RoomInBuffer ==
  /\ pc # "idle" /\ goal > last_time => InBounds(buf, goal - 1)
  /\ samples_avail(buf) <= buffer_size_
=============================================================================
