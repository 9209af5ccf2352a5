---------------------------- MODULE StereoBuffer ----------------------------
(***************************************************************************)
(* Stereo_Buffer and its Stereo_Mixer (Multi_Buffer.cpp) over three        *)
(* Tracked_Blip_Buffers, driven by a client that adds deltas during a time *)
(* frame, ends the frame and reads samples in any number.                  *)
(***************************************************************************)
EXTENDS BlipBuffer

CONSTANTS
  Times,        \* the clocks at which a delta is added or a frame ends
  MaxNow,       \* bound: fixed-point time that passes before clear
  ReadInFrame   \* samples are read while a frame is being filled, too

ASSUME StereoAssumption ==
  /\ Times \subseteq Nat /\ MaxNow \in Nat /\ ReadInFrame \in BOOLEAN
  /\ \A t \in Times : t * factor_ + (buffer_size_ + 1) * Unit <= Word

VARIABLES
  bufs,              \* the three buffers
  samples_read,      \* mixed, but not yet removed from them
  immediate_removal,
  frame_time,        \* the latest time used in this frame
  now,               \* fixed-point time of the frames that have ended
  read,              \* pairs read
  due,               \* the sounds not yet heard
  heard              \* what the last step, if it read, gave

vars == <<bufs, samples_read, immediate_removal, frame_time, now, read, due, heard>>

Left == 0
Right == 1
Center == 2
Channels == {Left, Right, Center}

Init ==
  /\ bufs = [c \in Channels |-> Cleared]
  /\ samples_read = 0 /\ immediate_removal = TRUE
  /\ frame_time = 0 /\ now = 0 /\ read = 0 /\ due = {} /\ heard = {}

DisableImmediateRemoval ==
  /\ immediate_removal' = FALSE
  /\ heard' = {}
  /\ UNCHANGED <<bufs, samples_read, frame_time, now, read, due>>

Restart ==
  /\ samples_read' = 0
  /\ frame_time' = 0 /\ now' = 0 /\ read' = 0 /\ due' = {} /\ heard' = {}
  /\ UNCHANGED immediate_removal

Clear ==
  /\ bufs' = [c \in Channels |-> Cleared]
  /\ Restart

(* set_sample_rate of a Blip_Buffer clears it, but knows nothing of        *)
(* last_non_silence.                                                       *)
SetSampleRate ==
  /\ bufs' = [c \in Channels |->
                [Cleared EXCEPT !.last_non_silence = bufs[c].last_non_silence]]
  /\ Restart

(* An oscillator adds a delta.                                             *)
AddDelta(c, t) ==
  LET first == (now + t * factor_) \div Unit
  IN  /\ t >= frame_time /\ InBounds(bufs[c], t)
      /\ bufs' = [bufs EXCEPT ![c] = Offset(@, t, first)]
      /\ due' = due \cup [channel : {c}, at : first .. first + Quality - 1]
      /\ frame_time' = t
      /\ heard' = {}
      /\ UNCHANGED <<samples_read, immediate_removal, now, read>>

EndFrame(t) ==
  /\ t >= frame_time /\ t > 0
  /\ \A c \in Channels : to_fixed(bufs[c], t) \div Unit <= buffer_size_
  /\ now + t * factor_ <= MaxNow
  /\ bufs' = [c \in Channels |-> end_frame(bufs[c], t)]
  /\ now' = now + t * factor_
  /\ frame_time' = 0 /\ heard' = {}
  /\ UNCHANGED <<samples_read, immediate_removal, read, due>>

-----------------------------------------------------------------------------
PairsAvail == samples_avail(bufs[Left]) - samples_read

Mono == ~non_silent(bufs[Left]) /\ ~non_silent(bufs[Right])

Mixed == IF Mono THEN {Center} ELSE Channels

(* Slip: the index not moved on by what earlier reads have mixed.          *)
MixedCellsFirst(n) == 0 .. n - 1

MixedCells(n) == samples_read .. samples_read + n - 1

(* The integrator of a buffer that is mixed may end anywhere, unless all   *)
(* that went into it was silence; the others keep theirs.                  *)
Settling(c, n) ==
  IF c \notin Mixed THEN {bufs[c].unsettled}
  ELSE IF bufs[c].unsettled \/ \E i \in MixedCells(n) : bufs[c].mem[i] # {} THEN BOOLEAN
  ELSE {FALSE}

(* Slip: as many samples removed as were mixed last.                       *)
RemovedLast(b, n) == IF non_silent(b) THEN remove_samples(b, n) ELSE remove_silence(b, n)

Removed(b, n) ==
  IF non_silent(b) THEN remove_samples(b, samples_read + n)
  ELSE remove_silence(b, samples_read + n)

(* read_pairs, and removal from all three buffers when the last pair has   *)
(* been read or always.                                                    *)
ReadSamples(n) ==
  LET removing == n = PairsAvail \/ immediate_removal
  IN  /\ n <= PairsAvail
      /\ ReadInFrame \/ \A c \in Channels : ~bufs[c].modified
      /\ \E u \in [Channels -> BOOLEAN] :
           LET mixed == [c \in Channels |-> [bufs[c] EXCEPT !.unsettled = u[c]]]
           IN  /\ \A c \in Channels : u[c] \in Settling(c, n)
               /\ bufs' = IF removing THEN [c \in Channels |-> Removed(mixed[c], n)]
                          ELSE mixed
      /\ samples_read' = IF removing THEN 0 ELSE samples_read + n
      /\ read' = read + n
      /\ heard' = UNION {[channel : {c}, at : bufs[c].mem[i], heard_in : {read + i - samples_read}]
                           : c \in Mixed, i \in MixedCells(n)}
      /\ due' = {s \in due :
                   [channel |-> s.channel, at |-> s.at, heard_in |-> s.at] \notin heard'}
      /\ UNCHANGED <<immediate_removal, frame_time, now>>

-----------------------------------------------------------------------------
Next ==
  \/ DisableImmediateRemoval \/ Clear \/ SetSampleRate
  \/ \E t \in Times : EndFrame(t) \/ \E c \in Channels : AddDelta(c, t)
  \/ \E n \in 1 .. buffer_size_ : ReadSamples(n)

Spec == Init /\ [][Next]_vars

-----------------------------------------------------------------------------
(* Properties.                                                             *)

TypeOK ==
  /\ bufs \in [Channels ->
               [offset : 0 .. Word - 1, mem : [Cells -> SUBSET Nat], modified : BOOLEAN,
                unsettled : BOOLEAN, last_non_silence : Nat]]
  /\ samples_read \in 0 .. buffer_size_ /\ immediate_removal \in BOOLEAN
  /\ frame_time \in Nat /\ now \in Nat /\ read \in Nat
  /\ due \subseteq [channel : Channels, at : Nat]
  /\ heard \subseteq [channel : Channels, at : Nat, heard_in : Nat]

(* The sample for which a sound was added has not been read before the     *)
(* sound is heard: neither mono mixing nor the removal of silence drops or *)
(* delays one.                                                             *)
NothingLost == \A s \in due : s.at >= read

(* The stereo buffer is a stream, whichever of its two ways of mixing and  *)
(* of removing it takes for each buffer and each read.                     *)
Stream == INSTANCE SampleStream
SoundIsKept == Stream!Spec

(* The three buffers stay in step, though each is emptied in its own way:  *)
(* samples_avail asks only the left one.                                   *)
InStep ==
  /\ \A c \in Channels : bufs[c].offset = bufs[Left].offset
  /\ samples_read <= samples_avail(bufs[Left])
  /\ now = read * Unit + bufs[Left].offset - samples_read * Unit

FrameEmpty == \A c \in Channels : ~bufs[c].modified

(* non_silent says no only of a buffer whose memory is all 0: removing     *)
(* silence may leave it where it is.                                       *)
SilenceIsEmpty ==
  FrameEmpty =>
    \A c \in Channels : ~non_silent(bufs[c]) => \A i \in Cells : bufs[c].mem[i] = {}

(* What removal has to move is no more than it moves: behind the cells     *)
(* that a delta at the end of the last frame reaches, all is clear.        *)
BehindIsClear ==
  FrameEmpty =>
    \A c \in Channels : \A i \in Cells :
      i >= samples_avail(bufs[c]) + Quality => bufs[c].mem[i] = {}

(* count_clocks gives the shortest frame after which there are n samples.  *)
CountClocksIsLeast ==
  \A n \in samples_avail(bufs[Left]) + 1 .. buffer_size_ :
    LET t == count_clocks(bufs[Left], n)
    IN  count_samples(bufs[Left], t) >= n - samples_avail(bufs[Left])
        /\ count_samples(bufs[Left], t - 1) < n - samples_avail(bufs[Left])

-----------------------------------------------------------------------------
(* What the invariants rest on.                                            *)

(* The fixed-point position of the latest delta of the frame.              *)
Latest == bufs[Left].offset + frame_time * factor_

(* The sample of the stream that the first cell is for.                    *)
Base == read - samples_read

(* Frames end in the buffer, and so their times never wrap.                *)
RoomInv ==
  /\ Latest < (buffer_size_ + 1) * Unit
  /\ FrameEmpty => frame_time = 0

(* Only the cells that a delta could have reached by now are in use.       *)
ReachInv ==
  \A c \in Channels : \A i \in Cells :
    bufs[c].mem[i] # {} => i < (Latest \div Unit) + Quality

(* last_non_silence is behind all that earlier frames have left.           *)
SilentInv ==
  \A c \in Channels : \A i \in Cells :
    ~bufs[c].modified /\ bufs[c].mem[i] # {} => i < bufs[c].last_non_silence

(* A cell holds what is due in its sample and nothing else, except that    *)
(* the cells already mixed keep what was heard.                            *)
ContentInv ==
  /\ \A c \in Channels : \A i \in Cells :
       /\ bufs[c].mem[i] \subseteq {Base + i}
       /\ i >= samples_read =>
            (bufs[c].mem[i] # {} <=> [channel |-> c, at |-> Base + i] \in due)
  /\ \A s \in due : s.at >= read /\ s.at - Base \in Cells
=============================================================================
