---------------------------- MODULE PlaybackFifo ----------------------------
(***************************************************************************)
(* What a playback queue promises: the samples of one stream, the n-th of  *)
(* which is represented by n, come out in blocks, in the order in which    *)
(* they went in, each once, until the queue is closed; and a block that is *)
(* there comes out.  SoundQueue implements it with a ring of buffers and a *)
(* semaphore.                                                              *)
(***************************************************************************)
EXTENDS Naturals, Sequences

CONSTANTS
  Block,    \* samples taken at once
  Capacity  \* samples the queue holds

VARIABLES
  open,
  accepted, \* how many samples of the stream have gone in
  queue     \* those that have not come out

vars == <<open, accepted, queue>>

Init == open = TRUE /\ accepted = 0 /\ queue = <<>>

Put ==
  /\ open
  /\ Len(queue) < Capacity
  /\ accepted' = accepted + 1
  /\ queue' = Append(queue, accepted + 1)
  /\ UNCHANGED open

Take ==
  /\ open
  /\ Len(queue) >= Block
  /\ queue' = SubSeq(queue, Block + 1, Len(queue))
  /\ UNCHANGED <<open, accepted>>

Close == open /\ open' = FALSE /\ queue' = <<>> /\ UNCHANGED accepted

Next == Put \/ Take \/ Close

Spec == Init /\ [][Next]_vars /\ WF_vars(Take)
=============================================================================
