----------------------------- MODULE SoundQueue -----------------------------
(***************************************************************************)
(* Sound_Queue (sound_queue/Sound_Queue.cpp): a ring of buf_count buffers  *)
(* that the program's thread fills in write and SDL's audio thread plays   *)
(* in fill_buffer.  The two share the buffers, free_sem and nothing else;  *)
(* each step below is what one thread does between two points at which the *)
(* other may run, and memcpy is one step per sample.                       *)
(*                                                                         *)
(* The n-th sample the program writes is represented by the number n.      *)
(*                                                                         *)
(* A definition introduced by "Slip" is not part of the model: it is what  *)
(* a plausible mistake in the code would make of the definition after it.  *)
(***************************************************************************)
EXTENDS Integers, Sequences

CONSTANTS
  buf_size,    \* samples in a buffer
  buf_count,   \* buffers
  Channels,    \* the chan_count given to init
  WriteSizes,  \* the counts write is called with
  MaxSamples   \* bound: the program writes no more samples than this

ASSUME QueueAssumption ==
  /\ buf_size \in Nat \ {0}
  /\ buf_count \in Nat /\ buf_count >= 2
  /\ Channels \in Nat \ {0}
  /\ WriteSizes \subseteq Nat /\ MaxSamples \in Nat

VARIABLES
  bufs,        \* the memory of the buffers, <<>> if there is none
  free_sem,    \* the semaphore's value, -1 if there is none
  sound_open,
  write_buf,   \* the buffer being filled
  write_pos,   \* samples in it
  read_buf,    \* the buffer played next
  pc,          \* where the program's thread is
  count,       \* samples still to be written by the current write
  written,     \* samples write has taken from the program
  device,      \* the state of SDL's audio device
  cb,          \* where the audio thread is in fill_buffer
  out,         \* what fill_buffer has copied so far
  played       \* samples whose buffer has been given back

mainVars  == <<bufs, sound_open, write_buf, write_pos, pc, count, written, device>>
audioVars == <<read_buf, cb, out, played>>
vars == <<mainVars, audioVars, free_sem>>

Buffers == 0 .. buf_count - 1
Positions == 0 .. buf_size - 1
NextBuffer(b) == (b + 1) % buf_count

Init ==
  /\ bufs = <<>> /\ free_sem = -1 /\ sound_open = FALSE
  /\ write_buf = 0 /\ write_pos = 0 /\ read_buf = 0
  /\ pc = "constructed" /\ count = 0 /\ written = 0
  /\ device = "closed"
  /\ cb = "idle" /\ out = <<>> /\ played = 0

-----------------------------------------------------------------------------
(* init.  A client that gets an error does not write.                      *)

AllocateBuffers ==
  /\ pc = "constructed"
  /\ bufs' = [b \in Buffers |-> [i \in Positions |-> 0]]
  /\ pc' = "create_semaphore"
  /\ UNCHANGED <<free_sem, sound_open, write_buf, write_pos, count, written,
                 device, audioVars>>

(* Slip: as many permits as buffers, though one is being written.          *)
CreateSemaphoreFull ==
  /\ pc = "create_semaphore"
  /\ \/ free_sem' = buf_count /\ pc' = "open_audio"
     \/ free_sem' = -1 /\ pc' = "unusable"
  /\ UNCHANGED <<bufs, sound_open, write_buf, write_pos, count, written,
                 device, audioVars>>

CreateSemaphore ==
  /\ pc = "create_semaphore"
  /\ \/ free_sem' = buf_count - 1 /\ pc' = "open_audio"
     \/ free_sem' = -1 /\ pc' = "unusable"
  /\ UNCHANGED <<bufs, sound_open, write_buf, write_pos, count, written,
                 device, audioVars>>

(* SDL opens the device paused.                                            *)
OpenAudio ==
  /\ pc = "open_audio"
  /\ \/ device' = "paused" /\ pc' = "unpause"
     \/ device' = "closed" /\ pc' = "unusable"
  /\ UNCHANGED <<bufs, free_sem, sound_open, write_buf, write_pos, count,
                 written, audioVars>>

Unpause ==
  /\ pc = "unpause"
  /\ device' = "playing" /\ pc' = "opened"
  /\ UNCHANGED <<bufs, free_sem, sound_open, write_buf, write_pos, count,
                 written, audioVars>>

(* Slip: sound_open left as the constructor set it.                        *)
InitReturnsClosed ==
  /\ pc = "opened"
  /\ sound_open' = FALSE /\ pc' = "idle"
  /\ UNCHANGED <<bufs, free_sem, write_buf, write_pos, count, written, device,
                 audioVars>>

InitReturns ==
  /\ pc = "opened"
  /\ sound_open' = TRUE /\ pc' = "idle"
  /\ UNCHANGED <<bufs, free_sem, write_buf, write_pos, count, written, device,
                 audioVars>>

-----------------------------------------------------------------------------
(* write.                                                                  *)

CallWrite(samples) ==
  /\ pc = "idle"
  /\ written + samples <= MaxSamples
  /\ count' = samples /\ pc' = "write"
  /\ UNCHANGED <<bufs, free_sem, sound_open, write_buf, write_pos, written,
                 device, audioVars>>

(* One sample of the memcpy, which stops at the end of the buffer.         *)
CopySample ==
  /\ pc = "write" /\ count > 0 /\ write_pos < buf_size
  /\ bufs' = [bufs EXCEPT ![write_buf][write_pos] = written + 1]
  /\ written' = written + 1
  /\ write_pos' = write_pos + 1
  /\ count' = count - 1
  /\ UNCHANGED <<free_sem, sound_open, write_buf, pc, device, audioVars>>

(* Slip: the next buffer not taken.                                        *)
BufferFullStays ==
  /\ pc = "write" /\ write_pos = buf_size
  /\ write_pos' = 0
  /\ pc' = "wait"
  /\ UNCHANGED <<bufs, free_sem, sound_open, write_buf, count, written, device,
                 audioVars>>

BufferFull ==
  /\ pc = "write" /\ write_pos = buf_size
  /\ write_pos' = 0
  /\ write_buf' = NextBuffer(write_buf)
  /\ pc' = "wait"
  /\ UNCHANGED <<bufs, free_sem, sound_open, count, written, device, audioVars>>

SemWait ==
  /\ pc = "wait" /\ free_sem > 0
  /\ free_sem' = free_sem - 1
  /\ pc' = "write"
  /\ UNCHANGED <<bufs, sound_open, write_buf, write_pos, count, written, device,
                 audioVars>>

WriteReturns ==
  /\ pc = "write" /\ count = 0 /\ write_pos < buf_size
  /\ pc' = "idle"
  /\ UNCHANGED <<bufs, free_sem, sound_open, write_buf, write_pos, count,
                 written, device, audioVars>>

(* Slip: the buffer being written counted as free.                         *)
sample_count_short ==
  buf_size * buf_count - ((free_sem + 1) * buf_size + (buf_size - write_pos))

sample_count ==
  LET buf_free == free_sem * buf_size + (buf_size - write_pos)
  IN  buf_size * buf_count - buf_free

-----------------------------------------------------------------------------
(* The destructor.  SDL_PauseAudio and SDL_CloseAudio wait for a callback  *)
(* that is running.                                                        *)

Destroy ==
  /\ pc \in {"constructed", "idle", "unusable"}
  /\ pc' = IF sound_open THEN "pause" ELSE "destroy_semaphore"
  /\ UNCHANGED <<bufs, free_sem, sound_open, write_buf, write_pos, count,
                 written, device, audioVars>>

Pause ==
  /\ pc = "pause" /\ cb = "idle"
  /\ device' = "paused" /\ pc' = "close_audio"
  /\ UNCHANGED <<bufs, free_sem, sound_open, write_buf, write_pos, count,
                 written, audioVars>>

CloseAudio ==
  /\ pc = "close_audio" /\ cb = "idle"
  /\ device' = "closed" /\ pc' = "destroy_semaphore"
  /\ UNCHANGED <<bufs, free_sem, sound_open, write_buf, write_pos, count,
                 written, audioVars>>

DestroySemaphore ==
  /\ pc = "destroy_semaphore"
  /\ free_sem' = -1 /\ pc' = "delete_buffers"
  /\ UNCHANGED <<bufs, sound_open, write_buf, write_pos, count, written, device,
                 audioVars>>

DeleteBuffers ==
  /\ pc = "delete_buffers"
  /\ bufs' = <<>> /\ pc' = "destroyed"
  /\ UNCHANGED <<free_sem, sound_open, write_buf, write_pos, count, written,
                 device, audioVars>>

-----------------------------------------------------------------------------
(* fill_buffer, which SDL calls from its own thread while the device       *)
(* plays.  With nothing to play it fills out with silence.                 *)

(* Slips: one buffer too few and one too many taken for playable.          *)
PlayableLate == free_sem < buf_count - 2
PlayableEarly == free_sem < buf_count

Playable == free_sem < buf_count - 1

Fetch ==
  /\ cb = "idle" /\ device = "playing"
  /\ Playable
  /\ cb' = "copy"
  /\ UNCHANGED <<mainVars, free_sem, read_buf, out, played>>

(* SDL asks for buf_size samples of each channel.  Behind the last buffer  *)
(* memcpy may find anything.                                               *)
Sample(b, i) == IF b \in Buffers THEN {bufs[b][i]} ELSE 0 .. MaxSamples

CopyOut ==
  /\ cb = "copy" /\ Len(out) < buf_size * Channels
  /\ \E sample \in Sample(read_buf + (Len(out) \div buf_size), Len(out) % buf_size) :
       out' = Append(out, sample)
  /\ UNCHANGED <<mainVars, free_sem, read_buf, cb, played>>

(* Slip: the permit not given back.                                        *)
AdvanceKeepsPermit ==
  /\ cb = "copy" /\ Len(out) = buf_size * Channels
  /\ read_buf' = NextBuffer(read_buf)
  /\ cb' = "idle"
  /\ out' = <<>>
  /\ UNCHANGED <<mainVars, free_sem, played>>

Advance ==
  /\ cb = "copy" /\ Len(out) = buf_size * Channels
  /\ read_buf' = NextBuffer(read_buf)
  /\ cb' = "post"
  /\ out' = <<>>
  /\ UNCHANGED <<mainVars, free_sem, played>>

SemPost ==
  /\ cb = "post"
  /\ free_sem' = free_sem + 1
  /\ played' = played + buf_size
  /\ cb' = "idle"
  /\ UNCHANGED <<mainVars, read_buf, out>>

-----------------------------------------------------------------------------
Opening == AllocateBuffers \/ CreateSemaphore \/ OpenAudio \/ Unpause \/ InitReturns
Writing == CopySample \/ BufferFull \/ SemWait \/ WriteReturns
Closing == Pause \/ CloseAudio \/ DestroySemaphore \/ DeleteBuffers
Callback == Fetch \/ CopyOut \/ Advance \/ SemPost

Next ==
  \/ Opening \/ Writing \/ Closing \/ Callback
  \/ \E samples \in WriteSizes : CallWrite(samples)
  \/ Destroy

(* A call the program has made is executed, and SDL keeps calling back     *)
(* while the device plays.  The program need not write or destroy.         *)
Spec == Init /\ [][Next]_vars /\ WF_vars(Writing \/ Closing) /\ WF_vars(Callback)

-----------------------------------------------------------------------------
(* Properties.                                                             *)

TypeOK ==
  /\ bufs = <<>> \/ bufs \in [Buffers -> [Positions -> Nat]]
  /\ free_sem \in -1 .. buf_count - 1 /\ sound_open \in BOOLEAN
  /\ write_buf \in Buffers /\ write_pos \in 0 .. buf_size /\ read_buf \in Buffers
  /\ pc \in {"constructed", "create_semaphore", "open_audio", "unpause", "opened",
             "idle", "write", "wait", "unusable", "pause", "close_audio",
             "destroy_semaphore", "delete_buffers", "destroyed"}
  /\ count \in Nat /\ written \in Nat /\ played \in Nat
  /\ device \in {"closed", "paused", "playing"}
  /\ cb \in {"idle", "copy", "post"}
  /\ out \in Seq(Nat)

(* The two threads never touch the same buffer: while the callback copies  *)
(* from one, write fills another.                                          *)
NoDataRace ==
  /\ pc = "write" /\ count > 0 /\ write_pos < buf_size
  /\ cb = "copy" /\ Len(out) < buf_size * Channels
  => write_buf # read_buf + (Len(out) \div buf_size)

(* What the callback hands to the device is the stream, in order and       *)
(* without gaps, whatever the interleaving and however long silence lasted *)
(* before.                                                                 *)
InOrder == cb = "copy" => out = [i \in 1 .. Len(out) |-> played + i]

(* The callback plays silence only if no complete buffer has been handed   *)
(* over: write has not filled one, or has not yet passed its SemWait.      *)
SilenceMeansEmpty ==
  cb = "idle" /\ device = "playing" /\ ~Playable
    => written - played < buf_size \/ pc = "wait" \/ (pc = "write" /\ write_pos = buf_size)

(* sample_count is what its comment says, the samples written and not yet  *)
(* played, though it reads the semaphore while the callback runs.          *)
SampleCountIsExact ==
  pc = "idle" /\ sound_open => sample_count = written - played

(* Nothing the callback uses is destroyed under it.                        *)
NothingFreedInUse ==
  cb # "idle" => bufs # <<>> /\ free_sem >= 0 /\ device = "playing"

(* Every write returns: whoever waits for a buffer gets one.               *)
WritesReturn == pc \in {"write", "wait"} ~> pc = "idle"

(* The ring is in use.                                                     *)
Opened == pc \in {"open_audio", "unpause", "opened", "idle", "write", "wait", "pause"}

(* The state in which the properties above are preserved.  The audio       *)
(* thread runs only while the program is between opening and pausing, ...  *)
PhaseInv ==
  /\ cb # "idle" \/ device = "playing" => pc \in {"opened", "idle", "write", "wait", "pause"}
  /\ cb # "idle" => free_sem < buf_count - 1 /\ device = "playing"
  /\ Opened => free_sem >= 0
  /\ pc \in {"idle", "write", "wait"} => sound_open
  /\ sound_open => pc \notin {"constructed", "create_semaphore", "open_audio", "unpause", "unusable"}
  /\ pc \in {"create_semaphore", "open_audio", "unpause", "opened", "idle", "write",
             "wait", "pause"} => bufs \in [Buffers -> [Positions -> Nat]]

(* ... and write_buf leads read_buf by the buffers that are complete, each *)
(* of which has a permit taken from the semaphore or about to be.          *)
Complete ==
  buf_count - 1 - free_sem
    + (IF pc = "wait" THEN 1 ELSE 0) - (IF cb = "post" THEN 1 ELSE 0)

HandedOver == buf_size * (buf_count - 1 - free_sem)

StartInv ==
  pc \in {"constructed", "create_semaphore"} =>
    write_buf = 0 /\ write_pos = 0 /\ read_buf = 0 /\ written = 0 /\ played = 0

Leads(w, r, n) == w - r \in {n, n - buf_count}

LeadInv == Opened => Leads(write_buf, read_buf, Complete)

InHand == write_pos + (IF pc = "wait" THEN buf_size ELSE 0)

Accounts(w, p, h, i) == w - p = h + i

AccountInv == Opened => Accounts(written, played, HandedOver, InHand)

RingInv ==
  /\ StartInv /\ LeadInv /\ AccountInv
  /\ pc # "write" => write_pos < buf_size

(* The samples in the ring from read_buf on, in the order of the ring: a   *)
(* buffer leaves it when read_buf passes it.                               *)
Pending ==
  LET taken == IF cb = "post" THEN buf_size ELSE 0
  IN  [i \in 1 .. written - played - taken |->
         bufs[(read_buf + ((i - 1) \div buf_size)) % buf_count][(i - 1) % buf_size]]

Fifo ==
  INSTANCE PlaybackFifo
    WITH Block <- buf_size, Capacity <- buf_size * buf_count,
         open <- pc # "destroyed", accepted <- written,
         queue <- IF pc = "destroyed" THEN <<>> ELSE Pending

(* The ring of buffers with its semaphore is a queue: the samples written  *)
(* leave it in blocks, in order, each once, and every complete block that  *)
(* is handed over is played unless the queue is destroyed first.           *)
PlaysInOrder == Fifo!Spec
=============================================================================
