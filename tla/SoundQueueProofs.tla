-------------------------- MODULE SoundQueueProofs --------------------------
(***************************************************************************)
(* The ring of SoundQueue is safe for every number and size of buffers,    *)
(* every channel count and all sizes of writes; with one channel, what it  *)
(* plays is what was written.                                              *)
(***************************************************************************)
EXTENDS SoundQueue, TLAPS

(* The buffer after b is b + 1, or the first after the last.               *)
LEMMA NextFacts ==
  ASSUME NEW b \in Buffers
  PROVE  /\ NextBuffer(b) \in Buffers
         /\ b < buf_count - 1 => NextBuffer(b) = b + 1
         /\ b = buf_count - 1 => NextBuffer(b) = 0
BY SMT, QueueAssumption DEF QueueAssumption, NextBuffer, Buffers

(* If write_buf leads read_buf by c buffers of the ring, it leads by one   *)
(* more after a buffer is filled and one less after one is played.         *)
LEMMA LeadAfterWrite ==
  ASSUME NEW w \in Buffers, NEW r \in Buffers, NEW c \in 0 .. buf_count - 1,
         Leads(w, r, c)
  PROVE  Leads(NextBuffer(w), r, c + 1)
<1>1. CASE w = buf_count - 1
  BY SMT, <1>1, NextFacts, QueueAssumption DEF QueueAssumption, Buffers, Leads
<1>2. CASE w < buf_count - 1
  BY SMT, <1>2, NextFacts, QueueAssumption DEF QueueAssumption, Buffers, Leads
<1>3. QED
  BY SMT, <1>1, <1>2, QueueAssumption DEF QueueAssumption, Buffers, Leads

LEMMA LeadAfterRead ==
  ASSUME NEW w \in Buffers, NEW r \in Buffers, NEW c \in 1 .. buf_count,
         Leads(w, r, c)
  PROVE  Leads(w, NextBuffer(r), c - 1)
<1>1. CASE r = buf_count - 1
  BY SMT, <1>1, NextFacts, QueueAssumption DEF QueueAssumption, Buffers, Leads
<1>2. CASE r < buf_count - 1
  BY SMT, <1>2, NextFacts, QueueAssumption DEF QueueAssumption, Buffers, Leads
<1>3. QED
  BY SMT, <1>1, <1>2, QueueAssumption DEF QueueAssumption, Buffers, Leads

(* A position in the samples asked for lies at a position in some buffer.  *)
LEMMA SampleFacts ==
  ASSUME NEW n \in Nat
  PROVE  n % buf_size \in Positions
BY SMT, QueueAssumption DEF QueueAssumption, Positions

LEMMA ZeroNat == 0 \in Nat
BY SMT

Inv == TypeOK /\ PhaseInv /\ RingInv

(* The samples handed over to the callback follow the semaphore.           *)
LEMMA HandedFacts ==
  ASSUME TypeOK
  PROVE  /\ HandedOver \in Int
         /\ free_sem = buf_count - 1 => HandedOver = 0
         /\ free_sem' = buf_count - 1 => HandedOver' = 0
         /\ free_sem' = free_sem => HandedOver' = HandedOver
         /\ free_sem' = free_sem - 1 => HandedOver' = HandedOver + buf_size
         /\ free_sem' = free_sem + 1 => HandedOver' = HandedOver - buf_size
<1> DEFINE Handed(f) == buf_size * (buf_count - 1 - f)
<1>1. ASSUME NEW f \in Int
      PROVE  /\ Handed(f) \in Int
             /\ f = buf_count - 1 => Handed(f) = 0
             /\ Handed(f - 1) = Handed(f) + buf_size
             /\ Handed(f + 1) = Handed(f) - buf_size
  BY SMT, QueueAssumption DEF QueueAssumption
<1>2. free_sem \in Int
  BY SMT, QueueAssumption DEF QueueAssumption, TypeOK
<1>3. HandedOver = Handed(free_sem) /\ HandedOver' = Handed(free_sem')
  BY Zenon DEF HandedOver
<1>4. buf_count - 1 \in Int
  BY SMT, QueueAssumption DEF QueueAssumption
<1> HIDE DEF Handed
<1>5. QED
  BY Zenon, <1>1, <1>2, <1>3, <1>4

LEMMA InvInit == Init => Inv
<1> SUFFICES ASSUME Init PROVE Inv
  OBVIOUS
<1>1. TypeOK
  <2>1. out \in Seq(Nat)
    BY SMT DEF Init
  <2>2. write_buf \in Buffers /\ read_buf \in Buffers /\ free_sem \in -1 .. buf_count - 1
    BY SMT, QueueAssumption DEF QueueAssumption, Init, Buffers
  <2>3. write_pos \in 0 .. buf_size
    BY SMT, QueueAssumption DEF QueueAssumption, Init
  <2>4. QED
    BY Zenon, <2>1, <2>2, <2>3, ZeroNat DEF Init, TypeOK
<1>2. PhaseInv /\ RingInv
  BY SMT, QueueAssumption DEF QueueAssumption, Init, PhaseInv, RingInv, StartInv, LeadInv, Leads, AccountInv, Accounts, InHand, Opened
<1>3. QED
  BY <1>1, <1>2 DEF Inv

(* init keeps the invariant.                                               *)
LEMMA InvOpening == Inv /\ Opening => Inv'
<1> SUFFICES ASSUME Inv, Opening PROVE Inv'
  OBVIOUS
<1> USE QueueAssumption DEF QueueAssumption, Inv, audioVars
<1>1. CASE AllocateBuffers
  <2>1. bufs' \in [Buffers -> [Positions -> Nat]]
    BY SMT, <1>1 DEF AllocateBuffers
  <2>2. TypeOK'
    BY SMT, <1>1, <2>1 DEF AllocateBuffers, TypeOK
  <2>3. PhaseInv' /\ RingInv'
    BY SMT, <1>1, <2>1 DEF AllocateBuffers, TypeOK, PhaseInv, RingInv, StartInv, LeadInv, Leads, AccountInv, Accounts, InHand, Opened
  <2>4. QED
    BY <2>2, <2>3
<1>2. CASE CreateSemaphore
  <2>1. TypeOK'
    BY SMT, <1>2 DEF CreateSemaphore, TypeOK
  <2>2. PhaseInv'
    BY SMT, <1>2 DEF CreateSemaphore, TypeOK, PhaseInv, Opened
  <2>3. RingInv'
    <3>1. StartInv' /\ (pc # "write" => write_pos < buf_size)'
      BY SMT, <1>2, QueueAssumption DEF CreateSemaphore, TypeOK, RingInv, StartInv
    <3>2. LeadInv'
      BY SMT, <1>2 DEF CreateSemaphore, TypeOK, PhaseInv, RingInv, StartInv, LeadInv, Leads, Opened, Complete, Buffers
    <3>3. AccountInv'
      BY SMT, <1>2, HandedFacts DEF CreateSemaphore, TypeOK, RingInv, StartInv, AccountInv, Accounts, InHand, Opened
    <3>4. QED
      BY <3>1, <3>2, <3>3 DEF RingInv
  <2>4. QED
    BY <2>1, <2>2, <2>3
<1>3. CASE OpenAudio
  <2>1. TypeOK'
    BY SMT, <1>3 DEF OpenAudio, TypeOK
  <2>2. PhaseInv'
    BY SMT, <1>3 DEF OpenAudio, TypeOK, PhaseInv, Opened
  <2>3. RingInv'
    <3>1. StartInv' /\ (pc # "write" => write_pos < buf_size)'
      BY SMT, <1>3, QueueAssumption DEF OpenAudio, TypeOK, RingInv, StartInv
    <3>2. LeadInv'
      BY SMT, <1>3 DEF OpenAudio, TypeOK, PhaseInv, RingInv, LeadInv, Leads, Opened, Complete, Buffers
    <3>3. AccountInv'
      BY SMT, <1>3, HandedFacts DEF OpenAudio, TypeOK, RingInv, AccountInv, Accounts, InHand, Opened
    <3>4. QED
      BY <3>1, <3>2, <3>3 DEF RingInv
  <2>4. QED
    BY <2>1, <2>2, <2>3
<1>4. CASE Unpause
  <2>1. TypeOK'
    BY SMT, <1>4 DEF Unpause, TypeOK
  <2>2. PhaseInv' /\ RingInv'
    BY SMT, <1>4, HandedFacts DEF Unpause, TypeOK, PhaseInv, RingInv, StartInv, LeadInv, Leads, AccountInv, Accounts, InHand, Opened, Complete
  <2>3. QED
    BY <2>1, <2>2
<1>5. CASE InitReturns
  <2>1. TypeOK'
    BY SMT, <1>5 DEF InitReturns, TypeOK
  <2>2. PhaseInv' /\ RingInv'
    BY SMT, <1>5, HandedFacts DEF InitReturns, TypeOK, PhaseInv, RingInv, StartInv, LeadInv, Leads, AccountInv, Accounts, InHand, Opened, Complete
  <2>3. QED
    BY <2>1, <2>2
<1>6. QED
  BY <1>1, <1>2, <1>3, <1>4, <1>5 DEF Opening

(* write keeps the invariant.                                              *)
LEMMA InvWriting ==
  Inv /\ (Writing \/ \E samples \in WriteSizes : CallWrite(samples)) => Inv'
<1> SUFFICES ASSUME Inv, Writing \/ \E samples \in WriteSizes : CallWrite(samples)
             PROVE  Inv'
  OBVIOUS
<1> USE QueueAssumption DEF QueueAssumption, Inv, audioVars
<1>1. CASE \E samples \in WriteSizes : CallWrite(samples)
  <2>1. PICK samples \in WriteSizes : CallWrite(samples)
    BY <1>1
  <2>2. samples \in Nat
    BY Zenon, <2>1
  <2>3. TypeOK'
    BY SMT, <2>1, <2>2 DEF CallWrite, TypeOK
  <2>4. PhaseInv' /\ RingInv'
    BY SMT, <2>1, HandedFacts DEF CallWrite, TypeOK, PhaseInv, RingInv, StartInv, LeadInv, Leads, AccountInv, Accounts, InHand, Opened, Complete
  <2>5. QED
    BY <2>3, <2>4
<1>2. CASE CopySample
  <2>1. bufs \in [Buffers -> [Positions -> Nat]]
    BY Zenon, <1>2 DEF CopySample, PhaseInv, Opened
  <2>2. bufs' \in [Buffers -> [Positions -> Nat]]
    <3>1. bufs' = [bufs EXCEPT ![write_buf][write_pos] = written + 1]
      BY <1>2 DEF CopySample
    <3>2. written + 1 \in Nat /\ write_buf \in Buffers
      BY SMT DEF TypeOK
    <3>3. [bufs[write_buf] EXCEPT ![write_pos] = written + 1] \in [Positions -> Nat]
      <4>1. bufs[write_buf] \in [Positions -> Nat]
        BY Zenon, <2>1, <3>2
      <4>2. ASSUME NEW f \in [Positions -> Nat], NEW n \in Nat
            PROVE  [f EXCEPT ![write_pos] = n] \in [Positions -> Nat]
        BY SMT DEF TypeOK, Positions
      <4>3. QED
        BY Zenon, <3>2, <4>1, <4>2
    <3>4. QED
      BY SMT, <2>1, <3>1, <3>2, <3>3
  <2>3. TypeOK'
    BY SMT, <1>2, <2>2 DEF CopySample, TypeOK
  <2>4. PhaseInv'
    BY SMT, <1>2, <2>2 DEF CopySample, TypeOK, PhaseInv, Opened
  <2>5. RingInv'
    <3>1. StartInv' /\ (pc # "write" => write_pos < buf_size)'
      BY SMT, <1>2, QueueAssumption DEF CopySample, TypeOK, RingInv, StartInv
    <3>2. LeadInv'
      BY SMT, <1>2 DEF CopySample, TypeOK, PhaseInv, RingInv, LeadInv, Leads, Opened, Complete, Buffers
    <3>3. AccountInv'
      <4>1. HandedOver' = HandedOver /\ HandedOver \in Int
        BY SMT, <1>2, HandedFacts DEF CopySample
      <4>2. InHand' = InHand + 1 /\ InHand \in Int
        BY SMT, <1>2, QueueAssumption DEF QueueAssumption, CopySample, TypeOK, InHand
      <4>3. written' = written + 1 /\ played' = played /\ Opened
        BY SMT, <1>2 DEF CopySample, Opened
      <4>4. ASSUME NEW h \in Int, NEW i \in Int, Accounts(written, played, h, i)
            PROVE  Accounts(written + 1, played, h, i + 1)
        BY SMT, <4>4 DEF TypeOK, Accounts
      <4>5. QED
        BY Zenon, <4>1, <4>2, <4>3, <4>4 DEF RingInv, AccountInv
    <3>4. QED
      BY <3>1, <3>2, <3>3 DEF RingInv
  <2>6. QED
    BY <2>3, <2>4, <2>5
<1>3. CASE BufferFull
  <2>1. /\ write_buf \in Buffers
        /\ free_sem >= 0
    BY SMT, <1>3 DEF BufferFull, TypeOK, PhaseInv, Opened
  <2>2. TypeOK'
    BY SMT, <1>3, <2>1, NextFacts DEF BufferFull, TypeOK
  <2>3. PhaseInv'
    BY SMT, <1>3 DEF BufferFull, TypeOK, PhaseInv, Opened
  <2>4. RingInv'
    <3>1. StartInv' /\ (pc # "write" => write_pos < buf_size)'
      BY SMT, <1>3, <2>1, NextFacts, QueueAssumption DEF BufferFull, TypeOK, RingInv, StartInv
    <3>2. LeadInv'
      <4>1. Complete' = Complete + 1
        BY SMT, <1>3 DEF BufferFull, TypeOK, Complete
      <4>2. Leads(NextBuffer(write_buf), read_buf, Complete + 1)
        <5>1. Complete \in 0 .. buf_count - 1 /\ read_buf \in Buffers
          BY SMT, <1>3 DEF BufferFull, TypeOK, PhaseInv, Opened, Complete
        <5>2. Leads(write_buf, read_buf, Complete)
          BY Zenon, <1>3 DEF BufferFull, RingInv, LeadInv, Opened
        <5>3. QED
          BY Zenon, <2>1, <5>1, <5>2, LeadAfterWrite
      <4>3. QED
        <5>1. write_buf' = NextBuffer(write_buf) /\ read_buf' = read_buf
          BY SMT, <1>3 DEF BufferFull
        <5>2. QED
          BY Zenon, <4>1, <4>2, <5>1 DEF LeadInv
    <3>3. AccountInv'
      BY SMT, <1>3, HandedFacts DEF BufferFull, TypeOK, RingInv, AccountInv, Accounts, InHand, Opened
    <3>4. QED
      BY <3>1, <3>2, <3>3 DEF RingInv
  <2>5. QED
    BY <2>2, <2>3, <2>4
<1>4. CASE SemWait
  <2>1. TypeOK' /\ PhaseInv'
    BY SMT, <1>4 DEF SemWait, TypeOK, PhaseInv, Opened
  <2>2. RingInv'
    <3>1. StartInv' /\ (pc # "write" => write_pos < buf_size)'
      BY SMT, <1>4, QueueAssumption DEF SemWait, TypeOK, RingInv, StartInv
    <3>2. LeadInv'
      BY SMT, <1>4 DEF SemWait, TypeOK, PhaseInv, RingInv, LeadInv, Leads, Opened, Complete, Buffers
    <3>3. AccountInv'
      BY SMT, <1>4, HandedFacts DEF SemWait, TypeOK, RingInv, AccountInv, Accounts, InHand, Opened
    <3>4. QED
      BY <3>1, <3>2, <3>3 DEF RingInv
  <2>3. QED
    BY <2>1, <2>2
<1>5. CASE WriteReturns
  <2>1. TypeOK' /\ PhaseInv'
    BY SMT, <1>5 DEF WriteReturns, TypeOK, PhaseInv, Opened
  <2>2. RingInv'
    BY SMT, <1>5, HandedFacts DEF WriteReturns, TypeOK, PhaseInv, RingInv, StartInv, LeadInv, Leads, AccountInv, Accounts, InHand, Opened, Complete
  <2>3. QED
    BY <2>1, <2>2
<1>6. QED
  BY <1>1, <1>2, <1>3, <1>4, <1>5 DEF Writing

(* So does the destructor, ...                                             *)
LEMMA InvClosing == Inv /\ (Destroy \/ Closing) => Inv'
<1> SUFFICES ASSUME Inv, Destroy \/ Closing PROVE Inv'
  OBVIOUS
<1> USE QueueAssumption DEF QueueAssumption, Inv, audioVars
<1>1. CASE Destroy
  <2>1. TypeOK' /\ PhaseInv'
    BY SMT, <1>1 DEF Destroy, TypeOK, PhaseInv, Opened
  <2>2. RingInv'
    <3>1. StartInv' /\ (pc # "write" => write_pos < buf_size)'
      BY SMT, <1>1, QueueAssumption DEF Destroy, TypeOK, PhaseInv, RingInv, StartInv
    <3>2. LeadInv'
      BY SMT, <1>1 DEF Destroy, TypeOK, PhaseInv, RingInv, LeadInv, Leads, Opened, Complete, Buffers
    <3>3. AccountInv'
      BY SMT, <1>1, HandedFacts DEF Destroy, TypeOK, PhaseInv, RingInv, AccountInv, Accounts, InHand, Opened
    <3>4. QED
      BY <3>1, <3>2, <3>3 DEF RingInv
  <2>3. QED
    BY <2>1, <2>2
<1>2. CASE Pause
  BY SMT, <1>2, HandedFacts DEF Pause, TypeOK, PhaseInv, RingInv, StartInv, LeadInv, Leads, AccountInv, Accounts, InHand, Opened, Complete
<1>3. CASE CloseAudio
  BY SMT, <1>3, HandedFacts DEF CloseAudio, TypeOK, PhaseInv, RingInv, StartInv, LeadInv, Leads, AccountInv, Accounts, InHand, Opened, Complete
<1>4. CASE DestroySemaphore
  BY SMT, <1>4, HandedFacts DEF DestroySemaphore, TypeOK, PhaseInv, RingInv, StartInv, LeadInv, Leads, AccountInv, Accounts, InHand, Opened, Complete
<1>5. CASE DeleteBuffers
  BY SMT, <1>5, HandedFacts DEF DeleteBuffers, TypeOK, PhaseInv, RingInv, StartInv, LeadInv, Leads, AccountInv, Accounts, InHand, Opened, Complete
<1>6. QED
  BY <1>1, <1>2, <1>3, <1>4, <1>5 DEF Closing

(* ... and the callback.                                                   *)
LEMMA InvCallback == Inv /\ Callback => Inv'
<1> SUFFICES ASSUME Inv, Callback PROVE Inv'
  OBVIOUS
<1> USE QueueAssumption DEF QueueAssumption, Inv, mainVars
<1>1. CASE Fetch
  BY SMT, <1>1, HandedFacts DEF Fetch, Playable, TypeOK, PhaseInv, RingInv, StartInv, LeadInv, Leads, AccountInv, Accounts, InHand, Opened, Complete
<1>2. CASE CopyOut
  <2>1. PICK sample \in Sample(read_buf + (Len(out) \div buf_size), Len(out) % buf_size) :
          out' = Append(out, sample)
    BY <1>2 DEF CopyOut
  <2>2. bufs \in [Buffers -> [Positions -> Nat]]
    BY SMT, <1>2 DEF CopyOut, PhaseInv, Opened
  <2>3. Len(out) \in Nat
    BY SMT DEF TypeOK
  <2>4. Len(out) % buf_size \in Positions
    BY <2>3, SampleFacts
  <2>5. sample \in Nat
    BY SMT, <2>1, <2>2, <2>4 DEF Sample
  <2>6. out' \in Seq(Nat)
    BY SMT, <2>1, <2>5 DEF TypeOK
  <2>7. TypeOK' /\ PhaseInv'
    BY SMT, <1>2, <2>6 DEF CopyOut, TypeOK, PhaseInv, Opened
  <2>8. RingInv'
    BY SMT, <1>2, HandedFacts DEF CopyOut, RingInv, StartInv, LeadInv, Leads, AccountInv, Accounts, InHand, Opened, Complete
  <2>9. QED
    BY <2>7, <2>8
<1>3. CASE Advance
  <2>1. read_buf \in Buffers /\ out' \in Seq(Nat)
    BY SMT, <1>3 DEF Advance, TypeOK
  <2>2. TypeOK' /\ PhaseInv'
    BY SMT, <1>3, <2>1, NextFacts DEF Advance, TypeOK, PhaseInv, Opened
  <2>3. RingInv'
    <3>1. StartInv' /\ (pc # "write" => write_pos < buf_size)'
      BY SMT, <1>3, <2>1, NextFacts, QueueAssumption DEF Advance, TypeOK, PhaseInv, RingInv, StartInv
    <3>2. LeadInv'
      <4>1. Complete' = Complete - 1
        BY SMT, <1>3 DEF Advance, TypeOK, Complete
      <4>2. Leads(write_buf, NextBuffer(read_buf), Complete - 1)
        <5>1. Opened /\ Complete \in 1 .. buf_count /\ write_buf \in Buffers /\ read_buf \in Buffers
          BY SMT, <1>3 DEF Advance, TypeOK, PhaseInv, Opened, Complete
        <5>2. Leads(write_buf, read_buf, Complete)
          BY Zenon, <5>1 DEF RingInv, LeadInv
        <5>3. QED
          BY Zenon, <5>1, <5>2, LeadAfterRead
      <4>3. QED
        BY Zenon, <1>3, <4>1, <4>2 DEF Advance, LeadInv
    <3>3. AccountInv'
      BY SMT, <1>3, HandedFacts DEF Advance, TypeOK, RingInv, AccountInv, Accounts, InHand, Opened
    <3>4. QED
      BY <3>1, <3>2, <3>3 DEF RingInv
  <2>4. QED
    BY <2>2, <2>3
<1>4. CASE SemPost
  <2>1. TypeOK' /\ PhaseInv'
    BY SMT, <1>4 DEF SemPost, TypeOK, PhaseInv, Opened
  <2>2. RingInv'
    <3>1. StartInv' /\ (pc # "write" => write_pos < buf_size)'
      BY SMT, <1>4, QueueAssumption DEF SemPost, TypeOK, PhaseInv, RingInv, StartInv
    <3>2. LeadInv'
      BY SMT, <1>4 DEF SemPost, TypeOK, PhaseInv, RingInv, LeadInv, Leads, Opened, Complete, Buffers
    <3>3. AccountInv'
      <4>1. HandedOver' = HandedOver - buf_size /\ HandedOver \in Int
        BY SMT, <1>4, HandedFacts DEF SemPost
      <4>2. InHand' = InHand /\ InHand \in Int /\ played' = played + buf_size /\ written' = written
        BY SMT, <1>4, QueueAssumption DEF QueueAssumption, SemPost, TypeOK, InHand
      <4>3. Opened
        BY SMT, <1>4 DEF SemPost, PhaseInv, Opened
      <4>4. ASSUME NEW h \in Int, NEW i \in Int, Accounts(written, played, h, i)
            PROVE  Accounts(written, played + buf_size, h - buf_size, i)
        BY SMT, <4>4 DEF TypeOK, Accounts
      <4>5. QED
        BY Zenon, <4>1, <4>2, <4>3, <4>4 DEF RingInv, AccountInv
    <3>4. QED
      BY <3>1, <3>2, <3>3 DEF RingInv
  <2>3. QED
    BY <2>1, <2>2
<1>5. QED
  BY <1>1, <1>2, <1>3, <1>4 DEF Callback

LEMMA InvStep == Inv /\ [Next]_vars => Inv'
<1> SUFFICES ASSUME Inv, [Next]_vars PROVE Inv'
  OBVIOUS
<1>1. CASE UNCHANGED vars
  BY Zenon, <1>1
  DEF Inv, TypeOK, PhaseInv, RingInv, StartInv, LeadInv, Leads, AccountInv, Accounts, InHand, Opened, Complete, HandedOver, Opened, StartInv, LeadInv, AccountInv, InHand, vars, mainVars, audioVars
<1>2. CASE Next
  BY Zenon, <1>2, InvOpening, InvWriting, InvClosing, InvCallback DEF Next
<1>3. QED
  BY <1>1, <1>2

LEMMA InvHolds == Spec => []Inv
BY InvInit, InvStep, PTL DEF Spec

(* SoundQueue is well typed; in particular the semaphore never rises above *)
(* the buffers there are to give.                                          *)
THEOREM QueueTypes == Spec => []TypeOK
<1>1. Inv => TypeOK
  BY DEF Inv
<1>2. QED
  BY <1>1, InvHolds, PTL

(* With one channel, write never fills the buffer that the callback is     *)
(* copying, whatever the number of buffers.                                *)
THEOREM NoRace ==
  ASSUME Channels = 1
  PROVE  Spec => []NoDataRace
<1>1. ASSUME Inv, pc = "write", cb = "copy", Len(out) < buf_size
      PROVE  write_buf # read_buf + (Len(out) \div buf_size)
  <2>1. Complete \in 1 .. buf_count - 1 /\ write_buf \in Buffers /\ read_buf \in Buffers
    BY SMT, <1>1, QueueAssumption
    DEF QueueAssumption, Inv, TypeOK, PhaseInv, Opened, Complete
  <2>2. Leads(write_buf, read_buf, Complete)
    BY Zenon, <1>1 DEF Inv, RingInv, LeadInv, Opened
  <2>3. write_buf # read_buf
    BY SMT, <2>1, <2>2, QueueAssumption DEF QueueAssumption, Leads, Buffers
  <2>4. Len(out) \div buf_size = 0
    <3>1. Len(out) \in Nat
      BY SMT, <1>1 DEF Inv, TypeOK
    <3>2. QED
      BY SMT, <1>1, <3>1, QueueAssumption DEF QueueAssumption
  <2>5. QED
    BY SMT, <2>1, <2>3, <2>4, QueueAssumption DEF QueueAssumption, Buffers
<1>2. buf_size * Channels = buf_size
  BY SMT, QueueAssumption DEF QueueAssumption
<1>3. Inv => NoDataRace
  BY Zenon, <1>1, <1>2 DEF NoDataRace
<1>4. QED
  BY <1>3, InvHolds, PTL

(* sample_count is exact between two writes, though it reads the semaphore *)
(* while the callback runs.                                                *)
THEOREM CountIsExact == Spec => []SampleCountIsExact
<1>1. ASSUME Inv, pc = "idle" PROVE sample_count = written - played
  <2>1. Accounts(written, played, HandedOver, InHand)
    BY Zenon, <1>1 DEF Inv, RingInv, AccountInv, Opened
  <2>2. InHand = write_pos
    BY SMT, <1>1 DEF InHand, Inv, TypeOK
  <2>3. written - played = HandedOver + write_pos
    BY Zenon, <2>1, <2>2 DEF Accounts
  <2>4. ASSUME NEW f \in Int, NEW w \in Int
        PROVE  buf_size * buf_count - (f * buf_size + (buf_size - w))
                 = buf_size * (buf_count - 1 - f) + w
    BY SMT, QueueAssumption DEF QueueAssumption
  <2>5. free_sem \in Int /\ write_pos \in Int
    BY SMT, <1>1, QueueAssumption DEF QueueAssumption, Inv, TypeOK
  <2>6. sample_count = HandedOver + write_pos
    BY Zenon, <2>4, <2>5 DEF sample_count, HandedOver
  <2>7. QED
    BY Zenon, <2>3, <2>6
<1>2. Inv => SampleCountIsExact
  BY Zenon, <1>1 DEF SampleCountIsExact
<1>3. QED
  BY <1>2, InvHolds, PTL

(* The destructor frees neither buffers nor semaphore under a callback.    *)
THEOREM SafeDestruction == Spec => []NothingFreedInUse
<1>1. Inv => NothingFreedInUse
  <2> SUFFICES ASSUME Inv, cb # "idle" PROVE bufs # <<>> /\ free_sem >= 0 /\ device = "playing"
    BY DEF NothingFreedInUse
  <2>1. bufs \in [Buffers -> [Positions -> Nat]] /\ free_sem >= 0 /\ device = "playing"
    BY SMT DEF Inv, PhaseInv, Opened
  <2>2. DOMAIN bufs = Buffers
    BY Zenon, <2>1
  <2>3. 0 \in Buffers
    BY SMT, QueueAssumption DEF QueueAssumption, Buffers
  <2>4. DOMAIN <<>> = {}
    BY SMT
  <2>5. QED
    BY Zenon, <2>1, <2>2, <2>3, <2>4
<1>2. QED
  BY <1>1, InvHolds, PTL

-----------------------------------------------------------------------------
(* What is played is what was written.                                     *)

(* How many buffers after read_buf a buffer is.                            *)
Rank(b, r) == IF b >= r THEN b - r ELSE b - r + buf_count

LEMMA RankFacts ==
  ASSUME NEW b \in Buffers, NEW r \in Buffers
  PROVE  /\ Rank(b, r) \in 0 .. buf_count - 1
         /\ Rank(b, NextBuffer(r)) = IF b = r THEN buf_count - 1 ELSE Rank(b, r) - 1
<1>1. CASE r = buf_count - 1
  BY SMT, <1>1, NextFacts, QueueAssumption DEF QueueAssumption, Buffers, Rank
<1>2. CASE r < buf_count - 1
  BY SMT, <1>2, NextFacts, QueueAssumption DEF QueueAssumption, Buffers, Rank
<1> QED
  BY SMT, <1>1, <1>2, QueueAssumption DEF QueueAssumption, Buffers

LEMMA RankOfWritten ==
  ASSUME NEW w \in Buffers, NEW r \in Buffers, NEW c \in 0 .. buf_count - 1,
         Leads(w, r, c)
  PROVE  Rank(w, r) = c
BY SMT, QueueAssumption DEF QueueAssumption, Buffers, Leads, Rank

LEMMA RankInjective ==
  ASSUME NEW a \in Buffers, NEW b \in Buffers, NEW r \in Buffers, Rank(a, r) = Rank(b, r)
  PROVE  a = b
BY SMT, QueueAssumption DEF QueueAssumption, Buffers, Rank

(* The memory m has c complete buffers from r on, with the samples after   *)
(* the first base, ...                                                     *)
Filled(m, r, base, c) ==
  \A b \in Buffers, i \in Positions :
    Rank(b, r) < c => m[b][i] = base + Rank(b, r) * buf_size + i + 1

(* ... and in buffer w the last n of total samples.                        *)
Filling(m, w, n, total) ==
  \A i \in Positions : i < n => m[w][i] = total - n + i + 1

Base == played + (IF cb = "post" THEN buf_size ELSE 0)

ContentInv ==
  Opened => /\ Filled(bufs, read_buf, Base, Complete)
            /\ Filling(bufs, write_buf, write_pos, written)

OutInv == cb # "copy" => out = <<>>

-----------------------------------------------------------------------------
LEMMA SizeFacts ==
  /\ buf_size \in Nat \ {0} /\ buf_count \in Nat /\ buf_count >= 2
  /\ \A c \in Int : c * buf_size \in Int
  /\ \A c \in Int : (c + 1) * buf_size = c * buf_size + buf_size
  /\ \A c \in Int : (c - 1) * buf_size = c * buf_size - buf_size
  /\ \A c \in Int : buf_size * c = c * buf_size
BY SMT, QueueAssumption DEF QueueAssumption

(* A full buffer is one more complete one.                                 *)
LEMMA FilledAfterWrite ==
  ASSUME NEW m, NEW w \in Buffers, NEW r \in Buffers, NEW c \in 0 .. buf_count - 1,
         NEW base \in Int, NEW total \in Int,
         Leads(w, r, c), total = base + c * buf_size + buf_size,
         Filled(m, r, base, c), Filling(m, w, buf_size, total)
  PROVE  Filled(m, r, base, c + 1)
<1> SUFFICES ASSUME NEW b \in Buffers, NEW i \in Positions, Rank(b, r) < c + 1
             PROVE  m[b][i] = base + Rank(b, r) * buf_size + i + 1
  BY Zenon DEF Filled
<1>1. CASE Rank(b, r) < c
  BY Zenon, <1>1 DEF Filled
<1>2. CASE ~(Rank(b, r) < c)
  <2>1. Rank(b, r) = c
    BY SMT, <1>2, RankFacts, SizeFacts
  <2>2. b = w
    BY Zenon, <2>1, RankOfWritten, RankInjective
  <2>3. i < buf_size /\ i \in Int
    BY SMT, SizeFacts DEF Positions
  <2>4. m[b][i] = total - buf_size + i + 1
    BY Zenon, <2>2, <2>3 DEF Filling
  <2>5. PICK before \in Int : before = c * buf_size
    BY SMT, SizeFacts
  <2>6. total - buf_size + i + 1 = base + before + i + 1
    BY SMT, <2>3, <2>5, SizeFacts
  <2> QED
    BY Zenon, <2>1, <2>4, <2>5, <2>6
<1> QED
  BY Zenon, <1>1, <1>2

(* A buffer that has been played is behind all others.                     *)
LEMMA FilledAfterRead ==
  ASSUME NEW m, NEW r \in Buffers, NEW c \in 1 .. buf_count, NEW base \in Int,
         Filled(m, r, base, c)
  PROVE  Filled(m, NextBuffer(r), base + buf_size, c - 1)
<1> SUFFICES ASSUME NEW b \in Buffers, NEW i \in Positions, Rank(b, NextBuffer(r)) < c - 1
             PROVE  m[b][i] = base + buf_size + Rank(b, NextBuffer(r)) * buf_size + i + 1
  BY Zenon DEF Filled
<1>1. PICK rank : rank = Rank(b, r)
  BY Zenon
<1>2. rank \in 0 .. buf_count - 1
  BY Zenon, <1>1, RankFacts
<1>3. Rank(b, NextBuffer(r)) = rank - 1 /\ rank < c
  BY SMT, <1>1, <1>2, RankFacts, SizeFacts
<1>4. m[b][i] = base + rank * buf_size + i + 1
  BY Zenon, <1>1, <1>3 DEF Filled
<1>5. /\ (rank - 1) * buf_size = rank * buf_size - buf_size
      /\ rank * buf_size \in Int /\ (rank - 1) * buf_size \in Int
  BY SMT, <1>2, SizeFacts
<1>6. PICK before \in Int, later \in Int : before = rank * buf_size /\ later = (rank - 1) * buf_size
  BY Zenon, <1>5
<1>7. i \in Int
  BY SMT DEF Positions
<1>8. base + buf_size + later + i + 1 = base + before + i + 1
  BY SMT, <1>5, <1>6, <1>7, SizeFacts
<1> QED
  BY Zenon, <1>3, <1>4, <1>6, <1>8

(* The sample copied is in the buffer that no other claims.                *)
LEMMA FilledByCopy ==
  ASSUME NEW m \in [Buffers -> [Positions -> Nat]], NEW w \in Buffers, NEW r \in Buffers,
         NEW c \in 0 .. buf_count - 1, Leads(w, r, c),
         NEW n \in Positions, NEW total \in Nat, NEW base \in Int,
         Filled(m, r, base, c), Filling(m, w, n, total)
  PROVE  /\ Filled([m EXCEPT ![w][n] = total + 1], r, base, c)
         /\ Filling([m EXCEPT ![w][n] = total + 1], w, n + 1, total + 1)
<1> DEFINE after == [m EXCEPT ![w][n] = total + 1]
<1>1. \A b \in Buffers : b # w => after[b] = m[b]
  BY Zenon
<1>2. \A i \in Positions : after[w][i] = IF i = n THEN total + 1 ELSE m[w][i]
  <2>1. m[w] \in [Positions -> Nat]
    BY Zenon
  <2>2. after[w] = [m[w] EXCEPT ![n] = total + 1]
    BY Zenon
  <2> HIDE DEF after
  <2> QED
    BY Zenon, <2>1, <2>2
<1> HIDE DEF after
<1>3. Filled(after, r, base, c)
  <2> SUFFICES ASSUME NEW b \in Buffers, NEW i \in Positions, Rank(b, r) < c
               PROVE  after[b][i] = base + Rank(b, r) * buf_size + i + 1
    BY Zenon DEF Filled
  <2>1. c \in Int /\ ~(c < c)
    BY SMT
  <2>2. b # w
    BY Zenon, <2>1, RankOfWritten
  <2>3. after[b] = m[b]
    BY Zenon, <1>1, <2>2
  <2>4. m[b][i] = base + Rank(b, r) * buf_size + i + 1
    BY Zenon DEF Filled
  <2> QED
    BY Zenon, <2>3, <2>4
<1>4. ASSUME NEW k, NEW t, k = n + 1, t = total + 1
      PROVE  Filling(after, w, k, t)
  <2>1. ASSUME NEW i \in Positions, i < k
        PROVE  after[w][i] = t - k + i + 1
    <3>1. /\ n \in Int /\ i \in Int /\ total \in Int /\ k = n + 1 /\ t = total + 1 /\ i < k
      BY SMT, <1>4, <2>1 DEF Positions
    <3>2. CASE i = n
      <4>1. t - k + i + 1 = total + 1
        BY SMT, <3>1, <3>2
      <4> QED
        BY Zenon, <1>2, <3>2, <4>1
    <3>3. CASE i # n
      <4>1. i < n /\ t - k + i + 1 = total - n + i + 1
        BY SMT, <3>1, <3>3
      <4>2. m[w][i] = total - n + i + 1
        BY Zenon, <4>1 DEF Filling
      <4> QED
        BY Zenon, <1>2, <3>3, <4>1, <4>2
    <3> QED
      BY Zenon, <3>2, <3>3
  <2> QED
    BY Zenon, <2>1 DEF Filling
<1>5. Filling(after, w, n + 1, total + 1)
  BY Zenon, <1>4
<1> QED
  BY Zenon, <1>3, <1>5 DEF after

(* What has been written and not played is in complete buffers, but for    *)
(* the buffer being filled.                                                *)
LEMMA WrittenIs ==
  ASSUME Inv, Opened, pc # "wait"
  PROVE  /\ Base \in Int /\ Complete \in Int
         /\ written = Base + Complete * buf_size + write_pos
<1>1. /\ written \in Int /\ played \in Int /\ free_sem \in Int /\ write_pos \in Int
      /\ written - played = HandedOver + write_pos
  <2>1. /\ written \in Int /\ played \in Int /\ free_sem \in Int /\ write_pos \in Int
    BY SMT, SizeFacts DEF Inv, TypeOK
  <2>2. Accounts(written, played, HandedOver, InHand)
    BY Zenon DEF Inv, RingInv, AccountInv
  <2>3. InHand = write_pos
    BY SMT, <2>1 DEF InHand
  <2> QED
    BY Zenon, <2>1, <2>2, <2>3 DEF Accounts
<1>2. PICK given \in Int, handed \in Int :
        given = buf_count - 1 - free_sem /\ handed = given * buf_size /\ handed = HandedOver
  <2>1. buf_count - 1 - free_sem \in Int
    BY SMT, <1>1, SizeFacts
  <2> QED
    BY Zenon, <2>1, SizeFacts DEF HandedOver
<1>3. CASE cb = "post"
  <2>1. Base = played + buf_size /\ Complete = given - 1
    BY SMT, <1>1, <1>2, <1>3, SizeFacts DEF Base, Complete
  <2>2. (given - 1) * buf_size = handed - buf_size
    BY Zenon, <1>2, SizeFacts
  <2>3. PICK left \in Int : left = (given - 1) * buf_size /\ left = handed - buf_size
    BY SMT, <1>2, <2>2, SizeFacts
  <2>4. written = played + buf_size + left + write_pos
    BY SMT, <1>1, <1>2, <2>3, SizeFacts
  <2>5. Base \in Int /\ Complete \in Int
    BY SMT, <1>1, <1>2, <2>1, SizeFacts
  <2> QED
    BY Zenon, <2>1, <2>3, <2>4, <2>5
<1>4. CASE cb # "post"
  <2>1. Base = played /\ Complete = given
    BY SMT, <1>1, <1>2, <1>4, SizeFacts DEF Base, Complete
  <2>2. written = played + handed + write_pos
    BY SMT, <1>1, <1>2
  <2> QED
    BY Zenon, <1>1, <1>2, <2>1, <2>2
<1> QED
  BY Zenon, <1>3, <1>4

-----------------------------------------------------------------------------
(* Most steps leave alone what the ring holds.                             *)
LEMMA ContentKept ==
  ASSUME ContentInv, Opened, UNCHANGED <<bufs, read_buf, write_buf, written>>,
         write_pos' = write_pos, Base' = Base, Complete' = Complete
  PROVE  ContentInv'
<1>1. /\ Filled(bufs, read_buf, Base, Complete)
      /\ Filling(bufs, write_buf, write_pos, written)
  BY Zenon DEF ContentInv
<1>2. /\ Filled(bufs', read_buf', Base', Complete')
      /\ Filling(bufs', write_buf', write_pos', written')
  BY Zenon, <1>1
<1> QED
  BY Zenon, <1>2 DEF ContentInv

LEMMA ContentEmpty ==
  ASSUME TypeOK', Complete' = 0, write_pos' = 0
  PROVE  ContentInv'
<1>1. read_buf' \in Buffers
  BY SMT DEF TypeOK
<1>2. Filled(bufs', read_buf', Base', Complete')
  <2> SUFFICES ASSUME NEW b \in Buffers, NEW i \in Positions, Rank(b, read_buf') < Complete'
               PROVE  FALSE
    BY Zenon DEF Filled
  <2>1. Rank(b, read_buf') \in 0 .. buf_count - 1
    BY Zenon, <1>1, RankFacts
  <2> QED
    BY SMT, <2>1, SizeFacts
<1>3. Filling(bufs', write_buf', write_pos', written')
  BY SMT DEF Filling, Positions
<1> QED
  BY Zenon, <1>2, <1>3 DEF ContentInv

LEMMA ContentWriting ==
  ASSUME Inv, Inv', ContentInv, CopySample \/ BufferFull
  PROVE  ContentInv'
<1>1. /\ Opened /\ pc = "write" /\ UNCHANGED <<read_buf, cb, played, free_sem>>
      /\ Base' = Base
  BY Zenon DEF CopySample, BufferFull, audioVars, Opened, Base
<1>2. /\ Filled(bufs, read_buf, Base, Complete)
      /\ Filling(bufs, write_buf, write_pos, written)
  BY Zenon, <1>1 DEF ContentInv
<1>3. /\ write_buf \in Buffers /\ read_buf \in Buffers /\ written \in Nat
      /\ Leads(write_buf, read_buf, Complete) /\ bufs \in [Buffers -> [Positions -> Nat]]
  BY Zenon, <1>1 DEF Inv, TypeOK, RingInv, LeadInv, PhaseInv
<1>4. Complete \in 0 .. buf_count - 1
  BY SMT, <1>1, SizeFacts DEF Inv, TypeOK, PhaseInv, Opened, Complete
<1>5. Base \in Int /\ written = Base + Complete * buf_size + write_pos
  BY SMT, <1>1, WrittenIs
<1>6. CASE CopySample
  <2>1. Complete' = Complete
    BY SMT, <1>1, <1>6 DEF CopySample, Complete
  <2>2. /\ write_pos \in Positions
        /\ bufs' = [bufs EXCEPT ![write_buf][write_pos] = written + 1]
        /\ write_pos' = write_pos + 1 /\ written' = written + 1
        /\ write_buf' = write_buf /\ read_buf' = read_buf
    BY SMT, <1>1, <1>6, SizeFacts DEF CopySample, Inv, TypeOK, Positions
  <2>3. /\ Filled(bufs', read_buf, Base, Complete)
        /\ Filling(bufs', write_buf, write_pos + 1, written + 1)
    BY Zenon, <1>2, <1>3, <1>4, <1>5, <2>2, FilledByCopy
  <2> QED
    BY Zenon, <1>1, <2>1, <2>2, <2>3 DEF ContentInv
<1>7. CASE BufferFull
  <2>1. Complete' = Complete + 1
    BY SMT, <1>1, <1>7, SizeFacts DEF BufferFull, Inv, TypeOK, Complete
  <2>2. /\ write_pos = buf_size /\ bufs' = bufs /\ read_buf' = read_buf
        /\ write_pos' = 0
    BY Zenon, <1>1, <1>7 DEF BufferFull
  <2>5. written \in Int /\ written = Base + Complete * buf_size + buf_size
    BY SMT, <1>3, <1>5, <2>2
  <2>3. Filled(bufs, read_buf, Base, Complete + 1)
    BY Zenon, <1>2, <1>3, <1>4, <1>5, <2>2, <2>5, FilledAfterWrite
  <2>4. Filling(bufs', write_buf', write_pos', written')
    BY SMT, <2>2 DEF Filling, Positions
  <2> QED
    BY Zenon, <1>1, <2>1, <2>2, <2>3, <2>4 DEF ContentInv
<1> QED
  BY Zenon, <1>6, <1>7

LEMMA ContentCallback ==
  ASSUME Inv, ContentInv, Callback
  PROVE  ContentInv'
<1>1. /\ Opened /\ UNCHANGED <<bufs, write_buf, write_pos, written, pc>>
  BY SMT DEF Callback, Fetch, CopyOut, Advance, SemPost, mainVars, Inv, PhaseInv, Opened
<1>2. /\ Filled(bufs, read_buf, Base, Complete)
      /\ Filling(bufs, write_buf, write_pos, written)
  BY Zenon, <1>1 DEF ContentInv
<1>3. /\ buf_size \in Int /\ buf_count \in Int /\ free_sem \in Int /\ played \in Int
  BY SMT, SizeFacts DEF Inv, TypeOK
<1>4. CASE Fetch \/ CopyOut
  <2>1. UNCHANGED <<read_buf, played, free_sem>> /\ cb # "post" /\ cb' # "post"
    BY SMT, <1>4 DEF Fetch, CopyOut
  <2>2. Base' = Base /\ Complete' = Complete
    BY SMT, <1>1, <1>3, <2>1 DEF Base, Complete
  <2> QED
    BY Zenon, <1>1, <2>1, <2>2, ContentKept
<1>5. CASE Advance
  <2>1. /\ cb = "copy" /\ cb' = "post" /\ UNCHANGED <<played, free_sem>>
        /\ read_buf' = NextBuffer(read_buf) /\ read_buf \in Buffers
    BY SMT, <1>5 DEF Advance, Inv, TypeOK
  <2>2. Base \in Int /\ Base' = Base + buf_size /\ Complete' = Complete - 1
    BY SMT, <1>1, <1>3, <2>1 DEF Base, Complete
  <2>3. Complete \in 1 .. buf_count
    BY SMT, <1>1, <1>3, <2>1, SizeFacts DEF Inv, TypeOK, PhaseInv, Opened, Complete
  <2>4. Filled(bufs, read_buf', Base', Complete')
    BY Zenon, <1>2, <2>1, <2>2, <2>3, FilledAfterRead
  <2> QED
    BY Zenon, <1>1, <1>2, <2>4 DEF ContentInv
<1>6. CASE SemPost
  <2>1. /\ cb = "post" /\ cb' = "idle" /\ played' = played + buf_size
        /\ free_sem' = free_sem + 1 /\ read_buf' = read_buf
    BY Zenon, <1>6 DEF SemPost
  <2>2. Base' = Base /\ Complete' = Complete
    BY SMT, <1>1, <1>3, <2>1 DEF Base, Complete
  <2> QED
    BY Zenon, <1>1, <2>1, <2>2, ContentKept
<1> QED
  BY Zenon, <1>4, <1>5, <1>6 DEF Callback

LEMMA ContentStep ==
  ASSUME Inv, Inv', ContentInv, [Next]_vars
  PROVE  ContentInv'
<1>1. CASE CopySample \/ BufferFull
  BY Zenon, <1>1, ContentWriting
<1>2. CASE Callback
  BY Zenon, <1>2, ContentCallback
<1>3. CASE CreateSemaphore
  <2>1. CASE pc' = "open_audio"
    <3>1. free_sem' = buf_count - 1 /\ pc = "create_semaphore" /\ cb' = cb /\ write_pos' = write_pos
      BY SMT, <1>3, <2>1 DEF CreateSemaphore, audioVars
    <3>2. write_pos = 0 /\ cb = "idle"
      BY SMT, <3>1 DEF Inv, TypeOK, PhaseInv, RingInv, StartInv
    <3>3. Complete' = 0
      BY SMT, <2>1, <3>1, <3>2, SizeFacts DEF Complete
    <3> QED
      BY Zenon, <3>1, <3>2, <3>3, ContentEmpty DEF Inv
  <2>2. CASE pc' # "open_audio"
    BY SMT, <1>3, <2>2 DEF CreateSemaphore, ContentInv, Opened
  <2> QED
    BY Zenon, <2>1, <2>2
<1>4. CASE SemWait
  <2>1. /\ Opened /\ UNCHANGED <<bufs, read_buf, write_buf, written, write_pos, played, cb>>
        /\ pc = "wait" /\ pc' = "write" /\ free_sem' = free_sem - 1
    BY Zenon, <1>4 DEF SemWait, audioVars, Opened
  <2>2. Complete' = Complete
    BY SMT, <2>1, SizeFacts DEF Inv, TypeOK, Complete
  <2> QED
    BY Zenon, <2>1, <2>2, ContentKept DEF Base
<1>5. ASSUME \/ OpenAudio \/ Unpause \/ InitReturns \/ WriteReturns
             \/ \E samples \in WriteSizes : CallWrite(samples)
             \/ Destroy \/ Pause
      PROVE  ContentInv'
  <2>1. UNCHANGED <<bufs, read_buf, write_buf, written, write_pos, played, cb, free_sem>>
    BY Zenon, <1>5 DEF OpenAudio, Unpause, InitReturns, WriteReturns, CallWrite, Destroy,
       Pause, audioVars
  <2>2. pc # "wait" /\ pc' # "wait" /\ (Opened' => Opened)
    BY SMT, <1>5 DEF OpenAudio, Unpause, InitReturns, WriteReturns, CallWrite, Destroy,
       Pause, Opened, Inv, PhaseInv
  <2>3. Complete' = Complete /\ Base' = Base
    BY Zenon, <2>1, <2>2 DEF Complete, Base
  <2>4. CASE Opened
    BY Zenon, <2>1, <2>3, <2>4, ContentKept
  <2> QED
    BY Zenon, <2>2, <2>4 DEF ContentInv
<1>6. CASE AllocateBuffers \/ CloseAudio \/ DestroySemaphore \/ DeleteBuffers
  BY SMT, <1>6 DEF AllocateBuffers, CloseAudio, DestroySemaphore, DeleteBuffers, ContentInv, Opened
<1>7. CASE UNCHANGED vars
  BY Zenon, <1>7 DEF vars, mainVars, audioVars, ContentInv, Opened, Base, Complete
<1> QED
  BY Zenon, <1>1, <1>2, <1>3, <1>4, <1>5, <1>6, <1>7 DEF Next, Opening, Writing, Closing

-----------------------------------------------------------------------------
LEMMA OneMore ==
  ASSUME NEW p \in Nat, NEW n \in Nat
  PROVE  Append([i \in 1 .. n |-> p + i], p + n + 1) = [i \in 1 .. n + 1 |-> p + i]
BY SMT

LEMMA OutStep ==
  ASSUME Inv, OutInv, [Next]_vars
  PROVE  OutInv'
<1>1. CASE Callback
  BY SMT, <1>1 DEF Callback, Fetch, CopyOut, Advance, SemPost, OutInv
<1>2. CASE UNCHANGED audioVars
  BY Zenon, <1>2 DEF audioVars, OutInv
<1> QED
  BY Zenon, <1>1, <1>2 DEF Next, Opening, Writing, Closing, AllocateBuffers, CreateSemaphore,
     OpenAudio, Unpause, InitReturns, CallWrite, CopySample, BufferFull, SemWait, WriteReturns,
     Destroy, Pause, CloseAudio, DestroySemaphore, DeleteBuffers, vars

(* The callback copies the first complete buffer, sample after sample.     *)
LEMMA CopyInOrder ==
  ASSUME Channels = 1, Inv, ContentInv, InOrder, CopyOut
  PROVE  InOrder'
<1>1. /\ cb = "copy" /\ Len(out) < buf_size /\ Len(out) \in Nat /\ played \in Nat
      /\ played' = played
  <2>1. buf_size * Channels = buf_size
    BY SMT, SizeFacts
  <2>2. cb = "copy" /\ Len(out) < buf_size /\ played' = played
    BY Zenon, <2>1 DEF CopyOut
  <2>3. Len(out) \in Nat /\ played \in Nat
    BY SMT DEF Inv, TypeOK
  <2> QED
    BY Zenon, <2>2, <2>3
<1>2. PICK n \in Nat : n = Len(out) /\ n \in Positions
  BY SMT, <1>1, SizeFacts DEF Positions
<1>3. n \div buf_size = 0 /\ n % buf_size = n
  BY SMT, <1>1, <1>2, SizeFacts
<1>4. /\ Opened /\ read_buf \in Buffers /\ Complete \in 1 .. buf_count /\ Base = played
  BY SMT, <1>1, SizeFacts DEF Inv, TypeOK, PhaseInv, Opened, Complete, Base
<1>5. Rank(read_buf, read_buf) = 0 /\ 0 < Complete /\ 0 * buf_size = 0
  BY SMT, <1>4, SizeFacts DEF Rank, Buffers
<1>6. bufs[read_buf][n] = played + n + 1
  <2>1. bufs[read_buf][n] = Base + Rank(read_buf, read_buf) * buf_size + n + 1
    BY Zenon, <1>2, <1>4, <1>5 DEF ContentInv, Filled
  <2>2. Base + Rank(read_buf, read_buf) * buf_size + n + 1 = played + n + 1
    BY SMT, <1>1, <1>4, <1>5
  <2> QED
    BY Zenon, <2>1, <2>2
<1>7. out' = Append(out, played + n + 1)
  <2>1. read_buf + (n \div buf_size) = read_buf
    BY SMT, <1>3, <1>4 DEF Buffers
  <2>2. PICK sample \in Sample(read_buf + (Len(out) \div buf_size), Len(out) % buf_size) :
          out' = Append(out, sample)
    BY Zenon DEF CopyOut
  <2>3. sample \in Sample(read_buf, n)
    BY Zenon, <1>2, <1>3, <2>1, <2>2
  <2>4. sample = bufs[read_buf][n]
    BY Zenon, <1>4, <2>3 DEF Sample
  <2> QED
    BY Zenon, <1>6, <2>2, <2>4
<1>8. out = [i \in 1 .. n |-> played + i]
  BY Zenon, <1>1, <1>2 DEF InOrder
<1>9. out' = [i \in 1 .. n + 1 |-> played + i]
  BY Zenon, <1>1, <1>7, <1>8, OneMore
<1>10. Len(out') = n + 1
  BY SMT, <1>2, <1>9
<1> QED
  BY Zenon, <1>1, <1>9, <1>10 DEF InOrder

LEMMA OrderStep ==
  ASSUME Channels = 1, Inv, ContentInv, OutInv, InOrder, [Next]_vars
  PROVE  InOrder'
<1>1. CASE CopyOut
  BY Zenon, <1>1, CopyInOrder
<1>2. CASE Fetch
  <2>1. out' = <<>> /\ played' = played
    BY SMT, <1>2 DEF Fetch, OutInv
  <2> QED
    BY SMT, <2>1 DEF InOrder
<1>3. CASE Advance \/ SemPost
  BY SMT, <1>3 DEF Advance, SemPost, InOrder
<1>4. CASE UNCHANGED audioVars
  BY Zenon, <1>4 DEF audioVars, InOrder
<1> QED
  BY Zenon, <1>1, <1>2, <1>3, <1>4 DEF Callback, Next, Opening, Writing, Closing,
     AllocateBuffers, CreateSemaphore, OpenAudio, Unpause, InitReturns, CallWrite, CopySample,
     BufferFull, SemWait, WriteReturns, Destroy, Pause, CloseAudio, DestroySemaphore,
     DeleteBuffers, vars

(* With one channel, what the callback hands to the device is the stream   *)
(* the program wrote, in order and without gaps or repeats, for every      *)
(* number and size of buffers and of writes and every interleaving.        *)
THEOREM PlayedInOrder ==
  ASSUME Channels = 1
  PROVE  Spec => []InOrder
<1> DEFINE OrderInv == ContentInv /\ OutInv /\ InOrder
<1>1. Init => OrderInv
  BY SMT DEF Init, ContentInv, Opened, OutInv, InOrder
<1>2. Inv /\ Inv' /\ OrderInv /\ [Next]_vars => OrderInv'
  BY Zenon, ContentStep, OutStep, OrderStep, Channels = 1
<1> QED
  BY <1>1, <1>2, InvHolds, PTL DEF Spec

(* The callback fills in silence only when write has handed over all that  *)
(* is complete, or is about to.                                            *)
THEOREM SilenceIsEmptiness == Spec => []SilenceMeansEmpty
<1>1. ASSUME Inv, cb = "idle", device = "playing", ~Playable
      PROVE  written - played < buf_size \/ pc = "wait" \/ (pc = "write" /\ write_pos = buf_size)
  <2>1. /\ free_sem = buf_count - 1 /\ pc \in {"opened", "idle", "write", "wait", "pause"}
        /\ write_pos \in 0 .. buf_size /\ (pc # "write" => write_pos < buf_size)
    BY SMT, <1>1, SizeFacts DEF Inv, TypeOK, PhaseInv, RingInv, Playable
  <2>2. HandedOver = 0
    BY Zenon, <1>1, <2>1, HandedFacts DEF Inv
  <2>3. Accounts(written, played, HandedOver, InHand)
    BY SMT, <1>1, <2>1 DEF Inv, RingInv, AccountInv, Opened
  <2>4. CASE pc # "wait"
    <3>1. InHand = write_pos
      BY SMT, <2>1, <2>4, SizeFacts DEF InHand
    <3>2. written - played = 0 + write_pos
      BY Zenon, <2>2, <2>3, <3>1 DEF Accounts
    <3> QED
      BY SMT, <2>1, <3>2, SizeFacts
  <2> QED
    BY Zenon, <2>4
<1>2. Inv => SilenceMeansEmpty
  BY Zenon, <1>1 DEF SilenceMeansEmpty
<1> QED
  BY <1>2, InvHolds, PTL
-----------------------------------------------------------------------------
(* The ring is a queue.                                                    *)

(* The buffer that is n after r, and the only one.                         *)
LEMMA RankOfAfter ==
  ASSUME NEW r \in Buffers, NEW n \in 0 .. buf_count
  PROVE  /\ (r + n) % buf_count \in Buffers
         /\ n < buf_count => Rank((r + n) % buf_count, r) = n
         /\ \A w \in Buffers : Leads(w, r, n) => w = (r + n) % buf_count
<1>1. /\ r \in 0 .. buf_count - 1 /\ r + n \in Nat
      /\ (r + n) % buf_count = IF r + n < buf_count THEN r + n
                               ELSE IF r + n < 2 * buf_count THEN r + n - buf_count ELSE 0
  BY SMT, SizeFacts DEF Buffers
<1>2. r + n < 2 * buf_count
  BY SMT, <1>1, SizeFacts
<1> QED
  BY SMT, <1>1, <1>2, SizeFacts DEF Buffers, Rank, Leads

(* What has been written and not played, also while write waits.           *)
LEMMA LeftIs ==
  ASSUME Inv, Opened
  PROVE  /\ Base \in Int /\ Complete \in 0 .. buf_count
         /\ written = Base + Complete * buf_size + write_pos
         /\ write_pos \in 0 .. buf_size /\ written \in Int
<1>1. write_pos \in 0 .. buf_size /\ written \in Int /\ Complete \in 0 .. buf_count
  BY SMT, SizeFacts DEF Inv, TypeOK, PhaseInv, Opened, Complete
<1>2. CASE pc # "wait"
  BY Zenon, <1>1, <1>2, WrittenIs
<1>3. CASE pc = "wait"
  <2>1. /\ written \in Int /\ played \in Int /\ free_sem \in Int /\ write_pos \in Int
        /\ Base \in Int
    BY SMT, SizeFacts DEF Inv, TypeOK, Base
  <2>2. written - played = HandedOver + (write_pos + buf_size)
    <3>1. Accounts(written, played, HandedOver, InHand)
      BY Zenon DEF Inv, RingInv, AccountInv
    <3>2. InHand = write_pos + buf_size
      BY Zenon, <1>3 DEF InHand
    <3> QED
      BY Zenon, <3>1, <3>2 DEF Accounts
  <2>3. PICK given \in Int : given = buf_count - 1 - free_sem
    BY SMT, <2>1, SizeFacts
  <2>4. PICK handed \in Int : handed = given * buf_size /\ handed = HandedOver
    BY Zenon, <2>3, SizeFacts DEF HandedOver
  <2>5. PICK more \in Int : more = (given + 1) * buf_size /\ more = handed + buf_size
    BY SMT, <2>3, <2>4, SizeFacts
  <2>6. CASE cb = "post"
    <3>1. Complete = given /\ Base = played + buf_size
      BY SMT, <1>3, <2>1, <2>3, <2>6, SizeFacts DEF Complete, Base
    <3>2. written = Base + handed + write_pos
      BY SMT, <2>1, <2>2, <2>4, <3>1, SizeFacts
    <3> QED
      BY Zenon, <1>1, <2>1, <2>4, <3>1, <3>2
  <2>7. CASE cb # "post"
    <3>1. Complete = given + 1 /\ Base = played
      BY SMT, <1>3, <2>1, <2>3, <2>7, SizeFacts DEF Complete, Base
    <3>2. written = Base + more + write_pos
      BY SMT, <2>1, <2>2, <2>4, <2>5, <3>1, SizeFacts
    <3> QED
      BY Zenon, <1>1, <2>1, <2>5, <3>1, <3>2
  <2> QED
    BY Zenon, <2>6, <2>7
<1> QED
  BY Zenon, <1>2, <1>3

(* The samples from base on, of which there are n.                         *)
Stream(base, n) == [i \in 1 .. n |-> base + i]

(* They are in the ring, in order.                                         *)
PendingInv == Pending = Stream(Base, written - Base)

LEMMA PendingIs ==
  ASSUME Inv, ContentInv, Opened
  PROVE  PendingInv
<1> DEFINE place(i) == bufs[(read_buf + ((i - 1) \div buf_size)) % buf_count][(i - 1) % buf_size]
<1>1. /\ Base \in Int /\ Complete \in 0 .. buf_count
      /\ written = Base + Complete * buf_size + write_pos
      /\ write_pos \in 0 .. buf_size /\ written \in Int
  BY Zenon, LeftIs
<1>2. /\ Filled(bufs, read_buf, Base, Complete)
      /\ Filling(bufs, write_buf, write_pos, written)
      /\ Leads(write_buf, read_buf, Complete)
      /\ read_buf \in Buffers /\ write_buf \in Buffers
  BY Zenon DEF ContentInv, Inv, TypeOK, RingInv, LeadInv
<1>3. ASSUME NEW i \in 1 .. written - Base
      PROVE  place(i) = Base + i
  <2>1. i - 1 \in Nat /\ i \in Int
    BY SMT, <1>1
  <2>2. PICK q \in Int, m \in Positions :
          q = (i - 1) \div buf_size /\ m = (i - 1) % buf_size /\ i - 1 = q * buf_size + m /\ q >= 0
    <3>1. PICK n \in Nat, size \in Nat \ {0} : n = i - 1 /\ size = buf_size
      BY Zenon, <2>1, SizeFacts
    <3>2. n \div size \in Int /\ n \div size >= 0 /\ n = (n \div size) * size + (n % size)
      BY SMT
    <3>3. n % size \in Positions
      BY Zenon, <3>1, SampleFacts
    <3> QED
      BY Zenon, <3>1, <3>2, <3>3
  <2>3. PICK size \in Nat \ {0} : size = buf_size
    BY Zenon, SizeFacts
  <2>4. PICK c \in Nat : c = Complete /\ c <= buf_count
    BY SMT, <1>1, SizeFacts
  <2>5. m \in Int /\ 0 <= m /\ m < size
    BY SMT, <2>2, <2>3 DEF Positions
  <2>6. q * size + m < c * size + write_pos
    BY SMT, <1>1, <2>1, <2>2, <2>3, <2>4
  <2>7. write_pos <= size /\ write_pos \in Int
    BY SMT, <1>1, <2>3
  <2>8. q <= c
    <3>1. SUFFICES ASSUME c + 1 <= q PROVE FALSE
      BY SMT, <2>4
    <3>2. (c + 1) * size <= q * size /\ (c + 1) * size = c * size + size
      BY SMT, <2>3, <2>4, <3>1
    <3>3. c * size \in Int /\ q * size \in Int
      BY SMT, <2>3, <2>4
    <3> QED
      BY SMT, <2>5, <2>6, <2>7, <3>2, <3>3
  <2>9. q \in 0 .. buf_count
    BY SMT, <2>2, <2>4, <2>8, SizeFacts
  <2>10. PICK b \in Buffers : b = (read_buf + q) % buf_count
    BY Zenon, <1>2, <2>9, RankOfAfter
  <2>11. CASE q < c
    <3>1. q < buf_count
      BY SMT, <2>4, <2>11, SizeFacts
    <3>2. Rank(b, read_buf) = q
      BY Zenon, <1>2, <2>9, <2>10, <3>1, RankOfAfter
    <3>3. bufs[b][m] = Base + q * buf_size + m + 1
      BY Zenon, <1>2, <2>2, <2>4, <2>10, <2>11, <3>2 DEF Filled
    <3>4. PICK before \in Int : before = q * buf_size
      BY Zenon, SizeFacts
    <3>5. Base + before + m + 1 = Base + i
      BY SMT, <1>1, <2>1, <2>2, <2>5, <3>4
    <3> QED
      BY Zenon, <2>2, <2>10, <3>3, <3>4, <3>5
  <2>12. CASE q = c
    <3>1. b = write_buf
      BY Zenon, <1>2, <2>4, <2>9, <2>10, <2>12, RankOfAfter
    <3>2. PICK before \in Int : before = q * size /\ before = c * size /\ before = Complete * buf_size
      BY SMT, <2>3, <2>4, <2>12
    <3>3. m < write_pos
      BY SMT, <2>5, <2>6, <2>7, <3>2
    <3>4. bufs[b][m] = written - write_pos + m + 1
      BY Zenon, <1>2, <2>2, <3>1, <3>3 DEF Filling
    <3>5. written - write_pos + m + 1 = Base + i
      <4>1. written = Base + before + write_pos /\ i - 1 = before + m
        BY Zenon, <1>1, <2>2, <2>3, <3>2
      <4> QED
        BY SMT, <1>1, <2>1, <2>5, <2>7, <4>1
    <3> QED
      BY Zenon, <2>2, <2>10, <3>4, <3>5
  <2> QED
    BY SMT, <2>4, <2>8, <2>11, <2>12
<1>4. PICK n : n = written - Base
  BY Zenon
<1>5. written - played - (IF cb = "post" THEN buf_size ELSE 0) = n
  BY SMT, <1>4, SizeFacts DEF Inv, TypeOK, Base
<1>6. Pending = [i \in 1 .. n |-> place(i)]
  BY Zenon, <1>5 DEF Pending
<1> HIDE DEF place
<1>7. [i \in 1 .. n |-> place(i)] = [i \in 1 .. n |-> Base + i]
  BY Zenon, <1>3, <1>4
<1> QED
  BY Zenon, <1>4, <1>6, <1>7 DEF Stream, PendingInv

LEMMA PendingLater == (Inv /\ ContentInv /\ Opened => PendingInv)'
<1>1. Inv /\ ContentInv /\ Opened => PendingInv
  BY Zenon, PendingIs
<1> QED
  BY <1>1, PTL

-----------------------------------------------------------------------------
(* Each step of the two threads is one of the queue or leaves it alone.    *)

FifoStep == [Fifo!Next]_(Fifo!vars)

Queued == IF pc = "destroyed" THEN <<>> ELSE Pending

LEMMA FifoStutters ==
  ASSUME UNCHANGED written, Queued' = Queued, pc # "destroyed", pc' # "destroyed"
  PROVE  FifoStep
<1>1. (pc # "destroyed")' = (pc # "destroyed")
  BY Zenon
<1> QED
  BY Zenon, <1>1 DEF FifoStep, Queued, Fifo!vars

(* What Pending depends on.                                                *)
LEMMA PendingKept ==
  ASSUME UNCHANGED <<bufs, read_buf, written, played>>, cb = "post" <=> cb' = "post"
  PROVE  Pending' = Pending
<1>1. (IF cb = "post" THEN buf_size ELSE 0)' = IF cb = "post" THEN buf_size ELSE 0
  BY Zenon
<1> QED
  BY Zenon, <1>1 DEF Pending

LEMMA KeptIsStutter ==
  ASSUME UNCHANGED <<bufs, read_buf, written, played>>, cb = "post" <=> cb' = "post",
         pc # "destroyed", pc' # "destroyed"
  PROVE  FifoStep
BY Zenon, PendingKept, FifoStutters DEF Queued

(* Nothing is written or played before the buffers are there.              *)
Unused == written = 0 /\ played = 0 /\ cb = "idle"

LEMMA NothingPending == Unused => Pending = <<>>
<1> SUFFICES ASSUME Unused PROVE Pending = <<>>
  OBVIOUS
<1>1. written - played - (IF cb = "post" THEN buf_size ELSE 0) = 0
  BY SMT DEF Unused
<1> DEFINE place(i) == bufs[(read_buf + ((i - 1) \div buf_size)) % buf_count][(i - 1) % buf_size]
<1>2. Pending = [i \in 1 .. 0 |-> place(i)]
  BY Zenon, <1>1 DEF Pending
<1> HIDE DEF place
<1>3. [i \in 1 .. 0 |-> place(i)] = <<>>
  BY SMT
<1> QED
  BY Zenon, <1>2, <1>3

LEMMA AllocateIsStutter ==
  ASSUME Inv, AllocateBuffers
  PROVE  FifoStep
<1>1. /\ written = 0 /\ played = 0 /\ cb = "idle" /\ UNCHANGED <<written, played, cb>>
      /\ pc # "destroyed" /\ pc' # "destroyed"
  BY SMT DEF AllocateBuffers, audioVars, Inv, TypeOK, PhaseInv, RingInv, StartInv
<1>2. Pending = <<>>
  BY Zenon, <1>1, NothingPending DEF Unused
<1>3. Pending' = <<>>
  <2>1. Unused'
    BY Zenon, <1>1 DEF Unused
  <2>2. (Unused => Pending = <<>>)'
    BY NothingPending, PTL
  <2> QED
    BY Zenon, <2>1, <2>2
<1> QED
  BY Zenon, <1>1, <1>2, <1>3, FifoStutters DEF Queued

LEMMA StreamFacts ==
  ASSUME NEW base \in Int, NEW n \in Nat
  PROVE  /\ Stream(base, n) \in Seq(Int) /\ Len(Stream(base, n)) = n
         /\ Append(Stream(base, n), base + n + 1) = Stream(base, n + 1)
         /\ \A block \in 0 .. n :
              SubSeq(Stream(base, n), block + 1, n) = Stream(base + block, n - block)
BY SMT DEF Stream

(* The room in the ring, while write fills a buffer.                       *)
LEMMA RingHasRoom ==
  ASSUME Inv, CopySample
  PROVE  written - Base \in Nat /\ written - Base < buf_size * buf_count
<1>1. /\ Opened /\ pc = "write" /\ write_pos < buf_size
  BY Zenon DEF CopySample, Opened
<1>2. /\ Base \in Int /\ Complete \in 0 .. buf_count
      /\ written = Base + Complete * buf_size + write_pos
      /\ write_pos \in 0 .. buf_size /\ written \in Int
  BY Zenon, <1>1, LeftIs
<1>3. Complete <= buf_count - 1
  BY SMT, <1>1, SizeFacts DEF Inv, TypeOK, PhaseInv, Complete
<1>4. PICK size \in Nat \ {0}, c \in Nat, n \in Nat :
        size = buf_size /\ c = Complete /\ n = buf_count /\ c <= n - 1
  BY SMT, <1>2, <1>3, SizeFacts
<1>5. c * size \in Nat /\ c * size <= (n - 1) * size /\ (n - 1) * size = size * n - size
      /\ size * n \in Int
  BY SMT, <1>4
<1>6. written - Base = c * size + write_pos
  BY SMT, <1>2, <1>4
<1> QED
  BY SMT, <1>1, <1>2, <1>4, <1>5, <1>6

LEMMA CopyIsPut ==
  ASSUME Inv, Inv', ContentInv, ContentInv', CopySample
  PROVE  FifoStep
<1>1. /\ Opened /\ Opened' /\ Base' = Base /\ written' = written + 1
      /\ pc # "destroyed" /\ pc' # "destroyed"
  BY SMT DEF CopySample, audioVars, Opened, Base
<1>2. PICK n \in Nat : n = written - Base /\ n < buf_size * buf_count
  BY Zenon, RingHasRoom
<1>3. Base \in Int /\ written \in Int
  BY Zenon, <1>1, LeftIs
<1>4. Pending = Stream(Base, n)
  BY Zenon, <1>1, <1>2, PendingIs DEF PendingInv
<1>5. Pending' = Stream(Base, n + 1)
  <2>1. Pending' = Stream(Base', written' - Base')
    BY Zenon, <1>1, PendingLater DEF PendingInv
  <2>2. written' - Base' = n + 1
    BY SMT, <1>1, <1>2, <1>3
  <2> QED
    BY Zenon, <1>1, <2>1, <2>2
<1>6. Base + n + 1 = written + 1
  BY SMT, <1>2, <1>3
<1>7. Pending' = Append(Pending, written + 1) /\ Len(Pending) < buf_size * buf_count
  BY Zenon, <1>2, <1>3, <1>4, <1>5, <1>6, StreamFacts
<1>8. Fifo!Put
  BY Zenon, <1>1, <1>7 DEF Fifo!Put
<1> QED
  BY Zenon, <1>8 DEF FifoStep, Fifo!Next

LEMMA AdvanceIsTake ==
  ASSUME Inv, Inv', ContentInv, ContentInv', Advance
  PROVE  FifoStep
<1>1. /\ Opened /\ Opened' /\ UNCHANGED <<written, pc>>
      /\ pc # "destroyed" /\ pc' # "destroyed" /\ Base' = Base + buf_size
  BY SMT, SizeFacts DEF Advance, mainVars, Inv, TypeOK, PhaseInv, Opened, Base
<1>2. /\ Base \in Int /\ Complete \in 0 .. buf_count
      /\ written = Base + Complete * buf_size + write_pos
      /\ write_pos \in 0 .. buf_size /\ written \in Int
  BY Zenon, <1>1, LeftIs
<1>3. Complete >= 1
  BY SMT, SizeFacts DEF Advance, Inv, TypeOK, PhaseInv, Complete
<1>4. PICK n \in Nat : n = written - Base /\ n >= buf_size
  <2>1. PICK size \in Nat \ {0}, c \in Nat : size = buf_size /\ c = Complete /\ c >= 1
    BY SMT, <1>2, <1>3, SizeFacts
  <2>2. c * size \in Nat /\ c * size >= size
    BY SMT, <2>1
  <2>3. written - Base = c * size + write_pos
    BY SMT, <1>2, <2>1
  <2> QED
    BY SMT, <1>2, <2>1, <2>2, <2>3
<1>5. Pending = Stream(Base, n)
  BY Zenon, <1>1, <1>4, PendingIs DEF PendingInv
<1>6. Pending' = Stream(Base + buf_size, n - buf_size)
  <2>1. Pending' = Stream(Base', written' - Base')
    BY Zenon, <1>1, PendingLater DEF PendingInv
  <2>2. written - (Base + buf_size) = n - buf_size
    BY SMT, <1>2, <1>4, SizeFacts
  <2> QED
    BY Zenon, <1>1, <2>1, <2>2
<1>7. Len(Pending) = n /\ Pending' = SubSeq(Pending, buf_size + 1, n)
  <2>1. buf_size \in 0 .. n
    BY SMT, <1>4, SizeFacts
  <2> QED
    BY Zenon, <1>2, <1>5, <1>6, <2>1, StreamFacts
<1>8. Fifo!Take
  BY Zenon, <1>1, <1>4, <1>7 DEF Fifo!Take
<1> QED
  BY Zenon, <1>8 DEF FifoStep, Fifo!Next

LEMMA PostIsStutter ==
  ASSUME Inv, SemPost
  PROVE  FifoStep
<1>1. /\ UNCHANGED <<bufs, read_buf, written, pc>> /\ pc # "destroyed" /\ pc' # "destroyed"
      /\ cb = "post" /\ cb' = "idle" /\ played' = played + buf_size
  BY SMT DEF SemPost, mainVars, Inv, PhaseInv
<1>2. (written - played - (IF cb = "post" THEN buf_size ELSE 0))'
        = written - played - (IF cb = "post" THEN buf_size ELSE 0)
  BY SMT, <1>1, SizeFacts DEF Inv, TypeOK
<1>3. Pending' = Pending
  BY Zenon, <1>1, <1>2 DEF Pending
<1> QED
  BY Zenon, <1>1, <1>3, FifoStutters DEF Queued

LEMMA DeleteIsClose ==
  ASSUME DeleteBuffers
  PROVE  FifoStep
<1>1. pc # "destroyed" /\ pc' = "destroyed" /\ written' = written
  BY SMT DEF DeleteBuffers
<1>2. Fifo!Close
  BY Zenon, <1>1 DEF Fifo!Close
<1> QED
  BY Zenon, <1>2 DEF FifoStep, Fifo!Next

LEMMA OthersAreStutters ==
  ASSUME Inv,
         \/ CreateSemaphore \/ OpenAudio \/ Unpause \/ InitReturns
         \/ BufferFull \/ SemWait \/ WriteReturns
         \/ Pause \/ CloseAudio \/ DestroySemaphore \/ Destroy
         \/ \E samples \in WriteSizes : CallWrite(samples)
         \/ Fetch \/ CopyOut
  PROVE  FifoStep
<1>1. UNCHANGED <<bufs, read_buf, written, played>>
  BY Zenon DEF CreateSemaphore, OpenAudio, Unpause, InitReturns, BufferFull, SemWait,
     WriteReturns, Pause, CloseAudio, DestroySemaphore, Destroy, CallWrite, Fetch, CopyOut,
     audioVars, mainVars
<1>2. CASE Fetch \/ CopyOut
  <2>1. cb # "post" /\ cb' # "post" /\ pc # "destroyed" /\ pc' # "destroyed"
    BY SMT, <1>2 DEF Fetch, CopyOut, mainVars, Inv, PhaseInv
  <2> QED
    BY Zenon, <1>1, <2>1, KeptIsStutter
<1>3. CASE ~(Fetch \/ CopyOut)
  <2>1. cb' = cb
    BY Zenon, <1>3 DEF CreateSemaphore, OpenAudio, Unpause, InitReturns, BufferFull, SemWait,
       WriteReturns, Pause, CloseAudio, DestroySemaphore, Destroy, CallWrite, audioVars
  <2>2. pc # "destroyed" /\ pc' # "destroyed"
    BY SMT, <1>3 DEF CreateSemaphore, OpenAudio, Unpause, InitReturns, BufferFull, SemWait,
       WriteReturns, Pause, CloseAudio, DestroySemaphore, Destroy, CallWrite
  <2> QED
    BY Zenon, <1>1, <2>1, <2>2, KeptIsStutter
<1> QED
  BY Zenon, <1>2, <1>3

LEMMA QueueSteps ==
  ASSUME Inv, Inv', ContentInv, ContentInv', [Next]_vars
  PROVE  FifoStep
<1>1. CASE UNCHANGED vars
  <2>1. UNCHANGED <<bufs, read_buf, written, played, cb, pc>>
    BY Zenon, <1>1 DEF vars, mainVars, audioVars
  <2>2. Pending' = Pending
    BY Zenon, <2>1, PendingKept
  <2> QED
    BY Zenon, <2>1, <2>2 DEF FifoStep, Fifo!vars
<1>2. CASE AllocateBuffers
  BY Zenon, <1>2, AllocateIsStutter
<1>3. CASE CopySample
  BY Zenon, <1>3, CopyIsPut
<1>4. CASE Advance
  BY Zenon, <1>4, AdvanceIsTake
<1>5. CASE SemPost
  BY Zenon, <1>5, PostIsStutter
<1>6. CASE DeleteBuffers
  BY Zenon, <1>6, DeleteIsClose
<1> QED
  BY Zenon, <1>1, <1>2, <1>3, <1>4, <1>5, <1>6, OthersAreStutters
     DEF Next, Opening, Writing, Closing, Callback

LEMMA QueueBegins == Init => Fifo!Init
<1> SUFFICES ASSUME Init PROVE Fifo!Init
  OBVIOUS
<1>1. pc # "destroyed" /\ written = 0 /\ played = 0 /\ cb = "idle"
  BY SMT DEF Init
<1>2. Pending = <<>>
  BY Zenon, <1>1, NothingPending DEF Unused
<1> QED
  BY Zenon, <1>1, <1>2 DEF Fifo!Init

(* The ring of buffers with its semaphore is a queue, for any number of    *)
(* channels: samples enter one by one and in order, as long as there is    *)
(* room, and leave from the front a buffer at a time.  (That they leave in *)
(* the end is the fair part of PlaysInOrder.)                              *)
THEOREM RingIsAQueue == Spec => Fifo!Init /\ [][Fifo!Next]_(Fifo!vars)
<1>1. Init => ContentInv
  BY SMT DEF Init, ContentInv, Opened
<1>2. Inv /\ Inv' /\ ContentInv /\ [Next]_vars => ContentInv'
  BY Zenon, ContentStep
<1>3. Inv /\ Inv' /\ ContentInv /\ ContentInv' /\ [Next]_vars => [Fifo!Next]_(Fifo!vars)
  BY Zenon, QueueSteps DEF FifoStep
<1> QED
  BY <1>1, <1>2, <1>3, QueueBegins, InvHolds, PTL DEF Spec
=============================================================================
