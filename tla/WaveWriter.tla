----------------------------- MODULE WaveWriter -----------------------------
(***************************************************************************)
(* Wave_Writer (demo/Wave_Writer.cpp): a sound file that is written        *)
(* through a buffer.  Its header is left room for in the first buffer and  *)
(* is put there when the writer is destroyed, when the number of samples   *)
(* is known.                                                               *)
(*                                                                         *)
(* The n-th sample the writer is given is represented by n, a byte by      *)
(* which half of which sample it is; write's pointer by the number of the  *)
(* sample it points at.  Each step is what happens between two calls of    *)
(* stdio, which may fail; they are modelled by what they return.           *)
(*                                                                         *)
(* A definition introduced by "Slip" is not part of the model: it is what  *)
(* a plausible mistake in the code would make of the definition after it.  *)
(***************************************************************************)
EXTENDS Integers, Sequences

CONSTANTS
  header_size,  \* bytes
  buf_size      \* bytes the writer's buffer holds

(* With an odd number of bytes behind the header, write would never get    *)
(* to a full buffer.                                                       *)
ASSUME WriterAssumption ==
  /\ header_size \in Nat \ {0} /\ buf_size \in Nat \ {0}
  /\ header_size <= buf_size
  /\ header_size % 2 = 0 /\ buf_size % 2 = 0

VARIABLES
  file,          \* the bytes in the file
  wbuf,          \* the buf_pos bytes in the buffer
  sample_count_,
  in,            \* the next sample write takes
  remain,        \* the samples it has still to take
  wpc            \* where the writer is

writerVars == <<file, wbuf, sample_count_, in, remain, wpc>>

(* A byte of the header, of the room left for it, or of a sample, lsb      *)
(* first.                                                                  *)
Unwritten == [of |-> "nothing", number |-> 0, byte |-> 0]
HeaderByte(count, i) == [of |-> "header", number |-> count, byte |-> i]
SampleByte(n, i) == [of |-> "sample", number |-> n, byte |-> i]

buf_pos == Len(wbuf)

(* The file could be opened.                                               *)
WriterInit ==
  /\ file = <<>>
  /\ wbuf = [i \in 1 .. header_size |-> Unwritten]
  /\ sample_count_ = 0 /\ in = 1 /\ remain = 0
  /\ wpc = "idle"

Write(count) ==
  /\ wpc = "idle"
  /\ sample_count_' = sample_count_ + count
  /\ in' = sample_count_ + 1 /\ remain' = count
  /\ wpc' = "write"
  /\ UNCHANGED <<file, wbuf>>

(* fwrite writes all or, if it fails, a part, and then the program exits.  *)
Flushed(next) ==
  \/ /\ file' = file \o wbuf /\ wbuf' = <<>>
     /\ wpc' = next
  \/ /\ \E n \in 0 .. buf_pos - 1 : file' = file \o SubSeq(wbuf, 1, n)
     /\ wbuf' = wbuf
     /\ wpc' = "exited"

(* One iteration of write's loop, in two steps: a full buffer is written,  *)
(* and what fits of the samples is taken.                                  *)
Flush ==
  /\ wpc = "write" /\ remain # 0 /\ buf_pos >= buf_size
  /\ Flushed("write")
  /\ UNCHANGED <<sample_count_, in, remain>>

Taken(n) ==
  wbuf \o [i \in 1 .. 2 * n |-> SampleByte(in + (i - 1) \div 2, (i - 1) % 2)]

(* Slips: the pointer not moved on, and one sample too few fitted in.      *)
TakeSamplesAgain ==
  /\ wpc = "write" /\ remain # 0 /\ buf_pos < buf_size
  /\ LET room == (buf_size - buf_pos) \div 2
         n == IF room > remain THEN remain ELSE room
     IN  /\ wbuf' = Taken(n)
         /\ in' = in /\ remain' = remain - n
  /\ UNCHANGED <<file, sample_count_, wpc>>

TakeSamplesFewer ==
  /\ wpc = "write" /\ remain # 0 /\ buf_pos < buf_size
  /\ LET room == (buf_size - buf_pos) \div 2 - 1
         n == IF room > remain THEN remain ELSE room
     IN  /\ wbuf' = Taken(n)
         /\ in' = in + n /\ remain' = remain - n
  /\ UNCHANGED <<file, sample_count_, wpc>>

TakeSamples ==
  /\ wpc = "write" /\ remain # 0 /\ buf_pos < buf_size
  /\ LET room == (buf_size - buf_pos) \div 2
         n == IF room > remain THEN remain ELSE room
     IN  /\ wbuf' = Taken(n)
         /\ in' = in + n /\ remain' = remain - n
  /\ UNCHANGED <<file, sample_count_, wpc>>

WriterReturns ==
  /\ wpc = "write" /\ remain = 0
  /\ wpc' = "idle"
  /\ UNCHANGED <<file, wbuf, sample_count_, in, remain>>

(* Slip: the last buffer dropped.                                          *)
DestroyUnflushed ==
  /\ wpc = "idle"
  /\ wpc' = "header"
  /\ UNCHANGED <<file, wbuf, sample_count_, in, remain>>

(* The destructor.                                                         *)
Destroy ==
  /\ wpc = "idle"
  /\ IF buf_pos = 0 THEN wpc' = "header" /\ UNCHANGED <<file, wbuf>>
     ELSE Flushed("header")
  /\ UNCHANGED <<sample_count_, in, remain>>

Header(count) == [i \in 1 .. header_size |-> HeaderByte(count, i)]

(* Slip: the header put behind what is in the file.                        *)
WriteHeaderAtEnd ==
  /\ wpc = "header"
  /\ file' = file \o Header(sample_count_)
  /\ wpc' = "closed"
  /\ UNCHANGED <<wbuf, sample_count_, in, remain>>

(* Nothing asks how much of the header fwrite has written.                 *)
WriteHeader ==
  /\ wpc = "header"
  /\ \E n \in 0 .. header_size :
       file' = SubSeq(Header(sample_count_), 1, n) \o SubSeq(file, n + 1, Len(file))
  /\ wpc' = "closed"
  /\ UNCHANGED <<wbuf, sample_count_, in, remain>>

WriterRuns == Flush \/ TakeSamples \/ WriterReturns \/ WriteHeader

WriterNext == (\E count \in Nat : Write(count)) \/ Destroy \/ WriterRuns

WriterSpec == WriterInit /\ [][WriterNext]_writerVars

-----------------------------------------------------------------------------
(* Properties.                                                             *)

(* Every variable keeps to the values its declaration allows, and the      *)
(* buffer to its size, as write asserts.                                   *)
WriterTypeOK ==
  /\ file \in Seq([of : {"nothing", "header", "sample"}, number : Nat, byte : Nat])
  /\ wbuf \in Seq([of : {"nothing", "sample"}, number : Nat, byte : 0 .. 1])
  /\ buf_pos <= buf_size
  /\ sample_count_ \in Nat /\ in \in Nat /\ remain \in Nat
  /\ wpc \in {"idle", "write", "header", "closed", "exited"}

(* What the file says and holds, at every moment, is a recording of the    *)
(* samples write has been given, however they are cut into calls and       *)
(* buffers and wherever the file system fails.                             *)
HasHeader == \A i \in 1 .. header_size : i <= Len(file) /\ file[i].of = "header"

Heading == IF HasHeader THEN file[1].number ELSE -1

Rec == INSTANCE Recording WITH
  given <- sample_count_,
  data <- SubSeq(file, header_size + 1, Len(file)),
  heading <- Heading,
  state <- CASE wpc = "closed" -> "closed"
             [] wpc = "exited" -> "abandoned"
             [] OTHER          -> "open"

IsARecording == Rec!Spec
=============================================================================
