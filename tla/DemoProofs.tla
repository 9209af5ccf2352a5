----------------------------- MODULE DemoProofs -----------------------------
(***************************************************************************)
(* The demo program, for every tune, sample rate, time frame and buffer    *)
(* size.  First the Wave_Writer by itself: it records what it is given,    *)
(* for every size of its header and buffer, all counts write is called     *)
(* with and wherever the file system fails.  Then the demo: the file it    *)
(* leaves is a recording, for what it does to its WaveWriter is what       *)
(* WaveWriter's specification allows a client.  No assertion fails on the  *)
(* way, and the samples written are those of the time emulated: what it    *)
(* does to its chip is what NesApu's invariants need, and what is in the   *)
(* buffer is the time less what has been read.                             *)
(***************************************************************************)
EXTENDS Demo, NesApuProofs, Arithmetic, SequenceTheorems

(* The byte at place i behind the header, if it is a sample's.             *)
At(i) == Rec!SampleByte((i + 1) \div 2, (i + 1) % 2)

FileByte == [of : {"nothing", "header", "sample"}, number : Nat, byte : Nat]
BufferByte == [of : {"nothing", "sample"}, number : Nat, byte : 0 .. 1]

(* The samples taken are all in the file or in the buffer, in this order.  *)
CountInv ==
  /\ in \in Nat \ {0}
  /\ in + remain = sample_count_ + 1
  /\ wpc \in {"idle", "header", "closed"} => remain = 0
  /\ wpc \in {"header", "closed"} => wbuf = <<>>
  /\ IF wpc = "exited" THEN Len(file) <= header_size + 2 * (in - 1)
     ELSE Len(file) + Len(wbuf) = header_size + 2 * (in - 1)

FileInv ==
  /\ wpc # "closed" => \A i \in 1 .. Len(file) : file[i].of # "header"
  /\ \A i \in 1 .. Len(file) : i > header_size => file[i] = At(i - header_size)

BufferInv ==
  wpc # "exited" =>
    \A i \in 1 .. Len(wbuf) :
      Len(file) + i > header_size => wbuf[i] = At(Len(file) + i - header_size)

WriterInv == WriterTypeOK /\ CountInv /\ FileInv /\ BufferInv

(* The bytes of the file and of the buffer are one sequence of bytes.      *)
LEMMA Types ==
  ASSUME WriterTypeOK
  PROVE  /\ file \in Seq(FileByte) /\ wbuf \in Seq(FileByte) /\ wbuf \in Seq(BufferByte)
         /\ Len(file) \in Nat /\ Len(wbuf) \in Nat
         /\ \A i \in 1 .. Len(wbuf) : wbuf[i].of # "header"
<1>1. file \in Seq(FileByte) /\ wbuf \in Seq(BufferByte)
  BY Zenon DEF WriterTypeOK, FileByte, BufferByte
<1>2. BufferByte \subseteq FileByte
  BY SMT DEF BufferByte, FileByte
<1>3. wbuf \in Seq(FileByte)
  BY Zenon, <1>1, <1>2, SeqMonotonic
<1>4. Len(file) \in Nat /\ Len(wbuf) \in Nat
  BY Zenon, <1>1, LenProperties
<1>5. \A i \in 1 .. Len(wbuf) : wbuf[i] \in BufferByte
  BY Zenon, <1>1, ElementOfSeq
<1>6. \A i \in 1 .. Len(wbuf) : wbuf[i].of # "header"
  BY SMT, <1>5 DEF BufferByte
<1>7. QED
  BY Zenon, <1>1, <1>3, <1>4, <1>6

(* Where flushing takes the file: by as many of the buffer's bytes as are  *)
(* written.                                                                *)
LEMMA Appended ==
  ASSUME WriterInv, wpc # "exited", NEW part, part \in Seq(FileByte),
         Len(part) <= Len(wbuf), \A i \in 1 .. Len(part) : part[i] = wbuf[i]
  PROVE  LET longer == file \o part
         IN  /\ longer \in Seq(FileByte)
             /\ Len(longer) = Len(file) + Len(part)
             /\ wpc # "closed" => \A i \in 1 .. Len(longer) : longer[i].of # "header"
             /\ \A i \in 1 .. Len(longer) :
                  i > header_size => longer[i] = At(i - header_size)
<1> DEFINE longer == file \o part
<1>1. /\ Len(file) \in Nat /\ Len(part) \in Nat /\ Len(wbuf) \in Nat
      /\ \A i \in 1 .. Len(wbuf) : wbuf[i].of # "header"
  BY Zenon, Types, LenProperties DEF WriterInv
<1>2. /\ longer \in Seq(FileByte)
      /\ Len(longer) = Len(file) + Len(part)
      /\ \A i \in 1 .. Len(file) + Len(part) :
           longer[i] = IF i <= Len(file) THEN file[i] ELSE part[i - Len(file)]
  BY Zenon, Types, ConcatProperties DEF WriterInv
<1>3. ASSUME NEW i \in 1 .. Len(longer), i > Len(file)
      PROVE  i - Len(file) \in 1 .. Len(wbuf) /\ longer[i] = wbuf[i - Len(file)]
  BY SMT, <1>1, <1>2, <1>3
<1>4. ASSUME NEW i \in 1 .. Len(longer), i <= Len(file)
      PROVE  i \in 1 .. Len(file) /\ longer[i] = file[i]
  BY SMT, <1>1, <1>2, <1>4
<1>5. header_size \in Nat
  BY WriterAssumption DEF WriterAssumption
<1>6. ASSUME NEW i \in 1 .. Len(longer)
      PROVE  /\ wpc # "closed" => longer[i].of # "header"
             /\ i > header_size => longer[i] = At(i - header_size)
  <2>1. CASE i <= Len(file)
    BY Zenon, <2>1, <1>4, <1>6 DEF WriterInv, FileInv
  <2>2. CASE i > Len(file)
    <3>1. PICK k \in 1 .. Len(wbuf) : k = i - Len(file) /\ longer[i] = wbuf[k]
      BY <2>2, <1>3, <1>6
    <3>2. Len(file) + k = i
      BY SMT, <1>1, <1>2, <1>6, <3>1
    <3>3. i > header_size => longer[i] = At(i - header_size)
      <4>1. Len(file) + k > header_size => wbuf[k] = At(Len(file) + k - header_size)
        BY Zenon DEF WriterInv, BufferInv
      <4>2. Len(file) + k - header_size = i - header_size
        BY SMT, <1>1, <1>5, <3>2
      <4>3. Len(file) + k > header_size <=> i > header_size
        BY Zenon, <3>2
      <4>4. QED
        BY Zenon, <4>1, <4>2, <4>3, <3>1
    <3>4. QED
      BY Zenon, <3>1, <3>3, <1>1
  <2>3. QED
    BY SMT, <2>1, <2>2, <1>1, <1>2, <1>6
<1>7. QED
  BY Zenon, <1>2, <1>6

(* fwrite of the buffer.                                                   *)
LEMMA FlushedKeeps ==
  ASSUME WriterInv, NEW next \in {"write", "header"}, wpc \in {"write", "idle"},
         wpc = "idle" => next = "header", wpc = "write" => next = "write",
         Flushed(next), UNCHANGED <<sample_count_, in, remain>>
  PROVE  WriterInv' /\ (wpc' = next \/ wpc' = "exited")
<1>1. CASE file' = file \o wbuf /\ wbuf' = <<>> /\ wpc' = next
  <2>1. /\ file' \in Seq(FileByte) /\ Len(file') = Len(file) + Len(wbuf)
        /\ \A i \in 1 .. Len(file') : file'[i].of # "header"
        /\ \A i \in 1 .. Len(file') : i > header_size => file'[i] = At(i - header_size)
    <3>1. Len(wbuf) <= Len(wbuf) /\ wpc # "exited" /\ wpc # "closed"
      BY SMT, Types DEF WriterInv
    <3>2. QED
      BY Zenon, <1>1, <3>1, Types, Appended DEF WriterInv
  <2>2. wbuf' \in Seq(BufferByte) /\ Len(wbuf') = 0
    BY Zenon, <1>1, EmptySeq
  <2>3. WriterTypeOK'
    BY SMT, <1>1, <2>1, <2>2, WriterAssumption
       DEF WriterAssumption, WriterInv, WriterTypeOK, FileByte, BufferByte, buf_pos
  <2>4. CountInv'
    BY SMT, <1>1, <2>1, <2>2, Types, WriterAssumption DEF WriterAssumption, WriterInv, CountInv
  <2>5. FileInv'
    BY Zenon, <1>1, <2>1 DEF FileInv
  <2>6. BufferInv'
    BY SMT, <2>2 DEF BufferInv
  <2>7. QED
    BY Zenon, <1>1, <2>3, <2>4, <2>5, <2>6 DEF WriterInv
<1>2. ASSUME NEW n \in 0 .. buf_pos - 1, file' = file \o SubSeq(wbuf, 1, n),
             wbuf' = wbuf, wpc' = "exited"
      PROVE  WriterInv'
  <2> DEFINE part == SubSeq(wbuf, 1, n)
  <2>1. Len(wbuf) \in Nat /\ n \in Nat /\ n < Len(wbuf) /\ 1 .. n \subseteq 1 .. Len(wbuf)
    BY SMT, Types, <1>2 DEF WriterInv, buf_pos
  <2>2. \A i \in 1 .. n : wbuf[i] \in FileByte
    BY Zenon, Types, ElementOfSeq, <2>1 DEF WriterInv
  <2>3. /\ part \in Seq(FileByte)
        /\ Len(part) = IF 1 <= n THEN n - 1 + 1 ELSE 0
        /\ \A i \in 1 .. n - 1 + 1 : part[i] = wbuf[1 + i - 1]
    BY SubSeqProperties, <2>1, <2>2
  <2>4. part \in Seq(FileByte) /\ Len(part) = n /\ \A i \in 1 .. Len(part) : part[i] = wbuf[i]
    BY SMT, <2>1, <2>3
  <2>5. Len(part) <= Len(wbuf) /\ wpc # "exited" /\ wpc # "closed"
    BY SMT, <2>1, <2>4
  <2>6. /\ file' \in Seq(FileByte) /\ Len(file') = Len(file) + n
        /\ \A i \in 1 .. Len(file') : file'[i].of # "header"
        /\ \A i \in 1 .. Len(file') : i > header_size => file'[i] = At(i - header_size)
    BY Zenon, <1>2, <2>4, <2>5, Appended
  <2>7. WriterTypeOK'
    BY SMT, <1>2, <2>6 DEF WriterInv, WriterTypeOK, FileByte, buf_pos
  <2>8. CountInv'
    BY SMT, <1>2, <2>1, <2>6, Types, WriterAssumption DEF WriterAssumption, WriterInv, CountInv
  <2>9. FileInv' /\ BufferInv'
    BY Zenon, <1>2, <2>6 DEF FileInv, BufferInv
  <2>10. QED
    BY Zenon, <2>7, <2>8, <2>9 DEF WriterInv
<1>3. QED
  BY Zenon, <1>1, <1>2 DEF Flushed

(* What one iteration of write's loop takes.                               *)
LEMMA TakenIs ==
  ASSUME WriterInv, wpc = "write", NEW n \in Nat
  PROVE  /\ Taken(n) \in Seq(BufferByte)
         /\ Len(Taken(n)) = Len(wbuf) + 2 * n
         /\ \A i \in 1 .. Len(Taken(n)) :
              Len(file) + i > header_size => Taken(n)[i] = At(Len(file) + i - header_size)
<1> DEFINE more == [i \in 1 .. 2 * n |-> SampleByte(in + (i - 1) \div 2, (i - 1) % 2)]
<1>1. /\ in \in Nat \ {0} /\ Len(wbuf) \in Nat /\ Len(file) \in Nat
      /\ Len(file) + Len(wbuf) = header_size + 2 * (in - 1)
  BY SMT, Types DEF WriterInv, CountInv
<1>2. \A i \in 1 .. 2 * n : more[i] \in BufferByte
  BY SMT, <1>1 DEF SampleByte, BufferByte
<1>3. 2 * n \in Nat
  BY SMT
<1>4. more \in Seq(BufferByte) /\ Len(more) = 2 * n
  <2>1. more \in [1 .. 2 * n -> BufferByte]
    BY Zenon, <1>2
  <2>2. more \in Seq(BufferByte)
    BY Zenon, <2>1, <1>3, SeqDef
  <2>3. DOMAIN more = 1 .. 2 * n /\ DOMAIN more = 1 .. Len(more) /\ Len(more) \in Nat
    BY Zenon, <2>2, LenProperties
  <2>4. QED
    BY SMT, <2>2, <2>3
<1>5. ASSUME NEW k \in 1 .. 2 * n PROVE more[k] = At(2 * (in - 1) + k)
  <2>1. /\ (2 * (in - 1) + k + 1) \div 2 = in + (k - 1) \div 2
        /\ (2 * (in - 1) + k + 1) % 2 = (k - 1) % 2
    BY SMT, <1>1
  <2>2. QED
    BY Zenon, <2>1 DEF At, SampleByte, Rec!SampleByte
<1>6. /\ Taken(n) \in Seq(BufferByte)
      /\ Len(Taken(n)) = Len(wbuf) + Len(more)
      /\ \A i \in 1 .. Len(wbuf) + Len(more) :
           Taken(n)[i] = IF i <= Len(wbuf) THEN wbuf[i] ELSE more[i - Len(wbuf)]
  BY Zenon, <1>4, Types, ConcatProperties DEF WriterInv, Taken
<1>7. ASSUME NEW i \in 1 .. Len(Taken(n)), Len(file) + i > header_size
      PROVE  Taken(n)[i] = At(Len(file) + i - header_size)
  <2>1. CASE i <= Len(wbuf)
    <3> HIDE DEF more
    <3>1. Taken(n)[i] = wbuf[i]
      BY Zenon, <2>1, <1>4, <1>6
    <3>2. Len(wbuf) \in Nat /\ Len(Taken(n)) \in Nat
      BY Zenon, <1>1, <1>6, LenProperties, Types DEF WriterInv
    <3>3. i \in 1 .. Len(wbuf)
      BY SMT, <2>1, <3>2
    <3> QED
      BY Zenon, <1>7, <3>1, <3>3 DEF WriterInv, BufferInv
  <2>2. CASE i > Len(wbuf)
    <3> HIDE DEF more
    <3>1. i \in 1 .. Len(wbuf) + Len(more) /\ Len(more) = 2 * n
      BY Zenon, <1>4, <1>6
    <3>2. PICK k \in 1 .. 2 * n : k = i - Len(wbuf)
      <4>1. i - Len(wbuf) \in 1 .. 2 * n
        BY SMT, <2>2, <1>1, <3>1
      <4>2. QED
        BY Zenon, <4>1
    <3>3. Taken(n)[i] = more[k] /\ more[k] = At(2 * (in - 1) + k)
      <4>1. ~(i <= Len(wbuf))
        BY SMT, <2>2, <1>1, <3>1
      <4>2. QED
        BY Zenon, <4>1, <3>1, <3>2, <1>5, <1>6
    <3>4. Len(file) + i - header_size = 2 * (in - 1) + k
      BY SMT, <3>1, <3>2, <1>1, WriterAssumption DEF WriterAssumption
    <3>5. QED
      BY Zenon, <3>3, <3>4
  <2>3. QED
    BY SMT, <2>1, <2>2, <1>1, <1>4, <1>6
<1>8. QED
  BY Zenon, <1>4, <1>6, <1>7

(* The header goes over what was left room for.                            *)
LEMMA HeaderFits ==
  ASSUME WriterInv, wpc = "header", NEW n \in 0 .. header_size,
         file' = SubSeq(Header(sample_count_), 1, n) \o SubSeq(file, n + 1, Len(file))
  PROVE  /\ file' \in Seq(FileByte)
         /\ Len(file') = Len(file)
         /\ \A i \in 1 .. Len(file) :
              file'[i] = IF i <= n THEN HeaderByte(sample_count_, i) ELSE file[i]
<1> DEFINE front == SubSeq(Header(sample_count_), 1, n)
           back == SubSeq(file, n + 1, Len(file))
<1>1. /\ Len(file) \in Nat /\ header_size \in Nat /\ sample_count_ \in Nat
      /\ Len(file) >= header_size
  <2>1. wbuf = <<>> /\ Len(wbuf) = 0 /\ in \in Nat \ {0}
        /\ Len(file) + Len(wbuf) = header_size + 2 * (in - 1)
    BY SMT, EmptySeq DEF WriterInv, CountInv
  <2>2. QED
    BY SMT, <2>1, Types, WriterAssumption DEF WriterAssumption, WriterInv, WriterTypeOK
<1>2. /\ front \in Seq(FileByte) /\ Len(front) = n
      /\ \A i \in 1 .. n : front[i] = HeaderByte(sample_count_, i)
  <2>1. n \in Int /\ 1 \in Int /\ 1 .. n \subseteq 1 .. header_size
    BY SMT, <1>1
  <2>2. \A i \in 1 .. n : Header(sample_count_)[i] = HeaderByte(sample_count_, i)
    BY Zenon, <2>1 DEF Header
  <2>3. \A i \in 1 .. n : HeaderByte(sample_count_, i) \in FileByte
    BY SMT, <1>1 DEF HeaderByte, FileByte
  <2>4. /\ front \in Seq(FileByte)
        /\ Len(front) = IF 1 <= n THEN n - 1 + 1 ELSE 0
        /\ \A i \in 1 .. n - 1 + 1 : front[i] = Header(sample_count_)[1 + i - 1]
    <3> HIDE DEF Header, HeaderByte, FileByte
    <3>1. \A i \in 1 .. n : Header(sample_count_)[i] \in FileByte
      BY Zenon, <2>2, <2>3
    <3>2. QED
      BY SubSeqProperties, <2>1, <3>1
  <2>5. QED
    BY SMT, <2>1, <2>2, <2>4
<1>3. /\ back \in Seq(FileByte) /\ Len(back) = Len(file) - n
      /\ \A i \in 1 .. Len(file) - n : back[i] = file[n + i]
  <2>1. /\ n + 1 \in Int /\ Len(file) \in Int /\ n + 1 .. Len(file) \subseteq 1 .. Len(file)
        /\ n <= Len(file) /\ n \in Nat
    BY SMT, <1>1
  <2>2. \A i \in n + 1 .. Len(file) : file[i] \in FileByte
    BY Zenon, <2>1, Types, ElementOfSeq DEF WriterInv
  <2>3. /\ back \in Seq(FileByte)
        /\ Len(back) = IF n + 1 <= Len(file) THEN Len(file) - (n + 1) + 1 ELSE 0
        /\ \A i \in 1 .. Len(file) - (n + 1) + 1 : back[i] = file[n + 1 + i - 1]
    BY SubSeqProperties, <2>1, <2>2
  <2>4. QED
    BY SMT, <2>1, <2>3
<1>4. /\ file' \in Seq(FileByte)
      /\ Len(file') = Len(front) + Len(back)
      /\ \A i \in 1 .. Len(front) + Len(back) :
           file'[i] = IF i <= Len(front) THEN front[i] ELSE back[i - Len(front)]
  BY Zenon, <1>2, <1>3, ConcatProperties
<1> HIDE DEF front, back
<1>5. Len(front) + Len(back) = Len(file) /\ n \in Nat
  BY SMT, <1>1, <1>2, <1>3
<1>6. ASSUME NEW i \in 1 .. Len(file)
      PROVE  file'[i] = IF i <= n THEN HeaderByte(sample_count_, i) ELSE file[i]
  <2>1. file'[i] = IF i <= n THEN front[i] ELSE back[i - n]
    BY Zenon, <1>2, <1>4, <1>5
  <2>2. CASE i <= n
    <3>1. i \in 1 .. n
      BY SMT, <2>2, <1>5
    <3>2. QED
      BY Zenon, <2>1, <2>2, <3>1, <1>2
  <2>3. CASE ~(i <= n)
    <3>1. PICK k \in 1 .. Len(file) - n : k = i - n
      BY SMT, <2>3, <1>1, <1>5
    <3>2. n + k = i
      BY SMT, <3>1, <1>1, <1>5
    <3>3. QED
      BY Zenon, <2>1, <2>3, <3>1, <3>2, <1>3
  <2>4. QED
    BY Zenon, <2>2, <2>3
<1>7. QED
  BY Zenon, <1>4, <1>5, <1>6

LEMMA WriterInvInit == WriterInit => WriterInv
<1> SUFFICES ASSUME WriterInit PROVE WriterInv
  OBVIOUS
<1>1. header_size \in Nat \ {0} /\ header_size <= buf_size
  BY WriterAssumption DEF WriterAssumption
<1>2. \A i \in 1 .. header_size : wbuf[i] \in BufferByte
  BY SMT DEF WriterInit, Unwritten, BufferByte
<1>3. wbuf \in [1 .. header_size -> BufferByte]
  BY Zenon, <1>2 DEF WriterInit
<1>4. wbuf \in Seq(BufferByte)
  BY Zenon, <1>1, <1>3, SeqDef
<1>5. Len(wbuf) = header_size
  <2>1. DOMAIN wbuf = 1 .. header_size /\ DOMAIN wbuf = 1 .. Len(wbuf) /\ Len(wbuf) \in Nat
    BY Zenon, <1>3, <1>4, LenProperties
  <2>2. QED
    BY SMT, <1>1, <2>1
<1>6. file \in Seq(FileByte) /\ Len(file) = 0
  BY Zenon, EmptySeq DEF WriterInit
<1>7. WriterTypeOK
  BY SMT, <1>1, <1>4, <1>5, <1>6 DEF WriterInit, WriterTypeOK, FileByte, BufferByte, buf_pos
<1>8. CountInv
  BY SMT, <1>1, <1>5, <1>6 DEF WriterInit, CountInv
<1>9. FileInv
  BY SMT, <1>1, <1>6 DEF FileInv
<1>10. BufferInv
  BY SMT, <1>1, <1>5, <1>6 DEF BufferInv
<1>11. QED
  BY Zenon, <1>7, <1>8, <1>9, <1>10 DEF WriterInv

(* Every step of the writer keeps its bytes in place.                      *)
LEMMA WriterInvStep == WriterInv /\ [WriterNext]_writerVars => WriterInv'
<1> SUFFICES ASSUME WriterInv, [WriterNext]_writerVars PROVE WriterInv'
  OBVIOUS
<1>1. ASSUME NEW count \in Nat, Write(count) PROVE WriterInv'
  <2>1. WriterTypeOK'
    BY SMT, <1>1 DEF Write, WriterInv, WriterTypeOK, buf_pos
  <2>2. CountInv'
    BY SMT, <1>1, Types DEF Write, WriterInv, WriterTypeOK, CountInv
  <2>3. FileInv' /\ BufferInv'
    BY SMT, <1>1 DEF Write, WriterInv, FileInv, BufferInv
  <2>4. QED
    BY Zenon, <2>1, <2>2, <2>3 DEF WriterInv
<1>2. CASE Flush
  BY Zenon, <1>2, FlushedKeeps DEF Flush
<1>3. CASE TakeSamples
  <2> DEFINE room == (buf_size - Len(wbuf)) \div 2
             n == IF room > remain THEN remain ELSE room
  <2>1. /\ Len(wbuf) \in Nat /\ Len(file) \in Nat /\ Len(wbuf) < buf_size
        /\ remain \in Nat /\ in \in Nat \ {0} /\ wpc = "write"
    BY SMT, <1>3, Types DEF TakeSamples, WriterInv, WriterTypeOK, CountInv, buf_pos
  <2>2. n \in Nat /\ n <= remain /\ Len(wbuf) + 2 * n <= buf_size
    BY SMT, <2>1, WriterAssumption DEF WriterAssumption
  <2>3. /\ wbuf' = Taken(n) /\ in' = in + n /\ remain' = remain - n
        /\ UNCHANGED <<file, sample_count_, wpc>>
    BY Zenon, <1>3 DEF TakeSamples, buf_pos
  <2> HIDE DEF n
  <2>4. /\ wbuf' \in Seq(BufferByte) /\ Len(wbuf') = Len(wbuf) + 2 * n
        /\ \A i \in 1 .. Len(wbuf') :
             Len(file) + i > header_size => wbuf'[i] = At(Len(file) + i - header_size)
    BY Zenon, <2>1, <2>2, <2>3, TakenIs
  <2>5. WriterTypeOK'
    BY SMT, <2>1, <2>2, <2>3, <2>4 DEF WriterInv, WriterTypeOK, BufferByte, buf_pos
  <2>6. CountInv'
    <3>1. in + remain = sample_count_ + 1 /\ Len(file) + Len(wbuf) = header_size + 2 * (in - 1)
      BY SMT, <2>1 DEF WriterInv, CountInv
    <3>2. in' \in Nat \ {0} /\ in' + remain' = sample_count_' + 1
      BY SMT, <2>1, <2>2, <2>3, <3>1
    <3>3. Len(file') + Len(wbuf') = header_size + 2 * (in' - 1)
      <4>1. Len(file') = Len(file) /\ Len(wbuf') = Len(wbuf) + 2 * n /\ in' = in + n
        BY Zenon, <2>3, <2>4
      <4>2. QED
        BY SMT, <4>1, <2>1, <2>2, <3>1, WriterAssumption DEF WriterAssumption
    <3>4. wpc' = "write"
      BY Zenon, <2>1, <2>3
    <3>5. QED
      BY SMT, <3>2, <3>3, <3>4 DEF CountInv
  <2>7. FileInv' /\ BufferInv'
    BY Zenon, <2>3, <2>4 DEF WriterInv, FileInv, BufferInv
  <2>8. QED
    BY Zenon, <2>5, <2>6, <2>7 DEF WriterInv
<1>4. CASE WriterReturns
  <2>1. WriterTypeOK'
    BY SMT, <1>4 DEF WriterReturns, WriterInv, WriterTypeOK, buf_pos
  <2>2. CountInv'
    BY SMT, <1>4 DEF WriterReturns, WriterInv, CountInv
  <2>3. FileInv' /\ BufferInv'
    BY SMT, <1>4 DEF WriterReturns, WriterInv, FileInv, BufferInv
  <2>4. QED
    BY Zenon, <2>1, <2>2, <2>3 DEF WriterInv
<1>5. CASE Destroy
  <2>1. CASE buf_pos = 0
    <3>1. wpc = "idle" /\ wpc' = "header" /\ UNCHANGED <<file, wbuf, sample_count_, in, remain>>
      BY Zenon, <1>5, <2>1 DEF Destroy
    <3>2. wbuf = <<>>
      BY Zenon, <2>1, Types, EmptySeq DEF WriterInv, buf_pos
    <3>3. WriterTypeOK'
      BY SMT, <3>1 DEF WriterInv, WriterTypeOK, buf_pos
    <3>4. CountInv'
      BY SMT, <3>1, <3>2 DEF WriterInv, CountInv
    <3>5. FileInv' /\ BufferInv'
      BY SMT, <3>1 DEF WriterInv, FileInv, BufferInv
    <3>6. QED
      BY Zenon, <3>3, <3>4, <3>5 DEF WriterInv
  <2>2. CASE buf_pos # 0
    BY Zenon, <1>5, <2>2, FlushedKeeps DEF Destroy
  <2>3. QED
    BY Zenon, <2>1, <2>2
<1>6. CASE WriteHeader
  <2>1. PICK n \in 0 .. header_size :
          file' = SubSeq(Header(sample_count_), 1, n) \o SubSeq(file, n + 1, Len(file))
    BY Zenon, <1>6 DEF WriteHeader
  <2>2. wpc = "header" /\ wpc' = "closed" /\ UNCHANGED <<wbuf, sample_count_, in, remain>>
    BY Zenon, <1>6 DEF WriteHeader
  <2>3. /\ file' \in Seq(FileByte) /\ Len(file') = Len(file)
        /\ \A i \in 1 .. Len(file) :
             file'[i] = IF i <= n THEN HeaderByte(sample_count_, i) ELSE file[i]
    BY Zenon, <2>1, <2>2, HeaderFits
  <2>4. WriterTypeOK'
    BY SMT, <2>2, <2>3 DEF WriterInv, WriterTypeOK, FileByte, buf_pos
  <2>5. CountInv'
    BY SMT, <2>2, <2>3 DEF WriterInv, CountInv
  <2>6. FileInv'
    <3>1. ASSUME NEW i \in 1 .. Len(file), i > header_size PROVE file'[i] = file[i]
      BY SMT, <2>3, <3>1, Types, WriterAssumption DEF WriterAssumption, WriterInv
    <3>2. QED
      BY Zenon, <2>2, <2>3, <3>1 DEF WriterInv, FileInv
  <2>7. BufferInv'
    BY SMT, <2>2, EmptySeq DEF WriterInv, CountInv, BufferInv
  <2>8. QED
    BY Zenon, <2>4, <2>5, <2>6, <2>7 DEF WriterInv
<1>7. CASE UNCHANGED writerVars
  BY Zenon, <1>7 DEF writerVars, WriterInv, WriterTypeOK, CountInv, FileInv, BufferInv, buf_pos
<1>8. QED
  BY Zenon, <1>1, <1>2, <1>3, <1>4, <1>5, <1>6, <1>7 DEF WriterNext, WriterRuns

(* The buffer never holds more than its size, which is all that keeps      *)
(* write's loop from running over it.                                      *)
THEOREM WriterTyped == WriterSpec => []WriterTypeOK
<1>1. WriterInv => WriterTypeOK
  BY DEF WriterInv
<1>2. QED
  BY <1>1, WriterInvInit, WriterInvStep, PTL DEF WriterSpec

-----------------------------------------------------------------------------
(* The refinement.                                                         *)

Data == SubSeq(file, header_size + 1, Len(file))

State == CASE wpc = "closed" -> "closed"
           [] wpc = "exited" -> "abandoned"
           [] OTHER          -> "open"

(* What is in the file behind the header is the beginning of the samples   *)
(* taken, and all of it once the buffer is empty.                          *)
DataInv ==
  /\ Len(Data) \in Nat
  /\ Len(Data) = IF Len(file) > header_size THEN Len(file) - header_size ELSE 0
  /\ Len(Data) <= 2 * sample_count_
  /\ Data = [i \in 1 .. Len(Data) |-> Rec!Bytes(sample_count_)[i]]

LEMMA DataIs == WriterInv => DataInv
<1> SUFFICES ASSUME WriterInv PROVE DataInv
  OBVIOUS
<1>1. /\ Len(file) \in Nat /\ header_size \in Nat \ {0} /\ Len(wbuf) \in Nat
      /\ in \in Nat \ {0} /\ remain \in Nat /\ sample_count_ \in Nat
      /\ in + remain = sample_count_ + 1
      /\ Len(file) <= header_size + 2 * (in - 1)
  BY SMT, Types, WriterAssumption DEF WriterAssumption, WriterInv, WriterTypeOK, CountInv
<1>2. \A i \in header_size + 1 .. Len(file) : file[i] \in FileByte
  <2>1. header_size + 1 .. Len(file) \subseteq 1 .. Len(file)
    BY SMT, <1>1
  <2>2. QED
    BY Zenon, <2>1, Types, ElementOfSeq DEF WriterInv
<1>3. header_size + 1 \in Int /\ Len(file) \in Int
  BY SMT, <1>1
<1>4. /\ Data \in Seq(FileByte)
      /\ Len(Data) = IF header_size + 1 <= Len(file)
                     THEN Len(file) - (header_size + 1) + 1 ELSE 0
      /\ \A i \in 1 .. Len(file) - (header_size + 1) + 1 :
           Data[i] = file[header_size + 1 + i - 1]
  BY SubSeqProperties, <1>2, <1>3 DEF Data
<1>5. /\ Len(Data) \in Nat
      /\ Len(Data) = IF Len(file) > header_size THEN Len(file) - header_size ELSE 0
      /\ Len(Data) <= 2 * sample_count_
      /\ \A i \in 1 .. Len(Data) : Data[i] = file[header_size + i]
  <2> HIDE DEF Data
  <2>1. Len(Data) = IF Len(file) > header_size THEN Len(file) - header_size ELSE 0
    BY SMT, <1>1, <1>4
  <2>2. QED
    BY SMT, <2>1, <1>1, <1>4
<1>6. ASSUME NEW i \in 1 .. Len(Data) PROVE Data[i] = Rec!Bytes(sample_count_)[i]
  <2> DEFINE j == header_size + i
  <2>1. j \in 1 .. Len(file) /\ j > header_size /\ j - header_size = i /\ Data[i] = file[j]
    <3>1. Data[i] = file[j]
      BY Zenon, <1>5, <1>6
    <3>2. Len(Data) \in Nat /\ Len(file) \in Nat /\ header_size \in Nat
      BY SMT, <1>1, <1>5
    <3>3. Len(Data) = IF Len(file) > header_size THEN Len(file) - header_size ELSE 0
      BY Zenon, <1>5
    <3>4. j \in 1 .. Len(file) /\ j > header_size /\ j - header_size = i
      <4> HIDE DEF Data
      <4>1. QED
        BY SMT, <1>6, <3>2, <3>3
    <3>5. QED
      BY Zenon, <3>1, <3>4
  <2> HIDE DEF j
  <2>2. Data[i] = At(i)
    <3>1. file[j] = At(j - header_size)
      BY Zenon, <2>1 DEF WriterInv, FileInv
    <3>2. QED
      BY Zenon, <2>1, <3>1
  <2>3. i \in 1 .. 2 * sample_count_
    BY SMT, <1>1, <1>5
  <2>4. QED
    BY Zenon, <2>2, <2>3 DEF At, Rec!Bytes
<1>7. Data = [i \in 1 .. Len(Data) |-> Rec!Bytes(sample_count_)[i]]
  <2>1. DOMAIN Data = 1 .. Len(Data) /\ Data = [i \in DOMAIN Data |-> Data[i]]
    <3>1. Data \in [1 .. Len(Data) -> FileByte]
      BY Zenon, <1>4, LenProperties
    <3>2. QED
      BY Zenon, <3>1
  <2>2. QED
    BY Zenon, <2>1, <1>6
<1>8. QED
  BY Zenon, <1>5, <1>7 DEF DataInv

(* There is no heading before the writer is destroyed.                     *)
LEMMA NoHeading == WriterInv /\ wpc # "closed" => Heading = -1
<1> SUFFICES ASSUME WriterInv, wpc # "closed" PROVE Heading = -1
  OBVIOUS
<1>1. 1 \in 1 .. header_size /\ Len(file) \in Nat
  BY SMT, Types, WriterAssumption DEF WriterAssumption, WriterInv
<1>2. 1 <= Len(file) => file[1].of # "header"
  <2>1. 1 <= Len(file) => 1 \in 1 .. Len(file)
    BY SMT, <1>1
  <2>2. QED
    BY Zenon, <2>1 DEF WriterInv, FileInv
<1>3. QED
  BY Zenon, <1>1, <1>2 DEF Heading, HasHeader

LEMMA RecordingInit == WriterInit => Rec!Init
<1> SUFFICES ASSUME WriterInit PROVE Rec!Init
  OBVIOUS
<1>1. WriterInv /\ wpc # "closed" /\ sample_count_ = 0 /\ State = "open"
  BY SMT, WriterInvInit DEF WriterInit, State
<1>2. Data = <<>>
  BY SMT DEF WriterInit, Data
<1>4. QED
  BY Zenon, <1>1, <1>2, NoHeading DEF Rec!Init, Data, State

(* As long as the file only grows, the recording does.                     *)
LEMMA Grows ==
  ASSUME WriterInv, WriterInv', Len(file') >= Len(file), sample_count_' = sample_count_
  PROVE  Rec!Saved(sample_count_)
<1>1. /\ Len(file) \in Nat /\ Len(file') \in Nat /\ header_size \in Nat
  <2>1. Len(file) \in Nat /\ header_size \in Nat
    BY SMT, Types, WriterAssumption DEF WriterAssumption, WriterInv
  <2>2. file' \in Seq([of : {"nothing", "header", "sample"}, number : Nat, byte : Nat])
    BY Zenon DEF WriterInv, WriterTypeOK
  <2>3. Len(file') \in Nat
    BY Zenon, <2>2, LenProperties
  <2>4. QED
    BY Zenon, <2>1, <2>3
<1>2. /\ Len(Data) \in Nat
      /\ Len(Data) = IF Len(file) > header_size THEN Len(file) - header_size ELSE 0
  BY Zenon, DataIs DEF DataInv
<1>3. /\ Len(Data') \in Nat
      /\ Len(Data') = IF Len(file') > header_size THEN Len(file') - header_size ELSE 0
      /\ Len(Data') <= 2 * sample_count_'
      /\ Data' = [i \in 1 .. Len(Data') |-> Rec!Bytes(sample_count_')[i]]
  <2>1. DataInv'
    BY DataIs, PTL
  <2>2. QED
    BY Zenon, <2>1 DEF DataInv
<1>4. Len(Data') >= Len(Data)
  BY SMT, <1>1, <1>2, <1>3
<1>5. QED
  BY Zenon, <1>3, <1>4 DEF Rec!Saved, Data

(* The heading of a closed file tells the truth or is not there.           *)
LEMMA HeadingIs ==
  ASSUME WriterInv, WriteHeader
  PROVE  Heading' \in {sample_count_, -1}
<1>1. PICK n \in 0 .. header_size :
        file' = SubSeq(Header(sample_count_), 1, n) \o SubSeq(file, n + 1, Len(file))
  BY Zenon DEF WriteHeader
<1>2. /\ Len(file') = Len(file)
      /\ \A i \in 1 .. Len(file) :
           file'[i] = IF i <= n THEN HeaderByte(sample_count_, i) ELSE file[i]
  BY Zenon, <1>1, HeaderFits DEF WriteHeader
<1>3. /\ wpc # "closed" /\ Len(file) \in Nat /\ 1 \in 1 .. header_size
      /\ header_size \in 1 .. header_size /\ header_size \in Nat
  BY SMT, Types, WriterAssumption DEF WriterAssumption, WriterInv, WriteHeader
<1>4. CASE n = header_size /\ 1 <= Len(file)
  <2>1. 1 \in 1 .. Len(file) /\ 1 <= n
    BY SMT, <1>3, <1>4
  <2>2. file'[1] = HeaderByte(sample_count_, 1)
    BY Zenon, <1>2, <2>1
  <2>3. file'[1].number = sample_count_
    BY SMT, <2>2 DEF HeaderByte
  <2>4. QED
    BY Zenon, <2>3 DEF Heading
<1>5. CASE n # header_size \/ ~(1 <= Len(file))
  <2>1. ASSUME header_size <= Len(file), n # header_size PROVE file'[header_size].of # "header"
    <3>1. header_size \in 1 .. Len(file) /\ ~(header_size <= n)
      BY SMT, <1>3, <2>1
    <3>2. file'[header_size] = file[header_size]
      BY Zenon, <1>2, <3>1
    <3>3. QED
      BY Zenon, <1>3, <3>1, <3>2 DEF WriterInv, FileInv
  <2>2. ~HasHeader'
    BY Zenon, <1>2, <1>3, <1>5, <2>1 DEF HasHeader
  <2>3. QED
    BY Zenon, <2>2 DEF Heading
<1>6. QED
  BY Zenon, <1>4, <1>5

(* Every step of the writer is a step of the recording, or none.           *)
LEMMA RecordingStep ==
  WriterInv /\ WriterInv' /\ [WriterNext]_writerVars => [Rec!Next]_(Rec!vars)
<1> SUFFICES ASSUME WriterInv, WriterInv', [WriterNext]_writerVars
             PROVE  [Rec!Next]_(Rec!vars)
  OBVIOUS
<1> DEFINE Same == UNCHANGED <<sample_count_, Data, Heading, State>>
<1>0. Same => [Rec!Next]_(Rec!vars)
  BY Zenon DEF Rec!vars, Data, State
<1>1. ASSUME NEW count \in Nat, Write(count) PROVE [Rec!Next]_(Rec!vars)
  <2>1. file' = file /\ State = "open" /\ State' = "open"
    BY SMT, <1>1 DEF Write, State
  <2>2. UNCHANGED <<Data, Heading, State>>
    BY Zenon, <2>1 DEF Data, Heading, HasHeader
  <2>3. sample_count_' \in Nat /\ (sample_count_' = sample_count_ \/ sample_count_' > sample_count_)
    BY SMT, <1>1 DEF Write, WriterInv, WriterTypeOK
  <2>4. sample_count_' > sample_count_ => Rec!Give
    BY Zenon, <2>1, <2>2, <2>3 DEF Rec!Give, Data, State
  <2>5. QED
    BY Zenon, <1>0, <2>2, <2>3, <2>4 DEF Rec!Next
<1>2. ASSUME NEW next \in {"write", "header"}, wpc \in {"write", "idle"}, Flushed(next),
             UNCHANGED <<sample_count_, in, remain>>
      PROVE  [Rec!Next]_(Rec!vars)
  <2>1. Len(file') >= Len(file)
    <3>1. wpc # "exited" /\ Len(file) \in Nat /\ Len(wbuf) \in Nat
      BY SMT, <1>2, Types DEF WriterInv
    <3>2. CASE file' = file \o wbuf
      <4>1. Len(file') = Len(file) + Len(wbuf)
        BY Zenon, <3>2, Types, ConcatProperties DEF WriterInv
      <4>2. QED
        BY SMT, <3>1, <4>1
    <3>3. ASSUME NEW n \in 0 .. buf_pos - 1, file' = file \o SubSeq(wbuf, 1, n)
          PROVE  Len(file') >= Len(file)
      <4>1. 1 .. n \subseteq 1 .. Len(wbuf) /\ 1 \in Int /\ n \in Int
        BY SMT, <3>1, <3>3 DEF buf_pos
      <4>2. \A i \in 1 .. n : wbuf[i] \in FileByte
        BY Zenon, <4>1, Types, ElementOfSeq DEF WriterInv
      <4>3. SubSeq(wbuf, 1, n) \in Seq(FileByte)
        BY SubSeqProperties, <4>1, <4>2
      <4>4. /\ Len(file') = Len(file) + Len(SubSeq(wbuf, 1, n))
            /\ Len(SubSeq(wbuf, 1, n)) \in Nat
        BY Zenon, <3>3, <4>3, Types, ConcatProperties, LenProperties DEF WriterInv
      <4>5. QED
        BY SMT, <3>1, <4>4
    <3>4. QED
      BY Zenon, <1>2, <3>2, <3>3 DEF Flushed
  <2>2. Rec!Saved(sample_count_) /\ sample_count_' = sample_count_
    BY Zenon, <1>2, <2>1, Grows
  <2>3. wpc' \in {next, "exited"}
    BY Zenon, <1>2 DEF Flushed
  <2>4. State = "open" /\ State' \in {"open", "abandoned"} /\ wpc # "closed" /\ wpc' # "closed"
    BY SMT, <1>2, <2>3 DEF State
  <2>5. Heading = -1 /\ Heading' = -1
    <3>1. WriterInv /\ wpc # "closed" => Heading = -1
      BY NoHeading
    <3>2. (WriterInv /\ wpc # "closed" => Heading = -1)'
      BY NoHeading, PTL
    <3>3. QED
      BY Zenon, <2>4, <3>1, <3>2
  <2>6. Rec!Save \/ Rec!Abandon
    BY Zenon, <2>2, <2>4, <2>5 DEF Rec!Save, Rec!Abandon, State
  <2>7. QED
    BY Zenon, <2>6 DEF Rec!Next
<1>3. CASE Flush
  BY Zenon, <1>2, <1>3 DEF Flush
<1>4. CASE TakeSamples \/ WriterReturns \/ UNCHANGED writerVars
  <2>1. /\ file' = file /\ sample_count_' = sample_count_
        /\ wpc' = wpc \/ (wpc = "write" /\ wpc' = "idle")
    BY Zenon, <1>4 DEF TakeSamples, WriterReturns, writerVars
  <2>2. State' = State
    BY SMT, <2>1 DEF State
  <2>3. Same
    BY Zenon, <2>1, <2>2 DEF Data, Heading, HasHeader
  <2>4. QED
    BY Zenon, <1>0, <2>3
<1>5. CASE Destroy
  <2>1. CASE buf_pos = 0
    <3>1. file' = file /\ sample_count_' = sample_count_ /\ wpc = "idle" /\ wpc' = "header"
      BY Zenon, <1>5, <2>1 DEF Destroy
    <3>2. State' = State
      BY SMT, <3>1 DEF State
    <3>3. Same
      BY Zenon, <3>1, <3>2 DEF Data, Heading, HasHeader
    <3>4. QED
      BY Zenon, <1>0, <3>3
  <2>2. CASE buf_pos # 0
    BY Zenon, <1>2, <1>5, <2>2 DEF Destroy
  <2>3. QED
    BY Zenon, <2>1, <2>2
<1>6. CASE WriteHeader
  <2>1. wpc = "header" /\ wpc' = "closed" /\ UNCHANGED <<wbuf, sample_count_, in, remain>>
    BY Zenon, <1>6 DEF WriteHeader
  <2>2. Len(file') = Len(file) /\ Data' = Data
    <3>1. Len(file') = Len(file)
      BY Zenon, <1>6, HeaderFits DEF WriteHeader
    <3>2. DataInv /\ DataInv'
      BY DataIs, PTL
    <3>3. Len(Data') = Len(Data)
      <4>1. Len(Data) = IF Len(file) > header_size THEN Len(file) - header_size ELSE 0
        BY Zenon, <3>2 DEF DataInv
      <4>2. Len(Data') = IF Len(file') > header_size THEN Len(file') - header_size ELSE 0
        BY Zenon, <3>2 DEF DataInv
      <4>3. QED
        BY SMT, <3>1, <4>1, <4>2
    <3>4. QED
      BY Zenon, <2>1, <3>1, <3>2, <3>3 DEF DataInv
  <2>3. Data = Rec!Bytes(sample_count_)
    <3>1. /\ Len(file) \in Nat /\ header_size \in Nat /\ sample_count_ \in Nat
          /\ Len(file) = header_size + 2 * sample_count_
      <4>1. wbuf = <<>> /\ Len(wbuf) = 0
        BY Zenon, <2>1, EmptySeq DEF WriterInv, CountInv
      <4>2. /\ remain = 0 /\ in \in Nat \ {0} /\ in + remain = sample_count_ + 1
            /\ Len(file) + Len(wbuf) = header_size + 2 * (in - 1)
        BY SMT, <2>1 DEF WriterInv, CountInv
      <4>3. QED
        BY SMT, <4>1, <4>2, Types, WriterAssumption
           DEF WriterAssumption, WriterInv, WriterTypeOK
    <3>2. DataInv
      BY Zenon, DataIs
    <3>3. Len(Data) = 2 * sample_count_
      BY SMT, <3>1, <3>2 DEF DataInv
    <3>4. QED
      BY Zenon, <3>2, <3>3 DEF DataInv, Rec!Bytes
  <2>4. State = "open" /\ State' = "closed"
    BY SMT, <2>1 DEF State
  <2>5. Heading' \in {sample_count_, -1}
    BY Zenon, <1>6, HeadingIs
  <2>6. Rec!Close
    BY Zenon, <2>1, <2>2, <2>3, <2>4, <2>5 DEF Rec!Close, Data, State
  <2>7. QED
    BY Zenon, <2>6 DEF Rec!Next
<1>7. QED
  BY Zenon, <1>1, <1>3, <1>4, <1>5, <1>6 DEF WriterNext, WriterRuns

(* The writer is a recording, with every size of the buffer.               *)
THEOREM WriterRecords == WriterSpec => IsARecording
BY RecordingInit, RecordingStep, WriterInvInit, WriterInvStep, PTL
   DEF WriterSpec, IsARecording, Rec!Spec

-----------------------------------------------------------------------------
(* The buffer's position is a number of its fixed-point time.              *)
OffsetInv ==
  /\ "offset" \in DOMAIN buf /\ buf.offset \in Nat
  /\ frame_length \in Nat

LEMMA Wraps ==
  ASSUME NEW t \in Int
  PROVE  t % Word \in Nat
<1>1. Word \in Nat \ {0}
  <2>1. \A a \in Nat, b \in Nat \ {0} : a * b >= a
    BY SMT
  <2>2. buffer_size_ + Quality + 66 \in Nat \ {0} /\ Word \in Nat
        /\ Unit \in Nat \ {0} /\ (buffer_size_ + Quality + 66) * Unit <= Word
    BY SMT, BlipAssumption DEF BlipAssumption
  <2>3. (buffer_size_ + Quality + 66) * Unit >= buffer_size_ + Quality + 66
    BY Zenon, <2>1, <2>2
  <2>4. (buffer_size_ + Quality + 66) * Unit \in Nat
    BY SMT, <2>2
  <2>5. QED
    BY SMT, <2>2, <2>3, <2>4
<1>2. \A a \in Int, b \in Nat \ {0} : a % b \in Nat
  BY SMT
<1>3. QED
  BY Zenon, <1>1, <1>2

LEMMA RemoveKeeps ==
  ASSUME OffsetInv, NEW n \in Nat
  PROVE  /\ "offset" \in DOMAIN remove_samples(buf, n)
         /\ remove_samples(buf, n).offset \in Nat
<1>1. Unit \in Nat
  BY BlipAssumption DEF BlipAssumption
<1>2. buf.offset - n * Unit \in Int
  BY SMT, <1>1 DEF OffsetInv
<1>3. (buf.offset - n * Unit) % Word \in Nat
  BY Zenon, <1>2, Wraps
<1>4. /\ "offset" \in DOMAIN remove_silence(buf, n)
      /\ remove_silence(buf, n).offset = (buf.offset - n * Unit) % Word
  BY SMT DEF OffsetInv, remove_silence
<1>5. CASE n = 0
  BY Zenon, <1>5 DEF remove_samples, OffsetInv
<1>6. CASE n # 0
  <2> DEFINE kept == remove_silence(buf, n)
  <2> HIDE DEF kept
  <2>1. ASSUME NEW m
        PROVE  /\ "offset" \in DOMAIN [kept EXCEPT !.mem = m]
               /\ [kept EXCEPT !.mem = m].offset = kept.offset
    BY SMT, <1>4 DEF kept
  <2>2. QED
    BY Zenon, <1>3, <1>4, <1>6, <2>1 DEF remove_samples, kept
<1>7. QED
  BY Zenon, <1>5, <1>6

LEMMA EndFrameKeeps ==
  ASSUME OffsetInv
  PROVE  /\ "offset" \in DOMAIN end_frame(buf, frame_length)
         /\ end_frame(buf, frame_length).offset \in Nat
<1>1. frame_length * factor_ + buf.offset \in Int
  BY SMT, BlipAssumption DEF BlipAssumption, OffsetInv
<1>2. to_fixed(buf, frame_length) \in Nat
  BY Zenon, <1>1, Wraps DEF to_fixed
<1>3. /\ "offset" \in DOMAIN end_frame(buf, frame_length)
      /\ end_frame(buf, frame_length).offset = to_fixed(buf, frame_length)
  <2> HIDE DEF to_fixed
  <2>1. QED
    BY SMT DEF OffsetInv, end_frame
<1>4. QED
  BY Zenon, <1>2, <1>3

LEMMA ReadableNat == OffsetInv => Readable(out_size) \in Nat
BY SMT, BlipAssumption, OutAssumption
   DEF BlipAssumption, OutAssumption, OffsetInv, Readable, samples_avail

LEMMA OffsetInvInit == DemoInit => OffsetInv
BY SMT, SimpleApuAssumption
   DEF SimpleApuAssumption, DemoInit, SimpleInit, Cleared, OffsetInv

LEMMA OffsetInvStep == OffsetInv /\ [DemoNext]_demoVars => OffsetInv'
<1> SUFFICES ASSUME OffsetInv, [DemoNext]_demoVars PROVE OffsetInv'
  OBVIOUS
<1>1. CASE SetSampleRate
  <2>1. buf' = Cleared /\ frame_length' = frame_length
    BY Zenon, <1>1 DEF SetSampleRate, sample_rate
  <2>2. QED
    BY SMT, <2>1 DEF OffsetInv, Cleared
<1>2. CASE \/ Access \/ TuneEnds \/ EmulatesFrame \/ WritesSamples \/ Ends
           \/ UNCHANGED demoVars
  <2>1. buf' = buf /\ frame_length' = frame_length
    BY Zenon, <1>2
       DEF Access, write_register, read_status, TuneEnds, EmulatesFrame, ChipRuns,
           WritesSamples, Ends, demoVars, simpleVars
  <2>2. QED
    BY Zenon, <2>1 DEF OffsetInv
<1>3. CASE EndsFrame
  <2>1. buf' = buf /\ frame_length' = OtherLength
    BY Zenon, <1>3 DEF EndsFrame, CallSimpleEndFrame
  <2>2. OtherLength \in Nat
    BY SMT DEF OffsetInv, OtherLength
  <2>3. QED
    BY Zenon, <2>1, <2>2 DEF OffsetInv
<1>4. CASE FrameEnded
  BY Zenon, <1>4, EndFrameKeeps DEF FrameEnded, SimpleEndFrame, OffsetInv
<1>5. CASE ReadsAndWrites
  <2>1. buf' = remove_samples(buf, Readable(out_size)) /\ frame_length' = frame_length
    BY Zenon, <1>5 DEF ReadsAndWrites, ReadSamples
  <2>2. QED
    BY Zenon, <2>1, ReadableNat, RemoveKeeps DEF OffsetInv
<1>6. QED
  BY Zenon, <1>1, <1>2, <1>3, <1>4, <1>5 DEF DemoNext

(* Nothing but the writer's own steps touches the writer.                  *)
LEMMA DemoIsAWriter == OffsetInv /\ [DemoNext]_demoVars => [WriterNext]_writerVars
<1> SUFFICES ASSUME OffsetInv, [DemoNext]_demoVars PROVE [WriterNext]_writerVars
  OBVIOUS
<1>1. CASE \/ SetSampleRate \/ Access \/ TuneEnds \/ EndsFrame \/ EmulatesFrame
           \/ FrameEnded \/ UNCHANGED demoVars
  BY Zenon, <1>1
     DEF SetSampleRate, Access, TuneEnds, EndsFrame, EmulatesFrame, FrameEnded, demoVars
<1>2. CASE ReadsAndWrites
  <2>1. Write(Readable(out_size)) /\ Readable(out_size) \in Nat
    BY Zenon, <1>2, ReadableNat DEF ReadsAndWrites
  <2>2. QED
    BY Zenon, <2>1 DEF WriterNext
<1>3. CASE WritesSamples \/ Ends
  BY Zenon, <1>3 DEF WritesSamples, Ends, WriterNext
<1>4. QED
  BY Zenon, <1>1, <1>2, <1>3 DEF DemoNext

(* At every moment the file holds the beginning of what the chip has       *)
(* played, and when the program has closed it all of it.                   *)
THEOREM DemoRecords == DemoSpec => IsARecording
<1>1. DemoInit => WriterInit
  BY DEF DemoInit
<1>2. DemoSpec => WriterSpec
  BY <1>1, OffsetInvInit, OffsetInvStep, DemoIsAWriter, PTL DEF DemoSpec, WriterSpec
<1>3. QED
  BY <1>2, WriterRecords, PTL

-----------------------------------------------------------------------------
(* The assertions, and the time of the samples.  Where the program is, ... *)
DemoTyped ==
  /\ main \in {"sample_rate", "emulate_frame", "end_frame", "read_samples", "write",
               "return", "destroying"}
  /\ accesses \in 0 .. MaxAccesses /\ clocks \in Nat
  /\ frame_length \in {first_frame_length, first_frame_length + 1}
  /\ wpc = "write" => main = "write"

(* ... what the chip has been asked for and how far it may have run, ...   *)
CallInv ==
  /\ main \notin {"emulate_frame", "end_frame"} => pc = "idle"
  /\ main = "end_frame" <=> op = "end_frame"
  /\ op # "run_until"
  /\ op = "end_frame" => goal = frame_length /\ last_time <= goal
  /\ op \in {"write", "read_status_now"} => goal = time
  /\ op = "read_status" => goal = time - 1
  /\ main = "end_frame" => time = 0
  /\ main # "end_frame" => time = accesses * AccessTime /\ last_time <= time

(* ... and how much of the time that it has run is in the buffer: between  *)
(* two time frames less than a sample.                                     *)
StreamInv ==
  /\ clocks * factor_ = sample_count_ * Unit + buf.offset
  /\ main = "sample_rate" => clocks = 0 /\ sample_count_ = 0
  /\ main = "read_samples" => buf.offset < (out_size + 1) * Unit
  /\ main # "read_samples" => buf.offset < Unit

DemoInv == TypeOK /\ TimeInv /\ WriterInv /\ OffsetInv /\ DemoTyped /\ CallInv /\ StreamInv

LEMMA Lengths ==
  /\ first_frame_length \in Nat /\ first_frame_length >= 1
  /\ first_frame_length + 1 <= max_time /\ first_frame_length % 2 = 0
  /\ AccessTime \in Nat /\ AccessTime >= 1 /\ MaxAccesses \in Nat
  /\ MaxAccesses * AccessTime \in Nat /\ MaxAccesses * AccessTime <= first_frame_length
  /\ max_time \in Nat
<1>1. /\ first_frame_length \in Nat /\ first_frame_length >= 1
      /\ first_frame_length + 1 <= max_time /\ first_frame_length % 2 = 0
      /\ AccessTime \in Nat /\ AccessTime >= 1 /\ MaxAccesses \in Nat
      /\ MaxAccesses * AccessTime <= first_frame_length
  BY SMT, SimpleApuAssumption, TuneAssumption DEF SimpleApuAssumption, TuneAssumption
<1>2. MaxAccesses * AccessTime \in Nat
  BY SMT, <1>1
<1> QED
  BY Zenon, <1>1, <1>2, Horizon

(* The clock of the last access, and of one more.                          *)
LEMMA AccessClocks ==
  ASSUME NEW n \in 0 .. MaxAccesses
  PROVE  /\ n * AccessTime \in Nat /\ n * AccessTime <= first_frame_length
         /\ n < MaxAccesses =>
              /\ n + 1 \in 0 .. MaxAccesses
              /\ (n + 1) * AccessTime = n * AccessTime + AccessTime
              /\ n * AccessTime + AccessTime <= first_frame_length
<1>1. n \in Nat /\ n <= MaxAccesses
  BY SMT, Lengths
<1>2. PICK T \in Int : T = n * AccessTime
  BY SMT, <1>1, Lengths
<1>3. /\ n * AccessTime \in Nat /\ (n + 1) * AccessTime = n * AccessTime + AccessTime
      /\ n * AccessTime <= MaxAccesses * AccessTime
      /\ n + 1 <= MaxAccesses => (n + 1) * AccessTime <= MaxAccesses * AccessTime
  BY SMT, <1>1, Lengths, Products
<1> QED
  BY SMT, <1>1, <1>3, Lengths

(* The chip is called as its own specification has it.                     *)
LEMMA ChipStep == DemoInv /\ [DemoNext]_demoVars => TypeOK' /\ TimeInv'
<1> SUFFICES ASSUME DemoInv, [DemoNext]_demoVars PROVE TypeOK' /\ TimeInv'
  OBVIOUS
<1>0. TypeOK /\ TimeInv
  BY DEF DemoInv
<1>1. CASE SetSampleRate
  BY Zenon, <1>0, <1>1, TypeOutput, TimeOutput DEF SetSampleRate, sample_rate
<1>2. CASE Access
  <2>1. accesses \in 0 .. MaxAccesses /\ accesses < MaxAccesses /\ main = "emulate_frame"
        /\ time = accesses * AccessTime /\ last_time <= time
    BY Zenon, <1>2 DEF Access, DemoInv, DemoTyped, CallInv
  <2>2. PICK T \in Nat : T = time /\ T + AccessTime <= first_frame_length
    BY Zenon, <2>1, AccessClocks
  <2>3. clock \in Int /\ 0 <= clock /\ clock <= max_time /\ clock > last_time
    BY SMT, <1>0, <2>1, <2>2, Lengths DEF clock, TypeOK
  <2>4. CallWrite(clock) \/ CallReadStatus(clock)
    BY Zenon, <1>2 DEF Access, write_register, read_status
  <2> QED
    BY Zenon, <1>0, <2>3, <2>4, TypeCalls, TimeCalls
<1>3. CASE EndsFrame
  <2>1. CallEndFrame(frame_length') /\ frame_length' = OtherLength
    BY Zenon, <1>3 DEF EndsFrame, CallSimpleEndFrame
  <2>2. frame_length' \in Int /\ 0 <= frame_length' /\ frame_length' <= max_time
    BY SMT, <2>1, Lengths DEF DemoInv, DemoTyped, OtherLength
  <2> QED
    BY Zenon, <1>0, <2>1, <2>2, TypeCalls, TimeCalls
<1>4. CASE EmulatesFrame
  BY Zenon, <1>0, <1>4, TypeRunning, TypeReturns, TimeRunning, TimeReturns
     DEF EmulatesFrame, ChipRuns
<1>5. CASE FrameEnded
  BY Zenon, <1>0, <1>5, TypeEndFrame, TimeEndFrame DEF FrameEnded, SimpleEndFrame
<1>6. CASE TuneEnds \/ ReadsAndWrites \/ WritesSamples \/ Ends \/ UNCHANGED demoVars
  <2>1. UNCHANGED vars
    BY Zenon, <1>6 DEF TuneEnds, ReadsAndWrites, ReadSamples, WritesSamples, Ends,
       demoVars, simpleVars
  <2> QED
    BY Zenon, <1>0, <2>1, TypeUnchanged, TimeUnchanged
<1> QED
  BY Zenon, <1>1, <1>2, <1>3, <1>4, <1>5, <1>6 DEF DemoNext

(* How a step of the chip moves on the call it works on.                   *)
LEMMA ChipMoves ==
  ASSUME TypeOK, TimeInv, Running \/ Returns
  PROVE  /\ pc # "idle" /\ last_time' \in Int /\ last_time \in Int /\ goal \in Int
         /\ \/ op' = op /\ goal' = goal /\ (last_time' = last_time \/ last_time' <= goal)
            \/ op # "end_frame" /\ op' = "none" /\ last_time' = last_time
            \/ op = "read_status" /\ op' = "read_status_now" /\ goal' = goal + 1
               /\ last_time' = last_time
<1>1. CASE RunUntil_ \/ DmcRun \/ DmcBit
  <2>1. pc \in {"run_until_", "dmc_run", "dmc_bits"} /\ UNCHANGED <<op, goal, last_time>>
    BY Zenon, <1>1 DEF RunUntil_, DmcRun, DmcBit, timeVars
  <2> QED
    BY SMT, <2>1 DEF TypeOK
<1>2. CASE FrameEvent \/ FramesDone
  <2>1. pc = "frames" /\ UNCHANGED <<op, goal>>
    BY Zenon, <1>2 DEF FrameEvent, FramesDone, callVars
  <2>2. last_time' \in Int /\ last_time' <= goal
    BY SMT, <1>2 DEF TypeOK, FrameEvent, FramesDone
  <2> QED
    BY SMT, <2>1, <2>2 DEF TypeOK
<1>3. CASE Returns
  <2>1. pc = "return" /\ last_time' = last_time
    BY Zenon, <1>3, ReturnsEnd DEF ReturnsKeep, timeVars
  <2>2. CASE ReadStatusSample
    BY SMT, <2>1, <2>2 DEF TypeOK, ReadStatusSample
  <2>3. CASE ~ReadStatusSample
    BY SMT, <1>3, <2>1, <2>3, ReturnsEnd DEF TypeOK
  <2> QED
    BY Zenon, <2>2, <2>3
<1> QED
  BY Zenon, <1>1, <1>2, <1>3 DEF Running

LEMMA PlaceStep ==
  ASSUME DemoInv, [DemoNext]_demoVars
  PROVE  DemoTyped' /\ CallInv'
<1>0. TypeOK /\ TimeInv /\ TypeOK' /\ TimeInv' /\ DemoTyped /\ CallInv
  BY Zenon, ChipStep DEF DemoInv
<1>1. CASE SetSampleRate
  <2>1. /\ main = "sample_rate" /\ main' \in {"emulate_frame", "return"}
        /\ UNCHANGED <<accesses, clocks, frame_length, wpc, pc, op, goal, time, last_time>>
    BY Zenon, <1>1 DEF SetSampleRate, sample_rate, SetDmcOutput, writerVars, timeVars, callVars
  <2> QED
    BY Zenon, <1>0, <2>1 DEF DemoTyped, CallInv
<1>2. CASE Access
  <2>1. /\ main = "emulate_frame" /\ accesses < MaxAccesses /\ accesses' = accesses + 1
        /\ pc = "idle" /\ time' = clock
        /\ \/ op' = "write" /\ goal' = clock
           \/ op' = "read_status" /\ goal' = clock - 1
        /\ UNCHANGED <<main, clocks, frame_length, wpc, last_time>>
    BY Zenon, <1>2 DEF Access, write_register, read_status, CallWrite, CallReadStatus, Call,
       writerVars
  <2>2. PICK n \in 0 .. MaxAccesses : n = accesses
    BY Zenon, <1>0 DEF DemoTyped
  <2>3. PICK T \in Nat : T = n * AccessTime /\ T = time /\ last_time <= T
    BY Zenon, <1>0, <2>1, <2>2, AccessClocks DEF CallInv
  <2>4. n + 1 \in 0 .. MaxAccesses /\ (n + 1) * AccessTime = T + AccessTime
    BY Zenon, <2>1, <2>2, <2>3, AccessClocks
  <2>5. time' = accesses' * AccessTime /\ accesses' \in 0 .. MaxAccesses
    BY Zenon, <2>1, <2>2, <2>3, <2>4 DEF clock
  <2>6. last_time' <= time'
    BY SMT, <1>0, <2>1, <2>3, Lengths DEF clock, TypeOK
  <2>7. op = "none"
    BY Zenon, <1>0, <2>1 DEF TimeInv
  <2> QED
    BY Zenon, <1>0, <2>1, <2>5, <2>6, <2>7 DEF DemoTyped, CallInv
<1>3. CASE EndsFrame
  <2>1. /\ main = "emulate_frame" /\ main' = "end_frame" /\ pc = "idle" /\ time' = 0
        /\ frame_length' = OtherLength /\ op' = "end_frame" /\ goal' = frame_length'
        /\ UNCHANGED <<accesses, clocks, wpc, last_time>>
    BY Zenon, <1>3 DEF EndsFrame, CallSimpleEndFrame, CallEndFrame, Call, writerVars
  <2>2. frame_length' \in {first_frame_length, first_frame_length + 1}
    BY SMT, <1>0, <2>1, Lengths DEF DemoTyped, OtherLength
  <2>3. PICK T \in Nat : T <= first_frame_length /\ last_time <= T
    BY Zenon, <1>0, <2>1, AccessClocks DEF DemoTyped, CallInv
  <2>4. last_time' <= goal'
    BY SMT, <1>0, <2>1, <2>2, <2>3, Lengths DEF TypeOK
  <2>5. pc' # "idle"
    BY Zenon, <1>0, <2>1 DEF TimeInv
  <2> QED
    BY Zenon, <1>0, <2>1, <2>2, <2>4, <2>5 DEF DemoTyped, CallInv
<1>4. CASE EmulatesFrame
  <2>1. /\ Running \/ Returns
        /\ UNCHANGED <<main, accesses, clocks, frame_length, wpc, time>>
    BY Zenon, <1>4 DEF EmulatesFrame, ChipRuns, writerVars
  <2>2. DemoTyped'
    BY Zenon, <1>0, <2>1 DEF DemoTyped
  <2>3. pc # "idle" /\ main \in {"emulate_frame", "end_frame"}
    BY Zenon, <1>0, <2>1, ChipMoves DEF CallInv
  <2>4. op \in {"write", "read_status", "read_status_now", "end_frame"}
    BY Zenon, <1>0, <2>3 DEF CallInv, TypeOK, TimeInv
  <2>5. time \in Int
    <3>1. CASE main = "end_frame"
      BY SMT, <1>0, <3>1 DEF CallInv
    <3>2. CASE main = "emulate_frame"
      <4>1. time \in Nat
        BY Zenon, <1>0, <3>2, AccessClocks DEF DemoTyped, CallInv
      <4> QED
        BY SMT, <4>1
    <3> QED
      BY Zenon, <2>3, <3>1, <3>2
  <2>6. CallInv'
    <3>1. CASE op' = op /\ goal' = goal /\ (last_time' = last_time \/ last_time' <= goal)
      <4>1. main # "end_frame" => goal <= time
        BY SMT, <1>0, <2>3, <2>4, <2>5 DEF CallInv, TypeOK
      <4>2. /\ main # "end_frame" => last_time' <= time
            /\ op = "end_frame" => last_time' <= goal
        BY SMT, <1>0, <2>1, <2>5, <3>1, <4>1, ChipMoves DEF CallInv
      <4> QED
        BY Zenon, <1>0, <2>1, <2>3, <3>1, <4>2 DEF CallInv
    <3>2. CASE op # "end_frame" /\ op' = "none" /\ last_time' = last_time
      BY Zenon, <1>0, <2>1, <2>3, <3>2 DEF CallInv
    <3>3. CASE op = "read_status" /\ op' = "read_status_now" /\ goal' = goal + 1
               /\ last_time' = last_time
      <4>1. goal' = time
        BY SMT, <1>0, <2>5, <3>3 DEF CallInv, TypeOK
      <4> QED
        BY Zenon, <1>0, <2>1, <2>3, <3>3, <4>1 DEF CallInv
    <3> QED
      BY Zenon, <1>0, <2>1, <3>1, <3>2, <3>3, ChipMoves
  <2> QED
    BY Zenon, <2>2, <2>6
<1>5. CASE FrameEnded
  <2>1. /\ main' = "read_samples" /\ accesses' = 0 /\ clocks' = clocks + goal
        /\ pc = "return" /\ op = "end_frame" /\ pc' = "idle" /\ op' = "none"
        /\ last_time' = last_time - goal
        /\ UNCHANGED <<frame_length, wpc, time>>
    BY Zenon, <1>5 DEF FrameEnded, SimpleEndFrame, EndFrame, Return, writerVars
  <2>2. last_time' = 0
    BY SMT, <1>0, <2>1 DEF CallInv, TimeInv, TypeOK
  <2>3. time = 0 /\ 0 = 0 * AccessTime
    BY SMT, <1>0, <2>1, Lengths DEF CallInv
  <2>4. clocks' \in Nat /\ accesses' \in 0 .. MaxAccesses
    BY SMT, <1>0, <2>1, Lengths DEF DemoTyped, TimeInv, TypeOK
  <2>5. last_time' <= time'
    BY SMT, <2>1, <2>2, <2>3
  <2>6. main = "end_frame" /\ wpc # "write"
    BY Zenon, <1>0, <2>1 DEF CallInv, DemoTyped
  <2> QED
    BY Zenon, <1>0, <2>1, <2>3, <2>4, <2>5, <2>6 DEF DemoTyped, CallInv
<1>6. CASE ReadsAndWrites
  <2>1. /\ main = "read_samples" /\ main' = "write"
        /\ UNCHANGED <<accesses, clocks, frame_length, pc, op, goal, time, last_time>>
    BY Zenon, <1>6 DEF ReadsAndWrites, ReadSamples, vars, timeVars, callVars
  <2> QED
    BY Zenon, <1>0, <2>1 DEF DemoTyped, CallInv
<1>7. CASE WritesSamples
  <2>1. /\ main' = main \/ (main' = "emulate_frame" /\ wpc' = "idle")
        /\ wpc' = "idle" => main' = "emulate_frame"
        /\ wpc' = "write" => wpc = "write"
        /\ wpc' = "idle" => wpc = "write"
        /\ UNCHANGED <<accesses, clocks, frame_length, pc, op, goal, time, last_time>>
    BY Zenon, <1>7 DEF WritesSamples, WriterRuns, Flush, Flushed, TakeSamples, WriterReturns,
       WriteHeader, simpleVars, vars, timeVars, callVars
  <2>2. wpc' = "idle" => main = "write"
    BY Zenon, <1>0, <2>1 DEF DemoTyped
  <2> QED
    BY Zenon, <1>0, <2>1, <2>2 DEF DemoTyped, CallInv
<1>8. CASE TuneEnds \/ Ends
  <2>1. /\ pc = "idle" \/ main = "return"
        /\ main \in {"emulate_frame", "return"}
        /\ main' \in {"return", "destroying"} /\ (wpc' = "write" => wpc = "write")
        /\ UNCHANGED <<accesses, clocks, frame_length, pc, op, goal, time, last_time>>
    BY Zenon, <1>8 DEF TuneEnds, Ends, Destroy, Flushed, writerVars, simpleVars, vars,
       timeVars, callVars
  <2>2. pc = "idle"
    BY Zenon, <1>0, <2>1 DEF CallInv
  <2> QED
    BY Zenon, <1>0, <2>1, <2>2 DEF DemoTyped, CallInv
<1>9. CASE UNCHANGED demoVars
  BY Zenon, <1>0, <1>9
     DEF DemoTyped, CallInv, demoVars, simpleVars, writerVars, vars, timeVars, callVars
<1> QED
  BY Zenon, <1>1, <1>2, <1>3, <1>4, <1>5, <1>6, <1>7, <1>8, <1>9 DEF DemoNext

(* In a time frame the buffer's position never wraps, and stays in it.     *)
LEMMA FramePosition ==
  ASSUME NEW t \in Nat, t <= first_frame_length + 1, NEW o \in Nat, o < Unit
  PROVE  /\ t * factor_ \in Nat /\ (out_size + 1) * Unit \in Nat
         /\ (t * factor_ + o) % Word = t * factor_ + o
         /\ t * factor_ + o < (out_size + 1) * Unit
         /\ (out_size + 1) * Unit <= buffer_size_ * Unit
<1>1. /\ Unit \in Nat \ {0} /\ factor_ \in Nat /\ buffer_size_ \in Nat /\ out_size \in Nat
      /\ out_size + 1 <= buffer_size_ /\ Word \in Nat /\ Quality \in Nat
      /\ first_frame_length + 1 \in Nat /\ buffer_size_ \in Int /\ out_size \in Int
      /\ buffer_size_ <= buffer_size_ + Quality + 66
      /\ buffer_size_ + Quality + 66 \in Int /\ out_size + 1 \in Int /\ t \in Int
      /\ first_frame_length + 1 \in Int
  BY SMT, BlipAssumption, OutAssumption, Lengths DEF BlipAssumption, OutAssumption
<1>2. PICK P \in Int : P = t * factor_
  BY SMT, <1>1
<1>3. PICK F \in Int : F = (first_frame_length + 1) * factor_
  BY SMT, <1>1
<1>4. PICK U \in Int : U = out_size * Unit
  BY SMT, <1>1
<1>5. PICK V \in Int : V = (out_size + 1) * Unit
  BY SMT, <1>1
<1>6. PICK B \in Int : B = buffer_size_ * Unit
  BY SMT, <1>1
<1>7. PICK W \in Int : W = (buffer_size_ + Quality + 66) * Unit
  BY SMT, <1>1
<1>8. Unit \in Nat
  BY SMT, <1>1
<1>9. 0 <= P
  BY SMT, <1>1, <1>2
<1>10. P <= F
  BY Zenon, <1>1, <1>2, <1>3, Products
<1>11. V = U + Unit /\ V <= B /\ B <= W
  <2>1. PICK n \in Int : n = buffer_size_ + Quality + 66
    BY Zenon, <1>1
  <2>2. W = n * Unit /\ buffer_size_ <= n
    BY Zenon, <1>1, <1>7, <2>1
  <2>3. B <= W
    BY Zenon, <1>1, <1>6, <1>8, <2>1, <2>2, Products
  <2>4. V = U + Unit /\ V <= B
    BY Zenon, <1>1, <1>4, <1>5, <1>6, <1>8, Products
  <2> QED
    BY Zenon, <2>3, <2>4
<1>12. F <= U /\ W <= Word
  BY Zenon, <1>3, <1>4, <1>7, BlipAssumption, OutAssumption DEF BlipAssumption, OutAssumption
<1>13. /\ P \in Nat /\ V \in Nat /\ (P + o) % Word = P + o /\ P + o < V /\ V <= B
  <2>1. P + o < Word /\ P + o \in Nat /\ P \in Nat /\ V \in Nat /\ P + o < V
    BY SMT, <1>1, <1>8, <1>9, <1>10, <1>11, <1>12
  <2>2. \A a \in Nat, b \in Nat : a < b => a % b = a
    BY SMT
  <2> QED
    BY Zenon, <1>1, <1>11, <2>1, <2>2
<1> QED
  BY Zenon, <1>2, <1>5, <1>6, <1>13

(* All the samples that are available between two time frames are read,    *)
(* and what is left of the position is less than one.                      *)
LEMMA AllRead ==
  ASSUME OffsetInv, buf.offset < (out_size + 1) * Unit
  PROVE  /\ Readable(out_size) = samples_avail(buf)
         /\ Readable(out_size) \in Nat /\ Readable(out_size) * Unit \in Nat
         /\ buf.offset - Readable(out_size) * Unit \in Nat
         /\ buf.offset - Readable(out_size) * Unit < Unit
         /\ remove_samples(buf, Readable(out_size)).offset
              = buf.offset - Readable(out_size) * Unit
<1>1. /\ Unit \in Nat \ {0} /\ out_size \in Nat /\ buf.offset \in Nat /\ buf.offset \in Int
      /\ Unit \in Nat
  BY SMT, BlipAssumption, OutAssumption DEF BlipAssumption, OutAssumption, OffsetInv
<1>2. PICK o \in Nat : o = buf.offset
  BY Zenon, <1>1
<1>3. PICK q \in Int : q = o \div Unit /\ q * Unit <= o /\ o < q * Unit + Unit
  <2>1. o \in Int
    BY SMT
  <2> QED
    BY Zenon, <1>1, <2>1, Division
<1>4. PICK Q \in Int : Q = q * Unit
  BY SMT, <1>1
<1>5. q >= 0 /\ q <= out_size
  <2>1. \A a \in Int, u \in Nat : (a < 0 => (a + 1) * u <= 0 * u)
    BY SMT
  <2>2. /\ (q + 1) * Unit = Q + Unit /\ 0 * Unit = 0
    BY SMT, <1>1, <1>4, Products
  <2>3. q >= 0
    BY SMT, <1>1, <1>3, <1>4, <2>1, <2>2
  <2>4. CASE out_size < q
    <3>1. out_size + 1 <= q /\ out_size + 1 \in Int
      BY SMT, <1>1, <2>4
    <3>2. (out_size + 1) * Unit <= Q /\ (out_size + 1) * Unit \in Int
      BY Zenon, <1>1, <1>4, <3>1, Products
    <3>3. o < (out_size + 1) * Unit
      BY Zenon, <1>2
    <3> QED
      BY SMT, <1>3, <1>4, <3>2, <3>3
  <2> QED
    BY SMT, <1>1, <2>3, <2>4
<1>6. Readable(out_size) = q /\ samples_avail(buf) = q
  <2>1. samples_avail(buf) = q
    BY Zenon, <1>2, <1>3 DEF samples_avail
  <2>2. ~(q > out_size)
    BY SMT, <1>1, <1>5
  <2> QED
    BY Zenon, <2>1, <2>2 DEF Readable
<1>7. /\ q \in Nat /\ Q \in Nat /\ o - Q \in Nat /\ o - Q < Unit
  BY SMT, <1>1, <1>3, <1>4, <1>5
<1>8. remove_samples(buf, q).offset = o - Q
  <2>1. CASE q = 0
    <3>1. Q = 0
      BY SMT, <1>1, <1>4, <2>1
    <3>2. o - Q = o
      BY SMT, <3>1
    <3> QED
      BY Zenon, <1>2, <2>1, <3>2 DEF remove_samples
  <2>2. CASE q # 0
    <3>1. (o - Q) % Word = o - Q
      <4>1. PICK W \in Int : W = (buffer_size_ + Quality + 66) * Unit /\ W <= Word
        BY SMT, BlipAssumption DEF BlipAssumption
      <4>2. 1 * Unit = Unit /\ 1 * Unit <= W
        <5>1. 1 \in Int /\ buffer_size_ + Quality + 66 \in Int
              /\ 1 <= buffer_size_ + Quality + 66
          BY SMT, BlipAssumption DEF BlipAssumption
        <5>2. 1 * Unit = Unit
          BY SMT, <1>1
        <5> QED
          BY Zenon, <1>1, <4>1, <5>1, <5>2, Products
      <4>3. o - Q < Word /\ Word \in Nat
        BY SMT, <1>1, <1>7, <4>1, <4>2, BlipAssumption DEF BlipAssumption
      <4>4. \A a \in Nat, b \in Nat : a < b => a % b = a
        BY SMT
      <4> QED
        BY Zenon, <1>7, <4>3, <4>4
    <3>2. /\ "offset" \in DOMAIN remove_silence(buf, q)
          /\ remove_silence(buf, q).offset = (o - Q) % Word
      <4>1. /\ "offset" \in DOMAIN remove_silence(buf, q)
            /\ remove_silence(buf, q).offset = (buf.offset - q * Unit) % Word
        BY SMT DEF OffsetInv, remove_silence
      <4> QED
        BY Zenon, <1>2, <1>4, <4>1
    <3> DEFINE kept == remove_silence(buf, q)
    <3> HIDE DEF kept
    <3>3. ASSUME NEW m
          PROVE  [kept EXCEPT !.mem = m].offset = kept.offset
      BY SMT, <3>2 DEF kept
    <3> QED
      BY Zenon, <2>2, <3>1, <3>2, <3>3 DEF remove_samples, kept
  <2> QED
    BY Zenon, <2>1, <2>2
<1> QED
  BY Zenon, <1>2, <1>4, <1>6, <1>7, <1>8

LEMMA Distributes ==
  ASSUME NEW a \in Nat, NEW b \in Nat, NEW u \in Nat
  PROVE  (a + b) * u = a * u + b * u
BY SMT

LEMMA StreamStep ==
  ASSUME DemoInv, [DemoNext]_demoVars
  PROVE  StreamInv'
<1>0. /\ TypeOK /\ TimeInv /\ DemoTyped /\ CallInv /\ StreamInv /\ OffsetInv
      /\ WriterTypeOK /\ DemoTyped'
  BY Zenon, PlaceStep DEF DemoInv, WriterInv
<1>1. /\ Unit \in Nat \ {0} /\ Unit \in Nat /\ factor_ \in Nat
      /\ first_frame_length + 1 \in Nat
  BY SMT, BlipAssumption, Lengths DEF BlipAssumption
<1>2. CASE SetSampleRate
  <2>1. /\ clocks = 0 /\ sample_count_ = 0 /\ clocks' = 0 /\ sample_count_' = 0
        /\ main' \in {"emulate_frame", "return"} /\ buf' = Cleared
    BY Zenon, <1>0, <1>2 DEF SetSampleRate, sample_rate, StreamInv, writerVars
  <2>2. buf'.offset = 0
    BY SMT, <2>1 DEF Cleared
  <2>3. 0 * factor_ = 0 * Unit + 0 /\ 0 < Unit
    BY SMT, <1>1
  <2> QED
    BY Zenon, <2>1, <2>2, <2>3 DEF StreamInv
<1>3. CASE FrameEnded
  <2>1. /\ op = "end_frame" /\ main' = "read_samples" /\ clocks' = clocks + goal
        /\ buf' = end_frame(buf, frame_length) /\ sample_count_' = sample_count_
    BY Zenon, <1>3 DEF FrameEnded, SimpleEndFrame, EndFrame, Return, writerVars
  <2>2. goal = frame_length /\ main = "end_frame"
    BY Zenon, <1>0, <2>1 DEF CallInv
  <2>3. PICK t \in Nat : t = frame_length /\ t <= first_frame_length + 1
    BY SMT, <1>0, Lengths DEF DemoTyped
  <2>4. PICK o \in Nat : o = buf.offset /\ o < Unit
    BY Zenon, <1>0, <2>2 DEF OffsetInv, StreamInv
  <2>5. buf'.offset = (t * factor_ + o) % Word
    <3>1. end_frame(buf, frame_length).offset = to_fixed(buf, frame_length)
      <4> HIDE DEF to_fixed
      <4> QED
        BY SMT, <1>0 DEF OffsetInv, end_frame
    <3> QED
      BY Zenon, <2>1, <2>3, <2>4, <3>1 DEF to_fixed
  <2>6. /\ buf'.offset = t * factor_ + o /\ buf'.offset < (out_size + 1) * Unit
    <3>1. /\ (t * factor_ + o) % Word = t * factor_ + o
          /\ t * factor_ + o < (out_size + 1) * Unit
      BY Zenon, <2>3, <2>4, FramePosition
    <3> QED
      BY Zenon, <2>5, <3>1
  <2>7. PICK c \in Nat : c = clocks
    BY Zenon, <1>0 DEF DemoTyped
  <2>8. PICK n \in Nat : n = sample_count_
    BY Zenon, <1>0 DEF WriterTypeOK
  <2>9. c * factor_ = n * Unit + o
    BY Zenon, <1>0, <2>4, <2>7, <2>8 DEF StreamInv
  <2>10. PICK C \in Int : C = c * factor_
    BY SMT, <1>1
  <2>11. PICK S \in Int : S = n * Unit
    BY SMT, <1>1
  <2>12. PICK T \in Int : T = t * factor_
    BY SMT, <1>1
  <2>13. (c + t) * factor_ = C + T
    BY Zenon, <1>1, <2>10, <2>12, Distributes
  <2>14. C + T = S + (T + o)
    <3>1. C = S + o
      BY Zenon, <2>9, <2>10, <2>11
    <3> QED
      BY SMT, <3>1
  <2>15. clocks' * factor_ = sample_count_' * Unit + buf'.offset
    BY Zenon, <2>1, <2>2, <2>3, <2>6, <2>7, <2>8, <2>11, <2>12, <2>13, <2>14
  <2> QED
    BY Zenon, <2>1, <2>6, <2>15 DEF StreamInv
<1>4. CASE ReadsAndWrites
  <2>1. /\ main = "read_samples" /\ main' = "write" /\ clocks' = clocks
        /\ buf' = remove_samples(buf, Readable(out_size))
        /\ sample_count_' = sample_count_ + Readable(out_size)
    BY Zenon, <1>4 DEF ReadsAndWrites, ReadSamples, Write
  <2>2. buf.offset < (out_size + 1) * Unit
    BY Zenon, <1>0, <2>1 DEF StreamInv
  <2>3. PICK r \in Nat : r = Readable(out_size)
    BY Zenon, <1>0, <2>2, AllRead
  <2>4. PICK o \in Nat : o = buf.offset
    BY Zenon, <1>0 DEF OffsetInv
  <2>5. r * Unit \in Nat /\ o - r * Unit < Unit /\ buf'.offset = o - r * Unit
    BY Zenon, <1>0, <2>1, <2>2, <2>3, <2>4, AllRead
  <2>6. PICK c \in Nat : c = clocks
    BY Zenon, <1>0 DEF DemoTyped
  <2>7. PICK n \in Nat : n = sample_count_
    BY Zenon, <1>0 DEF WriterTypeOK
  <2>8. c * factor_ = n * Unit + o
    BY Zenon, <1>0, <2>4, <2>6, <2>7 DEF StreamInv
  <2>9. PICK S \in Int : S = n * Unit
    BY SMT, <1>1
  <2>10. PICK R \in Int : R = r * Unit
    BY SMT, <1>1
  <2>11. (n + r) * Unit = S + R
    BY Zenon, <1>1, <2>9, <2>10, Distributes
  <2>12. S + o = (S + R) + (o - R)
    BY SMT
  <2>13. clocks' * factor_ = sample_count_' * Unit + buf'.offset
    BY Zenon, <2>1, <2>3, <2>5, <2>6, <2>7, <2>8, <2>9, <2>10, <2>11, <2>12
  <2> QED
    BY Zenon, <2>1, <2>5, <2>13 DEF StreamInv
<1>5. CASE \/ Access \/ TuneEnds \/ EndsFrame \/ EmulatesFrame \/ WritesSamples \/ Ends
           \/ UNCHANGED demoVars
  <2>1. /\ UNCHANGED <<clocks, buf, sample_count_>>
        /\ main' = main \/ main' \in {"return", "end_frame", "emulate_frame", "destroying"}
    BY Zenon, <1>5
       DEF Access, write_register, read_status, TuneEnds, EndsFrame, CallSimpleEndFrame,
           EmulatesFrame, ChipRuns, WritesSamples, WriterRuns, Flush, TakeSamples,
           WriterReturns, WriteHeader, Ends, Destroy, demoVars, simpleVars, writerVars
  <2>2. wpc' = "idle" /\ WritesSamples => wpc = "write"
    BY Zenon DEF WritesSamples, WriterRuns, Flush, TakeSamples, WriterReturns, WriteHeader
  <2>3. main = "read_samples" => main' = main
    BY Zenon, <1>0, <1>5, <2>1, <2>2
       DEF DemoTyped, Access, TuneEnds, EndsFrame, EmulatesFrame, WritesSamples, Ends, demoVars
  <2> QED
    BY Zenon, <1>0, <2>1, <2>3 DEF StreamInv
<1> QED
  BY Zenon, <1>2, <1>3, <1>4, <1>5 DEF DemoNext

LEMMA DemoInvInit == DemoInit => DemoInv
<1> SUFFICES ASSUME DemoInit PROVE DemoInv
  OBVIOUS
<1>1. /\ Init /\ WriterInit /\ buf = Cleared /\ time = 0
      /\ frame_length = first_frame_length /\ main = "sample_rate"
      /\ accesses = 0 /\ clocks = 0
  BY Zenon DEF DemoInit, SimpleInit
<1>2. TypeOK /\ TimeInv /\ WriterInv /\ OffsetInv
  BY Zenon, <1>1, TypeInit, TimeInit, WriterInvInit, OffsetInvInit
<1>3. pc = "idle" /\ op = "none" /\ last_time = 0
  BY Zenon, <1>1 DEF Init
<1>4. wpc = "idle" /\ sample_count_ = 0
  BY Zenon, <1>1 DEF WriterInit
<1>5. /\ buf.offset = 0 /\ 0 < Unit /\ 0 * factor_ = 0 * Unit + 0
      /\ 0 \in 0 .. MaxAccesses /\ 0 = 0 * AccessTime /\ 0 <= 0 /\ 0 \in Nat
  BY SMT, <1>1, BlipAssumption, Lengths DEF BlipAssumption, Cleared
<1>6. DemoTyped
  BY Zenon, <1>1, <1>4, <1>5 DEF DemoTyped
<1>7. CallInv
  BY Zenon, <1>1, <1>3, <1>5 DEF CallInv
<1>8. StreamInv
  BY Zenon, <1>1, <1>4, <1>5 DEF StreamInv
<1> QED
  BY Zenon, <1>2, <1>6, <1>7, <1>8 DEF DemoInv

LEMMA DemoInvStep == DemoInv /\ [DemoNext]_demoVars => DemoInv'
<1> SUFFICES ASSUME DemoInv, [DemoNext]_demoVars PROVE DemoInv'
  OBVIOUS
<1>1. TypeOK' /\ TimeInv'
  BY Zenon, ChipStep
<1>2. WriterInv' /\ OffsetInv'
  BY Zenon, DemoIsAWriter, WriterInvStep, OffsetInvStep DEF DemoInv
<1> QED
  BY Zenon, <1>1, <1>2, PlaceStep, StreamStep DEF DemoInv

LEMMA DemoInvariant == DemoSpec => []DemoInv
BY DemoInvInit, DemoInvStep, PTL DEF DemoSpec

(* The samples that have been written are those of the time that has been  *)
(* emulated, to the sample, however long the tune is.                      *)
THEOREM DemoOnTime == DemoSpec => []SamplesOnTime
<1>1. DemoInv => SamplesOnTime
  <2> SUFFICES ASSUME DemoInv, main = "emulate_frame"
               PROVE  sample_count_ = (clocks * factor_) \div Unit
    BY Zenon DEF SamplesOnTime
  <2>1. /\ clocks \in Nat /\ sample_count_ \in Nat /\ buf.offset \in Nat
        /\ clocks * factor_ = sample_count_ * Unit + buf.offset /\ buf.offset < Unit
    BY Zenon DEF DemoInv, DemoTyped, StreamInv, OffsetInv, WriterInv, WriterTypeOK
  <2>2. Unit \in Nat \ {0} /\ factor_ \in Nat /\ sample_count_ \in Int
    BY SMT, <2>1, BlipAssumption DEF BlipAssumption
  <2>3. PICK S \in Int : S = sample_count_ * Unit
    BY SMT, <2>1, <2>2
  <2>4. PICK C \in Int : C = clocks * factor_
    BY SMT, <2>1, <2>2
  <2>5. PICK o \in Nat : o = buf.offset
    BY Zenon, <2>1
  <2>6. C = S + o /\ o < Unit
    BY Zenon, <2>1, <2>3, <2>4, <2>5
  <2>7. S <= C /\ C < S + Unit
    BY SMT, <2>2, <2>6
  <2>8. C \div Unit = sample_count_
    BY Zenon, <2>2, <2>3, <2>7, Quotient
  <2> QED
    BY Zenon, <2>4, <2>8
<1> QED
  BY <1>1, DemoInvariant, PTL

(* No assertion on the way from the tune to the file fails: the chip is    *)
(* never called for a time it has passed, and its deltas and the end of    *)
(* its time frames are within the buffer.                                  *)
THEOREM DemoAssertsHold == DemoSpec => []DemoAsserts
<1>1. DemoInv => DemoAsserts
  <2> SUFFICES ASSUME DemoInv PROVE DemoAsserts
    OBVIOUS
  <2>0. TypeOK /\ TimeInv /\ DemoTyped /\ CallInv /\ StreamInv /\ OffsetInv /\ WriterTypeOK
    BY Zenon DEF DemoInv, WriterInv
  <2>1. AssertsHold
    BY SMT, <2>0 DEF TypeOK, TimeInv, AssertsHold
  <2>2. ASSUME main = "emulate_frame", accesses < MaxAccesses PROVE ClockNotBehind
    <3>1. PICK T \in Nat : T = time /\ last_time <= T
      BY Zenon, <2>0, <2>2, AccessClocks DEF DemoTyped, CallInv
    <3>2. clock > last_time
      BY SMT, <2>0, <3>1, Lengths DEF clock, TypeOK
    <3> QED
      BY Zenon, <3>2 DEF ClockNotBehind
  <2>3. PICK o \in Nat : o = buf.offset
    BY Zenon, <2>0 DEF OffsetInv
  <2>4. /\ Unit \in Nat \ {0} /\ Unit \in Nat /\ factor_ \in Nat /\ buffer_size_ \in Nat
        /\ buffer_size_ \in Int /\ out_size \in Nat /\ o \in Int /\ Word \in Nat
        /\ 0 \in Nat /\ 0 <= first_frame_length + 1 /\ 0 < Unit
    BY SMT, BlipAssumption, OutAssumption, Lengths DEF BlipAssumption, OutAssumption
  <2>5. PICK B \in Nat : B = buffer_size_ * Unit
    BY SMT, <2>4
  <2>6. ASSUME NEW p \in Nat, p < B PROVE p \div Unit \in Int /\ p \div Unit < buffer_size_
    <3>1. p \in Int
      BY SMT
    <3>2. PICK q \in Int : q = p \div Unit /\ q * Unit <= p
      BY Zenon, <2>4, <3>1, Division
    <3>3. PICK Q \in Int : Q = q * Unit
      BY SMT, <2>4
    <3>4. CASE buffer_size_ <= q
      <4>1. B <= Q
        BY Zenon, <2>4, <2>5, <3>3, <3>4, Products
      <4> QED
        BY SMT, <2>6, <3>2, <3>3, <4>1
    <3>5. CASE q < buffer_size_
      BY Zenon, <3>2, <3>5
    <3> QED
      BY SMT, <2>4, <3>4, <3>5
  <2>7. PICK V \in Nat : V = (out_size + 1) * Unit /\ V <= B
    <3>1. (out_size + 1) * Unit \in Nat /\ (out_size + 1) * Unit <= buffer_size_ * Unit
      BY Zenon, <2>4, FramePosition
    <3> QED
      BY Zenon, <2>5, <3>1
  <2>8. samples_avail(buf) <= buffer_size_
    <3>1. o < V \/ o < Unit
      BY Zenon, <2>0, <2>3, <2>7 DEF StreamInv
    <3>2. Unit <= V
      <4>1. (out_size + 1) * Unit = out_size * Unit + Unit /\ out_size * Unit \in Nat
        BY SMT, <2>4
      <4>2. PICK U \in Nat : U = out_size * Unit
        BY Zenon, <4>1
      <4> QED
        BY SMT, <2>4, <2>7, <4>1, <4>2
    <3>3. o < B
      BY SMT, <2>4, <2>7, <3>1, <3>2
    <3>4. o \div Unit \in Int /\ o \div Unit < buffer_size_
      BY Zenon, <2>6, <3>3
    <3>5. o \div Unit <= buffer_size_
      BY SMT, <2>4, <3>4
    <3> QED
      BY Zenon, <2>3, <3>5 DEF samples_avail
  <2>9. ASSUME pc # "idle", goal > last_time PROVE InBounds(buf, goal - 1)
    <3>1. main \in {"emulate_frame", "end_frame"} /\ op # "none"
      BY Zenon, <2>0, <2>9 DEF CallInv, TimeInv
    <3>2. PICK T \in Nat : T = time /\ T <= first_frame_length
      <4>1. CASE main = "end_frame"
        BY SMT, <2>0, <4>1, Lengths DEF CallInv
      <4>2. CASE main # "end_frame"
        BY Zenon, <2>0, <4>2, AccessClocks DEF DemoTyped, CallInv
      <4> QED
        BY Zenon, <4>1, <4>2
    <3>3. goal <= first_frame_length + 1
      <4>1. op \in {"write", "read_status", "read_status_now", "end_frame"}
        BY Zenon, <2>0, <3>1 DEF TypeOK, CallInv
      <4> QED
        BY SMT, <2>0, <3>2, <4>1, Lengths DEF CallInv, DemoTyped
    <3>4. PICK t \in Nat : t = goal - 1 /\ t <= first_frame_length + 1
      BY SMT, <2>0, <2>9, <3>3, Lengths DEF TypeOK, TimeInv
    <3>5. o < Unit
      BY Zenon, <2>0, <2>3, <3>1 DEF StreamInv
    <3>6. /\ t * factor_ \in Nat /\ (t * factor_ + o) % Word = t * factor_ + o
          /\ t * factor_ + o < V
      BY Zenon, <2>7, <3>4, <3>5, FramePosition
    <3>7. PICK p \in Nat : p = t * factor_ + o
      <4>1. \A a \in Nat : a + o \in Nat
        BY SMT
      <4> QED
        BY Zenon, <3>6, <4>1
    <3>8. p < B
      BY SMT, <2>7, <3>6, <3>7
    <3>9. p \div Unit < buffer_size_
      BY Zenon, <2>6, <3>8
    <3> QED
      BY Zenon, <2>3, <3>4, <3>6, <3>7, <3>9 DEF InBounds, to_fixed
  <2> QED
    BY Zenon, <2>0, <2>1, <2>2, <2>8, <2>9 DEF DemoAsserts, RoomInBuffer, WriterTypeOK
<1> QED
  BY <1>1, DemoInvariant, PTL
=============================================================================
