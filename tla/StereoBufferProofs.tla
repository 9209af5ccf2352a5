------------------------- MODULE StereoBufferProofs -------------------------
(***************************************************************************)
(* Stereo_Buffer loses no sound, keeps its three buffers in step and is a  *)
(* stream, for every size, every clock rate, and all ways of cutting time  *)
(* into frames and reads, as long as samples are read between frames.      *)
(***************************************************************************)
EXTENDS StereoBuffer, Arithmetic

(* Whole samples of a fixed-point time.                                    *)
Whole(time) == time \div Unit

LEMMA WholeType ==
  ASSUME NEW time \in Nat
  PROVE  Whole(time) \in Nat
<1>1. Unit \in Nat \ {0}
  BY Zenon, BlipAssumption DEF BlipAssumption
<1>2. PICK d \in Int : d = time \div Unit /\ d * Unit <= time /\ time < d * Unit + Unit
  BY SMT, <1>1, Division
<1>3. CASE d < 0
  <2>1. (d + 1) * Unit <= 0 * Unit /\ (d + 1) * Unit = d * Unit + Unit /\ d * Unit \in Int
    BY SMT, <1>1, <1>2, <1>3, Products
  <2> QED
    BY SMT, <1>1, <1>2, <2>1
<1> QED
  BY SMT, <1>2, <1>3 DEF Whole

(* Later times have as many samples or more.                               *)
LEMMA WholeGrows ==
  ASSUME NEW time \in Nat, NEW later \in Nat, time <= later
  PROVE  Whole(time) <= Whole(later)
<1>1. Unit \in Nat \ {0}
  BY Zenon, BlipAssumption DEF BlipAssumption
<1>2. PICK d \in Int : d = time \div Unit /\ d * Unit <= time /\ time < d * Unit + Unit
  BY SMT, <1>1, Division
<1>3. PICK e \in Int : e = later \div Unit /\ e * Unit <= later /\ later < e * Unit + Unit
  BY SMT, <1>1, Division
<1>4. CASE e < d
  <2>1. (e + 1) * Unit <= d * Unit /\ (e + 1) * Unit = e * Unit + Unit
        /\ d * Unit \in Int /\ e * Unit \in Int
    BY SMT, <1>1, <1>2, <1>3, <1>4, Products
  <2> QED
    BY SMT, <1>1, <1>2, <1>3, <2>1
<1> QED
  BY SMT, <1>2, <1>3, <1>4 DEF Whole

(* Moving a time by whole samples moves its whole samples.                 *)
LEMMA WholeMoves ==
  ASSUME NEW time \in Nat, NEW n \in Int
  PROVE  /\ n * Unit \in Int
         /\ (time + n * Unit) \div Unit = Whole(time) + n
         /\ (time - n * Unit) \div Unit = Whole(time) - n
         /\ n <= Whole(time) => n * Unit <= time
         /\ time < n * Unit => Whole(time) < n
         /\ n > Whole(time) => n * Unit > time
<1>1. Unit \in Nat \ {0} /\ Unit \in Nat
  BY SMT, BlipAssumption DEF BlipAssumption
<1>2. PICK d \in Int : d = Whole(time) /\ d * Unit <= time /\ time < d * Unit + Unit
  BY SMT, <1>1, Division DEF Whole
<1>3. PICK m \in Int, D \in Int, u \in Int : m = n * Unit /\ D = d * Unit /\ u = Unit
  BY SMT, <1>1
<1>4. (d + n) * Unit = D + m /\ (d - n) * Unit = D - m /\ (d + 1) * Unit = D + u
  <2>1. /\ (d + n) * Unit = d * Unit + n * Unit /\ (d - n) * Unit = d * Unit - n * Unit
        /\ (d + 1) * Unit = d * Unit + Unit
    BY SMT, <1>1
  <2> QED
    BY Zenon, <1>3, <2>1
<1>5. D <= time /\ time < D + u
  BY Zenon, <1>2, <1>3
<1>6. /\ D + m <= time + m /\ time + m < D + m + u
      /\ D - m <= time - m /\ time - m < D - m + u
  BY SMT, <1>3, <1>5
<1>7. /\ d + n \in Int /\ d - n \in Int /\ time + m \in Int /\ time - m \in Int
      /\ d + 1 \in Int /\ (n > d => d + 1 <= n)
  BY SMT, <1>3
<1>8. (time + m) \div Unit = d + n
  <2>1. (d + n) * Unit <= time + m /\ time + m < (d + n) * Unit + Unit
    BY Zenon, <1>3, <1>4, <1>6
  <2> QED
    BY Zenon, <1>1, <1>7, <2>1, Quotient
<1>9. (time - m) \div Unit = d - n
  <2>1. (d - n) * Unit <= time - m /\ time - m < (d - n) * Unit + Unit
    BY Zenon, <1>3, <1>4, <1>6
  <2> QED
    BY Zenon, <1>1, <1>7, <2>1, Quotient
<1>10. n <= d => m <= D
  BY Zenon, <1>1, <1>3, Products
<1>11. n > d => D + u <= m
  <2>1. d + 1 <= n => (d + 1) * Unit <= n * Unit
    BY Zenon, <1>1, <1>7, Products
  <2> QED
    BY Zenon, <1>3, <1>4, <1>7, <2>1
<1>12. (n <= d => m <= time) /\ (time < m => d < n) /\ (n > d => m > time)
  BY SMT, <1>3, <1>5, <1>10, <1>11
<1> QED
  BY Zenon, <1>2, <1>3, <1>8, <1>9, <1>12

(* What a time within the buffer's room is worth.                          *)
LEMMA InRoom ==
  ASSUME NEW time \in Nat
  PROVE  time < (buffer_size_ + 1) * Unit <=> Whole(time) <= buffer_size_
<1>1. buffer_size_ + 1 \in Int /\ buffer_size_ \in Int
  BY SMT, BlipAssumption DEF BlipAssumption
<1>2. (time < (buffer_size_ + 1) * Unit => Whole(time) < buffer_size_ + 1)
      /\ (buffer_size_ + 1 > Whole(time) => (buffer_size_ + 1) * Unit > time)
      /\ (buffer_size_ + 1) * Unit \in Int
  BY Zenon, <1>1, WholeMoves
<1> QED
  BY SMT, <1>1, <1>2, WholeType

-----------------------------------------------------------------------------
(* The states.                                                             *)

LEMMA Sizes ==
  /\ buffer_size_ \in Nat /\ buffer_size_ >= 1 /\ Quality \in Nat /\ Quality >= 1
  /\ blip_buffer_extra \in Nat /\ blip_buffer_extra >= Quality
  /\ blip_buffer_extra_ = Quality + 2 /\ Cells = 0 .. buffer_size_ + Quality + 1
  /\ Unit \in Nat /\ Unit >= 1 /\ factor_ \in Nat /\ factor_ >= 1 /\ Word \in Nat
<1>1. Cells = 0 .. buffer_size_ + Quality + 1
  <2>1. buffer_size_ + (Quality + 2) - 1 = buffer_size_ + Quality + 1
    BY SMT, BlipAssumption DEF BlipAssumption
  <2> QED
    BY Zenon, <2>1 DEF Cells, blip_buffer_extra_
<1> QED
  BY SMT, <1>1, BlipAssumption DEF BlipAssumption, blip_buffer_extra_

Start == bufs[Left].offset

Buffer ==
  [offset : 0 .. Word - 1, mem : [Cells -> SUBSET Nat], modified : BOOLEAN,
   unsettled : BOOLEAN, last_non_silence : Nat]

(* Where the times and counts of a state stand to each other.              *)
LEMMA StateFacts ==
  ASSUME TypeOK, InStep, RoomInv
  PROVE  /\ Start \in Nat /\ Start < Word /\ Whole(Start) \in Nat /\ Whole(Start) <= buffer_size_
         /\ Start < (buffer_size_ + 1) * Unit
         /\ \A c \in Channels : bufs[c].offset = Start /\ samples_avail(bufs[c]) = Whole(Start)
         /\ samples_read \in Nat /\ samples_read <= Whole(Start)
         /\ read \in Nat /\ frame_time \in Nat /\ now \in Nat
         /\ Base \in Int /\ Base * Unit \in Int /\ now = Base * Unit + Start
<1>1. Left \in Channels
  BY Zenon DEF Channels, Left
<1>2. Start \in 0 .. Word - 1
  BY SMT, <1>1 DEF TypeOK, Start
<1>3. Start \in Nat /\ Start < Word
  BY SMT, <1>2, Sizes
<1>4. frame_time * factor_ \in Nat /\ (buffer_size_ + 1) * Unit \in Nat
  BY SMT, Sizes DEF TypeOK
<1>5. Start < (buffer_size_ + 1) * Unit
  <2>1. Start + frame_time * factor_ < (buffer_size_ + 1) * Unit
    BY Zenon DEF RoomInv, Latest, Start
  <2> QED
    BY SMT, <1>3, <1>4, <2>1
<1>6. Whole(Start) \in Nat /\ Whole(Start) <= buffer_size_
  BY Zenon, <1>3, <1>5, WholeType, InRoom
<1>7. \A c \in Channels : bufs[c].offset = Start /\ samples_avail(bufs[c]) = Whole(Start)
  BY Zenon DEF InStep, Start, samples_avail, Whole
<1>8. samples_read \in Nat /\ read \in Nat /\ frame_time \in Nat /\ now \in Nat
  BY SMT DEF TypeOK
<1>9. samples_read <= Whole(Start)
  BY Zenon, <1>1, <1>7 DEF InStep
<1>10. Base \in Int /\ Base * Unit \in Int /\ now = Base * Unit + Start
  <2>1. Base * Unit = read * Unit - samples_read * Unit
    BY SMT, <1>8, Sizes DEF Base
  <2>2. read * Unit \in Int /\ samples_read * Unit \in Int /\ Base \in Int
    BY SMT, <1>8, Sizes DEF Base
  <2>3. now = read * Unit + Start - samples_read * Unit
    BY Zenon DEF InStep, Start
  <2> QED
    BY SMT, <1>3, <2>1, <2>2, <2>3
<1> QED
  BY Zenon, <1>3, <1>5, <1>6, <1>7, <1>8, <1>9, <1>10

(* Times of the frame do not wrap, and fall into the sample of the stream  *)
(* that their cell is for.                                                 *)
LEMMA TimeFacts ==
  ASSUME TypeOK, InStep, RoomInv, NEW t \in Times
  PROVE  /\ t \in Nat /\ t * factor_ \in Nat /\ Start + t * factor_ \in Nat
         /\ Start + t * factor_ < Word
         /\ \A c \in Channels : to_fixed(bufs[c], t) = Start + t * factor_
         /\ Whole(Start + t * factor_) \in Nat
         /\ Whole(Start) <= Whole(Start + t * factor_)
         /\ (now + t * factor_) \div Unit = Base + Whole(Start + t * factor_)
         /\ Latest \in Nat /\ (t >= frame_time => Latest <= Start + t * factor_)
<1>1. t \in Nat /\ t * factor_ + (buffer_size_ + 1) * Unit <= Word
  BY Zenon, StereoAssumption DEF StereoAssumption
<1>2. PICK T \in Nat, F \in Nat, B \in Nat :
        T = t * factor_ /\ F = frame_time * factor_ /\ B = (buffer_size_ + 1) * Unit
  <2>1. t * factor_ \in Nat /\ frame_time * factor_ \in Nat /\ (buffer_size_ + 1) * Unit \in Nat
    BY SMT, <1>1, Sizes, StateFacts
  <2> QED
    BY Zenon, <2>1
<1>3. t >= frame_time => F <= T
  <2>1. frame_time <= t => frame_time * factor_ <= t * factor_
    BY SMT, <1>1, StateFacts, Sizes, Products
  <2> QED
    BY SMT, <1>1, <1>2, <2>1, StateFacts
<1>4. T + B <= Word /\ Start < B
  BY Zenon, <1>1, <1>2, StateFacts
<1>5. /\ Start + T \in Nat /\ T + Start = Start + T /\ Start + T < Word /\ Start <= Start + T
      /\ Start \in Nat /\ Word \in Nat
  <2>1. Start \in Nat /\ Word \in Nat
    BY Zenon, StateFacts, Sizes
  <2> QED
    BY SMT, <1>4, <2>1
<1>6. (Start + T) % Word = Start + T
  BY SMT, <1>5
<1>7. \A c \in Channels : to_fixed(bufs[c], t) = Start + T
  BY Zenon, <1>2, <1>5, <1>6, StateFacts DEF to_fixed
<1>8. Whole(Start + T) \in Nat /\ Whole(Start) <= Whole(Start + T)
  BY Zenon, <1>5, WholeType, WholeGrows
<1>9. (now + T) \div Unit = Base + Whole(Start + T)
  <2>1. (Start + T + Base * Unit) \div Unit = Whole(Start + T) + Base
    BY Zenon, <1>5, StateFacts, WholeMoves
  <2>2. now + T = Start + T + Base * Unit /\ Whole(Start + T) + Base = Base + Whole(Start + T)
    BY SMT, <1>2, <1>8, StateFacts
  <2> QED
    BY Zenon, <2>1, <2>2
<1>10. Latest \in Nat /\ (t >= frame_time => Latest <= Start + T)
  <2>1. Latest = Start + F
    BY Zenon, <1>2 DEF Latest, Start
  <2> QED
    BY SMT, <1>2, <1>3, <1>5, <2>1
<1> QED
  BY Zenon, <1>1, <1>2, <1>5, <1>7, <1>8, <1>9, <1>10

(* What a delta does: its cells are now also for their sample.             *)
At(t) == Whole(Start + t * factor_)

LEMMA DeltaEffect ==
  ASSUME TypeOK, InStep, RoomInv, NEW c \in Channels, NEW t \in Times, AddDelta(c, t)
  PROVE  /\ At(t) \in Nat /\ At(t) < buffer_size_ /\ Whole(Start) <= At(t)
         /\ bufs' \in [Channels -> Buffer]
         /\ \A d \in Channels :
              /\ bufs'[d].offset = bufs[d].offset
              /\ bufs'[d].last_non_silence = bufs[d].last_non_silence
              /\ d = c => bufs'[d].modified
              /\ d # c => bufs'[d].modified = bufs[d].modified
              /\ \A i \in Cells :
                   bufs'[d].mem[i] = IF d = c /\ i \in At(t) .. At(t) + Quality - 1
                                     THEN bufs[d].mem[i] \cup {Base + i} ELSE bufs[d].mem[i]
         /\ due' = due \cup [channel : {c}, at : Base + At(t) .. Base + At(t) + Quality - 1]
         /\ Base + At(t) \in Nat
<1> DEFINE first == (now + t * factor_) \div Unit
           new == Offset(bufs[c], t, first)
<1>1. /\ At(t) \in Nat /\ Whole(Start) <= At(t) /\ first = Base + At(t)
      /\ \A d \in Channels : to_fixed(bufs[d], t) \div Unit = At(t)
  BY Zenon, TimeFacts DEF At, Whole
<1>2. first \in Nat
  <2>1. now \in Nat /\ t * factor_ \in Nat
    BY Zenon, StateFacts, TimeFacts
  <2>2. now + t * factor_ \in Nat
    BY SMT, <2>1
  <2> QED
    BY Zenon, <2>2, WholeType DEF Whole
<1>3. /\ bufs' = [bufs EXCEPT ![c] = new] /\ At(t) < buffer_size_
      /\ due' = due \cup [channel : {c}, at : first .. first + Quality - 1]
  BY Zenon, <1>1 DEF AddDelta, InBounds
<1>4. /\ new = [bufs[c] EXCEPT !.modified = TRUE,
                  !.mem = [i \in Cells |-> IF i \in At(t) .. At(t) + Quality - 1
                                           THEN bufs[c].mem[i] \cup {first + (i - At(t))}
                                           ELSE bufs[c].mem[i]]]
  BY Zenon, <1>1 DEF Offset
<1>5. bufs[c] \in Buffer
  BY Zenon DEF TypeOK, Buffer
<1> HIDE DEF new, first
<1>6. ASSUME NEW i \in Cells, i \in At(t) .. At(t) + Quality - 1
      PROVE  first + (i - At(t)) = Base + i /\ Base + i \in Nat
  <2>1. Base \in Int /\ Quality \in Nat /\ At(t) \in Nat /\ first \in Nat /\ first = Base + At(t)
    BY Zenon, <1>1, <1>2, StateFacts, Sizes
  <2> QED
    BY SMT, <1>6, <2>1
<1>7. /\ new.offset = bufs[c].offset /\ new.last_non_silence = bufs[c].last_non_silence
      /\ new.modified = TRUE
      /\ new \in Buffer
      /\ \A i \in Cells : new.mem[i] = IF i \in At(t) .. At(t) + Quality - 1
                                       THEN bufs[c].mem[i] \cup {Base + i} ELSE bufs[c].mem[i]
  <2> DEFINE cells == [i \in Cells |-> IF i \in At(t) .. At(t) + Quality - 1
                                       THEN bufs[c].mem[i] \cup {first + (i - At(t))}
                                       ELSE bufs[c].mem[i]]
  <2>1. \A i \in Cells : cells[i] = IF i \in At(t) .. At(t) + Quality - 1
                                    THEN bufs[c].mem[i] \cup {Base + i} ELSE bufs[c].mem[i]
    BY Zenon, <1>6
  <2>2. ASSUME NEW i \in Cells PROVE cells[i] \in SUBSET Nat
    <3>1. bufs[c].mem[i] \in SUBSET Nat
      BY SMT, <1>5 DEF Buffer
    <3>2. CASE i \in At(t) .. At(t) + Quality - 1
      BY Zenon, <1>6, <2>1, <3>1, <3>2
    <3>3. CASE i \notin At(t) .. At(t) + Quality - 1
      BY Zenon, <2>1, <3>1, <3>3
    <3> QED
      BY Zenon, <3>2, <3>3
  <2>3. cells \in [Cells -> SUBSET Nat]
    BY Zenon, <2>2
  <2>4. new = [bufs[c] EXCEPT !.modified = TRUE, !.mem = cells]
    BY Zenon, <1>4
  <2> HIDE DEF cells
  <2>5. /\ new.offset = bufs[c].offset /\ new.last_non_silence = bufs[c].last_non_silence
        /\ new.modified = TRUE /\ new.mem = cells
    BY SMT, <1>5, <2>3, <2>4 DEF Buffer
  <2>6. new \in Buffer
    BY Zenon, <1>5, <2>3, <2>4 DEF Buffer
  <2> QED
    BY Zenon, <2>1, <2>5, <2>6
<1>8. /\ bufs' \in [Channels -> Buffer]
      /\ bufs'[c] = new /\ \A d \in Channels : d # c => bufs'[d] = bufs[d]
  BY SMT, <1>3, <1>7 DEF TypeOK, Buffer
<1>9. ASSUME NEW d \in Channels
      PROVE  /\ bufs'[d].offset = bufs[d].offset
             /\ bufs'[d].last_non_silence = bufs[d].last_non_silence
             /\ d = c => bufs'[d].modified
             /\ d # c => bufs'[d].modified = bufs[d].modified
             /\ \A i \in Cells :
                  bufs'[d].mem[i] = IF d = c /\ i \in At(t) .. At(t) + Quality - 1
                                    THEN bufs[d].mem[i] \cup {Base + i} ELSE bufs[d].mem[i]
  <2>1. CASE d = c
    <3>1. /\ bufs'[d].offset = bufs[d].offset /\ bufs'[d].modified
          /\ bufs'[d].last_non_silence = bufs[d].last_non_silence
      BY Zenon, <1>7, <1>8, <2>1
    <3>2. \A i \in Cells :
            bufs'[d].mem[i] = IF d = c /\ i \in At(t) .. At(t) + Quality - 1
                              THEN bufs[d].mem[i] \cup {Base + i} ELSE bufs[d].mem[i]
      BY Zenon, <1>7, <1>8, <2>1
    <3> QED
      BY Zenon, <2>1, <3>1, <3>2
  <2>2. CASE d # c
    BY Zenon, <1>8, <2>2
  <2> QED
    BY Zenon, <2>1, <2>2
<1> QED
  BY Zenon, <1>1, <1>2, <1>3, <1>8, <1>9

(* What the end of a frame does: all three buffers go on from its time.    *)
LEMMA EndFrameEffect ==
  ASSUME TypeOK, InStep, RoomInv, NEW t \in Times, EndFrame(t)
  PROVE  /\ At(t) \in Nat /\ At(t) <= buffer_size_ /\ Latest \in Nat
         /\ Whole(Latest) <= At(t)
         /\ Start' = Start + t * factor_ /\ Start' \in Nat /\ Whole(Start') = At(t)
         /\ bufs' \in [Channels -> Buffer]
         /\ \A c \in Channels :
              /\ bufs'[c].offset = Start + t * factor_ /\ ~bufs'[c].modified
              /\ bufs'[c].mem = bufs[c].mem
              /\ bufs[c].modified =>
                   bufs'[c].last_non_silence = At(t) + blip_buffer_extra
              /\ ~bufs[c].modified =>
                   bufs'[c].last_non_silence = bufs[c].last_non_silence
<1>1. /\ At(t) \in Nat /\ Start + t * factor_ \in Nat /\ Start + t * factor_ < Word
      /\ \A c \in Channels : to_fixed(bufs[c], t) = Start + t * factor_
      /\ t >= frame_time /\ Latest \in Nat /\ Latest <= Start + t * factor_
  BY Zenon, TimeFacts DEF At, EndFrame
<1>2. Left \in Channels
  BY Zenon DEF Channels, Left
<1>3. At(t) <= buffer_size_
  BY Zenon, <1>1, <1>2 DEF At, Whole, EndFrame
<1>4. Whole(Latest) <= At(t)
  BY Zenon, <1>1, WholeGrows DEF At
<1>5. Start + t * factor_ \in 0 .. Word - 1
  <2>1. Word \in Nat
    BY Zenon, Sizes
  <2>2. PICK s \in Nat : s = Start + t * factor_ /\ s < Word
    BY Zenon, <1>1
  <2>3. s \in 0 .. Word - 1
    BY SMT, <2>1, <2>2
  <2> QED
    BY Zenon, <2>2, <2>3
<1>6. ASSUME NEW c \in Channels
      PROVE  LET b == bufs[c]
                 e == end_frame(b, t)
             IN  /\ e \in Buffer /\ e.offset = Start + t * factor_ /\ e.modified = FALSE
                 /\ e.mem = b.mem
                 /\ b.modified => e.last_non_silence = At(t) + blip_buffer_extra
                 /\ ~b.modified => e.last_non_silence = b.last_non_silence
  <2> DEFINE silent == IF bufs[c].modified
                       THEN (Start + t * factor_) \div Unit + blip_buffer_extra
                       ELSE bufs[c].last_non_silence
  <2>1. bufs[c] \in Buffer
    BY Zenon DEF TypeOK, Buffer
  <2>2. end_frame(bufs[c], t)
          = [bufs[c] EXCEPT !.offset = Start + t * factor_, !.modified = FALSE,
                            !.last_non_silence = silent]
    BY Zenon, <1>1 DEF end_frame
  <2>3. /\ bufs[c].modified => silent = At(t) + blip_buffer_extra
        /\ ~bufs[c].modified => silent = bufs[c].last_non_silence
    BY Zenon DEF At, Whole
  <2> HIDE DEF silent
  <2>4. silent \in Nat
    <3>1. At(t) \in Nat /\ blip_buffer_extra \in Nat /\ bufs[c].last_non_silence \in Nat
      BY Zenon, <1>1, <2>1, Sizes DEF Buffer
    <3>2. At(t) + blip_buffer_extra \in Nat
      BY SMT, <3>1
    <3> QED
      BY Zenon, <2>3, <3>1, <3>2
  <2>5. end_frame(bufs[c], t) \in Buffer
    BY Zenon, <1>5, <2>1, <2>2, <2>4 DEF Buffer
  <2>6. /\ end_frame(bufs[c], t).offset = Start + t * factor_
        /\ end_frame(bufs[c], t).modified = FALSE
        /\ end_frame(bufs[c], t).mem = bufs[c].mem
        /\ end_frame(bufs[c], t).last_non_silence = silent
    BY Zenon, <2>1, <2>2 DEF Buffer
  <2> QED
    BY Zenon, <2>3, <2>5, <2>6
<1>7. bufs' = [c \in Channels |-> end_frame(bufs[c], t)]
  BY Zenon DEF EndFrame
<1>8. /\ bufs' \in [Channels -> Buffer]
      /\ \A c \in Channels :
              /\ bufs'[c].offset = Start + t * factor_ /\ ~bufs'[c].modified
              /\ bufs'[c].mem = bufs[c].mem
              /\ bufs[c].modified =>
                   bufs'[c].last_non_silence = At(t) + blip_buffer_extra
              /\ ~bufs[c].modified =>
                   bufs'[c].last_non_silence = bufs[c].last_non_silence
  BY Zenon, <1>6, <1>7
<1>9. Start' = Start + t * factor_
  BY Zenon, <1>2, <1>8 DEF Start
<1> QED
  BY Zenon, <1>1, <1>3, <1>4, <1>8, <1>9 DEF At

-----------------------------------------------------------------------------
(* Reading.                                                                *)

(* What n samples removed from a buffer leave of a cell's contents.        *)
Moved(mem, n, i) == IF i + n \in Cells THEN mem[i + n] ELSE {}

Removable(b, n, r) ==
  /\ n <= Whole(b.offset) /\ Whole(b.offset) <= buffer_size_
  /\ \A i \in Cells : b.mem[i] # {} => i < Whole(b.offset) + Quality
  /\ ~non_silent(b) => \A i \in Cells : b.mem[i] = {}
  /\ r = IF non_silent(b) THEN remove_samples(b, n) ELSE remove_silence(b, n)

RemovedFrom(b, n, r) ==
  /\ r \in Buffer /\ r.modified = b.modified
  /\ r.offset = b.offset - n * Unit /\ r.offset \in Nat
  /\ Whole(r.offset) = Whole(b.offset) - n
  /\ r.last_non_silence = IF b.last_non_silence > n THEN b.last_non_silence - n ELSE 0
  /\ \A i \in Cells : r.mem[i] = Moved(b.mem, n, i)

LEMMA RemovalEffect ==
  ASSUME NEW b \in Buffer, NEW n \in Nat \ {0}, NEW r, Removable(b, n, r)
  PROVE  RemovedFrom(b, n, r)
<1> USE DEF Removable, RemovedFrom
<1> DEFINE kept == remove_silence(b, n)
           silent == IF b.last_non_silence > n THEN b.last_non_silence - n ELSE 0
<1>1. /\ b.offset \in 0 .. Word - 1 /\ b.mem \in [Cells -> SUBSET Nat]
      /\ b.last_non_silence \in Nat
  BY Zenon DEF Buffer
<1>2. PICK o \in Nat, m \in Int, a \in Nat :
        /\ o = b.offset /\ m = n * Unit /\ a = Whole(o) /\ o < Word
        /\ (o - m) \div Unit = a - n /\ m <= o /\ m >= 0
  <2>1. b.offset \in Nat /\ b.offset < Word
    BY SMT, <1>1, Sizes
  <2>2. /\ n * Unit \in Int /\ (b.offset - n * Unit) \div Unit = Whole(b.offset) - n
        /\ n * Unit <= b.offset /\ Whole(b.offset) \in Nat
    <3>1. n \in Int
      BY SMT
    <3> QED
      BY Zenon, <2>1, <3>1, WholeMoves, WholeType
  <2>3. n * Unit >= 0
    BY SMT, Sizes
  <2> QED
    BY Zenon, <2>1, <2>2, <2>3
<1>3. (o - m) % Word = o - m /\ o - m \in Nat /\ o - m \in 0 .. Word - 1
  <2>1. Word \in Nat /\ m <= o /\ m >= 0 /\ o < Word
    BY Zenon, <1>2, Sizes
  <2> QED
    BY SMT, <2>1
<1>4. silent \in Nat
  BY SMT, <1>1
<1>5. kept = [b EXCEPT !.offset = o - m, !.last_non_silence = silent]
  BY Zenon, <1>2, <1>3 DEF remove_silence
<1> HIDE DEF kept, silent
<1>6. kept \in Buffer
  BY Zenon, <1>3, <1>4, <1>5 DEF Buffer
<1>7. /\ kept.offset = o - m /\ kept.last_non_silence = silent
      /\ kept.modified = b.modified /\ kept.mem = b.mem
  BY Zenon, <1>5 DEF Buffer
<1>8. CASE ~non_silent(b)
  <2>1. r = kept
    BY Zenon, <1>8 DEF kept
  <2>2. \A i \in Cells : r.mem[i] = Moved(b.mem, n, i)
    BY Zenon, <1>7, <1>8, <2>1 DEF Moved
  <2> QED
    BY Zenon, <1>2, <1>3, <1>6, <1>7, <2>1, <2>2 DEF silent, Whole
<1>9. CASE non_silent(b)
  <2> DEFINE remain == a - n + blip_buffer_extra_
             cells == [i \in Cells |-> IF i < remain THEN b.mem[i + n]
                                       ELSE IF i < remain + n THEN {} ELSE b.mem[i]]
  <2>1. r = [kept EXCEPT !.mem = cells]
    <3>1. samples_avail(kept) = a - n /\ n # 0
      BY Zenon, <1>2, <1>7 DEF samples_avail
    <3> QED
      BY Zenon, <1>9, <3>1 DEF remove_samples, kept
  <2>2. ASSUME NEW i \in Cells PROVE cells[i] = Moved(b.mem, n, i)
    <3>1. /\ i \in Int /\ i >= 0 /\ i <= buffer_size_ + Quality + 1
          /\ i + n \in Cells <=> i + n <= buffer_size_ + Quality + 1
          /\ remain = a - n + (Quality + 2) /\ a <= buffer_size_
          /\ buffer_size_ \in Nat /\ Quality \in Nat
      <4>1. /\ remain = a - n + (Quality + 2) /\ a <= buffer_size_ /\ i \in 0 .. buffer_size_ + Quality + 1
            /\ buffer_size_ \in Nat /\ Quality \in Nat /\ Cells = 0 .. buffer_size_ + Quality + 1
        BY Zenon, <1>2, Sizes
      <4>2. i + n \in 0 .. buffer_size_ + Quality + 1 <=> i + n <= buffer_size_ + Quality + 1
        BY SMT, <4>1
      <4> QED
        BY SMT, <4>1, <4>2
    <3>2. CASE i < remain
      <4>1. i + n \in Cells
        BY SMT, <1>2, <3>1, <3>2
      <4> QED
        BY Zenon, <3>2, <4>1 DEF Moved
    <3>3. CASE ~(i < remain)
      <4>1. i + n \in Cells => ~(i + n < a + Quality)
        BY SMT, <1>2, <3>1, <3>3
      <4>2. Moved(b.mem, n, i) = {}
        BY Zenon, <1>2, <4>1 DEF Moved
      <4>3. CASE i < remain + n
        BY Zenon, <3>3, <4>2, <4>3
      <4>4. CASE ~(i < remain + n)
        <5>1. ~(i < a + Quality)
          BY SMT, <1>2, <3>1, <4>4
        <5>2. b.mem[i] = {}
          BY Zenon, <1>2, <5>1
        <5> QED
          BY Zenon, <3>3, <4>2, <4>4, <5>2
      <4> QED
        BY Zenon, <4>3, <4>4
    <3> QED
      BY Zenon, <3>2, <3>3
  <2>3. ASSUME NEW i \in Cells PROVE Moved(b.mem, n, i) \in SUBSET Nat
    BY Zenon, <1>1 DEF Moved
  <2>4. cells \in [Cells -> SUBSET Nat] /\ \A i \in Cells : cells[i] = Moved(b.mem, n, i)
    BY Zenon, <2>2, <2>3
  <2> HIDE DEF cells, remain
  <2>5. r \in Buffer
    BY Zenon, <1>6, <2>1, <2>4 DEF Buffer
  <2>6. /\ r.mem = cells /\ r.offset = kept.offset /\ r.modified = kept.modified
        /\ r.last_non_silence = kept.last_non_silence
    BY Zenon, <1>6, <2>1 DEF Buffer
  <2> QED
    BY Zenon, <1>2, <1>3, <1>7, <2>4, <2>5, <2>6 DEF silent, Whole
<1> QED
  BY Zenon, <1>8, <1>9

-----------------------------------------------------------------------------
(* The invariant.                                                          *)

Inv == TypeOK /\ InStep /\ RoomInv /\ ReachInv /\ SilentInv /\ ContentInv

(* A buffer that has been made, cleared or given another sample rate.      *)
Fresh ==
  /\ bufs \in [Channels -> Buffer]
  /\ \A c \in Channels : /\ bufs[c].offset = 0 /\ ~bufs[c].modified
                         /\ \A i \in Cells : bufs[c].mem[i] = {}
  /\ immediate_removal \in BOOLEAN
  /\ samples_read = 0 /\ frame_time = 0 /\ now = 0 /\ read = 0 /\ due = {} /\ heard = {}

LEMMA FreshInv == Fresh => Inv
<1> SUFFICES ASSUME Fresh PROVE Inv
  OBVIOUS
<1>1. Left \in Channels
  BY Zenon DEF Channels, Left
<1>2. Start = 0 /\ Whole(0) = 0 /\ samples_avail(bufs[Left]) = 0
  <2>1. 0 * Unit = 0 /\ 0 < Unit /\ Unit \in Nat \ {0} /\ 0 * Unit + Unit = Unit
    BY SMT, Sizes
  <2>2. 0 \in Int /\ 0 <= 0
    BY SMT
  <2>3. 0 \div Unit = 0
    BY Zenon, <2>1, <2>2, Quotient
  <2> QED
    BY Zenon, <1>1, <2>3 DEF Fresh, Start, Whole, samples_avail
<1>3. TypeOK
  BY SMT, Sizes DEF Fresh, TypeOK, Buffer
<1>4. InStep
  <2>1. now = read * Unit + bufs[Left].offset - samples_read * Unit
    BY SMT, <1>1, Sizes DEF Fresh
  <2>2. samples_read <= samples_avail(bufs[Left])
    BY SMT, <1>2 DEF Fresh
  <2> QED
    BY Zenon, <1>1, <2>1, <2>2 DEF InStep, Fresh
<1>5. RoomInv
  <2>1. Latest = 0 /\ 0 < (buffer_size_ + 1) * Unit
    BY SMT, <1>2, Sizes DEF Fresh, Latest, Start
  <2> QED
    BY Zenon, <2>1 DEF RoomInv, Fresh
<1>6. ReachInv /\ SilentInv
  BY Zenon DEF Fresh, ReachInv, SilentInv
<1>7. ContentInv
  BY Zenon DEF Fresh, ContentInv
<1> QED
  BY Zenon, <1>3, <1>4, <1>5, <1>6, <1>7 DEF Inv

LEMMA ClearedBuffer ==
  /\ Cleared \in Buffer /\ Cleared.offset = 0 /\ ~Cleared.modified
  /\ \A i \in Cells : Cleared.mem[i] = {}
<1>1. 0 \in 0 .. Word - 1
  <2>1. Word >= 1
    <3>1. (buffer_size_ + Quality + 66) * Unit <= Word
      BY Zenon, BlipAssumption DEF BlipAssumption
    <3> QED
      BY SMT, <3>1, Sizes
  <2> QED
    BY SMT, <2>1, Sizes
<1>2. [i \in Cells |-> {}] \in [Cells -> SUBSET Nat] /\ 0 \in Nat
  BY SMT
<1>3. /\ Cleared.offset = 0 /\ Cleared.modified = FALSE
      /\ Cleared.mem = [i \in Cells |-> {}]
  BY Zenon DEF Cleared
<1>4. \A i \in Cells : Cleared.mem[i] = {}
  BY Zenon, <1>3
<1> QED
  BY Zenon, <1>1, <1>2, <1>3, <1>4 DEF Cleared, Buffer

LEMMA InitFresh == Init => Fresh
BY Zenon, ClearedBuffer DEF Init, Fresh

LEMMA RestartFresh ==
  ASSUME TypeOK, Clear \/ SetSampleRate
  PROVE  Fresh'
<1>1. immediate_removal' \in BOOLEAN
  BY Zenon DEF TypeOK, Clear, SetSampleRate, Restart
<1>2. ASSUME NEW n \in Nat
      PROVE  LET b == [Cleared EXCEPT !.last_non_silence = n]
             IN  /\ b \in Buffer /\ b.offset = 0 /\ ~b.modified
                 /\ \A i \in Cells : b.mem[i] = {}
  <2>1. [Cleared EXCEPT !.last_non_silence = n] \in Buffer
    BY Zenon, ClearedBuffer DEF Buffer
  <2>2. /\ [Cleared EXCEPT !.last_non_silence = n].offset = Cleared.offset
        /\ [Cleared EXCEPT !.last_non_silence = n].modified = Cleared.modified
        /\ [Cleared EXCEPT !.last_non_silence = n].mem = Cleared.mem
    BY Zenon, ClearedBuffer DEF Buffer
  <2> QED
    BY Zenon, <2>1, <2>2, ClearedBuffer
<1>3. \A c \in Channels : bufs[c].last_non_silence \in Nat
  BY Zenon DEF TypeOK
<1>4. /\ bufs' \in [Channels -> Buffer]
      /\ \A c \in Channels : /\ bufs'[c].offset = 0 /\ ~bufs'[c].modified
                             /\ \A i \in Cells : bufs'[c].mem[i] = {}
  <2>1. CASE Clear
    BY Zenon, <2>1, ClearedBuffer DEF Clear
  <2>2. CASE SetSampleRate
    BY Zenon, <1>2, <1>3, <2>2 DEF SetSampleRate
  <2> QED
    BY Zenon, <2>1, <2>2
<1>5. /\ samples_read' = 0 /\ frame_time' = 0 /\ now' = 0 /\ read' = 0
      /\ due' = {} /\ heard' = {}
  BY Zenon DEF Clear, SetSampleRate, Restart
<1> QED
  BY Zenon, <1>1, <1>4, <1>5 DEF Fresh

LEMMA RestartStep ==
  TypeOK /\ (Clear \/ SetSampleRate) => Inv'
<1>1. TypeOK /\ (Clear \/ SetSampleRate) => Fresh'
  BY Zenon, RestartFresh
<1>2. Fresh' => Inv'
  BY FreshInv, PTL
<1> QED
  BY Zenon, <1>1, <1>2

(* Nothing but the flag, or what is unchanged.                             *)
LEMMA IdleStep ==
  ASSUME Inv, DisableImmediateRemoval \/ UNCHANGED vars
  PROVE  Inv'
<1>1. /\ UNCHANGED <<bufs, samples_read, frame_time, now, read, due>>
      /\ immediate_removal' \in BOOLEAN /\ heard' \in {{}, heard}
  BY Zenon DEF DisableImmediateRemoval, vars, Inv, TypeOK
<1>2. TypeOK'
  BY Zenon, <1>1 DEF Inv, TypeOK
<1>3. InStep' /\ RoomInv' /\ ReachInv'
  BY Zenon, <1>1 DEF Inv, InStep, RoomInv, ReachInv, Latest, FrameEmpty
<1>4. SilentInv' /\ ContentInv'
  BY Zenon, <1>1 DEF Inv, SilentInv, ContentInv, Base
<1> QED
  BY Zenon, <1>2, <1>3, <1>4 DEF Inv

(* A delta that an oscillator adds.                                        *)
LEMMA DeltaStep ==
  ASSUME Inv, NEW c \in Channels, NEW t \in Times, AddDelta(c, t)
  PROVE  Inv'
<1> DEFINE at == At(t)
<1>1. TypeOK /\ InStep /\ RoomInv /\ ReachInv /\ SilentInv /\ ContentInv
  BY Zenon DEF Inv
<1>2. /\ at \in Nat /\ at < buffer_size_ /\ Whole(Start) <= at /\ Base + at \in Nat
      /\ bufs' \in [Channels -> Buffer]
      /\ \A d \in Channels :
           /\ bufs'[d].offset = bufs[d].offset
           /\ bufs'[d].last_non_silence = bufs[d].last_non_silence
           /\ d = c => bufs'[d].modified
           /\ d # c => bufs'[d].modified = bufs[d].modified
           /\ \A i \in Cells :
                bufs'[d].mem[i] = IF d = c /\ i \in at .. at + Quality - 1
                                  THEN bufs[d].mem[i] \cup {Base + i} ELSE bufs[d].mem[i]
      /\ due' = due \cup [channel : {c}, at : Base + at .. Base + at + Quality - 1]
  BY Zenon, <1>1, DeltaEffect
<1>3. /\ UNCHANGED <<samples_read, immediate_removal, now, read>>
      /\ heard' = {} /\ frame_time' = t /\ Base' = Base /\ t >= frame_time
  BY Zenon DEF AddDelta, Base
<1>4. /\ Left \in Channels /\ t \in Nat /\ Base \in Int
      /\ samples_read \in Nat /\ samples_read <= Whole(Start)
      /\ Quality \in Nat /\ buffer_size_ \in Nat /\ Cells = 0 .. buffer_size_ + Quality + 1
  BY Zenon, <1>1, TimeFacts, StateFacts, Sizes DEF Channels, Left
<1>5. /\ Start' = Start /\ Latest' = Start + t * factor_ /\ Start + t * factor_ \in Nat
      /\ Latest \in Nat /\ Latest <= Start + t * factor_
  BY Zenon, <1>1, <1>2, <1>3, <1>4, TimeFacts DEF Start, Latest
<1> HIDE DEF at
<1>6. ASSUME NEW k \in Base + at .. Base + at + Quality - 1
      PROVE  k \in Nat /\ k - Base \in at .. at + Quality - 1 /\ k - Base \in Cells
  BY SMT, <1>2, <1>4
<1>7. TypeOK'
  <2>1. due' \subseteq [channel : Channels, at : Nat]
    <3>1. [channel : {c}, at : Base + at .. Base + at + Quality - 1]
            \subseteq [channel : Channels, at : Nat]
      BY Zenon, <1>6
    <3> QED
      BY Zenon, <1>1, <1>2, <3>1 DEF TypeOK
  <2> QED
    BY Zenon, <1>1, <1>2, <1>3, <1>4, <2>1 DEF TypeOK, Buffer
<1>8. InStep'
  <2>1. samples_avail(bufs'[Left]) = samples_avail(bufs[Left])
    BY Zenon, <1>2, <1>4 DEF samples_avail
  <2> QED
    BY Zenon, <1>1, <1>2, <1>3, <1>4, <2>1 DEF InStep
<1>9. RoomInv'
  <2>1. Whole(Start + t * factor_) <= buffer_size_
    <3>1. at <= buffer_size_
      BY SMT, <1>2, <1>4
    <3> QED
      BY Zenon, <3>1 DEF at, At
  <2>2. Start + t * factor_ < (buffer_size_ + 1) * Unit
    BY Zenon, <1>5, <2>1, InRoom
  <2>3. ~FrameEmpty'
    BY Zenon, <1>2 DEF FrameEmpty
  <2> QED
    BY Zenon, <1>5, <2>2, <2>3 DEF RoomInv
<1>10. ReachInv'
  <2>1. Latest' \div Unit = at /\ Whole(Latest) <= at /\ Whole(Latest) \in Nat
    BY Zenon, <1>5, WholeGrows, WholeType DEF at, At, Whole
  <2>2. ASSUME NEW d \in Channels, NEW i \in Cells, bufs'[d].mem[i] # {}
        PROVE  i < at + Quality
    <3>1. CASE i \in at .. at + Quality - 1
      BY SMT, <1>2, <1>4, <3>1
    <3>2. CASE i \notin at .. at + Quality - 1
      <4>1. i < Whole(Latest) + Quality
        BY Zenon, <1>1, <1>2, <2>2, <3>2 DEF ReachInv, Whole
      <4> QED
        BY SMT, <1>2, <1>4, <2>1, <4>1
    <3> QED
      BY Zenon, <3>1, <3>2
  <2> QED
    BY Zenon, <2>1, <2>2 DEF ReachInv
<1>11. SilentInv'
  <2>1. ASSUME NEW d \in Channels, NEW i \in Cells, ~bufs'[d].modified, bufs'[d].mem[i] # {}
        PROVE  i < bufs'[d].last_non_silence
    <3>1. d # c
      BY Zenon, <1>2, <2>1
    <3>2. /\ bufs'[d].mem[i] = bufs[d].mem[i] /\ bufs'[d].modified = bufs[d].modified
          /\ bufs'[d].last_non_silence = bufs[d].last_non_silence
      BY Zenon, <1>2, <3>1
    <3> QED
      BY Zenon, <1>1, <2>1, <3>2 DEF SilentInv
  <2> QED
    BY Zenon, <2>1 DEF SilentInv
<1>12. ContentInv'
  <2>1. ASSUME NEW d \in Channels, NEW i \in Cells
        PROVE  [channel |-> d, at |-> Base + i]
                 \in [channel : {c}, at : Base + at .. Base + at + Quality - 1]
               <=> d = c /\ i \in at .. at + Quality - 1
    <3>1. Base + i \in Base + at .. Base + at + Quality - 1 <=> i \in at .. at + Quality - 1
      BY SMT, <1>2, <1>4
    <3> QED
      BY Zenon, <3>1
  <2>2. ASSUME NEW d \in Channels, NEW i \in Cells
        PROVE  /\ bufs'[d].mem[i] \subseteq {Base + i}
               /\ i >= samples_read =>
                    (bufs'[d].mem[i] # {} <=> [channel |-> d, at |-> Base + i] \in due')
    <3>1. /\ bufs[d].mem[i] \subseteq {Base + i}
          /\ i >= samples_read =>
               (bufs[d].mem[i] # {} <=> [channel |-> d, at |-> Base + i] \in due)
      BY Zenon, <1>1 DEF ContentInv
    <3>2. CASE d = c /\ i \in at .. at + Quality - 1
      <4>1. bufs'[d].mem[i] = bufs[d].mem[i] \cup {Base + i}
        BY Zenon, <1>2, <3>2
      <4>2. [channel |-> d, at |-> Base + i] \in due'
        BY Zenon, <1>2, <2>1, <3>2
      <4> QED
        BY Zenon, <3>1, <4>1, <4>2
    <3>3. CASE ~(d = c /\ i \in at .. at + Quality - 1)
      <4>1. bufs'[d].mem[i] = bufs[d].mem[i]
        BY Zenon, <1>2, <3>3
      <4>2. [channel |-> d, at |-> Base + i] \in due' <=> [channel |-> d, at |-> Base + i] \in due
        BY Zenon, <1>2, <2>1, <3>3
      <4> QED
        BY Zenon, <3>1, <4>1, <4>2
    <3> QED
      BY Zenon, <3>2, <3>3
  <2>3. ASSUME NEW s \in due' PROVE s.at >= read /\ s.at - Base \in Cells
    <3>1. CASE s \in due
      BY Zenon, <1>1, <3>1 DEF ContentInv
    <3>2. CASE s \notin due
      <4>1. s.at \in Base + at .. Base + at + Quality - 1
        BY Zenon, <1>2, <3>2
      <4>2. read = Base + samples_read
        BY SMT, <1>1 DEF TypeOK, Base
      <4>3. Whole(Start) \in Nat
        BY Zenon, <1>1, StateFacts
      <4>4. s.at >= read
        BY SMT, <1>2, <1>4, <4>1, <4>2, <4>3
      <4> QED
        BY Zenon, <1>6, <4>1, <4>4
    <3> QED
      BY Zenon, <3>1, <3>2
  <2> QED
    BY Zenon, <1>3, <2>2, <2>3 DEF ContentInv
<1> QED
  BY Zenon, <1>7, <1>8, <1>9, <1>10, <1>11, <1>12 DEF Inv

(* The end of a time frame.                                                *)
LEMMA EndFrameStep ==
  ASSUME Inv, NEW t \in Times, EndFrame(t)
  PROVE  Inv'
<1> DEFINE at == At(t)
<1>1. TypeOK /\ InStep /\ RoomInv /\ ReachInv /\ SilentInv /\ ContentInv
  BY Zenon DEF Inv
<1>2. /\ at \in Nat /\ at <= buffer_size_ /\ Latest \in Nat /\ Whole(Latest) <= at
      /\ Start' = Start + t * factor_ /\ Start' \in Nat /\ Whole(Start') = at
      /\ bufs' \in [Channels -> Buffer]
      /\ \A c \in Channels :
           /\ bufs'[c].offset = Start + t * factor_ /\ ~bufs'[c].modified
           /\ bufs'[c].mem = bufs[c].mem
           /\ bufs[c].modified => bufs'[c].last_non_silence = at + blip_buffer_extra
           /\ ~bufs[c].modified => bufs'[c].last_non_silence = bufs[c].last_non_silence
  BY Zenon, <1>1, EndFrameEffect
<1>3. /\ UNCHANGED <<samples_read, immediate_removal, read, due>>
      /\ heard' = {} /\ frame_time' = 0 /\ Base' = Base /\ now' = now + t * factor_
  BY Zenon DEF EndFrame, Base
<1>4. /\ Left \in Channels /\ t * factor_ \in Nat /\ now \in Nat /\ Start \in Nat
      /\ samples_read \in Nat /\ samples_read <= Whole(Start) /\ Whole(Start) \in Nat
      /\ read \in Nat /\ Whole(Start) <= at
      /\ Quality \in Nat /\ buffer_size_ \in Nat /\ Cells = 0 .. buffer_size_ + Quality + 1
      /\ blip_buffer_extra \in Nat /\ blip_buffer_extra >= Quality
  BY Zenon, <1>1, TimeFacts, StateFacts, Sizes DEF Channels, Left, At
<1>5. Latest' = Start' /\ 0 \in Nat
  <2>1. 0 * factor_ = 0 /\ Start' + 0 = Start' /\ 0 \in Nat
    BY SMT, <1>2, Sizes
  <2> QED
    BY Zenon, <1>3, <2>1 DEF Latest, Start
<1> HIDE DEF at
<1>6. TypeOK'
  <2>1. now' \in Nat
    BY SMT, <1>3, <1>4
  <2> QED
    BY Zenon, <1>1, <1>2, <1>3, <1>5, <2>1 DEF TypeOK, Buffer
<1>7. InStep'
  <2>1. samples_avail(bufs'[Left]) = at
    BY Zenon, <1>2, <1>4 DEF samples_avail, Whole
  <2>2. samples_read <= at
    BY SMT, <1>2, <1>4
  <2>3. now = read * Unit + Start - samples_read * Unit
    BY Zenon, <1>1 DEF InStep, Start
  <2>4. now' = read * Unit + Start' - samples_read * Unit
    <3>1. PICK T \in Nat, r \in Int, n \in Int :
            T = t * factor_ /\ r = read * Unit /\ n = samples_read * Unit
      BY SMT, <1>4, Sizes
    <3>2. now = r + Start - n /\ now' = now + T /\ Start' = Start + T
      BY Zenon, <1>2, <1>3, <2>3, <3>1
    <3>3. now' = r + Start' - n
      BY SMT, <1>4, <3>2
    <3> QED
      BY Zenon, <3>1, <3>3
  <2> QED
    BY Zenon, <1>2, <1>3, <1>4, <2>1, <2>2, <2>4 DEF InStep, Start
<1>8. RoomInv'
  BY Zenon, <1>2, <1>3, <1>5, InRoom DEF RoomInv
<1>9. ReachInv'
  <2>1. ASSUME NEW c \in Channels, NEW i \in Cells, bufs'[c].mem[i] # {}
        PROVE  i < at + Quality
    <3>1. i < Whole(Latest) + Quality /\ Whole(Latest) \in Nat
      BY Zenon, <1>1, <1>2, <2>1, WholeType DEF ReachInv, Whole
    <3> QED
      BY SMT, <1>2, <1>4, <3>1
  <2> QED
    BY Zenon, <1>2, <1>5, <2>1 DEF ReachInv, Whole
<1>10. SilentInv'
  <2>1. ASSUME NEW c \in Channels, NEW i \in Cells, bufs'[c].mem[i] # {}
        PROVE  i < bufs'[c].last_non_silence
    <3>1. CASE bufs[c].modified
      <4>1. bufs'[c].last_non_silence = at + blip_buffer_extra
        BY Zenon, <1>2, <3>1
      <4>2. i < Whole(Latest) + Quality /\ Whole(Latest) \in Nat
        BY Zenon, <1>1, <1>2, <2>1, WholeType DEF ReachInv, Whole
      <4>3. i < at + blip_buffer_extra
        BY SMT, <1>2, <1>4, <4>2
      <4> QED
        BY Zenon, <4>1, <4>3
    <3>2. CASE ~bufs[c].modified
      BY Zenon, <1>1, <1>2, <2>1, <3>2 DEF SilentInv
    <3> QED
      BY Zenon, <3>1, <3>2
  <2> QED
    BY Zenon, <2>1 DEF SilentInv
<1>11. ContentInv'
  BY Zenon, <1>1, <1>2, <1>3 DEF ContentInv
<1> QED
  BY Zenon, <1>6, <1>7, <1>8, <1>9, <1>10, <1>11 DEF Inv

(* What reading n pairs finds and leaves.                                  *)
LEMMA ReadEffect ==
  ASSUME Inv, ReadInFrame = FALSE, NEW n \in 1 .. buffer_size_, ReadSamples(n)
  PROVE  /\ FrameEmpty /\ frame_time = 0 /\ Latest = Start
         /\ samples_read + n <= Whole(Start)
         /\ bufs' \in [Channels -> Buffer]
         /\ \A c \in Channels : ~bufs'[c].modified
         /\ \/ /\ samples_read' = samples_read + n
               /\ \A c \in Channels :
                    /\ bufs'[c].offset = bufs[c].offset /\ bufs'[c].mem = bufs[c].mem
                    /\ bufs'[c].last_non_silence = bufs[c].last_non_silence
            \/ /\ samples_read' = 0
               /\ \A c \in Channels :
                    /\ bufs'[c].offset = Start - (samples_read + n) * Unit
                    /\ bufs'[c].offset \in Nat
                    /\ Whole(bufs'[c].offset) = Whole(Start) - (samples_read + n)
                    /\ bufs'[c].last_non_silence =
                         IF bufs[c].last_non_silence > samples_read + n
                         THEN bufs[c].last_non_silence - (samples_read + n) ELSE 0
                    /\ \A i \in Cells :
                         bufs'[c].mem[i] = Moved(bufs[c].mem, samples_read + n, i)
<1>1. TypeOK /\ InStep /\ RoomInv /\ ReachInv /\ SilentInv /\ ContentInv
  BY Zenon DEF Inv
<1>2. FrameEmpty /\ frame_time = 0 /\ \A c \in Channels : ~bufs[c].modified
  BY Zenon, <1>1, ReadInFrame = FALSE DEF ReadSamples, FrameEmpty, RoomInv
<1>3. Latest = Start
  <2>1. 0 * factor_ = 0 /\ Start + 0 = Start
    BY SMT, <1>1, StateFacts, Sizes
  <2> QED
    BY Zenon, <1>2, <2>1 DEF Latest, Start
<1>4. /\ Left \in Channels /\ samples_read \in Nat /\ n \in Nat /\ samples_read + n \in Nat \ {0}
      /\ samples_read + n <= Whole(Start)
  <2>1. Left \in Channels /\ samples_read \in Nat /\ Whole(Start) \in Nat
    BY Zenon, <1>1, StateFacts DEF Channels, Left
  <2>2. n <= Whole(Start) - samples_read
    BY Zenon, <1>1, <2>1, StateFacts DEF ReadSamples, PairsAvail
  <2> QED
    BY SMT, <2>1, <2>2
<1> DEFINE removing == n = PairsAvail \/ immediate_removal
<1>5. PICK u \in [Channels -> BOOLEAN] :
        LET mixed == [c \in Channels |-> [bufs[c] EXCEPT !.unsettled = u[c]]]
        IN  bufs' = IF removing THEN [c \in Channels |-> Removed(mixed[c], n)] ELSE mixed
  BY Zenon DEF ReadSamples
<1> DEFINE mixed == [c \in Channels |-> [bufs[c] EXCEPT !.unsettled = u[c]]]
<1>6. /\ bufs' = IF removing THEN [c \in Channels |-> Removed(mixed[c], n)] ELSE mixed
      /\ samples_read' = IF removing THEN 0 ELSE samples_read + n
  BY Zenon, <1>5 DEF ReadSamples
<1>7. ASSUME NEW c \in Channels
      PROVE  /\ mixed[c] \in Buffer /\ mixed[c].offset = Start /\ mixed[c].modified = FALSE
             /\ mixed[c].mem = bufs[c].mem
             /\ mixed[c].last_non_silence = bufs[c].last_non_silence
  <2>1. bufs[c] \in Buffer /\ bufs[c].offset = Start /\ bufs[c].modified = FALSE /\ u[c] \in BOOLEAN
    <3>1. bufs[c] \in Buffer /\ bufs[c].offset = Start /\ u[c] \in BOOLEAN
      BY Zenon, <1>1, StateFacts DEF TypeOK, Buffer
    <3>2. bufs[c].modified \in BOOLEAN
      BY Zenon, <3>1 DEF Buffer
    <3> QED
      BY Zenon, <1>2, <3>1, <3>2
  <2>2. mixed[c] = [bufs[c] EXCEPT !.unsettled = u[c]]
    BY Zenon
  <2> HIDE DEF mixed
  <2>3. mixed[c] \in Buffer
    BY Zenon, <2>1, <2>2 DEF Buffer
  <2>4. /\ mixed[c].offset = bufs[c].offset /\ mixed[c].modified = bufs[c].modified
        /\ mixed[c].mem = bufs[c].mem
        /\ mixed[c].last_non_silence = bufs[c].last_non_silence
    BY Zenon, <2>1, <2>2 DEF Buffer
  <2> QED
    BY Zenon, <2>1, <2>3, <2>4
<1>8. CASE ~removing
  <2>1. bufs' = mixed /\ samples_read' = samples_read + n
    BY Zenon, <1>6, <1>8
  <2>2. \A c \in Channels : bufs[c].offset = Start
    BY Zenon, <1>1, StateFacts
  <2>3. bufs' \in [Channels -> Buffer]
    BY Zenon, <1>7, <2>1
  <2> HIDE DEF mixed, removing
  <2>4. \A c \in Channels :
          /\ ~bufs'[c].modified
          /\ bufs'[c].offset = bufs[c].offset /\ bufs'[c].mem = bufs[c].mem
          /\ bufs'[c].last_non_silence = bufs[c].last_non_silence
    BY Zenon, <1>7, <2>1, <2>2
  <2> QED
    BY Zenon, <1>2, <1>3, <1>4, <2>1, <2>3, <2>4
<1>9. CASE removing
  <2>1. bufs' = [c \in Channels |-> Removed(mixed[c], n)] /\ samples_read' = 0
    BY Zenon, <1>6, <1>9
  <2> HIDE DEF mixed, removing
  <2>2. ASSUME NEW c \in Channels
        PROVE  /\ bufs'[c] \in Buffer /\ ~bufs'[c].modified
               /\ bufs'[c].offset = Start - (samples_read + n) * Unit
               /\ bufs'[c].offset \in Nat
               /\ Whole(bufs'[c].offset) = Whole(Start) - (samples_read + n)
               /\ bufs'[c].last_non_silence =
                    IF bufs[c].last_non_silence > samples_read + n
                    THEN bufs[c].last_non_silence - (samples_read + n) ELSE 0
               /\ \A i \in Cells : bufs'[c].mem[i] = Moved(bufs[c].mem, samples_read + n, i)
    <3> DEFINE b == mixed[c]
    <3>1. bufs'[c] = IF non_silent(b) THEN remove_samples(b, samples_read + n)
                     ELSE remove_silence(b, samples_read + n)
      BY Zenon, <2>1 DEF Removed
    <3>2. Whole(b.offset) <= buffer_size_ /\ samples_read + n <= Whole(b.offset)
      BY Zenon, <1>1, <1>4, <1>7, StateFacts
    <3>3. \A i \in Cells : b.mem[i] # {} => i < Whole(b.offset) + Quality
      BY Zenon, <1>1, <1>3, <1>7 DEF ReachInv, Whole
    <3>4. ~non_silent(b) => \A i \in Cells : b.mem[i] = {}
      <4>1. SUFFICES ASSUME ~non_silent(b), NEW i \in Cells, b.mem[i] # {} PROVE FALSE
        BY Zenon
      <4>2. i < bufs[c].last_non_silence
        BY Zenon, <1>1, <1>2, <1>7, <4>1 DEF SilentInv
      <4>3. ~(bufs[c].last_non_silence > 0)
        BY Zenon, <1>7, <4>1 DEF non_silent
      <4>4. i \in Nat /\ bufs[c].last_non_silence \in Nat
        BY SMT, <1>1, Sizes DEF TypeOK
      <4> QED
        BY SMT, <4>2, <4>3, <4>4
    <3>5. b \in Buffer
      BY Zenon, <1>7
    <3> DEFINE m == samples_read + n
    <3> HIDE DEF b, m
    <3>6. RemovedFrom(b, m, bufs'[c])
      <4>1. m \in Nat \ {0}
        BY Zenon, <1>4 DEF m
      <4>2. Removable(b, m, bufs'[c])
        BY Zenon, <3>1, <3>2, <3>3, <3>4 DEF m, Removable
      <4> QED
        BY Zenon, <3>5, <4>1, <4>2, RemovalEffect
    <3> QED
      BY Zenon, <1>7, <3>6 DEF b, m, RemovedFrom
  <2>3. bufs' \in [Channels -> Buffer]
    <3>1. ASSUME NEW c \in Channels PROVE Removed(mixed[c], n) \in Buffer
      BY Zenon, <2>1, <2>2
    <3> QED
      BY Zenon, <2>1, <3>1
  <2> QED
    BY Zenon, <1>2, <1>3, <1>4, <2>1, <2>2, <2>3
<1> QED
  BY Zenon, <1>8, <1>9

(* Reading gives all that is due in the samples read, mono or not, and     *)
(* nothing else.                                                           *)
LEMMA ReadGives ==
  ASSUME Inv, ReadInFrame = FALSE, NEW n \in 1 .. buffer_size_, ReadSamples(n)
  PROVE  /\ read' = read + n
         /\ due' = {s \in due : s.at >= read'}
         /\ heard' = {[channel |-> s.channel, at |-> s.at, heard_in |-> s.at] : s \in due \ due'}
<1> DEFINE Given(s) == [channel |-> s.channel, at |-> s.at, heard_in |-> s.at]
<1>1. TypeOK /\ InStep /\ RoomInv /\ ReachInv /\ SilentInv /\ ContentInv
  BY Zenon DEF Inv
<1>2. /\ samples_read + n <= Whole(Start) /\ Whole(Start) <= buffer_size_ /\ Whole(Start) \in Nat
      /\ samples_read \in Nat /\ read \in Nat /\ Base \in Int
      /\ \A c \in Channels : ~bufs[c].modified
      /\ Cells = 0 .. buffer_size_ + Quality + 1 /\ Quality \in Nat /\ buffer_size_ \in Nat
  BY Zenon, <1>1, ReadEffect, StateFacts, Sizes DEF FrameEmpty
<1>3. read = Base + samples_read /\ n \in Nat
  BY SMT, <1>2 DEF Base
<1>4. read' = read + n
  BY Zenon DEF ReadSamples
<1>5. ASSUME NEW h
      PROVE  h \in heard' <=>
               \E c \in Mixed, i \in MixedCells(n) :
                 h \in [channel : {c}, at : bufs[c].mem[i], heard_in : {read + i - samples_read}]
  <2> DEFINE Of(c, i) == [channel : {c}, at : bufs[c].mem[i], heard_in : {read + i - samples_read}]
             Sounds == {Of(c, i) : c \in Mixed, i \in MixedCells(n)}
  <2>1. heard' = UNION Sounds
    BY SMT DEF ReadSamples
  <2> HIDE DEF Of
  <2>2. ASSUME NEW x PROVE x \in Sounds <=> \E c \in Mixed, i \in MixedCells(n) : x = Of(c, i)
    BY SMT
  <2> HIDE DEF Sounds
  <2>3. h \in UNION Sounds <=> \E x \in Sounds : h \in x
    BY SMT
  <2>4. ASSUME NEW x \in Sounds, h \in x
        PROVE  \E c \in Mixed, i \in MixedCells(n) : h \in Of(c, i)
    <3>1. PICK c \in Mixed, i \in MixedCells(n) : x = Of(c, i)
      BY Zenon, <2>2
    <3>2. h \in Of(c, i)
      BY Zenon, <2>4, <3>1
    <3> QED
      BY Zenon, <3>2
  <2>5. ASSUME NEW c \in Mixed, NEW i \in MixedCells(n), h \in Of(c, i)
        PROVE  \E x \in Sounds : h \in x
    BY Zenon, <2>2, <2>5
  <2>6. h \in heard' <=> \E c \in Mixed, i \in MixedCells(n) : h \in Of(c, i)
    BY Zenon, <2>1, <2>3, <2>4, <2>5
  <2> QED
    BY Zenon, <2>6 DEF Of
<1>6. Mixed \subseteq Channels
  BY Zenon DEF Mixed, Channels
<1>7. ASSUME NEW c \in Channels, NEW i \in Cells, bufs[c].mem[i] # {}
      PROVE  c \in Mixed
  <2>1. i < bufs[c].last_non_silence
    BY Zenon, <1>1, <1>2, <1>7 DEF SilentInv
  <2>2. i \in Nat /\ bufs[c].last_non_silence \in Nat
    BY SMT, <1>1, Sizes DEF TypeOK
  <2>3. bufs[c].last_non_silence > 0
    BY SMT, <2>1, <2>2
  <2>4. non_silent(bufs[c])
    BY Zenon, <2>3 DEF non_silent
  <2> QED
    BY Zenon, <2>4 DEF Mixed, Mono, Channels
<1>8. ASSUME NEW s \in due
      PROVE  /\ s \in [channel : Channels, at : Nat]
             /\ s = [channel |-> s.channel, at |-> s.at]
             /\ s.at >= read /\ s.at - Base \in Cells
             /\ s.at = Base + (s.at - Base) /\ s.at - Base >= samples_read
  <2>1. s \in [channel : Channels, at : Nat] /\ s.at >= read /\ s.at - Base \in Cells
    BY Zenon, <1>1 DEF TypeOK, ContentInv
  <2>2. s = [channel |-> s.channel, at |-> s.at] /\ s.at \in Nat
    BY Zenon, <2>1
  <2>3. s.at = Base + (s.at - Base) /\ s.at - Base >= samples_read
    BY SMT, <1>2, <1>3, <2>1, <2>2
  <2> QED
    BY Zenon, <2>1, <2>2, <2>3
<1>9. ASSUME NEW s \in due, s.at < read + n PROVE Given(s) \in heard'
  <2>1. PICK i \in Cells : i = s.at - Base
    BY Zenon, <1>8
  <2>2. s.at = Base + i /\ i >= samples_read /\ s.channel \in Channels
    BY Zenon, <1>8, <2>1
  <2>3. bufs[s.channel].mem[i] = {s.at}
    <3>1. [channel |-> s.channel, at |-> Base + i] \in due
      BY Zenon, <1>8, <2>2
    <3>2. bufs[s.channel].mem[i] # {} /\ bufs[s.channel].mem[i] \subseteq {Base + i}
      BY Zenon, <1>1, <2>2, <3>1 DEF ContentInv
    <3> QED
      BY Zenon, <2>2, <3>2
  <2>4. s.channel \in Mixed
    BY Zenon, <1>7, <2>2, <2>3
  <2>5. i \in MixedCells(n) /\ read + i - samples_read = s.at
    <3>1. i \in samples_read .. samples_read + n - 1 /\ read + i - samples_read = Base + i
      BY SMT, <1>2, <1>3, <1>9, <2>2
    <3> QED
      BY Zenon, <2>2, <3>1 DEF MixedCells
  <2>6. Given(s) \in [channel : {s.channel}, at : bufs[s.channel].mem[i],
                      heard_in : {read + i - samples_read}]
    BY Zenon, <2>3, <2>5
  <2> QED
    BY Zenon, <1>5, <2>4, <2>5, <2>6
<1>10. ASSUME NEW h \in heard' PROVE \E s \in due : s.at < read + n /\ h = Given(s)
  <2>1. PICK c \in Mixed, i \in MixedCells(n) :
          h \in [channel : {c}, at : bufs[c].mem[i], heard_in : {read + i - samples_read}]
    BY Zenon, <1>5
  <2>2. c \in Channels /\ h.channel = c /\ h.at \in bufs[c].mem[i]
        /\ h.heard_in = read + i - samples_read
        /\ h = [channel |-> h.channel, at |-> h.at, heard_in |-> h.heard_in]
    BY Zenon, <1>6, <2>1
  <2>3. i \in samples_read .. samples_read + n - 1
    BY Zenon DEF MixedCells
  <2>4. /\ i \in Cells /\ i >= samples_read /\ read + i - samples_read = Base + i
        /\ Base + i < read + n
    BY SMT, <1>2, <1>3, <2>3
  <2>5. h.at = Base + i /\ [channel |-> c, at |-> Base + i] \in due
    BY Zenon, <1>1, <2>2, <2>4 DEF ContentInv
  <2>6. h = Given([channel |-> c, at |-> Base + i])
    BY Zenon, <2>2, <2>4, <2>5
  <2> QED
    BY Zenon, <2>4, <2>5, <2>6
<1>11. due' = {s \in due : Given(s) \notin heard'}
  BY Zenon DEF ReadSamples
<1>12. ASSUME NEW s \in due PROVE Given(s) \in heard' <=> s.at < read + n
  <2>1. ASSUME Given(s) \in heard' PROVE s.at < read + n
    <3>1. PICK r \in due : r.at < read + n /\ Given(s) = Given(r)
      BY Zenon, <1>10, <2>1
    <3>2. s.at = r.at
      BY Zenon, <3>1
    <3> QED
      BY Zenon, <3>1, <3>2
  <2> QED
    BY Zenon, <1>9, <2>1
<1> HIDE DEF Given
<1>13. ASSUME NEW s \in due PROVE ~(s.at < read + n) <=> s.at >= read + n
  <2>1. s.at \in Nat
    BY Zenon, <1>8
  <2> QED
    BY SMT, <1>2, <1>3, <2>1
<1>14. due' = {s \in due : s.at >= read'}
  BY Zenon, <1>4, <1>11, <1>12, <1>13
<1>15. heard' = {Given(s) : s \in due \ due'}
  <2>1. ASSUME NEW h \in heard' PROVE \E s \in due \ due' : h = Given(s)
    BY Zenon, <1>10, <1>11, <2>1
  <2>2. ASSUME NEW s \in due \ due' PROVE Given(s) \in heard'
    BY Zenon, <1>11
  <2> QED
    BY Zenon, <2>1, <2>2
<1> QED
  BY Zenon, <1>4, <1>14, <1>15 DEF Given

(* Reading n pairs, and removing them or not.                              *)
LEMMA ReadStep ==
  ASSUME Inv, ReadInFrame = FALSE, NEW n \in 1 .. buffer_size_, ReadSamples(n)
  PROVE  Inv'
<1> DEFINE m == samples_read + n
           kept == /\ samples_read' = m
                   /\ \A c \in Channels :
                        /\ bufs'[c].offset = bufs[c].offset /\ bufs'[c].mem = bufs[c].mem
                        /\ bufs'[c].last_non_silence = bufs[c].last_non_silence
           removed == /\ samples_read' = 0
                      /\ \A c \in Channels :
                           /\ bufs'[c].offset = Start - m * Unit
                           /\ bufs'[c].offset \in Nat
                           /\ Whole(bufs'[c].offset) = Whole(Start) - m
                           /\ bufs'[c].last_non_silence =
                                IF bufs[c].last_non_silence > m
                                THEN bufs[c].last_non_silence - m ELSE 0
                           /\ \A i \in Cells : bufs'[c].mem[i] = Moved(bufs[c].mem, m, i)
<1>1. TypeOK /\ InStep /\ RoomInv /\ ReachInv /\ SilentInv /\ ContentInv
  BY Zenon DEF Inv
<1>2. /\ frame_time = 0 /\ Latest = Start /\ m <= Whole(Start)
      /\ \A c \in Channels : ~bufs[c].modified
      /\ bufs' \in [Channels -> Buffer] /\ \A c \in Channels : ~bufs'[c].modified
      /\ kept \/ removed
  BY Zenon, ReadEffect DEF FrameEmpty
<1>3. /\ UNCHANGED <<immediate_removal, frame_time, now>> /\ read' = read + n
      /\ due' = {s \in due : s.at >= read'}
      /\ heard' = {[channel |-> s.channel, at |-> s.at, heard_in |-> s.at] : s \in due \ due'}
  <2>1. UNCHANGED <<immediate_removal, frame_time, now>>
    BY Zenon DEF ReadSamples
  <2> QED
    BY Zenon, <2>1, ReadGives
<1>4. /\ Left \in Channels /\ samples_read \in Nat /\ read \in Nat /\ Base \in Int /\ now \in Nat
      /\ Start \in Nat /\ Whole(Start) \in Nat /\ Whole(Start) <= buffer_size_
      /\ Start < (buffer_size_ + 1) * Unit
      /\ Quality \in Nat /\ buffer_size_ \in Nat /\ Cells = 0 .. buffer_size_ + Quality + 1
  BY Zenon, <1>1, StateFacts, Sizes DEF Channels, Left
<1>5. n \in Nat /\ n >= 1 /\ m \in Nat /\ m >= 1 /\ m = samples_read + n
  BY SMT, <1>4
<1> HIDE DEF m, kept, removed
<1>6. \A c \in Channels : bufs'[c].offset = Start'
  <2>1. CASE kept
    BY Zenon, <1>1, <1>4, <2>1, StateFacts DEF kept, Start
  <2>2. CASE removed
    BY Zenon, <1>4, <2>2 DEF removed, Start
  <2> QED
    BY Zenon, <1>2, <2>1, <2>2
<1>7. /\ kept => Start' = Start
      /\ removed => /\ Start' = Start - m * Unit /\ Start' \in Nat
                    /\ Whole(Start') = Whole(Start) - m
  BY Zenon, <1>4 DEF kept, removed, Start
<1>8. TypeOK'
  <2>1. samples_read' \in 0 .. buffer_size_ /\ read' \in Nat
    <3>1. samples_read' \in {0, m}
      BY Zenon, <1>2 DEF kept, removed
    <3> QED
      BY SMT, <1>2, <1>3, <1>4, <1>5, <3>1
  <2>2. due' \subseteq [channel : Channels, at : Nat]
    BY Zenon, <1>1, <1>3 DEF TypeOK
  <2>3. ASSUME NEW s \in due
        PROVE  [channel |-> s.channel, at |-> s.at, heard_in |-> s.at]
                 \in [channel : Channels, at : Nat, heard_in : Nat]
    <3>1. s \in [channel : Channels, at : Nat]
      BY Zenon, <1>1 DEF TypeOK
    <3> QED
      BY Zenon, <3>1
  <2>4. heard' \subseteq [channel : Channels, at : Nat, heard_in : Nat]
    BY Zenon, <1>3, <2>3
  <2> QED
    BY Zenon, <1>1, <1>2, <1>3, <2>1, <2>2, <2>4 DEF TypeOK, Buffer
<1>9. PICK r \in Int, k \in Int, j \in Int :
        r = read * Unit /\ k = samples_read * Unit /\ j = n * Unit
  BY SMT, <1>4, <1>5, Sizes
<1>10. /\ (read + n) * Unit = r + j /\ m * Unit = k + j /\ m * Unit \in Int /\ 0 * Unit = 0
       /\ now = r + Start - k
  <2>1. now = read * Unit + Start - samples_read * Unit
    BY Zenon, <1>1 DEF InStep, Start
  <2>2. /\ (read + n) * Unit = read * Unit + n * Unit
        /\ (samples_read + n) * Unit = samples_read * Unit + n * Unit /\ 0 * Unit = 0
    BY SMT, <1>4, <1>5, Sizes
  <2>3. m * Unit = k + j
    BY Zenon, <1>5, <1>9, <2>2
  <2>4. k + j \in Int
    BY SMT
  <2> QED
    BY Zenon, <1>9, <2>1, <2>2, <2>3, <2>4
<1>11. InStep'
  <2>1. samples_avail(bufs'[Left]) = Whole(Start')
    BY Zenon, <1>4, <1>6 DEF samples_avail, Whole
  <2>2. samples_read' <= Whole(Start') /\ now' = read' * Unit + Start' - samples_read' * Unit
    <3>1. CASE kept
      <4>1. samples_read' = m /\ Start' = Start
        BY Zenon, <1>7, <3>1 DEF kept
      <4>2. r + Start - k = (r + j) + Start - (k + j)
        BY SMT, <1>4
      <4> QED
        BY Zenon, <1>2, <1>3, <1>10, <4>1, <4>2
    <3>2. CASE removed
      <4>1. samples_read' = 0 /\ Start' = Start - (k + j) /\ Whole(Start') = Whole(Start) - m
        BY Zenon, <1>7, <1>10, <3>2 DEF removed
      <4>2. r + Start - k = (r + j) + (Start - (k + j)) - 0 /\ 0 <= Whole(Start) - m
        BY SMT, <1>2, <1>4, <1>5
      <4> QED
        BY Zenon, <1>3, <1>10, <4>1, <4>2
    <3> QED
      BY Zenon, <1>2, <3>1, <3>2
  <2> QED
    BY Zenon, <1>4, <1>6, <2>1, <2>2 DEF InStep, Start
<1>12. Latest' = Start' /\ Start' \in Nat /\ Whole(Start') \in Nat /\ Whole(Start') <= Whole(Start)
  <2>1. Start' \in Nat /\ Whole(Start') <= Whole(Start)
    <3>1. CASE kept
      <4>1. Whole(Start) <= Whole(Start)
        BY SMT, <1>4
      <4> QED
        BY Zenon, <1>4, <1>7, <3>1, <4>1
    <3>2. CASE removed
      <4>1. Whole(Start) - m <= Whole(Start)
        BY SMT, <1>4, <1>5
      <4> QED
        BY Zenon, <1>7, <3>2, <4>1
    <3> QED
      BY Zenon, <1>2, <3>1, <3>2
  <2>2. 0 * factor_ = 0 /\ Start' + 0 = Start'
    <3>1. \A s \in Nat : s + 0 = s
      BY SMT
    <3>2. 0 * factor_ = 0
      BY SMT, Sizes
    <3> QED
      BY Zenon, <2>1, <3>1, <3>2
  <2>3. Latest' = Start'
    BY Zenon, <1>2, <1>3, <2>2 DEF Latest, Start
  <2> QED
    BY Zenon, <2>1, <2>3, WholeType
<1>13. RoomInv'
  <2>1. Whole(Start') <= buffer_size_
    BY SMT, <1>4, <1>12
  <2> QED
    BY Zenon, <1>2, <1>3, <1>12, <2>1, InRoom DEF RoomInv
<1>14. ASSUME NEW c \in Channels, NEW i \in Cells
       PROVE  bufs[c].mem[i] # {} => /\ i < Whole(Start) + Quality
                                     /\ i < bufs[c].last_non_silence
  BY Zenon, <1>1, <1>2 DEF ReachInv, SilentInv, Whole
<1>15. ReachInv' /\ SilentInv'
  <2>1. ASSUME NEW c \in Channels, NEW i \in Cells, bufs'[c].mem[i] # {}
        PROVE  i < Whole(Start') + Quality /\ i < bufs'[c].last_non_silence
    <3>1. CASE kept
      BY Zenon, <1>7, <1>14, <2>1, <3>1 DEF kept
    <3>2. CASE removed
      <4>1. i + m \in Cells /\ bufs[c].mem[i + m] # {}
        BY Zenon, <2>1, <3>2 DEF removed, Moved
      <4>2. i + m < Whole(Start) + Quality /\ i + m < bufs[c].last_non_silence
        BY Zenon, <1>14, <4>1
      <4>3. i \in Nat /\ bufs[c].last_non_silence \in Nat
        BY SMT, <1>1, Sizes DEF TypeOK
      <4>4. /\ i < Whole(Start) - m + Quality /\ bufs[c].last_non_silence > m
            /\ i < bufs[c].last_non_silence - m
        BY SMT, <1>4, <1>5, <4>2, <4>3
      <4> QED
        BY Zenon, <1>7, <3>2, <4>4 DEF removed
    <3> QED
      BY Zenon, <1>2, <3>1, <3>2
  <2> QED
    BY Zenon, <1>12, <2>1 DEF ReachInv, SilentInv, Whole
<1>16. /\ kept => Base' = Base
       /\ removed => Base' = Base + m
       /\ read' = Base + m /\ read = Base + samples_read
  <2>1. /\ (read + n) - m = read - samples_read
        /\ (read + n) - 0 = (read - samples_read) + m
        /\ read + n = (read - samples_read) + m /\ read = (read - samples_read) + samples_read
    BY SMT, <1>4, <1>5
  <2> QED
    BY Zenon, <1>3, <2>1 DEF Base, kept, removed
<1>17. ContentInv'
  <2>1. ASSUME NEW c \in Channels, NEW i \in Cells
        PROVE  /\ bufs[c].mem[i] \subseteq {Base + i}
               /\ i >= samples_read =>
                    (bufs[c].mem[i] # {} <=> [channel |-> c, at |-> Base + i] \in due)
    BY Zenon, <1>1 DEF ContentInv
  <2>2. ASSUME NEW s \in due PROVE s.at >= read /\ s.at - Base \in Cells /\ s.at \in Nat
    <3>1. s \in [channel : Channels, at : Nat]
      BY Zenon, <1>1 DEF TypeOK
    <3> QED
      BY Zenon, <1>1, <3>1 DEF ContentInv
  <2>3. ASSUME NEW c \in Channels, NEW i \in Int, i >= m
        PROVE  [channel |-> c, at |-> Base + i] \in due'
               <=> [channel |-> c, at |-> Base + i] \in due
    <3>1. Base + i >= Base + m
      BY SMT, <1>4, <1>5, <2>3
    <3>2. [channel |-> c, at |-> Base + i].at >= read'
      BY Zenon, <1>16, <3>1
    <3> QED
      BY Zenon, <1>3, <3>2
  <2>4. ASSUME NEW c \in Channels, NEW i \in Int, i \notin Cells
        PROVE  [channel |-> c, at |-> Base + i] \notin due
    <3>1. SUFFICES ASSUME [channel |-> c, at |-> Base + i] \in due PROVE FALSE
      OBVIOUS
    <3>2. (Base + i) - Base \in Cells
      BY Zenon, <2>2, <3>1
    <3>3. (Base + i) - Base = i
      BY SMT, <1>4
    <3> QED
      BY Zenon, <2>4, <3>2, <3>3
  <2>5. CASE kept
    <3>1. ASSUME NEW c \in Channels, NEW i \in Cells
          PROVE  /\ bufs'[c].mem[i] \subseteq {Base + i}
                 /\ i >= m =>
                      (bufs'[c].mem[i] # {} <=> [channel |-> c, at |-> Base + i] \in due')
      <4>1. bufs'[c].mem[i] = bufs[c].mem[i]
        BY Zenon, <2>5 DEF kept
      <4>2. i \in Int /\ (i >= m => i >= samples_read)
        BY SMT, <1>4, <1>5
      <4> QED
        BY Zenon, <2>1, <2>3, <4>1, <4>2
    <3>2. ASSUME NEW s \in due' PROVE s.at >= read' /\ s.at - Base \in Cells
      BY Zenon, <1>3, <2>2
    <3>3. samples_read' = m /\ Base' = Base
      BY Zenon, <1>16, <2>5 DEF kept
    <3> QED
      BY Zenon, <3>1, <3>2, <3>3 DEF ContentInv
  <2>6. CASE removed
    <3>1. ASSUME NEW c \in Channels, NEW i \in Cells
          PROVE  /\ bufs'[c].mem[i] \subseteq {Base' + i}
                 /\ bufs'[c].mem[i] # {} <=> [channel |-> c, at |-> Base' + i] \in due'
      <4>1. bufs'[c].mem[i] = Moved(bufs[c].mem, m, i)
        BY Zenon, <2>6 DEF removed
      <4>2. /\ i + m \in Int /\ i + m >= m /\ i + m >= samples_read
            /\ (Base + m) + i = Base + (i + m)
        BY SMT, <1>4, <1>5
      <4>3. Base' + i = Base + (i + m)
        BY Zenon, <1>16, <2>6, <4>2
      <4>4. CASE i + m \in Cells
        BY Zenon, <2>1, <2>3, <4>1, <4>2, <4>3, <4>4 DEF Moved
      <4>5. CASE i + m \notin Cells
        BY Zenon, <2>3, <2>4, <4>1, <4>2, <4>3, <4>5 DEF Moved
      <4> QED
        BY Zenon, <4>4, <4>5
    <3>2. ASSUME NEW s \in due' PROVE s.at >= read' /\ s.at - Base' \in Cells
      <4>1. s.at >= Base + m /\ s.at - Base \in Cells /\ s.at \in Nat /\ s.at >= read'
        BY Zenon, <1>3, <1>16, <2>2
      <4>2. s.at - (Base + m) \in Cells
        BY SMT, <1>4, <1>5, <4>1
      <4> QED
        BY Zenon, <1>16, <2>6, <4>1, <4>2
    <3> QED
      BY Zenon, <3>1, <3>2 DEF ContentInv
  <2> QED
    BY Zenon, <1>2, <2>5, <2>6
<1> QED
  BY Zenon, <1>8, <1>11, <1>13, <1>15, <1>17 DEF Inv

LEMMA InvHolds ==
  ASSUME ReadInFrame = FALSE
  PROVE  Spec => []Inv
<1>1. Init => Inv
  BY Zenon, InitFresh, FreshInv
<1>2. Inv /\ [Next]_vars => Inv'
  <2> SUFFICES ASSUME Inv, [Next]_vars PROVE Inv'
    OBVIOUS
  <2>1. CASE DisableImmediateRemoval \/ UNCHANGED vars
    BY Zenon, <2>1, IdleStep
  <2>2. CASE Clear \/ SetSampleRate
    BY Zenon, <2>2, RestartStep DEF Inv
  <2>3. CASE \E t \in Times : EndFrame(t) \/ \E c \in Channels : AddDelta(c, t)
    BY Zenon, <2>3, EndFrameStep, DeltaStep
  <2>4. CASE \E n \in 1 .. buffer_size_ : ReadSamples(n)
    BY Zenon, <2>4, ReadStep, ReadInFrame = FALSE
  <2> QED
    BY Zenon, <2>1, <2>2, <2>3, <2>4 DEF Next
<1> QED
  BY <1>1, <1>2, PTL DEF Spec

-----------------------------------------------------------------------------
(* The theorems.                                                           *)

(* Every state of the stereo buffer is well typed; in particular no time   *)
(* in it has wrapped, and samples_read is within the buffer.               *)
THEOREM StereoTypes ==
  ASSUME ReadInFrame = FALSE
  PROVE  Spec => []TypeOK
<1>1. Inv => TypeOK
  BY DEF Inv
<1> QED
  BY <1>1, InvHolds, PTL

(* However the three buffers are emptied, by moving what remains or, when  *)
(* silent, by forgetting it, they end at the same time; and that time is   *)
(* what has passed less what has been read.                                *)
THEOREM BuffersInStep ==
  ASSUME ReadInFrame = FALSE
  PROVE  Spec => []InStep
<1>1. Inv => InStep
  BY DEF Inv
<1> QED
  BY <1>1, InvHolds, PTL

(* No sound is passed over by a read before it is heard.                   *)
THEOREM NoSoundLost ==
  ASSUME ReadInFrame = FALSE
  PROVE  Spec => []NothingLost
<1>1. Inv => NothingLost
  BY Zenon DEF Inv, ContentInv, NothingLost
<1> QED
  BY <1>1, InvHolds, PTL

(* A buffer that non_silent says is silent holds nothing, so that neither  *)
(* mono mixing nor the removal of silence drops anything.                  *)
THEOREM SilentBuffersAreEmpty ==
  ASSUME ReadInFrame = FALSE
  PROVE  Spec => []SilenceIsEmpty
<1>1. ASSUME TypeOK, SilentInv, FrameEmpty, NEW c \in Channels, ~non_silent(bufs[c]),
             NEW i \in Cells, bufs[c].mem[i] # {}
      PROVE  FALSE
  <2>1. i < bufs[c].last_non_silence /\ ~(bufs[c].last_non_silence > 0)
    BY Zenon, <1>1 DEF SilentInv, FrameEmpty, non_silent
  <2>2. i \in Nat /\ bufs[c].last_non_silence \in Nat
    BY SMT, <1>1, Sizes DEF TypeOK
  <2> QED
    BY SMT, <2>1, <2>2
<1>2. Inv => SilenceIsEmpty
  BY Zenon, <1>1 DEF Inv, SilenceIsEmpty
<1> QED
  BY <1>2, InvHolds, PTL

(* Between frames nothing is left behind the cells that removal moves.     *)
THEOREM RemovalIsEnough ==
  ASSUME ReadInFrame = FALSE
  PROVE  Spec => []BehindIsClear
<1>1. ASSUME Inv, FrameEmpty, NEW c \in Channels, NEW i \in Cells,
             i >= samples_avail(bufs[c]) + Quality
      PROVE  bufs[c].mem[i] = {}
  <2>1. TypeOK /\ InStep /\ RoomInv /\ ReachInv
    BY Zenon, <1>1 DEF Inv
  <2>2. samples_avail(bufs[c]) = Whole(Start) /\ Whole(Start) \in Nat /\ Start \in Nat
    BY Zenon, <2>1, StateFacts
  <2>3. Latest = Start
    <3>1. 0 * factor_ = 0 /\ Start + 0 = Start
      BY SMT, <2>2, Sizes
    <3> QED
      BY Zenon, <1>1, <2>1, <3>1 DEF RoomInv, Latest, Start
  <2>4. ~(i < Whole(Start) + Quality)
    <3>1. i \in Int /\ Quality \in Int
      BY SMT, Sizes
    <3>2. i >= Whole(Start) + Quality
      BY Zenon, <1>1, <2>2
    <3> QED
      BY SMT, <2>2, <3>1, <3>2
  <2> QED
    BY Zenon, <2>1, <2>3, <2>4 DEF ReachInv, Whole
<1>2. Inv => BehindIsClear
  BY Zenon, <1>1 DEF BehindIsClear
<1> QED
  BY <1>2, InvHolds, PTL

(* count_clocks, in unsigned arithmetic and rounding up, gives the least   *)
(* frame after which n samples are there, if a clock is no longer than a   *)
(* sample.                                                                 *)
THEOREM CountClocksExact ==
  ASSUME ReadInFrame = FALSE, factor_ <= Unit
  PROVE  Spec => []CountClocksIsLeast
<1>1. ASSUME Inv, NEW n \in samples_avail(bufs[Left]) + 1 .. buffer_size_
      PROVE  LET t == count_clocks(bufs[Left], n)
             IN  count_samples(bufs[Left], t) >= n - samples_avail(bufs[Left])
                 /\ count_samples(bufs[Left], t - 1) < n - samples_avail(bufs[Left])
  <2>1. /\ bufs[Left].offset = Start /\ samples_avail(bufs[Left]) = Whole(Start)
        /\ Start \in Nat /\ Whole(Start) \in Nat /\ buffer_size_ \in Nat /\ Unit \in Nat
        /\ factor_ \in Nat /\ factor_ >= 1 /\ Word \in Nat
    BY Zenon, <1>1, StateFacts, Sizes DEF Inv, Channels, Left
  <2>2. n \in Whole(Start) + 1 .. buffer_size_
    BY Zenon, <2>1
  <2>3. n \in Nat /\ n > Whole(Start) /\ n <= buffer_size_ /\ ~(n > buffer_size_) /\ n \in Int
    BY SMT, <2>1, <2>2
  <2>4. PICK N \in Nat : N = n * Unit
    <3>1. n * Unit \in Nat
      BY SMT, <2>1, <2>3
    <3> QED
      BY Zenon, <3>1
  <2>5. N > Start
    BY Zenon, <2>1, <2>3, <2>4, WholeMoves
  <2>6. N + factor_ <= Word
    <3>1. PICK B \in Nat, Q \in Nat : B = buffer_size_ * Unit /\ Q = (Quality + 66) * Unit
      <4>1. buffer_size_ * Unit \in Nat /\ (Quality + 66) * Unit \in Nat
        BY SMT, Sizes
      <4> QED
        BY Zenon, <4>1
    <3>2. B + Q <= Word
      <4>1. (buffer_size_ + Quality + 66) * Unit = buffer_size_ * Unit + (Quality + 66) * Unit
        BY SMT, Sizes
      <4>2. (buffer_size_ + Quality + 66) * Unit <= Word
        BY Zenon, BlipAssumption DEF BlipAssumption
      <4> QED
        BY Zenon, <3>1, <4>1, <4>2
    <3>3. N <= B
      <4>1. buffer_size_ \in Int
        BY SMT, <2>1
      <4> QED
        BY Zenon, <2>1, <2>3, <2>4, <3>1, <4>1, Products
    <3>4. Unit <= Q
      <4>1. 1 * Unit = Unit /\ 1 <= Quality + 66 /\ 1 \in Int /\ Quality + 66 \in Int
        BY SMT, Sizes
      <4>2. 1 * Unit <= (Quality + 66) * Unit
        BY Zenon, <2>1, <4>1, Products
      <4> QED
        BY Zenon, <3>1, <4>1, <4>2
    <3> QED
      BY SMT, <2>1, <3>2, <3>3, <3>4, factor_ <= Unit
  <2> DEFINE rest == N - Start + factor_ - 1
  <2>7. /\ rest \in Nat /\ rest < Word /\ rest % Word = rest
        /\ N - Start + factor_ - 1 = rest
    BY SMT, <2>1, <2>5, <2>6
  <2>8. PICK t \in Int : t = count_clocks(bufs[Left], n) /\ t = rest \div factor_
    <3>1. count_clocks(bufs[Left], n) = rest \div factor_
      BY Zenon, <2>1, <2>3, <2>4, <2>7 DEF count_clocks
    <3>2. rest \div factor_ \in Int
      BY SMT, <2>1, <2>7, Division
    <3> QED
      BY Zenon, <3>1, <3>2
  <2>9. PICK T \in Int : T = t * factor_ /\ T <= rest /\ rest < T + factor_
    <3>1. factor_ \in Nat \ {0} /\ rest \in Int
      BY SMT, <2>1, <2>7
    <3>2. (rest \div factor_) * factor_ <= rest /\ rest < (rest \div factor_) * factor_ + factor_
      BY Zenon, <3>1, Division
    <3>3. t * factor_ \in Int
      BY SMT, <2>1
    <3> QED
      BY Zenon, <2>8, <3>2, <3>3
  <2>10. /\ T + Start >= N /\ T + Start \in Nat /\ T + Start < Word
         /\ (T - factor_) + Start < N /\ (T - factor_) + Start \in Int
    BY SMT, <2>1, <2>5, <2>6, <2>9
  <2>11. (T - factor_) + Start \in Nat /\ (T - factor_) + Start < Word
    <3>1. t >= 1
      <4>1. SUFFICES ASSUME t <= 0 PROVE FALSE
        BY SMT
      <4>2. t * factor_ <= 0 * factor_ /\ 0 * factor_ = 0
        BY SMT, <2>1, <4>1, Products
      <4>3. T <= 0
        BY Zenon, <2>9, <4>2
      <4> QED
        BY SMT, <2>1, <2>5, <2>9, <4>3
    <3>2. 1 * factor_ <= t * factor_ /\ 1 * factor_ = factor_
      BY SMT, <2>1, <3>1, Products
    <3>3. factor_ <= T
      BY Zenon, <2>9, <3>2
    <3> QED
      BY SMT, <2>1, <2>6, <2>10, <3>3
  <2>12. (T + Start) % Word = T + Start /\ ((T - factor_) + Start) % Word = (T - factor_) + Start
    BY SMT, <2>1, <2>10, <2>11
  <2>13. (t - 1) * factor_ = T - factor_
    <3>1. (t - 1) * factor_ = t * factor_ - factor_
      BY SMT, <2>1
    <3> QED
      BY Zenon, <2>9, <3>1
  <2>14. /\ to_fixed(bufs[Left], t) = T + Start
         /\ to_fixed(bufs[Left], t - 1) = (T - factor_) + Start
    BY Zenon, <2>1, <2>9, <2>12, <2>13 DEF to_fixed
  <2>15. Whole(T + Start) >= n
    <3>1. SUFFICES ASSUME Whole(T + Start) < n PROVE FALSE
      BY SMT, <2>3, <2>10, WholeType
    <3>2. N > T + Start
      <4>1. n > Whole(T + Start)
        BY SMT, <2>3, <2>10, <3>1, WholeType
      <4> QED
        BY Zenon, <2>3, <2>4, <2>10, <4>1, WholeMoves
    <3> QED
      BY SMT, <2>1, <2>10, <3>2
  <2>16. Whole((T - factor_) + Start) < n
    BY Zenon, <2>3, <2>4, <2>10, <2>11, WholeMoves
  <2>17. PICK w \in Int, v \in Int : w = Whole(T + Start) /\ v = Whole((T - factor_) + Start)
    BY SMT, <2>10, <2>11, WholeType
  <2>18. /\ count_samples(bufs[Left], t) = w - Whole(Start)
         /\ count_samples(bufs[Left], t - 1) = v - Whole(Start)
    BY Zenon, <2>1, <2>14, <2>17 DEF count_samples, Whole
  <2>19. w >= n /\ v < n
    BY Zenon, <2>15, <2>16, <2>17
  <2>20. w - Whole(Start) >= n - Whole(Start) /\ v - Whole(Start) < n - Whole(Start)
    BY SMT, <2>1, <2>3, <2>19
  <2> QED
    BY Zenon, <2>1, <2>8, <2>18, <2>20
<1>2. Inv => CountClocksIsLeast
  BY Zenon, <1>1 DEF CountClocksIsLeast
<1> QED
  BY <1>2, InvHolds, PTL

(* The stereo buffer implements a stream: every sound is heard once, in    *)
(* the sample it was added for, whichever way of mixing and of removal     *)
(* each read takes.                                                        *)
THEOREM IsAStream ==
  ASSUME ReadInFrame = FALSE
  PROVE  Spec => SoundIsKept
<1> DEFINE step == [Stream!Add \/ Stream!Read \/ Stream!Clear]_(Stream!vars)
<1>1. Init => Stream!Init
  BY Zenon DEF Init, Stream!Init
<1>2. Inv /\ [Next]_vars => step
  <2> SUFFICES ASSUME Inv, [Next]_vars PROVE step
    OBVIOUS
  <2>1. CASE UNCHANGED vars
    BY Zenon, <2>1 DEF vars, Stream!vars
  <2>2. CASE DisableImmediateRemoval \/ \E t \in Times : EndFrame(t)
    <3>1. due' = due /\ read' = read /\ heard' = {}
      BY Zenon, <2>2 DEF DisableImmediateRemoval, EndFrame
    <3> QED
      BY Zenon, <3>1 DEF Stream!Add
  <2>3. CASE Clear \/ SetSampleRate
    BY Zenon, <2>3 DEF Clear, SetSampleRate, Restart, Stream!Clear, Stream!Init
  <2>4. ASSUME NEW t \in Times, NEW c \in Channels, AddDelta(c, t) PROVE step
    <3>1. /\ due' = due \cup [channel : {c}, at : Base + At(t) .. Base + At(t) + Quality - 1]
          /\ Whole(Start) <= At(t) /\ At(t) \in Nat
      BY Zenon, <2>4, DeltaEffect DEF Inv
    <3>2. /\ Base \in Int /\ samples_read \in Nat /\ samples_read <= Whole(Start)
          /\ Whole(Start) \in Nat /\ Quality \in Nat /\ read \in Nat
      BY Zenon, StateFacts, Sizes DEF Inv
    <3>3. read = Base + samples_read
      BY SMT, <3>2 DEF Base
    <3>4. \A k \in Base + At(t) .. Base + At(t) + Quality - 1 : k >= read
      BY SMT, <3>1, <3>2, <3>3
    <3>5. due \subseteq due' /\ \A s \in due' \ due : s.at >= read
      BY Zenon, <3>1, <3>4
    <3>6. read' = read /\ heard' = {}
      BY Zenon, <2>4 DEF AddDelta
    <3> QED
      BY Zenon, <3>5, <3>6 DEF Stream!Add
  <2>5. ASSUME NEW n \in 1 .. buffer_size_, ReadSamples(n) PROVE step
    <3>1. /\ read' = read + n
          /\ due' = {s \in due : s.at >= read'}
          /\ heard' = {[channel |-> s.channel, at |-> s.at, heard_in |-> s.at] : s \in due \ due'}
      BY Zenon, <2>5, ReadGives, ReadInFrame = FALSE
    <3>2. read + n > read
      BY SMT, Sizes DEF Inv, TypeOK
    <3> QED
      BY Zenon, <3>1, <3>2 DEF Stream!Read
  <2> QED
    BY Zenon, <2>1, <2>2, <2>3, <2>4, <2>5 DEF Next
<1> QED
  BY <1>1, <1>2, InvHolds, PTL DEF Spec, SoundIsKept, Stream!Spec
=============================================================================
