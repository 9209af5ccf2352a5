----------------------------- MODULE BlipBuffer -----------------------------
(***************************************************************************)
(* Blip_Buffer (Blip_Buffer.cpp) and Tracked_Blip_Buffer                   *)
(* (Multi_Buffer.cpp) as operators on a record, one for each member        *)
(* function:                                                               *)
(*                                                                         *)
(*   offset     offset_, the fixed-point position of the time frame        *)
(*   mem        buffer_: what the deltas in it are for, below              *)
(*   modified   modified_                                                  *)
(*   unsettled  the integrator has not come down to silence                *)
(*   last_non_silence                                                      *)
(*                                                                         *)
(* Amplitudes are left out.  A delta is spread over Quality cells of the   *)
(* memory, and what it adds to a cell is represented by the number of the  *)
(* output sample in which it is to be heard: a cell is a set of such       *)
(* numbers, and {} is a cell that holds 0.                                 *)
(*                                                                         *)
(* A definition introduced by "Slip" is not part of the model: it is what  *)
(* a plausible mistake in the code would make of the definition after it.  *)
(***************************************************************************)
EXTENDS Integers

CONSTANTS
  buffer_size_,  \* samples the buffer was made for
  Quality,       \* BLIP_MAX_QUALITY, the cells a delta reaches
  blip_buffer_extra, \* Multi_Buffer.cpp's margin for them
  Unit,          \* fixed_unit, one sample of fixed-point time
  factor_,       \* fixed-point time of a clock
  Word           \* 2^32, where fixed-point time wraps

ASSUME BlipAssumption ==
  /\ buffer_size_ \in Nat \ {0} /\ Quality \in Nat \ {0}
  /\ blip_buffer_extra \in Nat /\ blip_buffer_extra >= Quality
  /\ Unit \in Nat \ {0} /\ factor_ \in Nat \ {0}
  /\ Word \in Nat /\ (buffer_size_ + Quality + 66) * Unit <= Word

blip_buffer_extra_ == Quality + 2
Cells == 0 .. buffer_size_ + blip_buffer_extra_ - 1

Cleared ==
  [offset |-> 0, mem |-> [i \in Cells |-> {}], modified |-> FALSE,
   unsettled |-> FALSE, last_non_silence |-> 0]

to_fixed(b, t) == (t * factor_ + b.offset) % Word
samples_avail(b) == b.offset \div Unit

count_samples(b, t) == (to_fixed(b, t) \div Unit) - samples_avail(b)

(* Slip: the clocks rounded down.                                          *)
count_clocks_down(b, n) ==
  LET count == IF n > buffer_size_ THEN buffer_size_ ELSE n
  IN  ((count * Unit - b.offset) % Word) \div factor_

(* In unsigned arithmetic.                                                 *)
count_clocks(b, n) ==
  LET count == IF n > buffer_size_ THEN buffer_size_ ELSE n
  IN  ((count * Unit - b.offset + factor_ - 1) % Word) \div factor_

(* Blip_Synth::offset and set_modified: the delta's first cell is that of  *)
(* its time, and it is to be heard from the sample numbered first on.      *)
InBounds(b, t) == to_fixed(b, t) \div Unit < buffer_size_

Offset(b, t, first) ==
  LET at == to_fixed(b, t) \div Unit
  IN  [b EXCEPT
        !.modified = TRUE,
        !.mem = [i \in Cells |->
                   IF i \in at .. at + Quality - 1 THEN b.mem[i] \cup {first + (i - at)}
                   ELSE b.mem[i]]]

-----------------------------------------------------------------------------
(* Slip: the cells that the last deltas of the frame reach into forgotten. *)
end_frame_short(b, t) ==
  LET offset == to_fixed(b, t)
  IN  [b EXCEPT
        !.offset = offset,
        !.modified = FALSE,
        !.last_non_silence = IF b.modified THEN offset \div Unit + blip_buffer_extra - 1
                             ELSE b.last_non_silence]

end_frame(b, t) ==
  LET offset == to_fixed(b, t)
  IN  [b EXCEPT
        !.offset = offset,
        !.modified = FALSE,
        !.last_non_silence = IF b.modified THEN offset \div Unit + blip_buffer_extra
                             ELSE b.last_non_silence]

non_silent(b) == b.last_non_silence > 0 \/ b.unsettled

(* Slip: last_non_silence not stopped at 0.                                *)
remove_silence_below(b, n) ==
  [b EXCEPT
    !.offset = (b.offset - n * Unit) % Word,
    !.last_non_silence = b.last_non_silence - n]

remove_silence(b, n) ==
  [b EXCEPT
    !.offset = (b.offset - n * Unit) % Word,
    !.last_non_silence = IF b.last_non_silence > n THEN b.last_non_silence - n ELSE 0]

(* Slips: only the samples moved, without the cells beyond, and the cells  *)
(* they leave not cleared.                                                 *)
remove_samples_short(b, n) ==
  LET kept == remove_silence(b, n)
      remain == samples_avail(kept)
  IN  [kept EXCEPT
        !.mem = [i \in Cells |->
                   IF i < remain THEN b.mem[i + n]
                   ELSE IF i < remain + n THEN {} ELSE b.mem[i]]]

remove_samples_dirty(b, n) ==
  LET kept == remove_silence(b, n)
      remain == samples_avail(kept) + blip_buffer_extra_
  IN  [kept EXCEPT !.mem = [i \in Cells |-> IF i < remain THEN b.mem[i + n] ELSE b.mem[i]]]

(* memmove of what remains to the beginning, memset of what is behind it.  *)
remove_samples(b, n) ==
  LET kept == remove_silence(b, n)
      remain == samples_avail(kept) + blip_buffer_extra_
  IN  IF n = 0 THEN b
      ELSE [kept EXCEPT
             !.mem = [i \in Cells |->
                        IF i < remain THEN b.mem[i + n]
                        ELSE IF i < remain + n THEN {} ELSE b.mem[i]]]
=============================================================================
