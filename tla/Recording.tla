----------------------------- MODULE Recording -----------------------------
(***************************************************************************)
(* What a sound file writer promises: what is in the file after its        *)
(* heading is the beginning of the samples it has been given, each byte    *)
(* once and in its place, at every moment and whatever goes wrong; and a   *)
(* file that was closed has all of them, under a heading that says how     *)
(* many, unless the heading itself could not be written.                   *)
(***************************************************************************)
EXTENDS Integers, Sequences

(* Byte 0 or 1 of the n-th sample.                                         *)
SampleByte(n, i) == [of |-> "sample", number |-> n, byte |-> i]

VARIABLES
  given,   \* samples the writer has been given
  data,    \* the bytes in the file after its heading
  heading, \* the number of samples it states, -1 if there is none
  state    \* "open", "closed" or "abandoned"

vars == <<given, data, heading, state>>

(* The bytes of the first n samples, those of a sample lowest first.       *)
Bytes(n) == [i \in 1 .. 2 * n |-> SampleByte((i + 1) \div 2, (i + 1) % 2)]

Saved(n) == /\ Len(data') >= Len(data) /\ Len(data') <= 2 * n
            /\ data' = [i \in 1 .. Len(data') |-> Bytes(n)[i]]

Init == given = 0 /\ data = <<>> /\ heading = -1 /\ state = "open"

Give ==
  /\ state = "open"
  /\ given' \in Nat /\ given' > given
  /\ UNCHANGED <<data, heading, state>>

Save ==
  /\ state = "open" /\ Saved(given)
  /\ UNCHANGED <<given, heading, state>>

Close ==
  /\ state = "open" /\ data = Bytes(given)
  /\ state' = "closed" /\ heading' \in {given, -1}
  /\ UNCHANGED <<given, data>>

Abandon ==
  /\ state = "open" /\ Saved(given)
  /\ state' = "abandoned"
  /\ UNCHANGED <<given, heading>>

Next == Give \/ Save \/ Close \/ Abandon

Spec == Init /\ [][Next]_vars
=============================================================================
