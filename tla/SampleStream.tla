---------------------------- MODULE SampleStream ----------------------------
(***************************************************************************)
(* What a sound buffer promises: a sound that is added for some sample of  *)
(* the stream is heard in that sample, neither earlier nor later nor       *)
(* twice, however the stream is cut into reads.                            *)
(***************************************************************************)
EXTENDS Naturals

VARIABLES
  due,    \* the sounds not yet heard
  read,   \* samples read so far
  heard   \* what the last step, if it read, gave

vars == <<due, read, heard>>

Init == due = {} /\ read = 0 /\ heard = {}

Add ==
  /\ due \subseteq due'
  /\ \A s \in due' \ due : s.at >= read
  /\ read' = read /\ heard' = {}

Read ==
  /\ read' > read
  /\ due' = {s \in due : s.at >= read'}
  /\ heard' = {[channel |-> s.channel, at |-> s.at, heard_in |-> s.at] : s \in due \ due'}

Clear == Init'

Spec == Init /\ [][Add \/ Read \/ Clear]_vars
=============================================================================
