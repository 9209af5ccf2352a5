------------------------------- MODULE MCDemo -------------------------------
(* A time frame of 8 or 9 clocks, two sequencer events long, 2 to 3        *)
(* samples; a file buffer that holds the header and two samples.           *)
EXTENDS Demo

MCFramePeriod == [m \in BOOLEAN \X Tempos |-> 4]

MCDmcPeriod == [m \in BOOLEAN \X DmcRates |-> 2]

TuneWrites ==
  [reg : {"frame_mode"}, five : BOOLEAN, inhibit : {FALSE}]
    \cup [reg : {"length"}, tone : Tones, count : LengthLoads]
    \cup [reg : {"enables"}, on : {Tones}]
=============================================================================
