------------------------------ MODULE MCNesApu ------------------------------
(* Small instances of NesApu: a frame of a few clocks instead of 7458, DMC *)
(* bytes of 8 or 16 clocks, samples of one or two bytes.                   *)
EXTENDS NesApu

MCFramePeriod == [m \in BOOLEAN \X Tempos |-> IF m[2] = "normal" THEN 4 ELSE 6]

MCDmcPeriod == [m \in BOOLEAN \X DmcRates |-> 1 + m[2]]

FrameModes == [reg : {"frame_mode"}, five : BOOLEAN, inhibit : BOOLEAN]

FrameWrites ==
  FrameModes
    \cup [reg : {"halt"}, tone : Tones, on : BOOLEAN]
    \cup [reg : {"length"}, tone : Tones, count : LengthLoads]
    \cup [reg : {"enables"}, on : SUBSET Tones]

DmcWrites ==
  [reg : {"dmc_mode"}, rate : DmcRates, loop : BOOLEAN, irq : BOOLEAN]
    \cup [reg : {"dmc_length"}, count : DmcLengths]
    \cup [reg : {"enables"}, on : SUBSET {"dmc"}]
    \cup {w \in FrameModes : ~w.five /\ w.inhibit}
    \cup [reg : {"other"}]

=============================================================================
