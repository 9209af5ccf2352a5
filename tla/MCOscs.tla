------------------------------- MODULE MCOscs -------------------------------
(* A small instance of Oscs: periods of 0 to 2, volumes 0 and 1, a         *)
(* triangle of 8 phases, a noise register of 4 bits, a VRC6 square of 4    *)
(* phases, Namco waves of up to 2 samples and FDS waves of 4.              *)
EXTENDS Oscs

MCControls ==
  {[duty_select |-> 0, halt |-> TRUE, constant |-> TRUE, low |-> 1],
   [duty_select |-> 3, halt |-> FALSE, constant |-> FALSE, low |-> 0]}

MCSweeps ==
  {[enabled |-> TRUE, delay |-> 0, negate |-> FALSE, shift |-> 1],
   [enabled |-> TRUE, delay |-> 0, negate |-> TRUE, shift |-> 1]}

-----------------------------------------------------------------------------
(* Four programs that play the FDS, each with some of its registers.       *)

UnitWrite(reg, off, up, value) == [reg |-> reg, off |-> off, up |-> up, value |-> value]
Value(reg, value) == [reg |-> reg, value |-> value]
FreqHigh(value, off, lfo_off) ==
  [reg |-> "freq_high", value |-> value, off |-> off, lfo_off |-> lfo_off]
ModHigh(value, off) == [reg |-> "mod_high", value |-> value, off |-> off]
Volume(hold, master) == [reg |-> "volume", hold |-> hold, master |-> master]
Sample(pos, value) == [reg |-> "wave", pos |-> pos, value |-> value]

Playing ==
  <<Volume(TRUE, 1), Sample(1, 1), Sample(2, 1), Volume(FALSE, 1),
    UnitWrite("env", TRUE, FALSE, 1), Value("freq_low", 1), FreqHigh(0, FALSE, FALSE)>>

EnvelopeClient ==
  [setup |-> Playing,
   writes |-> {UnitWrite("env", TRUE, FALSE, 1), UnitWrite("env", TRUE, TRUE, 5),
               UnitWrite("env", FALSE, TRUE, 0), UnitWrite("env", FALSE, FALSE, 0)}]

SweepClient ==
  [setup |-> Playing \o
     <<Value("mod_wave", 3), Value("mod_wave", 4), Value("bias", 7), Value("mod_low", 1),
       ModHigh(1, FALSE)>>,
   writes |-> {UnitWrite("sweep", TRUE, FALSE, 7), UnitWrite("sweep", FALSE, FALSE, 0)}]

ModulatorClient ==
  [setup |-> Playing \o
     <<UnitWrite("sweep", TRUE, FALSE, 7), Value("mod_wave", 3), Value("mod_wave", 5)>>,
   writes |-> {Value("bias", 4), ModHigh(1, FALSE)}]

VolumeClient ==
  [setup |-> Playing \o <<UnitWrite("env", FALSE, TRUE, 0)>>,
   writes |-> {Volume(TRUE, 1), Volume(FALSE, 2), Value("lfo", 0), Value("mod_wave", 0),
               FreqHigh(0, TRUE, FALSE), FreqHigh(0, FALSE, TRUE)}]

MCMasters == <<2, 1, 1, 1>>

MCFdsClients ==
  [envelope |-> EnvelopeClient, sweep |-> SweepClient, modulator |-> ModulatorClient,
   volume |-> VolumeClient]
=============================================================================
