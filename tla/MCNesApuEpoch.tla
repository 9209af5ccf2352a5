--------------------------- MODULE MCNesApuEpoch ----------------------------
(* The small instance of MCNesApu, with the console's clock.               *)
EXTENDS MCNesApu, NesApuEpoch
=============================================================================
