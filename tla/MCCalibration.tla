--------------------------- MODULE MCCalibration ---------------------------
(* An instance of Calibration for TLC.                                     *)
EXTENDS Calibration

MCReturns == [win \in BOOLEAN |-> IF win THEN 10 ELSE -1]

Root(fate, delay) == [fate |-> fate, delay |-> delay]
Won == Root("won", 0)
Lost == Root("lost", 0)

\* Nothing, one root, two roots, and one whose label comes late, never, or broken.
MCBatches ==
  {<<>>, <<Won, Won>>, <<Won, Lost>>, <<Lost, Lost>>, <<Won, Root("won", 2)>>,
   <<Root("censored", 0)>>, <<Lost, Root("invalid", 0)>>}
=============================================================================
