------------------------ MODULE MCRepeatedInvariant ------------------------
(***************************************************************************)
(* Two region inputs of two values each, two crossing results, two         *)
(* iterations a run, any number of runs.                                   *)
(***************************************************************************)
EXTENDS RepeatedInvariant
=============================================================================
