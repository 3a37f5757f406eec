---------------------------- MODULE MCStageChain ----------------------------
(***************************************************************************)
(* Two chains of a recipe with three stages: the last two read what the    *)
(* first computes and run at the same time, and one of them is cached.     *)
(***************************************************************************)
EXTENDS StageChain

MCStages == 0 .. 2
MCAfter  == [s \in MCStages |-> IF s = 0 THEN {} ELSE {0}]
=============================================================================
