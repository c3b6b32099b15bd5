----------------------------- MODULE MCBaseline -----------------------------
(* Two collections, one with a critical finding.                             *)
EXTENDS Baseline, TLC

MCBlockersOf == [c \in Collections |-> IF c = "clean" THEN {} ELSE Blockers]
MCSymmetry == Permutations(Commands) \cup Permutations(Paths)
=============================================================================
