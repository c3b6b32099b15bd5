------------------------------ MODULE MCBundle ------------------------------
(* Bundle with interchangeable commands and rule packs. *)
EXTENDS Bundle, TLC

Symmetry == Permutations(Commands) \cup Permutations(Rules)
=============================================================================
