-------------------------- MODULE MCNodeCollection --------------------------
(* NodeCollection on three names and two machines; the first two names are *)
(* the same machine.                                                       *)
EXTENDS NodeCollection, TLC

CONSTANTS h1, h2, h3, m1, m2

MCHosts == {h1, h2, h3}
MCMachines == {m1, m2}
MCMachine == h1 :> m1 @@ h2 :> m1 @@ h3 :> m2
=============================================================================
