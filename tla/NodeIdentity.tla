---------------------------- MODULE NodeIdentity ----------------------------
(***************************************************************************)
(* match_node_identities: which inventory alias is which Kubernetes Node.  *)
(* A side is a function from its own names (aliases, or Node names) to the *)
(* set of normalized names found for it; two normalized names are alike    *)
(* when they have the same first label.                                    *)
(***************************************************************************)
EXTENDS Naturals, FiniteSets

CONSTANTS
  Names,   \* normalized names
  Short    \* the part of each name before its first dot

ASSUME NamesAssumption == Short \in [Names -> Names]

ShortNames(S) == {Short[n] : n \in S}

\* A common name counts more than a common short name.
Score(inventory, kubernetes, alias, node) ==
  IF inventory[alias] \cap kubernetes[node] # {} THEN 2
  ELSE IF ShortNames(inventory[alias]) \cap ShortNames(kubernetes[node]) # {} THEN 1
  ELSE 0

\* The nodes an alias scores best with.
Candidates(inventory, kubernetes, alias) ==
  { node \in DOMAIN kubernetes :
      /\ Score(inventory, kubernetes, alias, node) > 0
      /\ \A other \in DOMAIN kubernetes :
           Score(inventory, kubernetes, alias, other) <= Score(inventory, kubernetes, alias, node) }

Claims(inventory, kubernetes, alias, node) ==
  Candidates(inventory, kubernetes, alias) = {node}

\* The pairs of the returned dict: the alias has one candidate, and no other
\* alias has only that one.
Matches(inventory, kubernetes) ==
  { pair \in (DOMAIN inventory) \X (DOMAIN kubernetes) :
      /\ Claims(inventory, kubernetes, pair[1], pair[2])
      /\ \A alias \in (DOMAIN inventory) \ {pair[1]} :
           ~Claims(inventory, kubernetes, alias, pair[2]) }

\* identities.get(alias), or the given name instead.
IdentityOr(inventory, kubernetes, alias, default) ==
  IF \E node \in DOMAIN kubernetes : <<alias, node>> \in Matches(inventory, kubernetes)
  THEN CHOOSE node \in DOMAIN kubernetes : <<alias, node>> \in Matches(inventory, kubernetes)
  ELSE default
=============================================================================
