---------------------------- MODULE Fingerprints ----------------------------
(***************************************************************************)
(* The bounded table of message fingerprints that normalize._append keeps: *)
(* when it is full, a new fingerprint takes the place of one that was      *)
(* counted least, inherits its count, and records that count as the error  *)
(* of its own.                                                             *)
(***************************************************************************)
EXTENDS Integers, FiniteSets

CONSTANTS
  Keys,       \* component and fingerprint of a message
  Rank,       \* the order of the keys, which settles ties: [Keys -> Nat]
  Nodes,      \* nodes a message can come from
  Capacity,   \* MAX_UNKNOWN_FINGERPRINTS (100)
  NodeLimit   \* nodes named for one fingerprint (20)

ASSUME FingerprintAssumption ==
  /\ Rank \in [Keys -> Nat]
  /\ Capacity \in Nat \ {0} /\ NodeLimit \in Nat

VARIABLES
  table,         \* what is known of the fingerprints in the table
  replacements,  \* unknown_fingerprint_replacements
  total,         \* history: how often each message really occurred
  seenOn         \* history: the nodes it occurred on

fingerprintVars == <<table, replacements, total, seenOn>>

InitTable ==
  /\ table = <<>>
  /\ replacements = 0
  /\ total = [k \in Keys |-> 0]
  /\ seenOn = [k \in Keys |-> {}]

-----------------------------------------------------------------------------
\* The scope of a fingerprint; _bounded_add says when a value had to be left out.
AddNode(entry, node) ==
  IF node \in entry.nodes THEN entry
  ELSE IF Cardinality(entry.nodes) >= NodeLimit THEN [entry EXCEPT !.scopeTruncated = TRUE]
  ELSE [entry EXCEPT !.nodes = @ \cup {node}]

\* Mutant of NewEntry: the scope of the entry before it is taken over with the count.
NewEntryUnmarked(count, error, node) ==
  AddNode([count |-> count, error |-> 0, nodes |-> {}, scopeTruncated |-> FALSE], node)

NewEntry(count, error, node) ==
  AddNode([count |-> count, error |-> error, nodes |-> {}, scopeTruncated |-> FALSE], node)

\* min(unknown.items(), key = count, then key).
Victims ==
  { v \in DOMAIN table :
      \A k \in DOMAIN table :
        \/ table[v].count < table[k].count
        \/ table[v].count = table[k].count /\ Rank[v] <= Rank[k] }

Occurs(key, weight, node) ==
  /\ total' = [total EXCEPT ![key] = @ + weight]
  /\ seenOn' = [seenOn EXCEPT ![key] = @ \cup {node}]

CountKnown(key, weight, node) ==
  /\ key \in DOMAIN table
  /\ table' = [table EXCEPT ![key] = AddNode([table[key] EXCEPT !.count = @ + weight], node)]
  /\ UNCHANGED replacements
  /\ Occurs(key, weight, node)

AddNew(key, weight, node) ==
  /\ key \notin DOMAIN table
  /\ Cardinality(DOMAIN table) < Capacity
  /\ table' = [k \in DOMAIN table \cup {key} |->
                 IF k = key THEN NewEntry(weight, 0, node) ELSE table[k]]
  /\ UNCHANGED replacements
  /\ Occurs(key, weight, node)

\* Mutant of ReplaceLeast: the count starts again.
ReplaceAndRestart(key, weight, node) ==
  /\ key \notin DOMAIN table
  /\ Cardinality(DOMAIN table) >= Capacity
  /\ \E v \in Victims :
       table' = [k \in (DOMAIN table \ {v}) \cup {key} |->
                   IF k = key THEN NewEntry(weight, 0, node) ELSE table[k]]
  /\ replacements' = replacements + 1
  /\ Occurs(key, weight, node)

ReplaceLeast(key, weight, node) ==
  /\ key \notin DOMAIN table
  /\ Cardinality(DOMAIN table) >= Capacity
  /\ \E v \in Victims :
       table' = [k \in (DOMAIN table \ {v}) \cup {key} |->
                   IF k = key THEN NewEntry(table[v].count + weight, table[v].count, node)
                   ELSE table[k]]
  /\ replacements' = replacements + 1
  /\ Occurs(key, weight, node)

\* A message with a fingerprint worth keeping.
Observe(key, weight, node) ==
  \/ CountKnown(key, weight, node)
  \/ AddNew(key, weight, node)
  \/ ReplaceLeast(key, weight, node)

FingerprintSpec ==
  /\ InitTable
  /\ [][\E key \in Keys, weight \in Nat \ {0}, node \in Nodes : Observe(key, weight, node)]_fingerprintVars

-----------------------------------------------------------------------------
(* Properties *)

Entries == [count : Nat \ {0}, error : Nat, nodes : SUBSET Nodes, scopeTruncated : BOOLEAN]

TableTypeOK ==
  /\ DOMAIN table \subseteq Keys /\ IsFiniteSet(DOMAIN table)
  /\ \A k \in DOMAIN table : table[k] \in Entries
  /\ replacements \in Nat
  /\ total \in [Keys -> Nat] /\ seenOn \in [Keys -> SUBSET Nodes]

\* occurrence_range of a fingerprint in the table really holds its number of
\* occurrences: the minimum is guaranteed and the maximum bounds it, however
\* often it was thrown out and came back; and what is not in the table occurred
\* no more often than anything in it (normalize.py:370-376, 425-438).
RangeHoldsTotal ==
  /\ \A k \in DOMAIN table :
       table[k].count - table[k].error <= total[k] /\ total[k] <= table[k].count
  /\ \A k \in Keys \ DOMAIN table, j \in DOMAIN table : total[k] <= table[j].count

\* A fingerprint whose count is called exact (no error) was counted from its
\* first occurrence on: its count is exact, and its nodes are all of them unless it says that
\* there are more (normalize.py:323, 376).
ExactIsExact ==
  \A k \in DOMAIN table :
    /\ table[k].nodes \subseteq seenOn[k]
    /\ table[k].error = 0 =>
         /\ table[k].count = total[k]
         /\ table[k].scopeTruncated \/ table[k].nodes = seenOn[k]
=============================================================================
