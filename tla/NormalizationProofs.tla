------------------------ MODULE NormalizationProofs ------------------------
(***************************************************************************)
(* What the table of fingerprints promises, for any messages in any order, *)
(* any capacity and any limit of nodes; what holds of the counters in the  *)
(* output of normalization, whose table is that one whatever the other     *)
(* stages do; and what holds of the events: no record is lost without      *)
(* being counted, the output limit is shared fairly, and the search for    *)
(* episodes misses no window and overlaps none.                            *)
(*                                                                         *)
(* RangeHoldsTotal is not inductive alone: a new fingerprint enters a      *)
(* table that is not full with its first occurrence, so the table has to   *)
(* have been full before anything was ever left out of it (NothingLost).   *)
(* ExactIsExact needs the same, and that a message that never occurred was *)
(* seen nowhere.                                                           *)
(*                                                                         *)
(* EveryRecordIsAccounted is about the last stage; AccountInv is the same  *)
(* balance in every stage, with what is the output so far.  FairShare is   *)
(* about the end of the turns; RoundRobin says how they stand in between:  *)
(* the queue has every bucket with events left, ordered by what it has had *)
(* already, and its first one is at most one event behind any bucket.      *)
(*                                                                         *)
(* EpisodesMissNothing is about what a recursive search computes.  The     *)
(* candidates of a scope are in the order of time without a gap            *)
(* (CandidatesInOrder); a search exists (SearchExists) and, by the least   *)
(* counterexample, finds all there is from every start on                  *)
(* (SearchFindsAll): from the last starts there is nothing to find, and    *)
(* what is found from a start is its first match and what is found after   *)
(* it (SearchEnds, SearchGoesOn).                                          *)
(***************************************************************************)
EXTENDS Normalization, FiniteSetTheorems, TLAPS

Observation == \E key \in Keys, weight \in Nat \ {0}, node \in Nodes : Observe(key, weight, node)

NothingLost ==
  /\ Cardinality(DOMAIN table) < Capacity => \A k \in Keys \ DOMAIN table : total[k] = 0
  /\ \A k \in Keys : total[k] = 0 => seenOn[k] = {}

TableInv == TableTypeOK /\ RangeHoldsTotal /\ ExactIsExact /\ NothingLost

-----------------------------------------------------------------------------
(* The helpers. *)

\* A node is added to an entry or the entry says that it was not; nothing else
\* of the entry changes.
LEMMA AddNodeEffect ==
  ASSUME NEW entry \in Entries, NEW node \in Nodes, NEW new, new = AddNode(entry, node)
  PROVE  /\ new \in Entries
         /\ new.count = entry.count /\ new.error = entry.error
         /\ new.nodes \subseteq entry.nodes \cup {node}
         /\ new.scopeTruncated \/ new.nodes = entry.nodes \cup {node}
         /\ entry.scopeTruncated => new.scopeTruncated
  BY DEF AddNode, Entries

LEMMA NewEntryEffect ==
  ASSUME NEW count \in Nat \ {0}, NEW error \in Nat, NEW node \in Nodes,
         NEW new, new = NewEntry(count, error, node)
  PROVE  /\ new \in Entries
         /\ new.count = count /\ new.error = error
         /\ new.nodes \subseteq {node}
         /\ new.scopeTruncated \/ new.nodes = {node}
<1> DEFINE empty == [count |-> count, error |-> error, nodes |-> {}, scopeTruncated |-> FALSE]
<1>1. /\ empty \in Entries /\ empty.count = count /\ empty.error = error
      /\ empty.nodes = {}
  BY DEF Entries
<1>2. new = AddNode(empty, node) BY DEF NewEntry
<1> HIDE DEF empty
<1> QED BY <1>1, <1>2, AddNodeEffect

\* An occurrence is added to one message and leaves the others alone.
LEMMA OccursEffect ==
  ASSUME TableTypeOK, NEW key \in Keys, NEW weight \in Nat \ {0}, NEW node \in Nodes,
         Occurs(key, weight, node)
  PROVE  /\ total' \in [Keys -> Nat] /\ seenOn' \in [Keys -> SUBSET Nodes]
         /\ total'[key] = total[key] + weight /\ seenOn'[key] = seenOn[key] \cup {node}
         /\ \A k \in Keys \ {key} : total'[k] = total[k] /\ seenOn'[k] = seenOn[k]
         /\ \A k \in Keys : total'[k] = 0 => total[k] = 0 /\ k # key
  BY DEF TableTypeOK, Occurs

-----------------------------------------------------------------------------
LEMMA TableInit == ASSUME InitTable PROVE TableInv
<1> USE DEF InitTable
<1>1. DOMAIN table = {} OBVIOUS
<1>2. TableTypeOK BY <1>1, FS_EmptySet DEF TableTypeOK
<1>3. RangeHoldsTotal /\ ExactIsExact BY <1>1 DEF RangeHoldsTotal, ExactIsExact
<1>4. NothingLost BY DEF NothingLost
<1> QED BY <1>2, <1>3, <1>4 DEF TableInv

\* A message whose fingerprint is in the table.
LEMMA CountKnownKeeps ==
  ASSUME TableInv, NEW key \in Keys, NEW weight \in Nat \ {0}, NEW node \in Nodes,
         CountKnown(key, weight, node)
  PROVE  TableInv'
<1> DEFINE old == [table[key] EXCEPT !.count = @ + weight]
           new == AddNode(old, node)
<1> USE DEF TableInv
<1>1. key \in DOMAIN table /\ table[key] \in Entries /\ Occurs(key, weight, node)
  BY DEF CountKnown, TableTypeOK
<1>2. old \in Entries /\ old.count = table[key].count + weight /\ old.error = table[key].error
      /\ old.nodes = table[key].nodes /\ old.scopeTruncated = table[key].scopeTruncated
  BY <1>1 DEF Entries
<1>3. /\ new \in Entries /\ new.count = table[key].count + weight /\ new.error = table[key].error
      /\ new.nodes \subseteq table[key].nodes \cup {node}
      /\ new.scopeTruncated \/ new.nodes = table[key].nodes \cup {node}
      /\ table[key].scopeTruncated => new.scopeTruncated
  <2> HIDE DEF old
  <2> QED BY <1>2, AddNodeEffect
<1>4. DOMAIN table' = DOMAIN table /\ table'[key] = new
      /\ \A k \in DOMAIN table \ {key} : table'[k] = table[k]
  BY <1>1 DEF CountKnown
<1> HIDE DEF new, old
<1>5. /\ total' \in [Keys -> Nat] /\ seenOn' \in [Keys -> SUBSET Nodes]
      /\ total'[key] = total[key] + weight /\ seenOn'[key] = seenOn[key] \cup {node}
      /\ \A k \in Keys \ {key} : total'[k] = total[k] /\ seenOn'[k] = seenOn[k]
      /\ \A k \in Keys : total'[k] = 0 => total[k] = 0 /\ k # key
  BY <1>1, OccursEffect
<1>6. TableTypeOK'
  BY <1>3, <1>4, <1>5 DEF TableTypeOK, CountKnown
<1>7. RangeHoldsTotal'
  <2>1. \A k \in DOMAIN table : table[k].count \in Nat /\ table[k].error \in Nat /\ total[k] \in Nat /\ k \in Keys
    BY DEF TableTypeOK, Entries
  <2>2. \A k \in DOMAIN table' :
          table'[k].count - table'[k].error <= total'[k] /\ total'[k] <= table'[k].count
    <3> TAKE k \in DOMAIN table'
    <3>1. CASE k = key BY <3>1, <1>1, <1>3, <1>4, <1>5, <2>1 DEF RangeHoldsTotal
    <3>2. CASE k # key BY <3>2, <1>4, <1>5, <2>1 DEF RangeHoldsTotal
    <3> QED BY <3>1, <3>2
  <2>3. \A k \in Keys \ DOMAIN table', j \in DOMAIN table' : total'[k] <= table'[j].count
    <3> TAKE k \in Keys \ DOMAIN table', j \in DOMAIN table'
    <3>1. total'[k] = total[k] /\ total[k] <= table[j].count /\ total[k] \in Nat
      BY <1>1, <1>4, <1>5 DEF RangeHoldsTotal, TableTypeOK
    <3>2. table[j].count <= table'[j].count BY <1>3, <1>4, <2>1
    <3>3. table'[j].count \in Nat /\ table[j].count \in Nat BY <1>4, <1>6, <2>1 DEF TableTypeOK, Entries
    <3> QED BY <3>1, <3>2, <3>3
  <2> QED BY <2>2, <2>3 DEF RangeHoldsTotal
<1>8. ExactIsExact'
  <2> SUFFICES ASSUME NEW k \in DOMAIN table'
               PROVE  /\ table'[k].nodes \subseteq seenOn'[k]
                      /\ table'[k].error = 0 =>
                           /\ table'[k].count = total'[k]
                           /\ table'[k].scopeTruncated \/ table'[k].nodes = seenOn'[k]
    BY DEF ExactIsExact
  <2>1. CASE k = key BY <2>1, <1>1, <1>3, <1>4, <1>5 DEF ExactIsExact
  <2>2. CASE k # key BY <2>2, <1>4, <1>5 DEF ExactIsExact, TableTypeOK
  <2> QED BY <2>1, <2>2
<1>9. NothingLost'
  BY <1>1, <1>4, <1>5 DEF NothingLost
<1> QED BY <1>6, <1>7, <1>8, <1>9

\* A new fingerprint while there is room.
LEMMA AddNewKeeps ==
  ASSUME TableInv, NEW key \in Keys, NEW weight \in Nat \ {0}, NEW node \in Nodes,
         AddNew(key, weight, node)
  PROVE  TableInv'
<1> DEFINE new == NewEntry(weight, 0, node)
<1> USE DEF TableInv
<1>1. key \notin DOMAIN table /\ Cardinality(DOMAIN table) < Capacity /\ Occurs(key, weight, node)
  BY DEF AddNew
<1>2. /\ new \in Entries /\ new.count = weight /\ new.error = 0
      /\ new.nodes \subseteq {node}
      /\ new.scopeTruncated \/ new.nodes = {node}
  BY NewEntryEffect
<1>3. DOMAIN table' = DOMAIN table \cup {key} /\ table'[key] = new
      /\ \A k \in DOMAIN table : table'[k] = table[k]
  BY <1>1 DEF AddNew
<1> HIDE DEF new
<1>4. /\ total' \in [Keys -> Nat] /\ seenOn' \in [Keys -> SUBSET Nodes]
      /\ total'[key] = total[key] + weight /\ seenOn'[key] = seenOn[key] \cup {node}
      /\ \A k \in Keys \ {key} : total'[k] = total[k] /\ seenOn'[k] = seenOn[k]
      /\ \A k \in Keys : total'[k] = 0 => total[k] = 0 /\ k # key
  BY <1>1, OccursEffect
<1>5. total[key] = 0 /\ seenOn[key] = {} /\ \A k \in Keys \ DOMAIN table : total[k] = 0
  BY <1>1 DEF NothingLost
<1>6. TableTypeOK'
  <2>1. IsFiniteSet(DOMAIN table') BY <1>3, FS_AddElement DEF TableTypeOK
  <2>2. replacements' \in Nat BY DEF AddNew, TableTypeOK
  <2> QED BY <1>2, <1>3, <1>4, <2>1, <2>2 DEF TableTypeOK
<1>7. RangeHoldsTotal'
  <2>1. \A k \in DOMAIN table : table[k].count \in Nat /\ table[k].error \in Nat /\ total[k] \in Nat /\ k \in Keys
    BY DEF TableTypeOK, Entries
  <2>2. \A k \in DOMAIN table' :
          table'[k].count - table'[k].error <= total'[k] /\ total'[k] <= table'[k].count
    <3> TAKE k \in DOMAIN table'
    <3>1. CASE k = key BY <3>1, <1>2, <1>3, <1>4, <1>5
    <3>2. CASE k # key BY <3>2, <1>3, <1>4, <2>1 DEF RangeHoldsTotal
    <3> QED BY <3>1, <3>2
  <2>3. \A k \in Keys \ DOMAIN table', j \in DOMAIN table' : total'[k] <= table'[j].count
    <3> TAKE k \in Keys \ DOMAIN table', j \in DOMAIN table'
    <3>1. total'[k] = 0 BY <1>3, <1>4, <1>5
    <3>2. table'[j].count \in Nat BY <1>6 DEF TableTypeOK, Entries
    <3> QED BY <3>1, <3>2
  <2> QED BY <2>2, <2>3 DEF RangeHoldsTotal
<1>8. ExactIsExact'
  <2> SUFFICES ASSUME NEW k \in DOMAIN table'
               PROVE  /\ table'[k].nodes \subseteq seenOn'[k]
                      /\ table'[k].error = 0 =>
                           /\ table'[k].count = total'[k]
                           /\ table'[k].scopeTruncated \/ table'[k].nodes = seenOn'[k]
    BY DEF ExactIsExact
  <2>1. CASE k = key BY <2>1, <1>2, <1>3, <1>4, <1>5
  <2>2. CASE k # key BY <2>2, <1>3, <1>4 DEF ExactIsExact, TableTypeOK
  <2> QED BY <2>1, <2>2
<1>9. NothingLost'
  <2>1. \A k \in Keys \ DOMAIN table' : total'[k] = 0 BY <1>3, <1>4, <1>5
  <2>2. \A k \in Keys : total'[k] = 0 => seenOn'[k] = {} BY <1>4 DEF NothingLost
  <2> QED BY <2>1, <2>2 DEF NothingLost
<1> QED BY <1>6, <1>7, <1>8, <1>9

\* A new fingerprint in a full table.
LEMMA ReplaceLeastKeeps ==
  ASSUME TableInv, NEW key \in Keys, NEW weight \in Nat \ {0}, NEW node \in Nodes,
         ReplaceLeast(key, weight, node)
  PROVE  TableInv'
<1> USE DEF TableInv
<1>1. PICK v \in Victims :
        table' = [k \in (DOMAIN table \ {v}) \cup {key} |->
                    IF k = key THEN NewEntry(table[v].count + weight, table[v].count, node)
                    ELSE table[k]]
  BY DEF ReplaceLeast
<1> DEFINE new == NewEntry(table[v].count + weight, table[v].count, node)
<1>2. key \notin DOMAIN table /\ Cardinality(DOMAIN table) >= Capacity /\ Occurs(key, weight, node)
  BY DEF ReplaceLeast
<1>3. v \in DOMAIN table /\ v \in Keys /\ v # key /\ table[v].count \in Nat \ {0}
  BY <1>2 DEF Victims, TableTypeOK, Entries
<1>4. \A k \in DOMAIN table : table[v].count <= table[k].count
  <2>1. \A k \in DOMAIN table : table[k].count \in Nat BY DEF TableTypeOK, Entries
  <2> QED BY <2>1, <1>3 DEF Victims
<1>5. /\ new \in Entries /\ new.count = table[v].count + weight /\ new.error = table[v].count
      /\ new.nodes \subseteq {node}
  <2>1. table[v].count + weight \in Nat \ {0} /\ table[v].count \in Nat BY <1>3
  <2> QED BY <2>1, NewEntryEffect
<1>6. DOMAIN table' = (DOMAIN table \ {v}) \cup {key} /\ table'[key] = new
      /\ \A k \in DOMAIN table \ {v} : table'[k] = table[k]
  BY <1>1, <1>2
<1> HIDE DEF new
<1>7. /\ total' \in [Keys -> Nat] /\ seenOn' \in [Keys -> SUBSET Nodes]
      /\ total'[key] = total[key] + weight /\ seenOn'[key] = seenOn[key] \cup {node}
      /\ \A k \in Keys \ {key} : total'[k] = total[k] /\ seenOn'[k] = seenOn[k]
      /\ \A k \in Keys : total'[k] = 0 => total[k] = 0 /\ k # key
  BY <1>2, OccursEffect
<1>8. IsFiniteSet(DOMAIN table') /\ Cardinality(DOMAIN table') = Cardinality(DOMAIN table)
  <2>1. IsFiniteSet(DOMAIN table \ {v})
        /\ Cardinality(DOMAIN table \ {v}) = Cardinality(DOMAIN table) - 1
    BY <1>3, FS_RemoveElement DEF TableTypeOK
  <2>2. Cardinality(DOMAIN table) \in Nat BY FS_CardinalityType DEF TableTypeOK
  <2>3. key \notin DOMAIN table \ {v} BY <1>2
  <2>4. IsFiniteSet((DOMAIN table \ {v}) \cup {key})
        /\ Cardinality((DOMAIN table \ {v}) \cup {key}) = Cardinality(DOMAIN table \ {v}) + 1
    BY <2>1, <2>3, FS_AddElement
  <2> QED BY <1>6, <2>1, <2>2, <2>4
<1>9. TableTypeOK'
  <2>1. replacements' \in Nat BY DEF ReplaceLeast, TableTypeOK
  <2>2. \A k \in DOMAIN table' : table'[k] \in Entries BY <1>5, <1>6 DEF TableTypeOK
  <2>3. DOMAIN table' \subseteq Keys BY <1>6 DEF TableTypeOK
  <2> QED BY <1>7, <1>8, <2>1, <2>2, <2>3 DEF TableTypeOK
<1>10. RangeHoldsTotal'
  <2>1. \A k \in DOMAIN table : table[k].count \in Nat /\ table[k].error \in Nat /\ k \in Keys
    BY DEF TableTypeOK, Entries
  <2>2. \A k \in Keys : total[k] \in Nat BY DEF TableTypeOK
  <2>3. \A k \in Keys \ DOMAIN table : total[k] <= table[v].count BY <1>3 DEF RangeHoldsTotal
  <2>4. \A k \in DOMAIN table' :
          table'[k].count - table'[k].error <= total'[k] /\ total'[k] <= table'[k].count
    <3> TAKE k \in DOMAIN table'
    <3>1. CASE k = key
      <4>1. total'[key] = total[key] + weight /\ total[key] <= table[v].count /\ total[key] \in Nat
        BY <1>2, <1>7, <2>2, <2>3
      <4>2. table'[key].count = table[v].count + weight /\ table'[key].error = table[v].count
        BY <1>5, <1>6
      <4> QED BY <3>1, <4>1, <4>2, <1>3
    <3>2. CASE k # key
      <4>1. k \in DOMAIN table \ {v} /\ table'[k] = table[k] /\ total'[k] = total[k]
        BY <3>2, <1>6, <1>7, <2>1
      <4> QED BY <4>1 DEF RangeHoldsTotal
    <3> QED BY <3>1, <3>2
  <2>5. \A j \in DOMAIN table' : table'[j].count \in Nat /\ table[v].count <= table'[j].count
    <3> TAKE j \in DOMAIN table'
    <3>1. CASE j = key BY <3>1, <1>3, <1>5, <1>6
    <3>2. CASE j # key
      <4>1. j \in DOMAIN table /\ table'[j] = table[j] BY <3>2, <1>6
      <4> QED BY <4>1, <1>4, <2>1
    <3> QED BY <3>1, <3>2
  <2>6. \A k \in Keys \ DOMAIN table' : total'[k] \in Nat /\ total'[k] <= table[v].count
    <3> TAKE k \in Keys \ DOMAIN table'
    <3>1. k # key /\ total'[k] = total[k] BY <1>6, <1>7
    <3>2. CASE k = v BY <3>1, <3>2, <1>3, <2>2 DEF RangeHoldsTotal
    <3>3. CASE k # v BY <3>1, <3>3, <1>6, <2>2, <2>3
    <3> QED BY <3>2, <3>3
  <2>7. \A k \in Keys \ DOMAIN table', j \in DOMAIN table' : total'[k] <= table'[j].count
    BY <2>5, <2>6, <1>3
  <2> QED BY <2>4, <2>7 DEF RangeHoldsTotal
<1>11. ExactIsExact'
  <2> SUFFICES ASSUME NEW k \in DOMAIN table'
               PROVE  /\ table'[k].nodes \subseteq seenOn'[k]
                      /\ table'[k].error = 0 =>
                           /\ table'[k].count = total'[k]
                           /\ table'[k].scopeTruncated \/ table'[k].nodes = seenOn'[k]
    BY DEF ExactIsExact
  <2>1. CASE k = key BY <2>1, <1>3, <1>5, <1>6, <1>7
  <2>2. CASE k # key
    <3>1. k \in DOMAIN table \ {v} /\ k \in Keys /\ table'[k] = table[k]
          /\ total'[k] = total[k] /\ seenOn'[k] = seenOn[k]
      BY <2>2, <1>6, <1>7 DEF TableTypeOK
    <3> QED BY <3>1 DEF ExactIsExact
  <2> QED BY <2>1, <2>2
<1>12. NothingLost'
  <2>1. ~(Cardinality(DOMAIN table') < Capacity)
    BY <1>2, <1>8, FS_CardinalityType, FingerprintAssumption DEF TableTypeOK
  <2>2. \A k \in Keys : total'[k] = 0 => seenOn'[k] = {} BY <1>7 DEF NothingLost
  <2> QED BY <2>1, <2>2 DEF NothingLost
<1> QED BY <1>9, <1>10, <1>11, <1>12

LEMMA TableStep == ASSUME TableInv, [Observation]_fingerprintVars PROVE TableInv'
<1>1. CASE Observation
  BY <1>1, CountKnownKeeps, AddNewKeeps, ReplaceLeastKeeps DEF Observation, Observe
<1>2. CASE UNCHANGED fingerprintVars
  BY <1>2 DEF TableInv, TableTypeOK, RangeHoldsTotal, ExactIsExact, NothingLost, fingerprintVars
<1> QED BY <1>1, <1>2

\* The table keeps its invariant whatever messages come.
THEOREM TableInvariant == FingerprintSpec => []TableInv
<1>1. InitTable => TableInv BY TableInit
<1>2. TableInv /\ [Observation]_fingerprintVars => TableInv' BY TableStep
<1> QED BY <1>1, <1>2, PTL DEF FingerprintSpec, Observation

\* The occurrence range shown for a fingerprint holds its true number of occurrences.
THEOREM RangesHold == FingerprintSpec => []RangeHoldsTotal
<1>1. TableInv => RangeHoldsTotal BY DEF TableInv
<1> QED BY <1>1, TableInvariant, PTL

\* A count called exact is exact, and so is the scope that goes with it.
THEOREM ExactCounts == FingerprintSpec => []ExactIsExact
<1>1. TableInv => ExactIsExact BY DEF TableInv
<1> QED BY <1>1, TableInvariant, PTL

-----------------------------------------------------------------------------
(* Normalization uses that table. *)

LEMMA CountsObserves ==
  ASSUME NEW kind \in Kinds, Counts(kind)
  PROVE  [Observation]_fingerprintVars
<1>1. CASE WorthCounting(kind)
  <2>1. Observe(kind.key, kind.weight, kind.node) BY <1>1 DEF Counts
  <2> QED BY <2>1, KindsAssumption DEF Observation
<1>2. CASE ~WorthCounting(kind) BY <1>2 DEF Counts
<1> QED BY <1>1, <1>2

LEMMA StepObserves == [Next]_vars => [Observation]_fingerprintVars
<1> SUFFICES ASSUME [Next]_vars PROVE [Observation]_fingerprintVars
  OBVIOUS
<1>1. ASSUME NEW kind \in Kinds, FilterByTime(kind) \/ SuppressSmokeTest(kind)
      PROVE  UNCHANGED fingerprintVars
  BY <1>1 DEF FilterByTime, SuppressSmokeTest
<1>2. ASSUME NEW kind \in Kinds, CountOnly(kind) \/ AppendEvent(kind) \/ DropCandidate(kind)
      PROVE  [Observation]_fingerprintVars
  <2>1. Counts(kind) BY <1>2 DEF CountOnly, AppendEvent, DropCandidate
  <2> QED BY <2>1, CountsObserves
<1>3. ASSUME EndOfStream \/ Suppress \/ Deduplicate PROVE UNCHANGED fingerprintVars
  BY <1>3 DEF EndOfStream, Suppress, Deduplicate
<1>4. ASSUME WithinLimit \/ StartTurns \/ TakeTurn \/ LimitReached \/ Correlate
      PROVE  UNCHANGED fingerprintVars
  BY <1>4 DEF WithinLimit, StartTurns, TakeTurn, LimitReached, Correlate
<1>5. ASSUME UNCHANGED vars PROVE UNCHANGED fingerprintVars
  BY <1>5 DEF vars
<1> QED BY <1>1, <1>2, <1>3, <1>4, <1>5 DEF Next

\* Normalization implements the table of fingerprints: each of its steps is
\* one message counted or leaves the table alone.
THEOREM ImplementsFingerprints == Spec => FingerprintSpec
<1>1. Init => InitTable BY DEF Init
<1> QED BY <1>1, StepObserves, PTL DEF Spec, FingerprintSpec, Observation

\* The ranges in the output of normalize_evidence hold, at every stage and for
\* every stream of records.
THEOREM NormalizedRangesHold == Spec => []RangeHoldsTotal
BY ImplementsFingerprints, RangesHold, PTL

\* So do the counts it calls exact.
THEOREM NormalizedCountsExact == Spec => []ExactIsExact
BY ImplementsFingerprints, ExactCounts, PTL

-----------------------------------------------------------------------------
(* The stages: accounting and fairness. *)

Stages == {"append", "suppress", "deduplicate", "limit", "correlate", "done"}

\* The records of a source, and those that are only counted or left out as a
\* smoke test.
RecordsOf(s) == {i \in DOMAIN stream : stream[i].source = s}
Uncounted(s) ==
  {i \in DOMAIN stream : /\ stream[i].source = s /\ ~Outside(stream[i])
                         /\ stream[i].smoke \/ stream[i].categories = {}}

Output == IF stage \in {"correlate", "done"} THEN retained ELSE events

\* An event is a record of the stream, and no record is two events.
EventsOfStream ==
  /\ IsFiniteSet(events)
  /\ \A e \in events : e = [id |-> e.id, kind |-> e.kind, count |-> e.count] /\ e.id \in DOMAIN stream
  /\ \A e, f \in events : e.id = f.id => e = f

StageShape ==
  /\ limits \in Limits
  /\ stage \in Stages
  /\ stream \in Seq(Kinds)
  /\ dropped \in [Sources -> Nat]
  /\ retained \subseteq events
  /\ stage \in {"append", "suppress", "deduplicate"} => retained = {} /\ active = <<>>

Accounted ==
  /\ \A s \in Sources :
       Cardinality(RecordsOf(s)) = Count(Output, s) + dropped[s] + Cardinality(Uncounted(s))
  /\ stage \in {"correlate", "done"} /\ ~truncated => retained = events

AccountInv == EventsOfStream /\ StageShape /\ Accounted

\* How many of a set of events are of a bucket.
Held(b, S) == Cardinality(InBucket(b, S))

\* While turns are taken: the queue has every bucket with an event left once,
\* the buckets that had a turn in this round after those that had none.
RoundRobin ==
  /\ buckets = [b \in Buckets |-> InBucket(b, events) \ retained]
  /\ active \in Seq(Buckets)
  /\ \A i, j \in 1 .. Len(active) : active[i] = active[j] => i = j
  /\ \A b \in Buckets : buckets[b] # {} => \E i \in 1 .. Len(active) : active[i] = b
  /\ \A i \in 1 .. Len(active) : buckets[active[i]] # {}
  /\ \A i, j \in 1 .. Len(active) : i <= j => Held(active[i], retained) <= Held(active[j], retained)
  /\ active # <<>> => \A b \in Buckets : Held(b, retained) <= Held(active[1], retained) + 1
  /\ Cardinality(retained) <= limits.output

FairOutput ==
  Cardinality(retained) < Cardinality(events) =>
    /\ Cardinality(retained) = limits.output
    /\ \A b, other \in Buckets : InBucket(b, retained) # InBucket(b, events) => Held(other, retained) <= Held(b, retained) + 1

FairInv ==
  /\ stage = "limit" => (active = <<>> /\ retained = {}) \/ RoundRobin
  /\ stage \in {"correlate", "done"} => FairOutput

\* Counting the events of a source.
LEMMA CountOne ==
  ASSUME NEW S, IsFiniteSet(S), NEW e, e \notin S, NEW s
  PROVE  /\ Count(S, s) \in Nat
         /\ Count(S \cup {e}, s) = IF e.kind.source = s THEN Count(S, s) + 1 ELSE Count(S, s)
<1> DEFINE Of(T) == {f \in T : f.kind.source = s}
<1>1. IsFiniteSet(Of(S)) /\ Cardinality(Of(S)) \in Nat
  BY FS_Subset, FS_CardinalityType
<1>2. CASE e.kind.source = s
  <2>1. Of(S \cup {e}) = Of(S) \cup {e} /\ e \notin Of(S)
    BY <1>2
  <2> HIDE DEF Of
  <2>2. Cardinality(Of(S) \cup {e}) = Cardinality(Of(S)) + 1
    BY <1>1, <2>1, FS_AddElement
  <2> QED
    BY <1>1, <1>2, <2>1, <2>2 DEF Count, Of
<1>3. CASE e.kind.source # s
  <2>1. Of(S \cup {e}) = Of(S)
    BY <1>3
  <2> QED
    BY <1>1, <1>3, <2>1 DEF Count
<1> QED
  BY <1>2, <1>3

LEMMA CountSplit ==
  ASSUME NEW S, IsFiniteSet(S), NEW T \in SUBSET S, NEW s
  PROVE  /\ Count(T, s) \in Nat /\ Count(S \ T, s) \in Nat
         /\ Count(S, s) = Count(T, s) + Count(S \ T, s)
<1> DEFINE Of(U) == {f \in U : f.kind.source = s}
<1>1. /\ IsFiniteSet(Of(T)) /\ IsFiniteSet(Of(S \ T))
      /\ Of(S) = Of(T) \cup Of(S \ T) /\ Of(T) \cap Of(S \ T) = {}
  <2>1. Of(T) \in SUBSET S /\ Of(S \ T) \in SUBSET S
    OBVIOUS
  <2> QED
    BY <2>1, FS_Subset
<1> HIDE DEF Of
<1>2. Cardinality(Of(T)) \in Nat /\ Cardinality(Of(S \ T)) \in Nat /\ Cardinality({}) = 0
  BY <1>1, FS_CardinalityType, FS_EmptySet
<1>3. Cardinality(Of(S)) = Cardinality(Of(T)) + Cardinality(Of(S \ T)) - Cardinality({})
  BY <1>1, FS_Union
<1> QED
  BY <1>2, <1>3 DEF Count, Of

\* One record more.
OneIf(condition) == IF condition THEN 1 ELSE 0

LEMMA AppendedPlaces ==
  ASSUME NEW S, IsFiniteSet(S), NEW n, n \notin S, NEW T, NEW condition \in BOOLEAN,
         T = IF condition THEN S \cup {n} ELSE S
  PROVE  Cardinality(S) \in Nat /\ Cardinality(T) = Cardinality(S) + OneIf(condition)
BY FS_AddElement, FS_CardinalityType DEF OneIf

Spared(kind) == ~Outside(kind) /\ (kind.smoke \/ kind.categories = {})

LEMMA RecordCounted ==
  ASSUME stream \in Seq(Kinds), NEW kind \in Kinds, stream' = Append(stream, kind), NEW s
  PROVE  /\ Cardinality(RecordsOf(s)) \in Nat /\ Cardinality(Uncounted(s)) \in Nat
         /\ Cardinality(RecordsOf(s)') = Cardinality(RecordsOf(s)) + OneIf(kind.source = s)
         /\ Cardinality(Uncounted(s)') = Cardinality(Uncounted(s)) + OneIf(kind.source = s /\ Spared(kind))
<1>1. /\ DOMAIN stream = 1 .. Len(stream) /\ Len(stream) \in Nat
      /\ DOMAIN stream' = 1 .. Len(stream) \cup {Len(stream) + 1}
      /\ stream'[Len(stream) + 1] = kind
      /\ \A i \in 1 .. Len(stream) : stream'[i] = stream[i]
  OBVIOUS
<1>2. IsFiniteSet(1 .. Len(stream)) /\ Len(stream) + 1 \notin 1 .. Len(stream)
  BY <1>1, FS_Interval
<1>3. RecordsOf(s)' = IF kind.source = s THEN RecordsOf(s) \cup {Len(stream) + 1} ELSE RecordsOf(s)
  BY <1>1 DEF RecordsOf
<1>4. Uncounted(s)' = IF kind.source = s /\ Spared(kind) THEN Uncounted(s) \cup {Len(stream) + 1} ELSE Uncounted(s)
  BY <1>1 DEF Uncounted, Spared, Outside
<1>5. /\ IsFiniteSet(RecordsOf(s)) /\ Len(stream) + 1 \notin RecordsOf(s)
      /\ IsFiniteSet(Uncounted(s)) /\ Len(stream) + 1 \notin Uncounted(s)
  <2>1. RecordsOf(s) \in SUBSET (1 .. Len(stream)) /\ Uncounted(s) \in SUBSET (1 .. Len(stream))
    BY <1>1 DEF RecordsOf, Uncounted
  <2> QED
    BY <1>2, <2>1, FS_Subset
<1> DEFINE counted == kind.source = s
           spared == kind.source = s /\ Spared(kind)
<1>6. counted \in BOOLEAN /\ spared \in BOOLEAN
  OBVIOUS
<1>7. /\ RecordsOf(s)' = IF counted THEN RecordsOf(s) \cup {Len(stream) + 1} ELSE RecordsOf(s)
      /\ Uncounted(s)' = IF spared THEN Uncounted(s) \cup {Len(stream) + 1} ELSE Uncounted(s)
  BY <1>3, <1>4
<1> HIDE DEF counted, spared
<1>8. /\ Cardinality(RecordsOf(s)) \in Nat
      /\ Cardinality(RecordsOf(s)') = Cardinality(RecordsOf(s)) + OneIf(counted)
  BY <1>5, <1>6, <1>7, AppendedPlaces
<1>9. /\ Cardinality(Uncounted(s)) \in Nat
      /\ Cardinality(Uncounted(s)') = Cardinality(Uncounted(s)) + OneIf(spared)
  BY <1>5, <1>6, <1>7, AppendedPlaces
<1> QED
  BY <1>8, <1>9 DEF counted, spared

\* A record is read: it becomes an event, is counted as dropped, or is one that
\* is only counted.
LEMMA ReadStep ==
  ASSUME AccountInv, NEW kind \in Kinds,
         FilterByTime(kind) \/ SuppressSmokeTest(kind) \/ CountOnly(kind) \/ AppendEvent(kind) \/ DropCandidate(kind)
  PROVE  AccountInv'
<1>1. /\ stage = "append" /\ stage' = "append" /\ UNCHANGED <<limits, retained, active>>
      /\ stream' = Append(stream, kind) /\ kind.source \in Sources
      /\ stream \in Seq(Kinds) /\ limits \in Limits /\ dropped \in [Sources -> Nat]
      /\ retained = {} /\ active = <<>>
  BY DEF Reads, FilterByTime, SuppressSmokeTest, CountOnly, AppendEvent, DropCandidate, limitVars,
         AccountInv, StageShape, Sources
<1>2. /\ Len(stream) \in Nat /\ DOMAIN stream = 1 .. Len(stream) /\ DOMAIN stream' = 1 .. (Len(stream) + 1)
      /\ stream' \in Seq(Kinds)
  BY <1>1
<1> DEFINE new == NewEvent(kind)
<1>3. /\ new = [id |-> new.id, kind |-> new.kind, count |-> new.count]
      /\ new.id = Len(stream) + 1 /\ new.kind = kind
  BY DEF NewEvent
<1>4. new \notin events /\ \A e \in events : e.id # new.id
  BY <1>2, <1>3 DEF AccountInv, EventsOfStream
<1> HIDE DEF new
<1>5. ASSUME events' \in {events, events \cup {new}} PROVE EventsOfStream'
  <2>1. IsFiniteSet(events')
    BY <1>5, FS_AddElement DEF AccountInv, EventsOfStream
  <2>2. \A e \in events' : e = [id |-> e.id, kind |-> e.kind, count |-> e.count] /\ e.id \in DOMAIN stream'
    BY <1>2, <1>3, <1>5 DEF AccountInv, EventsOfStream
  <2>3. \A e, f \in events' : e.id = f.id => e = f
    BY <1>4, <1>5 DEF AccountInv, EventsOfStream
  <2> QED
    BY <2>1, <2>2, <2>3 DEF EventsOfStream
<1>6. \A s \in Sources :
        /\ Cardinality(RecordsOf(s)) \in Nat /\ Cardinality(Uncounted(s)) \in Nat
        /\ Cardinality(RecordsOf(s)') = Cardinality(RecordsOf(s)) + OneIf(kind.source = s)
        /\ Cardinality(Uncounted(s)') = Cardinality(Uncounted(s)) + OneIf(kind.source = s /\ Spared(kind))
  BY <1>1, RecordCounted
<1>7. \A s \in Sources :
        /\ Count(events, s) \in Nat
        /\ Count(events \cup {new}, s) = Count(events, s) + OneIf(kind.source = s)
  BY <1>3, <1>4, CountOne DEF AccountInv, EventsOfStream, OneIf
<1>8. \A s \in Sources :
        Cardinality(RecordsOf(s)) = Count(events, s) + dropped[s] + Cardinality(Uncounted(s))
  BY <1>1 DEF AccountInv, Accounted, Output
<1>9. SUFFICES ASSUME events' \in {events, events \cup {new}},
                      dropped' \in [Sources -> Nat],
                      \A s \in Sources :
                        Cardinality(RecordsOf(s)') = Count(events', s) + dropped'[s] + Cardinality(Uncounted(s)')
               PROVE  AccountInv'
  <2> DEFINE of(s) == OneIf(kind.source = s)
             spared(s) == OneIf(kind.source = s /\ Spared(kind))
  <2>1. ASSUME events' \in {events, events \cup {new}}, dropped' \in [Sources -> Nat],
               \A s \in Sources : Count(events', s) + dropped'[s] + spared(s) = Count(events, s) + dropped[s] + of(s)
        PROVE  AccountInv'
    <3>1. ASSUME NEW s \in Sources
          PROVE  Cardinality(RecordsOf(s)') = Count(events', s) + dropped'[s] + Cardinality(Uncounted(s)')
      <4>1. of(s) \in Nat /\ spared(s) \in Nat
        BY DEF OneIf
      <4>2. Count(events', s) \in Nat /\ dropped'[s] \in Nat /\ dropped[s] \in Nat
        <5>1. dropped'[s] \in Nat /\ dropped[s] \in Nat
          BY <2>1, <1>1
        <5>2. events' = events \/ events' = events \cup {new}
          BY <2>1
        <5>3. Count(events, s) \in Nat /\ Count(events \cup {new}, s) \in Nat
          BY <1>7, <4>1
        <5> QED
          BY <5>1, <5>2, <5>3
      <4> HIDE DEF of, spared
      <4>3. /\ Cardinality(RecordsOf(s)) \in Nat /\ Cardinality(Uncounted(s)) \in Nat
            /\ Cardinality(RecordsOf(s)') = Cardinality(RecordsOf(s)) + of(s)
            /\ Cardinality(Uncounted(s)') = Cardinality(Uncounted(s)) + spared(s)
            /\ Count(events, s) \in Nat
        BY <1>6, <1>7 DEF of, spared
      <4> QED
        BY <2>1, <4>1, <4>2, <4>3, <1>8
    <3> QED
      BY <2>1, <3>1, <1>9
  <2>2. \A s : spared(s) = IF Spared(kind) THEN of(s) ELSE 0
    BY DEF OneIf
  <2>3. \A s : of(s) \in Nat
    BY DEF OneIf
  <2>4. (dropped' = [dropped EXCEPT ![kind.source] = @ + 1]) =>
          dropped' \in [Sources -> Nat] /\ \A s \in Sources : dropped'[s] = dropped[s] + of(s)
    BY <1>1 DEF OneIf
  <2>5. \A s \in Sources : /\ Count(events, s) \in Nat /\ dropped[s] \in Nat
                           /\ Count(events \cup {new}, s) = Count(events, s) + of(s)
    BY <1>1, <1>7
  <2> HIDE DEF of, spared
  <2>6. CASE FilterByTime(kind)
    <3>1. events' = events /\ dropped' = [dropped EXCEPT ![kind.source] = @ + 1] /\ ~Spared(kind)
      BY <2>6 DEF FilterByTime, Drop, Spared
    <3> QED
      BY <3>1, <2>1, <2>2, <2>3, <2>4, <2>5
  <2>7. CASE SuppressSmokeTest(kind) \/ CountOnly(kind)
    <3>1. UNCHANGED <<events, dropped>> /\ Spared(kind)
      BY <2>7 DEF SuppressSmokeTest, CountOnly, Spared, Filtered
    <3> QED
      <4>1. \A s \in Sources : Count(events', s) + dropped'[s] + spared(s) = Count(events, s) + dropped[s] + of(s)
        BY <3>1, <2>2, <2>3, <2>5
      <4> QED
        BY <3>1, <4>1, <1>1, <2>1
  <2>8. CASE AppendEvent(kind)
    <3>1. events' = events \cup {new} /\ dropped' = dropped /\ ~Spared(kind)
      BY <2>8 DEF AppendEvent, Spared, Filtered, new
    <3> QED
      <4>1. ASSUME NEW s \in Sources
            PROVE  Count(events', s) + dropped'[s] + spared(s) = Count(events, s) + dropped[s] + of(s)
        <5>1. /\ Count(events', s) = Count(events, s) + of(s) /\ dropped'[s] = dropped[s] /\ spared(s) = 0
              /\ Count(events, s) \in Nat /\ dropped[s] \in Nat /\ of(s) \in Nat
          BY <3>1, <2>2, <2>3, <2>5
        <5> QED
          BY <5>1
      <4> QED
        BY <3>1, <4>1, <1>1, <2>1
  <2>9. CASE DropCandidate(kind)
    <3>1. events' = events /\ dropped' = [dropped EXCEPT ![kind.source] = @ + 1] /\ ~Spared(kind)
      BY <2>9 DEF DropCandidate, Drop, Spared, Filtered
    <3> QED
      BY <3>1, <2>1, <2>2, <2>3, <2>4, <2>5
  <2> QED
    BY <2>6, <2>7, <2>8, <2>9
<1>10. StageShape'
  BY <1>1, <1>2, <1>9 DEF StageShape, Stages
<1>11. Accounted'
  BY <1>1, <1>9 DEF Accounted, Output
<1> QED
  BY <1>5, <1>9, <1>10, <1>11 DEF AccountInv

\* Events that are left out are counted as dropped.
LEMMA DroppedAreCounted ==
  ASSUME AccountInv, NEW kept \in SUBSET events, DropAll(events \ kept)
  PROVE  /\ dropped' \in [Sources -> Nat]
         /\ \A s \in Sources : Count(events, s) + dropped[s] = Count(kept, s) + dropped'[s]
<1>1. \A s \in Sources : /\ Count(kept, s) \in Nat /\ Count(events \ kept, s) \in Nat
                         /\ Count(events, s) = Count(kept, s) + Count(events \ kept, s)
  BY CountSplit DEF AccountInv, EventsOfStream
<1>2. dropped \in [Sources -> Nat] /\ dropped' = [s \in Sources |-> dropped[s] + Count(events \ kept, s)]
  BY DEF DropAll, AccountInv, StageShape
<1>3. \A s \in Sources : dropped[s] \in Nat /\ dropped'[s] = dropped[s] + Count(events \ kept, s)
  BY <1>2
<1>4. dropped' \in [Sources -> Nat]
  <2>1. \A s \in Sources : dropped[s] + Count(events \ kept, s) \in Nat
    <3> SUFFICES ASSUME NEW s \in Sources PROVE dropped[s] + Count(events \ kept, s) \in Nat
      OBVIOUS
    <3>1. dropped[s] \in Nat /\ Count(events \ kept, s) \in Nat
      BY <1>1, <1>3
    <3> QED
      BY <3>1
  <2> QED
    BY <1>2, <2>1
<1> QED
  <2> SUFFICES ASSUME NEW s \in Sources
               PROVE  Count(events, s) + dropped[s] = Count(kept, s) + dropped'[s]
    BY <1>4
  <2>1. /\ Count(kept, s) \in Nat /\ Count(events \ kept, s) \in Nat /\ dropped[s] \in Nat
        /\ Count(events, s) = Count(kept, s) + Count(events \ kept, s)
        /\ dropped'[s] = dropped[s] + Count(events \ kept, s)
    BY <1>1, <1>3
  <2> QED
    BY <2>1

LEMMA LeastNatural == ASSUME NEW S \in SUBSET Nat, S # {} PROVE \E m \in S : \A n \in S : m <= n
<1> DEFINE less == {p \in Nat \X Nat : p[1] < p[2]}
<1>1. IsWellFoundedOn(less, Nat)
  BY NatLessThanWellFounded, Zenon DEF OpToRel
<1> HIDE DEF less
<1>2. PICK m \in S : \A n \in S : <<n, m>> \notin less
  BY <1>1, WFMin
<1>3. ASSUME NEW n \in S PROVE m <= n
  <2>1. n \in Nat /\ m \in Nat /\ ~(n < m)
    BY <1>2 DEF less
  <2> QED
    BY <2>1
<1> QED
  BY <1>3

\* The oldest event of a bucket is there.
LEMMA OldestIsThere ==
  ASSUME AccountInv, NEW bucket, buckets[bucket] \subseteq events, buckets[bucket] # {}
  PROVE  Oldest(bucket) \in buckets[bucket]
<1>1. \A e \in buckets[bucket] : e.id \in Nat
  BY DEF AccountInv, EventsOfStream, StageShape
<1>2. {e.id : e \in buckets[bucket]} \in SUBSET Nat /\ {e.id : e \in buckets[bucket]} # {}
  BY <1>1
<1>3. \E m \in {e.id : e \in buckets[bucket]} : \A n \in {e.id : e \in buckets[bucket]} : m <= n
  BY <1>2, LeastNatural
<1>4. \E e \in buckets[bucket] : \A f \in buckets[bucket] : e.id <= f.id
  BY <1>3
<1> QED
  BY <1>4 DEF Oldest

\* An order of a finite set has each of its elements once.
LEMMA OrderOfSet ==
  ASSUME NEW S, IsFiniteSet(S)
  PROVE  /\ SetToSeq(S) \in Seq(S)
         /\ \A x \in S : \E i \in 1 .. Len(SetToSeq(S)) : SetToSeq(S)[i] = x
         /\ \A i, j \in 1 .. Len(SetToSeq(S)) : SetToSeq(S)[i] = SetToSeq(S)[j] => i = j
<1> DEFINE n == Cardinality(S)
           seq == SetToSeq(S)
<1>1. n \in Nat /\ ExistsBijection(1 .. n, S)
  BY FS_CardinalityType
<1>2. \E f \in [1 .. n -> S] : IsInjective(f)
  BY <1>1 DEF ExistsBijection, Bijection, Injection
<1>3. seq \in [1 .. n -> S] /\ IsInjective(seq)
  BY <1>2, Zenon DEF SetToSeq
<1>4. seq \in Injection(1 .. n, S)
  BY <1>3 DEF Injection
<1>5. IsFiniteSet(1 .. n) /\ Cardinality(1 .. n) = n
  BY <1>1, FS_Interval
<1> HIDE DEF seq
<1>6. seq \in Surjection(1 .. n, S)
  BY <1>4, <1>5, FS_Injection
<1>7. seq \in Seq(S) /\ Len(seq) = n
  BY <1>1, <1>3
<1>8. \A i, j \in 1 .. n : seq[i] = seq[j] => i = j
  BY <1>3 DEF IsInjective
<1>9. \A x \in S : \E i \in 1 .. n : seq[i] = x
  BY <1>6 DEF Surjection
<1> QED
  BY <1>7, <1>8, <1>9 DEF seq

\* A stage that leaves the stream alone and counts what it leaves out.
LEMMA StageStep ==
  ASSUME AccountInv, UNCHANGED <<limits, stream>>, stage' \in Stages,
         EventsOfStream', dropped' \in [Sources -> Nat],
         \A s \in Sources : Count(Output', s) + dropped'[s] = Count(Output, s) + dropped[s],
         retained' \subseteq events',
         stage' \in {"append", "suppress", "deduplicate"} => retained' = {} /\ active' = <<>>,
         stage' \in {"correlate", "done"} /\ ~truncated' => retained' = events'
  PROVE  AccountInv'
<1>1. \A s : RecordsOf(s)' = RecordsOf(s) /\ Uncounted(s)' = Uncounted(s)
  BY DEF RecordsOf, Uncounted, Outside
<1>2. StageShape'
  BY DEF AccountInv, StageShape
<1>3. ASSUME NEW s \in Sources
      PROVE  Cardinality(RecordsOf(s)') = Count(Output', s) + dropped'[s] + Cardinality(Uncounted(s)')
  <2>1. Cardinality(RecordsOf(s)) = Count(Output, s) + dropped[s] + Cardinality(Uncounted(s))
    BY DEF AccountInv, Accounted
  <2> QED
    BY <1>1, <2>1
<1>4. Accounted'
  BY <1>3 DEF Accounted
<1> QED
  BY <1>2, <1>4 DEF AccountInv

LEMMA SameEvents == ASSUME AccountInv, UNCHANGED <<stream, events>> PROVE EventsOfStream'
BY DEF AccountInv, EventsOfStream

LEMMA EndOfStreamStep == ASSUME AccountInv, EndOfStream PROVE AccountInv'
<1>1. /\ stage = "append" /\ stage' = "suppress"
      /\ UNCHANGED <<limits, stream, events, dropped, truncated, retained, active>>
  BY DEF EndOfStream, limitVars
<1>2. Output' = Output
  BY <1>1 DEF Output
<1>3. EventsOfStream' /\ dropped' \in [Sources -> Nat] /\ retained' \subseteq events' /\ retained' = {} /\ active' = <<>>
  BY <1>1, SameEvents DEF AccountInv, StageShape
<1>4. \A s \in Sources : Count(Output', s) + dropped'[s] = Count(Output, s) + dropped[s]
  BY <1>1, <1>2
<1> QED
  BY <1>1, <1>3, <1>4, StageStep DEF Stages

LEMMA SuppressStep == ASSUME AccountInv, Suppress PROVE AccountInv'
<1>1. /\ stage = "suppress" /\ stage' = "deduplicate"
      /\ UNCHANGED <<limits, stream, truncated, retained, active>>
      /\ retained = {} /\ active = <<>>
  BY DEF Suppress, limitVars, AccountInv, StageShape
<1>2. Output' = events' /\ Output = events
  BY <1>1 DEF Output
<1>3. CASE UNCHANGED <<events, dropped>>
  <2>1. EventsOfStream' /\ dropped' \in [Sources -> Nat]
    BY <1>1, <1>3, SameEvents DEF AccountInv, StageShape
  <2>2. \A s \in Sources : Count(Output', s) + dropped'[s] = Count(Output, s) + dropped[s]
    BY <1>2, <1>3
  <2> QED
    BY <1>1, <2>1, <2>2, StageStep DEF Stages
<1>4. ASSUME NEW gone \in SUBSET events, events' = events \ gone, DropAll(gone)
      PROVE  AccountInv'
  <2>1. events \ events' = gone /\ events' \in SUBSET events
    BY <1>4
  <2>2. DropAll(events \ events')
    BY <1>4, <2>1 DEF DropAll
  <2>3. /\ dropped' \in [Sources -> Nat]
        /\ \A s \in Sources : Count(events, s) + dropped[s] = Count(events', s) + dropped'[s]
    BY <2>1, <2>2, DroppedAreCounted
  <2>4. EventsOfStream'
    <3>1. IsFiniteSet(events')
      BY <2>1, FS_Subset DEF AccountInv, EventsOfStream
    <3> QED
      BY <1>1, <2>1, <3>1 DEF AccountInv, EventsOfStream
  <2>5. \A s \in Sources : Count(Output', s) + dropped'[s] = Count(Output, s) + dropped[s]
    BY <1>2, <2>3
  <2> QED
    BY <1>1, <2>3, <2>4, <2>5, StageStep DEF Stages
<1> QED
  BY <1>3, <1>4 DEF Suppress

\* A merged event is the same record.
LEMMA MergedEffect ==
  ASSUME AccountInv, NEW e \in events
  PROVE  /\ Merged(e) = [id |-> e.id, kind |-> e.kind, count |-> Merged(e).count]
         /\ Merged(e).id = e.id /\ Merged(e).kind = e.kind
<1> DEFINE count == MapThenSumSet(LAMBDA f : f.count, Duplicates(e))
<1>1. Merged(e) = [e EXCEPT !.count = count]
  BY DEF Merged
<1> HIDE DEF count
<1>2. e = [id |-> e.id, kind |-> e.kind, count |-> e.count]
  BY DEF AccountInv, EventsOfStream
<1>3. Merged(e) = [id |-> e.id, kind |-> e.kind, count |-> count]
  BY <1>1, <1>2
<1> QED
  BY <1>3

\* Merging leaves the first of equal events, whose source it keeps.
LEMMA MergedAreFirsts ==
  ASSUME AccountInv, events' = {Merged(e) : e \in Firsts}
  PROVE  IsFiniteSet(events') /\ \A s : Count(events', s) = Count(Firsts, s)
<1>1. IsFiniteSet(Firsts) /\ Firsts \subseteq events
  <2>1. Firsts \in SUBSET events
    BY DEF Firsts
  <2> QED
    BY <2>1, FS_Subset DEF AccountInv, EventsOfStream
<1>2. \A e \in Firsts : Merged(e).id = e.id /\ Merged(e).kind = e.kind
  BY <1>1, MergedEffect
<1>3. \A e, f \in Firsts : Merged(e) = Merged(f) => e = f
  BY <1>1, <1>2 DEF AccountInv, EventsOfStream
<1>4. ASSUME NEW S \in SUBSET Firsts
      PROVE  LET T == {Merged(e) : e \in S} IN IsFiniteSet(T) /\ Cardinality(T) = Cardinality(S)
  <2> DEFINE T == {Merged(e) : e \in S}
             f == [e \in S |-> Merged(e)]
  <2>1. IsFiniteSet(S)
    BY <1>1, FS_Subset
  <2>2. f \in Injection(S, T)
    BY <1>3 DEF Injection, IsInjective
  <2>3. f \in Surjection(S, T)
    BY DEF Surjection
  <2> HIDE DEF f, T
  <2>4. IsFiniteSet(T) /\ Cardinality(T) = Cardinality(S)
    BY <2>1, <2>2, <2>3, FS_Surjection
  <2> QED
    BY <2>4 DEF T
<1>5. IsFiniteSet(events')
  BY <1>4
<1>6. ASSUME NEW s PROVE Count(events', s) = Count(Firsts, s)
  <2> DEFINE S == {e \in Firsts : e.kind.source = s}
  <2>1. {e \in events' : e.kind.source = s} = {Merged(e) : e \in S}
    BY <1>2
  <2>2. S \in SUBSET Firsts
    OBVIOUS
  <2>3. Cardinality({Merged(e) : e \in S}) = Cardinality(S)
    BY <1>4, <2>2
  <2> QED
    BY <2>1, <2>3 DEF Count
<1> QED
  BY <1>5, <1>6

LEMMA DeduplicateStep == ASSUME AccountInv, Deduplicate PROVE AccountInv'
<1>1. /\ stage = "deduplicate" /\ stage' = "limit"
      /\ UNCHANGED <<limits, stream, truncated, retained, active>>
      /\ retained = {} /\ active = <<>>
      /\ events' = {Merged(e) : e \in Firsts} /\ DropAll(events \ Firsts)
  BY DEF Deduplicate, limitVars, AccountInv, StageShape
<1>2. Output' = events' /\ Output = events
  BY <1>1 DEF Output
<1>3. Firsts \in SUBSET events
  BY DEF Firsts
<1>4. /\ dropped' \in [Sources -> Nat]
      /\ \A s \in Sources : Count(events, s) + dropped[s] = Count(Firsts, s) + dropped'[s]
  BY <1>1, <1>3, DroppedAreCounted
<1>5. IsFiniteSet(events') /\ \A s : Count(events', s) = Count(Firsts, s)
  BY <1>1, MergedAreFirsts
<1>6. EventsOfStream'
  <2>1. \A e \in Firsts : /\ Merged(e) = [id |-> Merged(e).id, kind |-> Merged(e).kind, count |-> Merged(e).count]
                          /\ Merged(e).id = e.id
    BY <1>3, MergedEffect
  <2>2. \A e \in events' : e = [id |-> e.id, kind |-> e.kind, count |-> e.count]
    BY <1>1, <2>1
  <2>3. \A e \in events' : e.id \in DOMAIN stream'
    BY <1>1, <1>3, <2>1 DEF AccountInv, EventsOfStream
  <2>4. \A e, f \in events' : e.id = f.id => e = f
    <3>1. \A e, f \in Firsts : Merged(e).id = Merged(f).id => e = f
      BY <1>3, <2>1 DEF AccountInv, EventsOfStream
    <3> QED
      BY <1>1, <3>1
  <2> QED
    BY <1>5, <2>2, <2>3, <2>4 DEF EventsOfStream
<1>7. \A s \in Sources : Count(Output', s) + dropped'[s] = Count(Output, s) + dropped[s]
  BY <1>2, <1>4, <1>5
<1> QED
  BY <1>1, <1>4, <1>6, <1>7, StageStep DEF Stages

LEMMA LimitStep ==
  ASSUME AccountInv, FairInv, WithinLimit \/ StartTurns \/ TakeTurn \/ LimitReached \/ Correlate
  PROVE  AccountInv'
<1>1. UNCHANGED <<limits, stream, events>>
  BY DEF WithinLimit, StartTurns, TakeTurn, LimitReached, Correlate
<1>2. EventsOfStream' /\ dropped \in [Sources -> Nat] /\ retained \subseteq events
  BY <1>1, SameEvents DEF AccountInv, StageShape
<1>3. CASE WithinLimit
  <2>1. /\ stage = "limit" /\ stage' = "correlate" /\ retained' = events /\ UNCHANGED <<dropped, truncated>>
    BY <1>3 DEF WithinLimit
  <2>2. Output' = Output
    BY <1>1, <2>1 DEF Output
  <2>3. \A s \in Sources : Count(Output', s) + dropped'[s] = Count(Output, s) + dropped[s]
    BY <2>1, <2>2
  <2> QED
    BY <1>1, <1>2, <2>1, <2>3, StageStep DEF Stages
<1>4. CASE StartTurns \/ TakeTurn
  <2>1. stage = "limit" /\ stage' = "limit" /\ UNCHANGED <<dropped, truncated>>
    BY <1>4 DEF StartTurns, TakeTurn
  <2>2. Output' = Output
    BY <1>1, <2>1 DEF Output
  <2>3. \A s \in Sources : Count(Output', s) + dropped'[s] = Count(Output, s) + dropped[s]
    BY <2>1, <2>2
  <2>4. retained' \subseteq events
    <3>1. CASE StartTurns
      BY <3>1, <1>2 DEF StartTurns
    <3>2. CASE TakeTurn
      <4>1. active # <<>> /\ RoundRobin /\ retained' = retained \cup {Oldest(Head(active))}
        BY <3>2, <2>1 DEF TakeTurn, FairInv
      <4>2. Head(active) = active[1] /\ 1 \in 1 .. Len(active) /\ active[1] \in Buckets
        BY <4>1 DEF RoundRobin
      <4>3. buckets[active[1]] # {} /\ buckets[active[1]] \subseteq events
        BY <4>1, <4>2 DEF RoundRobin, InBucket
      <4>4. Oldest(active[1]) \in events
        BY <4>3, OldestIsThere
      <4> QED
        BY <1>2, <4>1, <4>2, <4>4
    <3> QED
      BY <1>4, <3>1, <3>2
  <2> QED
    BY <1>1, <1>2, <2>1, <2>3, <2>4, StageStep DEF Stages
<1>5. CASE LimitReached
  <2>1. /\ stage = "limit" /\ stage' = "correlate" /\ UNCHANGED retained /\ truncated' = TRUE
        /\ DropAll(events \ retained)
    BY <1>5 DEF LimitReached, limitVars
  <2>2. Output' = retained /\ Output = events
    BY <1>1, <2>1 DEF Output
  <2>3. /\ dropped' \in [Sources -> Nat]
        /\ \A s \in Sources : Count(events, s) + dropped[s] = Count(retained, s) + dropped'[s]
    BY <1>2, <2>1, DroppedAreCounted
  <2>4. \A s \in Sources : Count(Output', s) + dropped'[s] = Count(Output, s) + dropped[s]
    BY <2>2, <2>3
  <2> QED
    BY <1>1, <1>2, <2>1, <2>3, <2>4, StageStep DEF Stages
<1>6. CASE Correlate
  <2>1. stage = "correlate" /\ stage' = "done" /\ UNCHANGED <<dropped, truncated, retained>>
    BY <1>6 DEF Correlate, limitVars
  <2>2. Output' = Output
    BY <1>1, <2>1 DEF Output
  <2>3. \A s \in Sources : Count(Output', s) + dropped'[s] = Count(Output, s) + dropped[s]
    BY <2>1, <2>2
  <2>4. ~truncated => retained = events
    BY <2>1 DEF AccountInv, Accounted
  <2> QED
    BY <1>1, <1>2, <2>1, <2>3, <2>4, StageStep DEF Stages
<1> QED
  BY <1>3, <1>4, <1>5, <1>6

\* The order of turns starts with every bucket once, none of which has had one.
LEMMA TurnsStart == ASSUME AccountInv, StartTurns PROVE RoundRobin'
<1>1. /\ retained = {} /\ UNCHANGED <<limits, events, retained>>
      /\ buckets' = [b \in Buckets |-> InBucket(b, events)] /\ active' = SetToSeq(Buckets)
  BY DEF StartTurns
<1>2. IsFiniteSet(Buckets)
  <2> DEFINE f == [e \in events |-> Bucket(e)]
  <2>1. f \in Surjection(events, Buckets)
    BY DEF Surjection, Buckets
  <2> HIDE DEF f
  <2> QED
    BY <2>1, FS_Surjection DEF AccountInv, EventsOfStream
<1>3. /\ active' \in Seq(Buckets)
      /\ \A b \in Buckets : \E i \in 1 .. Len(active') : active'[i] = b
      /\ \A i, j \in 1 .. Len(active') : active'[i] = active'[j] => i = j
  BY <1>1, <1>2, OrderOfSet
<1>4. Buckets' = Buckets /\ \A b : Held(b, retained') = 0 /\ InBucket(b, retained) = {}
  <2>1. \A b : InBucket(b, retained) = {}
    BY <1>1 DEF InBucket
  <2> QED
    BY <1>1, <2>1, FS_EmptySet DEF Held, Buckets
<1>5. \A b \in Buckets : buckets'[b] # {}
  BY <1>1 DEF Buckets, InBucket
<1>6. \A i \in 1 .. Len(active') : active'[i] \in Buckets
  BY <1>3
<1>7. buckets' = [b \in Buckets' |-> InBucket(b, events') \ retained']
  <2>1. \A b : InBucket(b, events) \ retained = InBucket(b, events)
    BY <1>1
  <2> QED
    BY <1>1, <1>4, <2>1
<1>8. Cardinality(retained') <= limits'.output
  BY <1>1, FS_EmptySet, LimitsAssumption DEF AccountInv, StageShape
<1>9. active' \in Seq(Buckets')
  BY <1>3, <1>4
<1>10. \A b \in Buckets' : buckets'[b] # {} => \E i \in 1 .. Len(active') : active'[i] = b
  BY <1>3, <1>4
<1>11. \A i \in 1 .. Len(active') : buckets'[active'[i]] # {}
  BY <1>5, <1>6
<1>12. \A i, j \in 1 .. Len(active') : i <= j => Held(active'[i], retained') <= Held(active'[j], retained')
  <2> SUFFICES ASSUME NEW i \in 1 .. Len(active'), NEW j \in 1 .. Len(active')
               PROVE  Held(active'[i], retained') <= Held(active'[j], retained')
    OBVIOUS
  <2>1. Held(active'[i], retained') = 0 /\ Held(active'[j], retained') = 0
    BY <1>4
  <2> QED
    BY <2>1
<1>13. \A b \in Buckets' : Held(b, retained') <= Held(active'[1], retained') + 1
  <2> SUFFICES ASSUME NEW b \in Buckets' PROVE Held(b, retained') <= Held(active'[1], retained') + 1
    OBVIOUS
  <2>1. Held(b, retained') = 0 /\ Held(active'[1], retained') = 0
    BY <1>4
  <2> QED
    BY <2>1
<1> QED
  BY <1>3, <1>7, <1>8, <1>9, <1>10, <1>11, <1>12, <1>13 DEF RoundRobin

\* One turn: the bucket in front has one event more in the output and goes to
\* the end, if it has events left.
LEMMA TurnTaken == ASSUME AccountInv, RoundRobin, TakeTurn PROVE RoundRobin'
<1> DEFINE n == Len(active)
           h == active[1]
           o == Oldest(h)
           left == buckets[h] \ {o}
<1>1. /\ active # <<>> /\ active \in Seq(Buckets) /\ Cardinality(retained) < limits.output
      /\ UNCHANGED <<limits, events>>
  BY DEF TakeTurn, RoundRobin
<1>2. n \in Nat \ {0} /\ Head(active) = h /\ 1 \in 1 .. n /\ \A i \in 1 .. n : active[i] \in Buckets
  BY <1>1
<1>3. /\ retained' = retained \cup {o}
      /\ buckets' = [buckets EXCEPT ![h] = left]
      /\ active' = IF left # {} THEN Append(Tail(active), h) ELSE Tail(active)
  BY <1>2 DEF TakeTurn
<1>4. /\ buckets = [b \in Buckets |-> InBucket(b, events) \ retained]
      /\ buckets[h] = InBucket(h, events) \ retained /\ buckets[h] # {} /\ h \in Buckets
  BY <1>2 DEF RoundRobin
<1>5. o \in InBucket(h, events) /\ o \notin retained
  <2>1. buckets[h] \subseteq events
    BY <1>4 DEF InBucket
  <2>2. o \in buckets[h]
    BY <1>4, <2>1, OldestIsThere
  <2> QED
    BY <1>4, <2>2
<1> HIDE DEF o, h
<1>6. o \in events /\ Bucket(o) = h
  BY <1>5 DEF InBucket
<1>7. Buckets' = Buckets /\ \A b : InBucket(b, events)' = InBucket(b, events)
  BY <1>1 DEF Buckets, InBucket, Bucket
<1>8. ASSUME NEW b
      PROVE  /\ Held(b, retained) \in Nat
             /\ Held(b, retained') = IF b = h THEN Held(b, retained) + 1 ELSE Held(b, retained)
  <2>1. IsFiniteSet(InBucket(b, retained)) /\ o \notin InBucket(b, retained)
    <3>1. InBucket(b, retained) \in SUBSET events
      BY DEF InBucket, AccountInv, StageShape
    <3> QED
      BY <1>5, <3>1, FS_Subset DEF AccountInv, EventsOfStream, InBucket
  <2>2. InBucket(b, retained') = IF b = h THEN InBucket(b, retained) \cup {o} ELSE InBucket(b, retained)
    BY <1>3, <1>6 DEF InBucket
  <2> QED
    BY <2>1, <2>2, FS_AddElement, FS_CardinalityType DEF Held
<1>9. buckets' = [b \in Buckets' |-> InBucket(b, events) \ retained']
  <2>1. \A b \in Buckets : b # h => InBucket(b, events) \ retained' = InBucket(b, events) \ retained
    BY <1>3, <1>6 DEF InBucket
  <2>2. left = InBucket(h, events) \ retained'
    BY <1>3, <1>4
  <2> QED
    BY <1>3, <1>4, <1>7, <2>1, <2>2
<1>10. left # {} <=> buckets'[h] # {}
  BY <1>3, <1>4
<1>11. \A b \in Buckets : b # h => buckets'[b] = buckets[b]
  BY <1>3, <1>4
<1> HIDE DEF left
<1>12. /\ active' \in Seq(Buckets)
       /\ Len(active') = IF left # {} THEN n ELSE n - 1
       /\ \A i \in 1 .. (n - 1) : active'[i] = active[i + 1]
       /\ left # {} => active'[n] = h
  <2>1. /\ Tail(active) \in Seq(Buckets) /\ Len(Tail(active)) = n - 1
        /\ \A i \in 1 .. (n - 1) : Tail(active)[i] = active[i + 1]
    BY <1>1, <1>2
  <2>2. /\ Append(Tail(active), h) \in Seq(Buckets) /\ Len(Append(Tail(active), h)) = n
        /\ Append(Tail(active), h)[n] = h
        /\ \A i \in 1 .. (n - 1) : Append(Tail(active), h)[i] = Tail(active)[i]
    BY <1>2, <1>4, <2>1
  <2> QED
    BY <1>3, <2>1, <2>2
<1>13. \A i \in 1 .. n : active[i] = h => i = 1
  BY <1>2 DEF RoundRobin, h
<1> HIDE DEF n
<1>14. ASSUME NEW i \in 1 .. Len(active')
       PROVE  \/ i \in 1 .. (n - 1) /\ i + 1 \in 1 .. n /\ active'[i] = active[i + 1] /\ active'[i] # h
              \/ i = n /\ left # {} /\ active'[i] = h
  BY <1>2, <1>12, <1>13
<1>15. \A i, j \in 1 .. Len(active') : active'[i] = active'[j] => i = j
  <2> SUFFICES ASSUME NEW i \in 1 .. Len(active'), NEW j \in 1 .. Len(active'), active'[i] = active'[j]
               PROVE  i = j
    OBVIOUS
  <2>1. \A k, m \in 1 .. n : active[k] = active[m] => k = m
    BY DEF RoundRobin, n
  <2>2. \/ i \in 1 .. (n - 1) /\ i + 1 \in 1 .. n /\ active'[i] = active[i + 1]
        \/ i = n /\ active'[i] = h
    BY <1>14
  <2>3. \/ j \in 1 .. (n - 1) /\ j + 1 \in 1 .. n /\ active'[j] = active[j + 1]
        \/ j = n /\ active'[j] = h
    BY <1>14
  <2>4. active'[i] = h <=> i = n
    BY <1>2, <1>14
  <2>5. active'[j] = h <=> j = n
    BY <1>2, <1>14
  <2>6. CASE active'[i] = h
    BY <2>4, <2>5, <2>6
  <2>7. CASE active'[i] # h
    <3>1. i + 1 \in 1 .. n /\ j + 1 \in 1 .. n /\ active[i + 1] = active[j + 1]
      BY <2>2, <2>3, <2>7
    <3>2. i + 1 = j + 1
      BY <2>1, <3>1
    <3> QED
      BY <3>2
  <2> QED
    BY <2>6, <2>7
<1>16. \A b \in Buckets : buckets'[b] # {} => \E i \in 1 .. Len(active') : active'[i] = b
  <2> SUFFICES ASSUME NEW b \in Buckets, buckets'[b] # {} PROVE \E i \in 1 .. Len(active') : active'[i] = b
    OBVIOUS
  <2>1. CASE b = h
    BY <2>1, <1>2, <1>10, <1>12
  <2>2. CASE b # h
    <3>1. PICK i \in 1 .. n : active[i] = b
      BY <2>2, <1>11 DEF RoundRobin, n
    <3>2. i # 1
      BY <2>2, <3>1 DEF h
    <3>3. i - 1 \in 1 .. (n - 1) /\ (i - 1) + 1 = i /\ i - 1 \in 1 .. Len(active')
      BY <1>2, <1>12, <3>2
    <3>4. active'[i - 1] = b
      BY <1>12, <3>1, <3>3
    <3> QED
      BY <3>3, <3>4
  <2> QED
    BY <2>1, <2>2
<1>17. ASSUME NEW i \in 1 .. Len(active') PROVE active'[i] \in Buckets /\ buckets'[active'[i]] # {}
  <2>1. CASE i \in 1 .. (n - 1) /\ i + 1 \in 1 .. n /\ active'[i] = active[i + 1] /\ active'[i] # h
    <3>1. active'[i] \in Buckets /\ buckets[active'[i]] # {}
      BY <2>1, <1>2 DEF RoundRobin, n
    <3> QED
      BY <2>1, <3>1, <1>11
  <2>2. CASE left # {} /\ active'[i] = h
    BY <2>2, <1>4, <1>10
  <2> QED
    BY <1>14, <2>1, <2>2
<1>18. \A b \in Buckets : Held(b, retained) <= Held(h, retained) + 1
  BY <1>1 DEF RoundRobin, h
<1>19. \A i, j \in 1 .. n : i <= j => Held(active[i], retained) <= Held(active[j], retained)
  BY DEF RoundRobin, n
<1>20. ASSUME NEW i \in 1 .. Len(active')
       PROVE  /\ Held(active'[i], retained') \in Nat /\ Held(h, retained) \in Nat
              /\ Held(h, retained) <= Held(active'[i], retained')
              /\ Held(active'[i], retained') <= Held(h, retained) + 1
  <2>1. Held(h, retained) \in Nat /\ Held(h, retained') = Held(h, retained) + 1
    BY <1>8
  <2>2. CASE i \in 1 .. (n - 1) /\ i + 1 \in 1 .. n /\ active'[i] = active[i + 1] /\ active'[i] # h
    <3>1. Held(active'[i], retained) \in Nat /\ Held(active'[i], retained') = Held(active'[i], retained)
      BY <2>2, <1>8
    <3>2. Held(h, retained) <= Held(active[i + 1], retained)
      BY <2>2, <1>2, <1>19 DEF h
    <3>3. Held(active'[i], retained) <= Held(h, retained) + 1
      BY <1>17, <1>18
    <3> QED
      BY <2>1, <2>2, <3>1, <3>2, <3>3
  <2>3. CASE active'[i] = h
    BY <2>1, <2>3
  <2> QED
    BY <1>14, <2>2, <2>3
<1>21. ASSUME NEW i \in 1 .. Len(active'), NEW j \in 1 .. Len(active'), i <= j
       PROVE  Held(active'[i], retained') <= Held(active'[j], retained')
  <2>1. CASE j = n /\ left # {} /\ active'[j] = h
    <3>1. Held(active'[j], retained') = Held(h, retained) + 1
      BY <2>1, <1>8
    <3> QED
      BY <3>1, <1>20
  <2>2. CASE j \in 1 .. (n - 1) /\ j + 1 \in 1 .. n /\ active'[j] = active[j + 1] /\ active'[j] # h
    <3>1. /\ i \in 1 .. (n - 1) /\ i + 1 \in 1 .. n /\ i + 1 <= j + 1
          /\ active'[i] = active[i + 1] /\ active'[i] # h
      BY <2>2, <1>2, <1>14, <1>21
    <3>2. Held(active[i + 1], retained) <= Held(active[j + 1], retained)
      BY <2>2, <3>1, <1>19
    <3>3. /\ Held(active'[i], retained') = Held(active'[i], retained)
          /\ Held(active'[j], retained') = Held(active'[j], retained)
      BY <2>2, <3>1, <1>8
    <3> QED
      BY <2>2, <3>1, <3>2, <3>3
  <2> QED
    BY <1>14, <2>1, <2>2
<1>22. ASSUME active' # <<>>, NEW b \in Buckets PROVE Held(b, retained') <= Held(active'[1], retained') + 1
  <2>1. 1 \in 1 .. Len(active')
    BY <1>12, <1>22
  <2>2. /\ Held(active'[1], retained') \in Nat /\ Held(h, retained) \in Nat
        /\ Held(h, retained) <= Held(active'[1], retained')
    BY <2>1, <1>20
  <2>3. /\ Held(b, retained) \in Nat /\ Held(b, retained) <= Held(h, retained) + 1
        /\ Held(b, retained') = IF b = h THEN Held(b, retained) + 1 ELSE Held(b, retained)
    BY <1>8, <1>18
  <2>4. CASE b = h
    BY <2>2, <2>3, <2>4
  <2>5. CASE b # h
    BY <2>2, <2>3, <2>5
  <2> QED
    BY <2>4, <2>5
<1>23. Cardinality(retained') <= limits'.output
  <2>1. IsFiniteSet(retained)
    BY FS_Subset DEF AccountInv, StageShape, EventsOfStream
  <2>2. Cardinality(retained) \in Nat /\ Cardinality(retained') = Cardinality(retained) + 1
    BY <1>3, <1>5, <2>1, FS_AddElement, FS_CardinalityType
  <2> QED
    BY <1>1, <2>2, LimitsAssumption DEF AccountInv, StageShape
<1>24. buckets' = [b \in Buckets' |-> InBucket(b, events') \ retained']
  BY <1>1, <1>9
<1> QED
  BY <1>7, <1>12, <1>15, <1>16, <1>17, <1>21, <1>22, <1>23, <1>24 DEF RoundRobin

\* When the output is full in the middle of a round, a bucket that has an event
\* left is in the queue, behind or at the front, whose bucket is at most one turn
\* behind any other.
LEMMA FullOutputIsFair == ASSUME AccountInv, RoundRobin, LimitReached PROVE FairOutput'
<1>1. /\ active # <<>> /\ Cardinality(retained) >= limits.output
      /\ UNCHANGED <<limits, events, retained>>
  BY DEF LimitReached, limitVars
<1>2. IsFiniteSet(retained) /\ Cardinality(retained) \in Nat /\ limits.output \in Nat
  <2>1. IsFiniteSet(retained)
    BY FS_Subset DEF AccountInv, StageShape, EventsOfStream
  <2> QED
    BY <2>1, FS_CardinalityType, LimitsAssumption DEF AccountInv, StageShape
<1>3. Cardinality(retained) = limits.output
  BY <1>1, <1>2 DEF RoundRobin
<1>4. ASSUME NEW b PROVE Held(b, retained) \in Nat
  <2>1. InBucket(b, retained) \in SUBSET retained
    BY DEF InBucket
  <2> QED
    BY <1>2, <2>1, FS_Subset, FS_CardinalityType DEF Held
<1>5. ASSUME NEW b \in Buckets, NEW other \in Buckets, InBucket(b, retained) # InBucket(b, events)
      PROVE  Held(other, retained) <= Held(b, retained) + 1
  <2>1. InBucket(b, events) \ retained # {}
    BY <1>5 DEF InBucket, AccountInv, StageShape
  <2>2. PICK i \in 1 .. Len(active) : active[i] = b
    BY <2>1 DEF RoundRobin
  <2>3. 1 \in 1 .. Len(active) /\ 1 <= i
    BY <2>2
  <2>4. Held(active[1], retained) <= Held(b, retained)
    BY <2>2, <2>3 DEF RoundRobin
  <2>5. Held(other, retained) <= Held(active[1], retained) + 1
    BY <1>1 DEF RoundRobin
  <2>6. Held(other, retained) \in Nat /\ Held(active[1], retained) \in Nat /\ Held(b, retained) \in Nat
    BY <1>4
  <2> QED
    BY <2>4, <2>5, <2>6
<1>6. FairOutput
  BY <1>3, <1>5 DEF FairOutput
<1> QED
  BY <1>1, <1>6 DEF FairOutput, Held, InBucket, Buckets, Bucket

\* Where nothing changes that the shares depend on.
LEMMA FairOutputStays == ASSUME FairOutput, UNCHANGED <<limits, events, retained>> PROVE FairOutput'
BY DEF FairOutput, Held, InBucket, Buckets, Bucket

LEMMA FairStep ==
  ASSUME AccountInv, FairInv, WithinLimit \/ StartTurns \/ TakeTurn \/ LimitReached \/ Correlate
  PROVE  FairInv'
<1>1. CASE WithinLimit
  <2>1. stage' = "correlate" /\ retained' = events /\ events' = events
    BY <1>1 DEF WithinLimit
  <2>2. IsFiniteSet(events') /\ Cardinality(events') \in Nat
    BY <2>1, FS_CardinalityType DEF AccountInv, EventsOfStream
  <2>3. FairOutput'
    BY <2>1, <2>2 DEF FairOutput
  <2> QED
    BY <2>1, <2>3 DEF FairInv
<1>2. CASE StartTurns
  <2>1. stage' = "limit" /\ RoundRobin'
    BY <1>2, TurnsStart DEF StartTurns
  <2> QED
    BY <2>1 DEF FairInv
<1>3. CASE TakeTurn
  <2>1. stage' = "limit" /\ RoundRobin
    BY <1>3 DEF TakeTurn, FairInv
  <2>2. RoundRobin'
    BY <1>3, <2>1, TurnTaken
  <2> QED
    BY <2>1, <2>2 DEF FairInv
<1>4. CASE LimitReached
  <2>1. stage' = "correlate" /\ RoundRobin
    BY <1>4 DEF LimitReached, FairInv
  <2>2. FairOutput'
    BY <1>4, <2>1, FullOutputIsFair
  <2> QED
    BY <2>1, <2>2 DEF FairInv
<1>5. CASE Correlate
  <2>1. stage' = "done" /\ UNCHANGED <<limits, events, retained>> /\ FairOutput
    BY <1>5 DEF Correlate, FairInv, limitVars
  <2>2. FairOutput'
    BY <2>1, FairOutputStays
  <2> QED
    BY <2>1, <2>2 DEF FairInv
<1> QED
  BY <1>1, <1>2, <1>3, <1>4, <1>5

-----------------------------------------------------------------------------
(* Episodes. *)

\* What a sorted sequence of a set of events is.
InOrder(c, S) ==
  /\ c \in Seq(S)
  /\ \A e \in S : \E i \in 1 .. Len(c) : c[i] = e
  /\ \A i, j \in 1 .. Len(c) : c[i] = c[j] => i = j
  /\ \A i \in 1 .. Len(c) : c[i].kind.time \in Int
  /\ \A i, j \in 1 .. Len(c) : i <= j => c[i].kind.time <= c[j].kind.time

\* Events that can be told apart by their ids have each a place of their own.
LEMMA PlacesDiffer ==
  ASSUME NEW S, IsFiniteSet(S), \A e \in S : e.kind.time \in Int /\ e.id \in Nat,
         NEW e \in S, NEW f \in S, Sooner(e, f)
  PROVE  LET place(x) == Cardinality({y \in S : Sooner(y, x)})
         IN  /\ place(e) \in Nat /\ place(f) \in Nat /\ place(e) < place(f)
<1> DEFINE before(x) == {y \in S : Sooner(y, x)}
<1>1. before(e) \cup {e} \subseteq before(f)
  <2>1. ASSUME NEW y \in S, Sooner(y, e) PROVE Sooner(y, f)
    BY <2>1 DEF Sooner
  <2> QED
    BY <2>1
<1>2. e \notin before(e)
  BY DEF Sooner
<1>3. before(e) \in SUBSET S /\ before(f) \in SUBSET S
  OBVIOUS
<1> HIDE DEF before
<1>4. /\ IsFiniteSet(before(e)) /\ IsFiniteSet(before(f))
      /\ Cardinality(before(e)) \in Nat /\ Cardinality(before(f)) \in Nat
  BY <1>3, FS_Subset, FS_CardinalityType
<1>5. Cardinality(before(e) \cup {e}) = Cardinality(before(e)) + 1
  BY <1>2, <1>4, FS_AddElement
<1>6. Cardinality(before(e) \cup {e}) <= Cardinality(before(f))
  BY <1>1, <1>4, FS_Subset
<1>7. Cardinality(before(e)) < Cardinality(before(f))
  BY <1>4, <1>5, <1>6
<1> QED
  BY <1>4, <1>7 DEF before

LEMMA PlacesAreTheFirst ==
  ASSUME NEW S, IsFiniteSet(S), \A e \in S : e.kind.time \in Int /\ e.id \in Nat,
         \A e, f \in S : e.id = f.id => e = f
  PROVE  LET place(x) == Cardinality({y \in S : Sooner(y, x)})
             n == Cardinality(S)
         IN  /\ n \in Nat
             /\ \A e \in S : place(e) \in 0 .. n - 1
             /\ \A e, f \in S : place(e) = place(f) => e = f
             /\ \A i \in 0 .. n - 1 : \E e \in S : place(e) = i
<1> DEFINE place(x) == Cardinality({y \in S : Sooner(y, x)})
           n == Cardinality(S)
           places == [e \in S |-> place(e)]
<1>1. n \in Nat
  BY FS_CardinalityType
<1>2. ASSUME NEW e \in S PROVE place(e) \in 0 .. n - 1
  <2> DEFINE before == {y \in S : Sooner(y, e)}
  <2>1. before \subseteq S /\ e \notin before
    BY DEF Sooner
  <2> HIDE DEF before
  <2>2. IsFiniteSet(before) /\ Cardinality(before) \in Nat
    BY <2>1, FS_Subset, FS_CardinalityType
  <2>3. Cardinality(before) <= n /\ Cardinality(before) # n
    <3>1. Cardinality(before) <= n /\ (Cardinality(before) = n => before = S)
      BY <2>1, FS_Subset
    <3> QED
      BY <2>1, <3>1
  <2>4. Cardinality(before) \in 0 .. n - 1
    BY <1>1, <2>2, <2>3
  <2> QED
    BY <2>4 DEF before
<1>3. ASSUME NEW e \in S, NEW f \in S, place(e) = place(f) PROVE e = f
  <2>1. Sooner(e, f) => place(e) < place(f) /\ place(e) \in Nat
    BY PlacesDiffer
  <2>2. Sooner(f, e) => place(f) < place(e) /\ place(f) \in Nat
    BY PlacesDiffer
  <2>3. ~Sooner(e, f) /\ ~Sooner(f, e)
    BY <1>3, <2>1, <2>2
  <2>4. e.id = f.id
    BY <2>3 DEF Sooner
  <2> QED
    BY <2>4
<1> HIDE DEF place
<1>4. places \in Injection(S, 0 .. n - 1)
  BY <1>2, <1>3 DEF Injection, IsInjective
<1>5. IsFiniteSet(0 .. n - 1) /\ Cardinality(0 .. n - 1) = n
  BY <1>1, FS_Interval
<1> HIDE DEF places
<1>6. places \in Surjection(S, 0 .. n - 1)
  BY <1>4, <1>5, FS_Injection
<1>7. \A i \in 0 .. n - 1 : \E e \in S : place(e) = i
  <2>1. \A i \in 0 .. n - 1 : \E e \in S : places[e] = i
    BY <1>6 DEF Surjection
  <2> QED
    BY <2>1 DEF places
<1> QED
  BY <1>1, <1>2, <1>3, <1>7 DEF place

\* The events of a scope are put in the order of time.
LEMMA CandidatesInOrder ==
  ASSUME NEW scope, IsFiniteSet(Scoped(scope)),
         \A e \in Scoped(scope) : e.kind.time \in Int /\ e.id \in Nat,
         \A e, f \in Scoped(scope) : e.id = f.id => e = f
  PROVE  InOrder(Candidates(scope), Scoped(scope))
<1> DEFINE S == Scoped(scope)
           n == Cardinality(S)
           place(x) == Cardinality({y \in S : Sooner(y, x)})
           nth(i) == CHOOSE e \in S : place(e) = i - 1
           c == [i \in 1 .. n |-> nth(i)]
<1>1. Candidates(scope) = c
  BY DEF Candidates
<1> HIDE DEF S
<1>2. /\ n \in Nat
      /\ \A e \in S : place(e) \in 0 .. n - 1
      /\ \A e, f \in S : place(e) = place(f) => e = f
      /\ \A i \in 0 .. n - 1 : \E e \in S : place(e) = i
  BY PlacesAreTheFirst DEF S
<1>3. \A e, f \in S : Sooner(e, f) => place(e) < place(f)
  BY PlacesDiffer DEF S
<1> HIDE DEF place, n
<1>4. \A i \in 1 .. n : nth(i) \in S /\ place(nth(i)) = i - 1
  <2> SUFFICES ASSUME NEW i \in 1 .. n PROVE nth(i) \in S /\ place(nth(i)) = i - 1
    OBVIOUS
  <2>1. \E e \in S : place(e) = i - 1
    <3>1. i - 1 \in 0 .. n - 1
      BY <1>2
    <3> QED
      BY <1>2, <3>1
  <2> QED
    BY <2>1
<1> HIDE DEF nth
<1>5. c \in Seq(S) /\ Len(c) = n /\ \A i \in 1 .. n : c[i] = nth(i)
  BY <1>2, <1>4
<1> HIDE DEF c
<1>6. ASSUME NEW e \in S PROVE \E i \in 1 .. n : c[i] = e
  <2>1. place(e) \in 0 .. n - 1 /\ place(e) + 1 \in 1 .. n /\ (place(e) + 1) - 1 = place(e)
    BY <1>2
  <2>2. place(nth(place(e) + 1)) = place(e) /\ nth(place(e) + 1) \in S
    BY <1>4, <2>1
  <2>3. nth(place(e) + 1) = e
    BY <1>2, <2>2
  <2> QED
    BY <1>5, <2>1, <2>3
<1>7. ASSUME NEW i \in 1 .. n, NEW j \in 1 .. n, c[i] = c[j] PROVE i = j
  <2>1. i - 1 = j - 1
    BY <1>4, <1>5, <1>7
  <2> QED
    BY <1>2, <2>1
<1>8. \A i \in 1 .. n : c[i].kind.time \in Int
  BY <1>4, <1>5 DEF S
<1>9. ASSUME NEW i \in 1 .. n, NEW j \in 1 .. n, i <= j PROVE c[i].kind.time <= c[j].kind.time
  <2>1. /\ c[i] \in S /\ place(c[i]) = i - 1 /\ c[j] \in S /\ place(c[j]) = j - 1
        /\ c[i].kind.time \in Int /\ c[j].kind.time \in Int
    BY <1>4, <1>5, <1>8
  <2>2. ~Sooner(c[j], c[i])
    <3>1. ~(place(c[j]) < place(c[i]))
      BY <1>2, <1>9, <2>1
    <3> QED
      BY <1>3, <2>1, <3>1
  <2> QED
    BY <2>1, <2>2 DEF Sooner
<1> QED
  BY <1>1, <1>5, <1>6, <1>7, <1>8, <1>9 DEF InOrder, S

LEMMA LeastPlace ==
  ASSUME NEW S \in SUBSET Nat, S # {}
  PROVE  Min(S) \in S /\ \A m \in S : Min(S) <= m
<1>1. \E m \in S : \A k \in S : m <= k
  BY LeastNatural
<1> QED
  BY <1>1 DEF Min

\* The window that ends with an event: it starts with the first event near it.
LEMMA LeftEffect ==
  ASSUME NEW S, NEW c, InOrder(c, S), NEW start \in 1 .. Len(c), NEW right \in start .. Len(c)
  PROVE  /\ Left(c, start, right) \in start .. right
         /\ c[right].kind.time - c[Left(c, start, right)].kind.time <= Window
         /\ \A i \in start .. right :
              c[right].kind.time - c[i].kind.time <= Window => Left(c, start, right) <= i
<1> DEFINE near == {i \in start .. right : c[right].kind.time - c[i].kind.time <= Window}
<1>1. Len(c) \in Nat /\ right \in 1 .. Len(c) /\ start .. right \subseteq Nat
  BY DEF InOrder
<1>2. right \in near
  <2>1. c[right].kind.time \in Int /\ right \in start .. right
    BY <1>1 DEF InOrder
  <2>2. c[right].kind.time - c[right].kind.time <= Window
    BY <2>1, LimitsAssumption
  <2> QED
    BY <2>1, <2>2
<1>3. near \in SUBSET Nat
  BY <1>1
<1>4. Min(near) \in near /\ \A i \in near : Min(near) <= i
  BY <1>2, <1>3, LeastPlace
<1>5. Left(c, start, right) = Min(near)
  BY DEF Left
<1> HIDE DEF near
<1>6. \A i \in near : i \in start .. right /\ c[right].kind.time - c[i].kind.time <= Window
  BY DEF near
<1>7. \A i \in start .. right : c[right].kind.time - c[i].kind.time <= Window => i \in near
  BY DEF near
<1> QED
  BY <1>4, <1>5, <1>6, <1>7

\* A match of the search from a start.
LEMMA FirstMatch ==
  ASSUME NEW S, NEW c, InOrder(c, S), NEW start \in 1 .. Len(c) + 1, Matches(c, start) # {}
  PROVE  LET right == Min(Matches(c, start))
             left == Left(c, start, right)
         IN  /\ start \in 1 .. Len(c) /\ right \in start .. Len(c) /\ left \in start .. right /\ left < right
             /\ c[right].kind.time - c[left].kind.time <= Window
             /\ Complete(c, left .. right)
             /\ \A j \in Matches(c, start) : right <= j
<1> DEFINE right == Min(Matches(c, start))
<1>1. Len(c) \in Nat
  BY DEF InOrder
<1>2. /\ Matches(c, start) \in SUBSET Nat
      /\ \A j \in Matches(c, start) :
           /\ j \in start .. Len(c)
           /\ Left(c, start, j) < j /\ Complete(c, Left(c, start, j) .. j)
  BY <1>1 DEF Matches
<1>3. right \in Matches(c, start) /\ \A j \in Matches(c, start) : right <= j
  BY <1>2, LeastPlace
<1> HIDE DEF right
<1>4. right \in start .. Len(c) /\ Left(c, start, right) < right /\ Complete(c, Left(c, start, right) .. right)
  BY <1>2, <1>3
<1>5. start \in 1 .. Len(c)
  BY <1>1, <1>4
<1>6. /\ Left(c, start, right) \in start .. right
      /\ c[right].kind.time - c[Left(c, start, right)].kind.time <= Window
  BY <1>4, <1>5, LeftEffect
<1> QED
  BY <1>3, <1>4, <1>5, <1>6 DEF right

\* Events near each other that complete every group are a match.
LEMMA NearIsMatch ==
  ASSUME NEW S, NEW c, InOrder(c, S), NEW start \in 1 .. Len(c),
         NEW i \in start .. Len(c), NEW j \in start .. Len(c), i < j,
         c[j].kind.time - c[i].kind.time <= Window, Complete(c, i .. j)
  PROVE  j \in Matches(c, start)
<1>1. Len(c) \in Nat /\ i \in start .. j
  BY DEF InOrder
<1>2. Left(c, start, j) \in start .. j /\ Left(c, start, j) <= i
  BY <1>1, LeftEffect
<1>3. i .. j \subseteq Left(c, start, j) .. j /\ Left(c, start, j) < j
  BY <1>1, <1>2
<1>4. Complete(c, Left(c, start, j) .. j)
  BY <1>3 DEF Complete
<1> QED
  BY <1>3, <1>4 DEF Matches

\* What the episodes found from a start are: each lies in one window and
\* completes every group, together they meet every such window, and they do not
\* overlap.
Holds(episode, c, left, right) == \A e : e \in episode.match <=> \E i \in left .. right : e = c[i]

IsSpan(c, start, episode) ==
  \E left, right \in start .. Len(c) :
    /\ left < right /\ c[right].kind.time - c[left].kind.time <= Window /\ Complete(c, left .. right)
    /\ Holds(episode, c, left, right)

MeetsAll(c, start, found) ==
  \A i, j \in start .. Len(c) :
    i < j /\ c[j].kind.time - c[i].kind.time <= Window /\ Complete(c, i .. j) =>
      \E e \in found : \E k \in i .. j : c[k] \in e.match

Apart(found) == \A e, f \in found : e # f => e.match \cap f.match = {}

Searched(c, start, found) ==
  (\A e \in found : IsSpan(c, start, e)) /\ MeetsAll(c, start, found) /\ Apart(found)

LEMMA EpisodeMatch ==
  ASSUME NEW scope, NEW S, NEW c \in Seq(S), NEW start, NEW left \in 1 .. Len(c), NEW right \in 1 .. Len(c),
         left < right, right = Min(Matches(c, start)), left = Left(c, start, right)
  PROVE  Holds(EpisodeAt(scope, c, start), c, left, right)
<1> DEFINE match == SubSeq(c, left, right)
<1>1. EpisodeAt(scope, c, start).match = ToSet(match)
  BY DEF EpisodeAt
<1>2. Len(c) \in Nat /\ left \in Nat /\ right \in Nat
  OBVIOUS
<1>3. /\ Len(match) = right - left + 1 /\ DOMAIN match = 1 .. (right - left + 1)
      /\ \A i \in 1 .. (right - left + 1) : match[i] = c[left + i - 1]
  BY <1>2
<1> HIDE DEF match
<1>4. ToSet(match) = {match[i] : i \in 1 .. (right - left + 1)}
  BY <1>3 DEF ToSet
<1>5. \A i \in 1 .. (right - left + 1) : left + i - 1 \in left .. right
  BY <1>2
<1>6. \A k \in left .. right : k - left + 1 \in 1 .. (right - left + 1) /\ left + (k - left + 1) - 1 = k
  BY <1>2
<1>7. ASSUME NEW e, e \in ToSet(match) PROVE \E i \in left .. right : e = c[i]
  <2>1. PICK i \in 1 .. (right - left + 1) : e = match[i]
    BY <1>4, <1>7
  <2>2. left + i - 1 \in left .. right /\ e = c[left + i - 1]
    BY <1>3, <1>5, <2>1
  <2> QED
    BY <2>2
<1>8. ASSUME NEW k \in left .. right PROVE c[k] \in ToSet(match)
  <2>1. k - left + 1 \in 1 .. (right - left + 1) /\ left + (k - left + 1) - 1 = k
    BY <1>6
  <2>2. match[k - left + 1] = c[k]
    BY <1>3, <2>1
  <2> QED
    BY <1>4, <2>1, <2>2
<1>9. ASSUME NEW e PROVE e \in ToSet(match) <=> \E i \in left .. right : e = c[i]
  BY <1>7, <1>8
<1> QED
  BY <1>1, <1>9 DEF Holds

\* Without a match nothing is to be found.
LEMMA SearchEnds ==
  ASSUME NEW S, NEW c, InOrder(c, S), NEW start \in 1 .. Len(c) + 1, Matches(c, start) = {}
  PROVE  Searched(c, start, {})
<1>1. Len(c) \in Nat
  BY DEF InOrder
<1>2. ASSUME NEW i \in start .. Len(c), NEW j \in start .. Len(c), i < j,
             c[j].kind.time - c[i].kind.time <= Window, Complete(c, i .. j)
      PROVE  FALSE
  <2>1. start \in 1 .. Len(c)
    BY <1>1
  <2>2. j \in Matches(c, start)
    BY <1>2, <2>1, NearIsMatch
  <2> QED
    BY <2>2
<1> QED
  BY <1>2 DEF Searched, MeetsAll, Apart

\* The first match, and what is found after it.
LEMMA SearchGoesOn ==
  ASSUME NEW scope, NEW S, NEW c, InOrder(c, S), NEW start \in 1 .. Len(c) + 1, Matches(c, start) # {},
         NEW found, Searched(c, Min(Matches(c, start)) + 1, found)
  PROVE  Searched(c, start, {EpisodeAt(scope, c, start)} \cup found)
<1> DEFINE right == Min(Matches(c, start))
           left == Left(c, start, right)
           episode == EpisodeAt(scope, c, start)
<1>1. Len(c) \in Nat
  BY DEF InOrder
<1>2. /\ start \in 1 .. Len(c) /\ right \in start .. Len(c) /\ left \in start .. right /\ left < right
      /\ c[right].kind.time - c[left].kind.time <= Window
      /\ Complete(c, left .. right)
      /\ \A j \in Matches(c, start) : right <= j
  BY FirstMatch
<1> HIDE DEF left
<1>3. \A e : e \in episode.match <=> \E i \in left .. right : e = c[i]
  <2>1. right = Min(Matches(c, start))
    OBVIOUS
  <2>2. left = Left(c, start, right)
    BY DEF left
  <2> HIDE DEF right
  <2>3. c \in Seq(S)
    BY DEF InOrder
  <2>4. right \in 1 .. Len(c)
    BY <1>1, <1>2
  <2>5. left \in 1 .. Len(c)
    BY <1>1, <1>2, <2>4
  <2>6. left < right
    BY <1>2
  <2> HIDE DEF episode
  <2>7. Holds(EpisodeAt(scope, c, start), c, left, right)
    BY <2>1, <2>2, <2>3, <2>4, <2>5, <2>6, EpisodeMatch, Zenon
  <2> QED
    BY <2>7 DEF episode, Holds
<1>4. Searched(c, right + 1, found)
  OBVIOUS
<1> HIDE DEF right, episode
<1>5. IsSpan(c, start, episode)
  <2>1. left \in start .. Len(c)
    BY <1>1, <1>2
  <2> QED
    BY <1>2, <1>3, <2>1 DEF IsSpan, Holds
<1>6. ASSUME NEW e \in found PROVE IsSpan(c, start, e) /\ e.match \cap episode.match = {}
  <2>1. PICK l \in right + 1 .. Len(c), r \in right + 1 .. Len(c) :
          /\ l < r /\ c[r].kind.time - c[l].kind.time <= Window /\ Complete(c, l .. r)
          /\ \A x : x \in e.match <=> \E i \in l .. r : x = c[i]
    BY <1>4 DEF Searched, IsSpan, Holds
  <2>2. l \in start .. Len(c) /\ r \in start .. Len(c)
    BY <1>1, <1>2
  <2>3. IsSpan(c, start, e)
    BY <2>1, <2>2 DEF IsSpan, Holds
  <2>4. ASSUME NEW i \in left .. right, NEW k \in l .. r, c[i] = c[k] PROVE FALSE
    <3>1. i \in 1 .. Len(c) /\ k \in 1 .. Len(c) /\ i # k
      BY <1>1, <1>2
    <3> QED
      BY <2>4, <3>1 DEF InOrder
  <2> QED
    BY <1>3, <2>1, <2>3, <2>4
<1>7. ASSUME NEW i \in start .. Len(c), NEW j \in start .. Len(c), i < j,
             c[j].kind.time - c[i].kind.time <= Window, Complete(c, i .. j)
      PROVE  \E e \in {episode} \cup found : \E k \in i .. j : c[k] \in e.match
  <2>1. right <= j
    BY <1>2, <1>7, NearIsMatch
  <2>2. CASE i <= right
    <3>1. right \in i .. j /\ c[right] \in episode.match
      BY <1>1, <1>2, <1>3, <2>1, <2>2
    <3> QED
      BY <3>1
  <2>3. CASE ~(i <= right)
    <3>1. i \in right + 1 .. Len(c) /\ j \in right + 1 .. Len(c)
      BY <1>1, <1>2, <1>7, <2>3
    <3> QED
      BY <1>4, <1>7, <3>1 DEF Searched, MeetsAll
  <2> QED
    BY <2>2, <2>3
<1>8. Apart({episode} \cup found)
  BY <1>4, <1>6 DEF Searched, Apart
<1>9. Searched(c, start, {episode} \cup found)
  BY <1>4, <1>5, <1>6, <1>7, <1>8 DEF Searched, MeetsAll
<1> QED
  BY <1>9 DEF episode

\* f searches from every start from m on.
SearchFrom(scope, c, m, f) ==
  f = [start \in m .. Len(c) + 1 |->
         IF Matches(c, start) = {} THEN {}
         ELSE {EpisodeAt(scope, c, start)} \cup f[Min(Matches(c, start)) + 1]]

\* There is such a search: one from m can be extended to one from m - 1, as it
\* only looks at later starts.
LEMMA SearchExists ==
  ASSUME NEW scope, NEW S, NEW c, InOrder(c, S)
  PROVE  \E f : SearchFrom(scope, c, 1, f)
<1> DEFINE N == Len(c) + 1
           T == {m \in 1 .. N : \E f : SearchFrom(scope, c, m, f)}
<1>1. N \in Nat /\ N >= 1 /\ N = Len(c) + 1 /\ Len(c) \in Nat
  BY DEF InOrder
<1>2. N \in T
  <2> DEFINE f == [start \in N .. Len(c) + 1 |-> {}]
  <2>1. \A start \in N .. Len(c) + 1 : Matches(c, start) = {}
    <3>1. \A start \in N .. Len(c) + 1 : start .. Len(c) = {}
      BY <1>1
    <3> QED
      BY <3>1 DEF Matches
  <2>2. f = [start \in N .. Len(c) + 1 |->
               IF Matches(c, start) = {} THEN {}
               ELSE {EpisodeAt(scope, c, start)} \cup f[Min(Matches(c, start)) + 1]]
    BY <2>1
  <2> HIDE DEF f
  <2>3. SearchFrom(scope, c, N, f)
    BY <2>2 DEF SearchFrom
  <2> QED
    BY <1>1, <2>3
<1>3. ASSUME NEW m \in T, m > 1 PROVE m - 1 \in T
  <2>1. PICK f : SearchFrom(scope, c, m, f)
    OBVIOUS
  <2>2. m \in 1 .. N /\ m - 1 \in 1 .. N
    BY <1>1, <1>3
  <2> DEFINE step(start, g) ==
               IF Matches(c, start) = {} THEN {}
               ELSE {EpisodeAt(scope, c, start)} \cup g[Min(Matches(c, start)) + 1]
             h == [start \in m - 1 .. Len(c) + 1 |-> IF start = m - 1 THEN step(start, f) ELSE f[start]]
  <2>3. f = [start \in m .. Len(c) + 1 |-> step(start, f)]
    BY <2>1 DEF SearchFrom
  <2>4. ASSUME NEW start \in m - 1 .. Len(c) + 1 PROVE step(start, h) = step(start, f)
    <3>1. CASE Matches(c, start) = {}
      BY <3>1
    <3>2. CASE Matches(c, start) # {}
      <4>1. start \in 1 .. Len(c) + 1
        BY <1>1, <2>2
      <4>2. Min(Matches(c, start)) \in start .. Len(c)
        BY <3>2, <4>1, FirstMatch
      <4> DEFINE next == Min(Matches(c, start)) + 1
      <4>3. next \in m - 1 .. Len(c) + 1 /\ next # m - 1
        BY <1>1, <2>2, <4>2
      <4>4. h[next] = f[next]
        BY <4>3
      <4> QED
        BY <4>4
    <3> QED
      BY <3>1, <3>2
  <2>5. \A start \in m .. Len(c) + 1 : f[start] = step(start, f)
    BY <2>3
  <2>6. \A start \in m - 1 .. Len(c) + 1 : start # m - 1 => start \in m .. Len(c) + 1
    BY <1>1, <2>2
  <2> HIDE DEF step
  <2>7. \A start \in m - 1 .. Len(c) + 1 : h[start] = step(start, h)
    BY <2>4, <2>5, <2>6
  <2>8. h = [start \in m - 1 .. Len(c) + 1 |-> step(start, h)]
    BY <2>7
  <2> HIDE DEF h
  <2>9. SearchFrom(scope, c, m - 1, h)
    BY <2>8 DEF SearchFrom, step
  <2> QED
    BY <2>2, <2>9
<1>4. T \in SUBSET Nat
  BY <1>1
<1> HIDE DEF T
<1>5. PICK m \in T : \A k \in T : m <= k
  BY <1>2, <1>4, LeastNatural
<1>6. m = 1
  <2>1. CASE m > 1
    <3>1. m - 1 \in T /\ m \in Nat
      BY <1>3, <1>4, <2>1
    <3> QED
      BY <1>5, <3>1
  <2>2. m \in 1 .. N
    BY DEF T
  <2> QED
    BY <1>1, <2>1, <2>2
<1> QED
  BY <1>6 DEF T

\* A search finds all there is from every start on: what is found from a start
\* rests on what is found from a later one.
LEMMA SearchFindsAll ==
  ASSUME NEW scope, NEW S, NEW c, InOrder(c, S), NEW f, SearchFrom(scope, c, 1, f)
  PROVE  Searched(c, 1, f[1])
<1> DEFINE N == Len(c) + 1
           back(k) == N - k
           T == {k \in 0 .. N - 1 : ~Searched(c, back(k), f[back(k)])}
<1>1. N \in Nat /\ N >= 1 /\ N = Len(c) + 1 /\ Len(c) \in Nat
  BY DEF InOrder
<1>2. \A start \in 1 .. N :
        f[start] = IF Matches(c, start) = {} THEN {}
                   ELSE {EpisodeAt(scope, c, start)} \cup f[Min(Matches(c, start)) + 1]
  BY DEF SearchFrom
<1>3. ASSUME NEW k \in T, \A l \in T : k <= l PROVE FALSE
  <2> DEFINE start == back(k)
  <2>1. k \in 0 .. N - 1 /\ start \in 1 .. N /\ k = N - start
    BY <1>1
  <2>2. ~Searched(c, start, f[start])
    OBVIOUS
  <2> HIDE DEF start
  <2>3. CASE Matches(c, start) = {}
    <3>1. f[start] = {}
      BY <1>2, <2>1, <2>3
    <3>2. Searched(c, start, {})
      BY <2>1, <2>3, SearchEnds
    <3> QED
      BY <2>2, <3>1, <3>2
  <2>4. CASE Matches(c, start) # {}
    <3> DEFINE next == Min(Matches(c, start)) + 1
               l == N - next
    <3>1. Min(Matches(c, start)) \in start .. Len(c)
      BY <2>1, <2>4, FirstMatch
    <3>2. next \in 1 .. N /\ next > start /\ l \in 0 .. N - 1 /\ back(l) = next /\ l < k
      BY <1>1, <2>1, <3>1
    <3>3. l \notin T
      <4>1. l \in Nat /\ k \in Nat /\ ~(k <= l)
        BY <1>1, <2>1, <3>2
      <4> HIDE DEF T, l
      <4> QED
        BY <1>3, <4>1
    <3>4. Searched(c, next, f[next])
      BY <3>2, <3>3
    <3>5. f[start] = {EpisodeAt(scope, c, start)} \cup f[next]
      BY <1>2, <2>1, <2>4
    <3>6. Searched(c, start, {EpisodeAt(scope, c, start)} \cup f[next])
      BY <2>1, <2>4, <3>4, SearchGoesOn
    <3> QED
      BY <2>2, <3>5, <3>6
  <2> QED
    BY <2>3, <2>4
<1>4. T = {}
  <2>1. T \in SUBSET Nat
    BY <1>1
  <2> HIDE DEF T
  <2> QED
    BY <1>3, <2>1, LeastNatural
<1>5. N - 1 \in 0 .. N - 1 /\ back(N - 1) = 1
  BY <1>1
<1> QED
  BY <1>4, <1>5

\* The episodes of a scope.
LEMMA EpisodesAreSearched ==
  ASSUME NEW scope, NEW S, InOrder(Candidates(scope), S)
  PROVE  Searched(Candidates(scope), 1, EpisodesOf(scope))
<1> DEFINE c == Candidates(scope)
           P(g) == g = [start \in 1 .. Len(c) + 1 |->
                          IF Matches(c, start) = {} THEN {}
                          ELSE {EpisodeAt(scope, c, start)} \cup g[Min(Matches(c, start)) + 1]]
<1>1. EpisodesOf(scope) = (CHOOSE g : P(g))[1]
  BY DEF EpisodesOf
<1>2. \A g : P(g) <=> SearchFrom(scope, c, 1, g)
  BY DEF SearchFrom
<1> HIDE DEF P, c
<1>3. \E g : SearchFrom(scope, c, 1, g)
  BY SearchExists DEF c
<1>4. \E g : P(g)
  BY <1>2, <1>3
<1> DEFINE f == CHOOSE g : P(g)
<1>5. P(f)
  BY <1>4
<1> HIDE DEF f
<1>6. SearchFrom(scope, c, 1, f)
  BY <1>2, <1>5
<1>7. Searched(c, 1, f[1])
  BY <1>6, SearchFindsAll DEF c
<1> QED
  BY <1>1, <1>7 DEF c, f

-----------------------------------------------------------------------------
(* The stages: theorems. *)

StagesInv == AccountInv /\ FairInv

LEMMA StagesInit == ASSUME Init PROVE StagesInv
<1>1. /\ limits \in Limits /\ stage = "append" /\ stream = <<>> /\ events = {} /\ retained = {} /\ active = <<>>
      /\ dropped = [s \in Sources |-> 0]
  BY DEF Init
<1>2. EventsOfStream
  BY <1>1, FS_EmptySet DEF EventsOfStream
<1>3. StageShape
  BY <1>1 DEF StageShape, Stages
<1>4. ASSUME NEW s \in Sources
      PROVE  Cardinality(RecordsOf(s)) = Count(Output, s) + dropped[s] + Cardinality(Uncounted(s))
  <2>1. DOMAIN stream = {}
    BY <1>1
  <2>2. RecordsOf(s) = {} /\ Uncounted(s) = {}
    BY <2>1 DEF RecordsOf, Uncounted
  <2>3. {e \in Output : e.kind.source = s} = {}
    BY <1>1 DEF Output
  <2>4. Count(Output, s) = 0
    BY <2>3, FS_EmptySet DEF Count
  <2>5. dropped[s] = 0
    BY <1>1
  <2> QED
    BY <2>2, <2>4, <2>5, FS_EmptySet
<1>5. Accounted
  BY <1>1, <1>4 DEF Accounted
<1>6. FairInv
  BY <1>1 DEF FairInv
<1> QED
  BY <1>2, <1>3, <1>5, <1>6 DEF StagesInv, AccountInv

\* The limit is entered with nothing in the output and no turns begun.
LEMMA BeforeLimitFair ==
  ASSUME AccountInv, FairInv, EndOfStream \/ Suppress \/ Deduplicate
  PROVE  FairInv'
<1>1. /\ stage \in {"append", "suppress", "deduplicate"} /\ stage' \in {"suppress", "deduplicate", "limit"}
      /\ UNCHANGED <<retained, active>>
  BY DEF EndOfStream, Suppress, Deduplicate, limitVars
<1>2. retained' = {} /\ active' = <<>>
  BY <1>1 DEF AccountInv, StageShape
<1> QED
  BY <1>1, <1>2 DEF FairInv

LEMMA StagesStep == ASSUME StagesInv, [Next]_vars PROVE StagesInv'
<1> USE DEF StagesInv
<1>1. ASSUME NEW kind \in Kinds,
             FilterByTime(kind) \/ SuppressSmokeTest(kind) \/ CountOnly(kind) \/ AppendEvent(kind) \/ DropCandidate(kind)
      PROVE  StagesInv'
  <2>1. AccountInv'
    BY <1>1, ReadStep
  <2>2. stage' = "append"
    BY <1>1 DEF FilterByTime, SuppressSmokeTest, CountOnly, AppendEvent, DropCandidate, Reads
  <2>3. FairInv'
    BY <2>2 DEF FairInv
  <2> QED
    BY <2>1, <2>3
<1>2. CASE EndOfStream
  BY <1>2, EndOfStreamStep, BeforeLimitFair
<1>3. CASE Suppress
  BY <1>3, SuppressStep, BeforeLimitFair
<1>4. CASE Deduplicate
  BY <1>4, DeduplicateStep, BeforeLimitFair
<1>5. CASE WithinLimit \/ StartTurns \/ TakeTurn \/ LimitReached \/ Correlate
  BY <1>5, LimitStep, FairStep
<1>6. CASE UNCHANGED vars
  <2>1. UNCHANGED <<limits, stage, stream, events, dropped, truncated, buckets, active, retained>>
    BY <1>6 DEF vars, limitVars
  <2>2. AccountInv'
    BY <2>1 DEF AccountInv, EventsOfStream, StageShape, Accounted, RecordsOf, Uncounted, Outside, Output, Count
  <2>3. /\ Buckets' = Buckets
        /\ \A b : InBucket(b, events)' = InBucket(b, events) /\ Held(b, retained)' = Held(b, retained)
    BY <2>1 DEF Held, InBucket, Buckets, Bucket
  <2>4. RoundRobin => RoundRobin'
    <3> SUFFICES ASSUME RoundRobin PROVE RoundRobin'
      OBVIOUS
    <3>1. buckets' = [b \in Buckets' |-> InBucket(b, events)' \ retained']
      BY <2>1, <2>3 DEF RoundRobin
    <3> QED
      BY <2>1, <2>3, <3>1 DEF RoundRobin
  <2>5. FairOutput => FairOutput'
    BY <2>1, FairOutputStays
  <2>6. FairInv'
    BY <2>1, <2>4, <2>5 DEF FairInv
  <2> QED
    BY <2>2, <2>6
<1> QED
  BY <1>1, <1>2, <1>3, <1>4, <1>5, <1>6 DEF Next

\* In every state the records are accounted for as far as they have come, and
\* the turns are taken in rounds (normalize.py:405-477, 881-937, 977-987).
THEOREM StagesInvariant == Spec => []StagesInv
<1>1. Init => StagesInv
  BY StagesInit
<1>2. StagesInv /\ [Next]_vars => StagesInv'
  BY StagesStep
<1> QED
  BY <1>1, <1>2, PTL DEF Spec

\* No record gets lost on its way through the stages (normalize.py:405-477,
\* 881-937, 977-987).
THEOREM RecordsAccounted == Spec => []EveryRecordIsAccounted
<1>1. StagesInv => EveryRecordIsAccounted
  <2> SUFFICES ASSUME StagesInv, stage = "done"
               PROVE  /\ \A s \in Sources :
                           Cardinality(RecordsOf(s)) = Count(retained, s) + dropped[s] + Cardinality(Uncounted(s))
                      /\ ~truncated => retained = events
    BY DEF EveryRecordIsAccounted, RecordsOf, Uncounted
  <2> QED
    BY DEF StagesInv, AccountInv, Accounted, Output
<1> QED
  BY <1>1, StagesInvariant, PTL

\* No bucket is starved by the output limit (normalize.py:917-937).
THEOREM FairlyShared == Spec => []FairShare
<1>1. StagesInv => FairShare
  BY DEF StagesInv, FairInv, FairOutput, FairShare, Held
<1> QED
  BY <1>1, StagesInvariant, PTL

\* Every event is of a record there can be, and at the end the episodes are
\* those of every scope.
EpisodesInv ==
  /\ \A e \in events : e.kind \in Kinds
  /\ stage = "done" => episodes = UNION {EpisodesOf(scope) : scope \in Scopes}

\* When the output stays, the episodes of a scope stay what they are.
LEMMA EpisodesStay ==
  ASSUME UNCHANGED retained
  PROVE  \A scope : EpisodesOf(scope)' = EpisodesOf(scope)
BY DEF EpisodesOf, EpisodeAt, Matches, Left, Complete, Candidates, Scoped, Sooner

LEMMA EpisodesStep ==
  ASSUME AccountInv, EpisodesInv, [Next]_vars
  PROVE  EpisodesInv'
<1>1. ASSUME NEW kind \in Kinds,
             FilterByTime(kind) \/ SuppressSmokeTest(kind) \/ CountOnly(kind) \/ AppendEvent(kind) \/ DropCandidate(kind)
      PROVE  EpisodesInv'
  <2>1. stage' = "append"
    BY <1>1 DEF FilterByTime, SuppressSmokeTest, CountOnly, AppendEvent, DropCandidate, Reads
  <2>2. events' = events \/ events' = events \cup {NewEvent(kind)}
    BY <1>1 DEF FilterByTime, SuppressSmokeTest, CountOnly, AppendEvent, DropCandidate
  <2>3. NewEvent(kind).kind = kind
    BY DEF NewEvent
  <2> QED
    BY <2>1, <2>2, <2>3 DEF EpisodesInv
<1>2. CASE EndOfStream
  BY <1>2 DEF EndOfStream, EpisodesInv
<1>3. CASE Suppress
  <2>1. stage' = "deduplicate" /\ events' \subseteq events
    BY <1>3 DEF Suppress
  <2> QED
    BY <2>1 DEF EpisodesInv
<1>4. CASE Deduplicate
  <2>1. stage' = "limit" /\ events' = {Merged(e) : e \in Firsts} /\ Firsts \subseteq events
    BY <1>4 DEF Deduplicate, Firsts
  <2>2. \A e \in Firsts : Merged(e).kind \in Kinds
    BY <2>1, MergedEffect DEF EpisodesInv
  <2> QED
    BY <2>1, <2>2 DEF EpisodesInv
<1>5. CASE WithinLimit \/ StartTurns \/ TakeTurn \/ LimitReached
  <2>1. stage' # "done" /\ events' = events
    BY <1>5 DEF WithinLimit, StartTurns, TakeTurn, LimitReached
  <2> QED
    BY <2>1 DEF EpisodesInv
<1>6. CASE Correlate
  <2>1. /\ UNCHANGED <<events, retained>>
        /\ episodes' = UNION {EpisodesOf(scope) : scope \in Scopes}
    BY <1>6 DEF Correlate, limitVars
  <2>2. \A scope : EpisodesOf(scope)' = EpisodesOf(scope)
    BY <2>1, EpisodesStay
  <2>3. episodes' = UNION {EpisodesOf(scope)' : scope \in Scopes}
    BY <2>1, <2>2
  <2> QED
    BY <2>1, <2>3 DEF EpisodesInv
<1>7. CASE UNCHANGED vars
  <2>1. UNCHANGED <<stage, events, retained, episodes>>
    BY <1>7 DEF vars, limitVars
  <2>2. \A scope : EpisodesOf(scope)' = EpisodesOf(scope)
    BY <2>1, EpisodesStay
  <2>3. UNION {EpisodesOf(scope)' : scope \in Scopes} = UNION {EpisodesOf(scope) : scope \in Scopes}
    BY <2>2
  <2> QED
    BY <2>1, <2>3 DEF EpisodesInv
<1> QED
  BY <1>1, <1>2, <1>3, <1>4, <1>5, <1>6, <1>7 DEF Next

\* The candidates of a scope are in the order of time, without a gap.
LEMMA CandidatesFromStages ==
  ASSUME AccountInv, EpisodesInv, NEW scope
  PROVE  InOrder(Candidates(scope), Scoped(scope))
<1>1. Scoped(scope) \subseteq events
  BY DEF Scoped, AccountInv, StageShape
<1>2. IsFiniteSet(Scoped(scope))
  BY <1>1, FS_Subset DEF AccountInv, EventsOfStream
<1>3. \A e \in events : e.id \in Nat
  BY DEF AccountInv, EventsOfStream, StageShape
<1>4. \A e \in events : e.kind.time \in Int
  BY KindsAssumption DEF EpisodesInv
<1>5. \A e, f \in Scoped(scope) : e.id = f.id => e = f
  BY <1>1 DEF AccountInv, EventsOfStream
<1> QED
  BY <1>1, <1>2, <1>3, <1>4, <1>5, CandidatesInOrder

\* The invariant says what the episodes are to be.
LEMMA EpisodesFromInv ==
  ASSUME AccountInv, EpisodesInv, stage = "done"
  PROVE  /\ \A scope \in Scopes :
              \A i, j \in DOMAIN Candidates(scope) :
                /\ i < j /\ Candidates(scope)[j].kind.time - Candidates(scope)[i].kind.time <= Window
                /\ Complete(Candidates(scope), i .. j)
                => \E e \in episodes : \E n \in i .. j : Candidates(scope)[n] \in e.match
         /\ \A e \in episodes :
              /\ \A a, b \in e.match : a.kind.time - b.kind.time <= Window
              /\ \A g \in Groups : \E a \in e.match : a.kind.categories \cap g # {}
              /\ \A f \in episodes : e # f => e.match \cap f.match = {}
<1>1. ASSUME NEW scope
      PROVE  /\ InOrder(Candidates(scope), Scoped(scope))
             /\ Searched(Candidates(scope), 1, EpisodesOf(scope))
             /\ DOMAIN Candidates(scope) = 1 .. Len(Candidates(scope)) /\ Len(Candidates(scope)) \in Nat
  <2>1. InOrder(Candidates(scope), Scoped(scope))
    BY CandidatesFromStages
  <2> QED
    BY <2>1, EpisodesAreSearched DEF InOrder
<1>2. \A e : e \in episodes <=> \E scope \in Scopes : e \in EpisodesOf(scope)
  BY DEF EpisodesInv
<1>3. ASSUME NEW scope \in Scopes,
             NEW i \in DOMAIN Candidates(scope), NEW j \in DOMAIN Candidates(scope), i < j,
             Candidates(scope)[j].kind.time - Candidates(scope)[i].kind.time <= Window,
             Complete(Candidates(scope), i .. j)
      PROVE  \E e \in episodes : \E n \in i .. j : Candidates(scope)[n] \in e.match
  <2>1. \E e \in EpisodesOf(scope) : \E n \in i .. j : Candidates(scope)[n] \in e.match
    BY <1>1, <1>3 DEF Searched, MeetsAll
  <2> QED
    BY <1>2, <2>1
<1>4. ASSUME NEW scope \in Scopes, NEW e \in EpisodesOf(scope)
      PROVE  /\ \A a, b \in e.match : a.kind.time - b.kind.time <= Window
             /\ \A g \in Groups : \E a \in e.match : a.kind.categories \cap g # {}
             /\ \A a \in e.match : a.kind.scope = scope
  <2> DEFINE c == Candidates(scope)
             n == Len(c)
  <2>1. InOrder(c, Scoped(scope)) /\ IsSpan(c, 1, e) /\ n \in Nat
    BY <1>1 DEF Searched
  <2> HIDE DEF c
  <2>2. PICK left \in 1 .. n, right \in 1 .. n :
          /\ left < right /\ c[right].kind.time - c[left].kind.time <= Window /\ Complete(c, left .. right)
          /\ \A a : a \in e.match <=> \E i \in left .. right : a = c[i]
    BY <2>1 DEF IsSpan, Holds
  <2>3. \A i \in left .. right : i \in 1 .. n /\ left <= i /\ i <= right
    BY <2>1
  <2>4. ASSUME NEW i \in left .. right
        PROVE  /\ c[i].kind.time \in Int /\ c[left].kind.time <= c[i].kind.time
               /\ c[i].kind.time <= c[right].kind.time
    BY <2>1, <2>3 DEF InOrder
  <2>5. c[left].kind.time \in Int /\ c[right].kind.time \in Int /\ Window \in Int
    <3>1. \A i \in 1 .. n : c[i].kind.time \in Int
      BY <2>1 DEF InOrder
    <3>2. Window \in Int
      BY LimitsAssumption
    <3> QED
      BY <3>1, <3>2
  <2>6. ASSUME NEW i \in left .. right, NEW k \in left .. right
        PROVE  c[i].kind.time - c[k].kind.time <= Window
    <3>1. /\ c[i].kind.time \in Int /\ c[i].kind.time <= c[right].kind.time
          /\ c[k].kind.time \in Int /\ c[left].kind.time <= c[k].kind.time
      BY <2>4
    <3>2. c[right].kind.time - c[left].kind.time <= Window
      BY <2>2
    <3> QED
      BY <2>5, <3>1, <3>2
  <2>7. \A a, b \in e.match : a.kind.time - b.kind.time <= Window
    BY <2>2, <2>6
  <2>8. \A g \in Groups : \E a \in e.match : a.kind.categories \cap g # {}
    BY <2>2 DEF Complete
  <2>9. \A a \in e.match : a \in Scoped(scope)
    <3>1. c \in Seq(Scoped(scope))
      BY <2>1 DEF InOrder
    <3>2. \A i \in 1 .. n : c[i] \in Scoped(scope)
      BY <3>1
    <3> QED
      BY <2>2, <2>3, <3>2
  <2> QED
    BY <2>7, <2>8, <2>9 DEF Scoped
<1>5. ASSUME NEW e \in episodes, NEW f \in episodes, e # f PROVE e.match \cap f.match = {}
  <2>1. PICK one \in Scopes : e \in EpisodesOf(one)
    BY <1>2
  <2>2. PICK two \in Scopes : f \in EpisodesOf(two)
    BY <1>2
  <2>3. CASE one = two
    BY <1>1, <1>5, <2>1, <2>2, <2>3 DEF Searched, Apart
  <2>4. CASE one # two
    BY <1>4, <2>1, <2>2, <2>4
  <2> QED
    BY <2>3, <2>4
<1> QED
  BY <1>2, <1>3, <1>4, <1>5

\* Whatever the order, ties and gaps of the events, no window that completes
\* every group is missed, and every episode is such a window that shares no
\* event with another (normalize.py:843-878).
THEOREM EpisodesFound == Spec => []EpisodesMissNothing
<1>1. Init => EpisodesInv
  BY DEF Init, EpisodesInv
<1>2. StagesInv /\ EpisodesInv /\ [Next]_vars => EpisodesInv'
  BY EpisodesStep DEF StagesInv
<1>3. StagesInv /\ EpisodesInv => EpisodesMissNothing
  BY EpisodesFromInv DEF StagesInv, EpisodesMissNothing
<1> QED
  BY <1>1, <1>2, <1>3, StagesInvariant, PTL DEF Spec
=============================================================================
