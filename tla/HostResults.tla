----------------------------- MODULE HostResults -----------------------------
(***************************************************************************)
(* What the node phase of run_snapshot promises, whatever the transport    *)
(* does: every host gets one result, once; a host reported as collected    *)
(* has a valid bundle in the collection directory; no bundle disappears or *)
(* changes.  NodeCollection implements this, Snapshot builds on it.        *)
(***************************************************************************)
CONSTANT Hosts

VARIABLES
  reported,  \* [Hosts -> NodeStatuses \cup {"pending"}]: the status in node_results
  stored     \* the hosts whose node-<host>.json.gz is in the directory

NodeStatuses == {"collected", "unreachable", "failed", "timeout", "truncated",
                 "permission_denied", "malformed"}

TypeOK ==
  /\ reported \in [Hosts -> NodeStatuses \cup {"pending"}]
  /\ stored \subseteq Hosts

Init ==
  /\ reported = [h \in Hosts |-> "pending"]
  /\ stored = {}

\* A worker stores the bundle of a host that has no result yet.
Store(h) ==
  /\ reported[h] = "pending"
  /\ h \notin stored
  /\ stored' = stored \cup {h}
  /\ UNCHANGED reported

\* as_completed hands over the result of one host.  A bundle may be on disk
\* although its host failed, never the other way round.
Report(h, status) ==
  /\ reported[h] = "pending"
  /\ status = "collected" => h \in stored
  /\ h \in stored => status \in {"collected", "failed"}
  /\ reported' = [reported EXCEPT ![h] = status]
  /\ UNCHANGED stored

Next == \E h \in Hosts : Store(h) \/ \E status \in NodeStatuses : Report(h, status)

Spec == Init /\ [][Next]_<<reported, stored>>
=============================================================================
