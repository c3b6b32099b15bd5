--------------------------- MODULE NodeCollection ---------------------------
(***************************************************************************)
(* The node phase of run_snapshot: a pool of workers runs                  *)
(* SSHTransport.collect_node for every host (upload, run, clean up, check, *)
(* store), the main thread collects the futures as they complete.  Every   *)
(* run_process call ends with a member of Outcomes (module Runner).        *)
(***************************************************************************)
EXTENDS Naturals, FiniteSets, ProcessOutcome

CONSTANTS
  Hosts,         \* inventory names
  Machines,      \* the machines behind them
  Machine,       \* ansible_host of each name: two names may lead to one machine
  Parallelism    \* collection.parallelism

ASSUME PoolAssumption ==
  /\ IsFiniteSet(Hosts)
  /\ Parallelism \in Nat \ {0}
  /\ Machine \in [Hosts -> Machines]

VARIABLES
  task,      \* where the worker of each host is
  status,    \* the status collect_node has settled on, "none" before
  payload,   \* what the remote collector printed
  cleanup,   \* what _cleanup_remote returned
  archive,   \* /tmp/kdiag-<collection>.pyz on each machine
  running,   \* the hosts whose remote collector is running
  stored,    \* the hosts whose node-<host>.json.gz is in the collection directory
  results    \* node_results: what the main thread has recorded

vars == <<task, status, payload, cleanup, archive, running, stored, results>>

Pending == [status |-> "pending", cleanup |-> "none"]

Promise == INSTANCE HostResults WITH
             reported <- [h \in Hosts |-> results[h].status]

Unshared(h) == \A g \in Hosts \ {h} : Machine[g] # Machine[h]

\* Workers of the pool that are busy.
Busy == {h \in Hosts : task[h] \notin {"queued", "done"}}

Init ==
  /\ task = [h \in Hosts |-> "queued"]
  /\ status = [h \in Hosts |-> "none"]
  /\ payload = [h \in Hosts |-> "none"]
  /\ cleanup = [h \in Hosts |-> "none"]
  /\ archive = [m \in Machines |-> "absent"]
  /\ running = {}
  /\ stored = {}
  /\ results = [h \in Hosts |-> Pending]

-----------------------------------------------------------------------------
\* An idle worker takes the next host.
Start(h) ==
  /\ task[h] = "queued"
  /\ Cardinality(Busy) < Parallelism
  /\ task' = [task EXCEPT ![h] = "upload"]
  /\ UNCHANGED <<status, payload, cleanup, archive, running, stored, results>>

\* A copy is good when scp ends with 0 in time; truncated output is no failure.
Copied(r) == r.returncode = "zero" /\ ~r.timedOut

UploadStatus(r) ==
  IF r.returncode \in {"none", "ssh_error"} THEN "unreachable" ELSE "failed"

UploadFailures == {UploadStatus(r) : r \in {x \in Outcomes : ~Copied(x)}}

\* Mutant of Upload: only a copy that could not be started counts as failed.
UploadUnchecked(h) ==
  /\ task[h] = "upload"
  /\ \E left \in {"absent", "partial", "whole", archive[Machine[h]]} :
       /\ archive' = [archive EXCEPT ![Machine[h]] = left]
       /\ \/ /\ task' = [task EXCEPT ![h] = "run"]
             /\ UNCHANGED status
          \/ /\ left = archive[Machine[h]]
             /\ status' = [status EXCEPT ![h] = "unreachable"]
             /\ task' = [task EXCEPT ![h] = "cleanup"]
  /\ UNCHANGED <<payload, cleanup, running, stored, results>>

\* scp: a copy that fails may leave nothing, a part or all of the archive, or
\* what was there before.
Upload(h) ==
  /\ task[h] = "upload"
  /\ \/ /\ archive' = [archive EXCEPT ![Machine[h]] = "whole"]
        /\ task' = [task EXCEPT ![h] = "run"]
        /\ UNCHANGED status
     \/ /\ \E left \in {"absent", "partial", "whole", archive[Machine[h]]} :
             archive' = [archive EXCEPT ![Machine[h]] = left]
        /\ \E verdict \in UploadFailures :
             status' = [status EXCEPT ![h] = verdict]
        /\ task' = [task EXCEPT ![h] = "cleanup"]
  /\ UNCHANGED <<payload, cleanup, running, stored, results>>

\* ssh reaches the machine and sudo starts Python on the archive it finds.
RemoteStarts(h) ==
  /\ task[h] = "run"
  /\ h \notin running
  /\ archive[Machine[h]] = "whole"
  /\ payload[h] = "none"
  /\ running' = running \cup {h}
  /\ UNCHANGED <<task, status, payload, cleanup, archive, stored, results>>

\* The remote collector ends and has printed a snapshot, or something else.
RemoteEnds(h) ==
  /\ h \in running
  /\ running' = running \ {h}
  /\ payload' = [payload EXCEPT ![h] =
       IF task[h] = "run" THEN "snapshot" ELSE @]
  /\ UNCHANGED <<task, status, cleanup, archive, stored, results>>

\* The order in which collect_node classifies a failed run.
RunStatus(r, denied) ==
  IF r.timedOut THEN "timeout"
  ELSE IF r.truncated THEN "truncated"
  ELSE IF r.returncode \in {"none", "ssh_error"} THEN "unreachable"
  ELSE IF denied THEN "permission_denied"
  ELSE "failed"

Ran(r) == r.returncode = "zero" /\ ~r.timedOut /\ ~r.truncated

RunFailures ==
  {RunStatus(r, denied) : r \in {x \in Outcomes : ~Ran(x)}, denied \in BOOLEAN}

\* The local ssh ends.  Only a finished collector lets it return 0, and then its
\* output is decoded later; any other end may leave the collector running on the
\* machine.
RunEnds(h) ==
  /\ task[h] = "run"
  /\ \/ /\ payload[h] = "snapshot"
        /\ \E got \in {"snapshot", "garbled"} : payload' = [payload EXCEPT ![h] = got]
        /\ UNCHANGED status
     \/ /\ \E verdict \in RunFailures :
             status' = [status EXCEPT ![h] = verdict]
        /\ payload' = [payload EXCEPT ![h] = "none"]
  /\ task' = [task EXCEPT ![h] = "cleanup"]
  /\ UNCHANGED <<cleanup, archive, running, stored, results>>

\* Mutant of CleanUp: an rm that failed counts as done.
CleanUpUnchecked(h) ==
  /\ task[h] = "cleanup"
  /\ \E left \in {"absent", archive[Machine[h]]} :
       archive' = [archive EXCEPT ![Machine[h]] = left]
  /\ cleanup' = [cleanup EXCEPT ![h] = "ok"]
  /\ task' = [task EXCEPT ![h] = IF status[h] = "none" THEN "store" ELSE "return"]
  /\ UNCHANGED <<status, payload, running, stored, results>>

\* _cleanup_remote: rm -f over a new connection, tried once, on every path.  An
\* rm that did not return 0 may have removed the archive all the same.
CleanUp(h) ==
  /\ task[h] = "cleanup"
  /\ \E returned \in {"ok", "error"}, left \in {"absent", archive[Machine[h]]} :
       /\ returned = "ok" => left = "absent"
       /\ archive' = [archive EXCEPT ![Machine[h]] = left]
       /\ cleanup' = [cleanup EXCEPT ![h] = returned]
  /\ task' = [task EXCEPT ![h] = IF status[h] = "none" THEN "store" ELSE "return"]
  /\ UNCHANGED <<status, payload, running, stored, results>>

\* decode_gzip_json_bytes and the schema check reject the payload, or raise an
\* error that is not caught here ("raised").
Reject(h) ==
  /\ task[h] = "store"
  /\ payload[h] # "snapshot"
  /\ \E verdict \in {"malformed", "raised"} : status' = [status EXCEPT ![h] = verdict]
  /\ task' = [task EXCEPT ![h] = "return"]
  /\ UNCHANGED <<payload, cleanup, archive, running, stored, results>>

\* atomic_write_bytes stores the bundle.
StoreBundle(h) ==
  /\ task[h] = "store"
  /\ payload[h] = "snapshot"
  /\ stored' = stored \cup {h}
  /\ status' = [status EXCEPT ![h] = "collected"]
  /\ task' = [task EXCEPT ![h] = "return"]
  /\ UNCHANGED <<payload, cleanup, archive, running, results>>

\* Mutant of StoreRaises: the exception is swallowed.
StoreIgnoresError(h) ==
  /\ task[h] = "store"
  /\ payload[h] = "snapshot"
  /\ stored' \in {stored, stored \cup {h}}
  /\ status' = [status EXCEPT ![h] = "collected"]
  /\ task' = [task EXCEPT ![h] = "return"]
  /\ UNCHANGED <<payload, cleanup, archive, running, results>>

\* atomic_write_bytes raises before the rename, or after it (the fsync of the
\* directory): the bundle may be there.
StoreRaises(h) ==
  /\ task[h] = "store"
  /\ payload[h] = "snapshot"
  /\ stored' \in {stored, stored \cup {h}}
  /\ status' = [status EXCEPT ![h] = "raised"]
  /\ task' = [task EXCEPT ![h] = "return"]
  /\ UNCHANGED <<payload, cleanup, archive, running, results>>

\* Mutant of Record: an exception is recorded as it is.
RecordAsIs(h) ==
  /\ task[h] = "return"
  /\ results' = [results EXCEPT ![h] = [status |-> status[h], cleanup |-> cleanup[h]]]
  /\ task' = [task EXCEPT ![h] = "done"]
  /\ status' = [status EXCEPT ![h] = "none"]
  /\ payload' = [payload EXCEPT ![h] = "none"]
  /\ cleanup' = [cleanup EXCEPT ![h] = "none"]
  /\ UNCHANGED <<archive, running, stored>>

\* The future completes and the main thread records its result: an exception
\* becomes a failed result that says nothing about the clean-up.  The locals of
\* collect_node are gone.
Record(h) ==
  /\ task[h] = "return"
  /\ results' = [results EXCEPT ![h] =
       IF status[h] = "raised" THEN [status |-> "failed", cleanup |-> "lost"]
       ELSE [status |-> status[h], cleanup |-> cleanup[h]]]
  /\ task' = [task EXCEPT ![h] = "done"]
  /\ status' = [status EXCEPT ![h] = "none"]
  /\ payload' = [payload EXCEPT ![h] = "none"]
  /\ cleanup' = [cleanup EXCEPT ![h] = "none"]
  /\ UNCHANGED <<archive, running, stored>>

\* What the kdiag process does for a host.
LocalStep(h) ==
  \/ Start(h) \/ Upload(h) \/ RunEnds(h) \/ CleanUp(h)
  \/ Reject(h) \/ StoreBundle(h) \/ StoreRaises(h) \/ Record(h)

RemoteStep(h) == RemoteStarts(h) \/ RemoteEnds(h)

Next == \E h \in Hosts : LocalStep(h) \/ RemoteStep(h)

Spec == Init /\ [][Next]_vars
-----------------------------------------------------------------------------
(* Properties. *)

\* The shape of the node phase's state.
TypeOK ==
  /\ task \in [Hosts -> {"queued", "upload", "run", "cleanup", "store", "return", "done"}]
  /\ status \in [Hosts -> Promise!NodeStatuses \cup {"none", "raised"}]
  /\ payload \in [Hosts -> {"none", "snapshot", "garbled"}]
  /\ cleanup \in [Hosts -> {"none", "ok", "error"}]
  /\ archive \in [Machines -> {"absent", "partial", "whole"}]
  /\ running \subseteq Hosts
  /\ stored \subseteq Hosts
  /\ results \in [Hosts -> [status : Promise!NodeStatuses \cup {"pending"},
                             cleanup : {"none", "ok", "error", "lost"}]]

\* An archive left on a machine is never hidden by a clean result: the result
\* says that the clean-up failed, or was lost with the exception that ended
\* collect_node (transport.py:50-60, orchestrator.py:149-150).
LeftoverReported ==
  \A h \in Hosts :
    Unshared(h) /\ task[h] = "done" /\ archive[Machine[h]] # "absent" =>
      results[h].cleanup \in {"error", "lost"}

\* While collect_node waits for the collector of a host, nobody removes or
\* overwrites the archive it runs from, if no other name leads to the machine:
\* the path depends on the collection alone (transport.py:64).
ArchiveKeptDuringRun ==
  \A h \in Hosts : Unshared(h) /\ task[h] = "run" => archive[Machine[h]] = "whole"

\* A bundle that is on disk belongs to a host reported as collected, or to one
\* whose atomic_write_bytes raised after the rename; and every collected host
\* has its bundle.  The pool never loses or invents a result.
KeepsPromise == Promise!Spec
-----------------------------------------------------------------------------
(* The inductive invariant behind the refinement and the two invariants. *)

\* What is on disk follows where the worker is.
BundleMatchesTask(h) ==
  /\ task[h] = "done" <=> results[h].status # "pending"
  /\ task[h] = "return" => status[h] # "none"
  /\ task[h] \in {"return", "done"} \/ status[h] \notin {"collected", "raised"}
  /\ task[h] = "return" /\ status[h] = "collected" => h \in stored
  /\ h \in stored =>
       \/ task[h] = "done"
       \/ task[h] = "return" /\ status[h] \in {"collected", "raised"}

\* What is left on an unshared machine follows what the clean-up returned.
ArchiveMatchesTask(h) ==
  /\ task[h] = "run" => archive[Machine[h]] = "whole"
  /\ task[h] \in {"store", "return"} =>
       cleanup[h] = "error" \/ (cleanup[h] = "ok" /\ archive[Machine[h]] = "absent")
  /\ task[h] = "done" =>
       \/ results[h].cleanup \in {"error", "lost"}
       \/ archive[Machine[h]] = "absent"

IInv ==
  /\ TypeOK
  /\ \A h \in Hosts : BundleMatchesTask(h)
  /\ \A h \in Hosts : Unshared(h) => ArchiveMatchesTask(h)
=============================================================================
