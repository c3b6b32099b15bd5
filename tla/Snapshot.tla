------------------------------ MODULE Snapshot ------------------------------
(***************************************************************************)
(* kdiag snapshot: the phases of run_snapshot, what each leaves in the     *)
(* collection directory, and the exit code main makes of the outcome.  The *)
(* node phase is what HostResults promises (NodeCollection keeps it).  Any *)
(* phase may raise, and the process may be killed in any of them.          *)
(***************************************************************************)
EXTENDS Naturals

CONSTANT Hosts   \* the hosts of the inventory group

ASSUME InventoryAssumption == Hosts # {}   \* load_ansible_inventory rejects an empty group

VARIABLES
  pc,         \* the phase, "done" when the process has ended
  options,    \* what configuration and command line ask for
  reported,   \* status of each host in node_results (HostResults)
  stored,     \* hosts whose bundle is in the directory (HostResults)
  kubernetes, \* kubernetes_result: status, and whether it names a file
  files,      \* the other files of the directory
  index,      \* what collection.json says, when it is there
  exit        \* the exit code, "none" while the process runs

vars == <<pc, options, reported, stored, kubernetes, files, index, exit>>
nodeVars == <<reported, stored>>

Nodes == INSTANCE HostResults

Options == [kubernetes : {"disabled", "no_kubeconfig", "enabled"}, baseline : BOOLEAN]

\* What snapshot_status returns.
SnapshotStatuses == {"collected", "partial", "unreachable"}

NoIndex == [status |-> "none", nodes |-> [h \in Hosts |-> "pending"],
            kubernetes |-> [status |-> "none", file |-> FALSE]]

Files == {"directory", "kubernetes", "prometheus", "report", "comparison", "manifest"}

Init ==
  /\ pc = "baseline"
  /\ options \in Options
  /\ Nodes!Init
  /\ kubernetes = [status |-> "disabled", file |-> FALSE]
  /\ files = {}
  /\ index = NoIndex
  /\ exit = "none"

-----------------------------------------------------------------------------
\* An exception main catches (ValueError, RuntimeError, OSError) is exit code 2;
\* any other leaves the interpreter with a traceback and exit code 1.
Ends(code) == pc' = "done" /\ exit' = code

\* verify_approved_baseline, before anything is created.
VerifyBaseline ==
  /\ pc = "baseline"
  /\ \/ pc' = "prepare" /\ UNCHANGED exit
     \/ options.baseline /\ Ends("two")
  /\ UNCHANGED <<options, nodeVars, kubernetes, files, index>>

\* The directory is created before the inventory is read and the disk checked:
\* a failure of these leaves it empty.
Prepare ==
  /\ pc = "prepare"
  /\ \/ pc' = "nodes" /\ files' = files \cup {"directory"} /\ UNCHANGED exit
     \/ \E fs \in {{}, {"directory"}} : files' = fs /\ Ends("two")
  /\ UNCHANGED <<options, nodeVars, kubernetes, index>>

\* The pool works, host by host.
NodePhase ==
  /\ pc = "nodes"
  /\ Nodes!Next
  /\ UNCHANGED <<pc, options, kubernetes, files, index, exit>>

\* Mutant of NodesDone: the Kubernetes phase waits for every bundle.
AllNodesCollected ==
  /\ pc = "nodes"
  /\ \A h \in Hosts : reported[h] = "collected"
  /\ pc' = "kubernetes"
  /\ UNCHANGED <<options, nodeVars, kubernetes, files, index, exit>>

NodesDone ==
  /\ pc = "nodes"
  /\ \A h \in Hosts : reported[h] # "pending"
  /\ pc' = "kubernetes"
  /\ UNCHANGED <<options, nodeVars, kubernetes, files, index, exit>>

\* Building the agent or reporting progress raises: the pool is shut down, that
\* is, the workers store what they still get.
NodePhaseRaises ==
  /\ pc = "nodes"
  /\ \E more \in SUBSET Hosts : stored' = stored \cup more
  /\ Ends("two")
  /\ UNCHANGED <<options, reported, kubernetes, files, index>>

\* Without a usable kubeconfig nothing is collected.
SkipKubernetes ==
  /\ pc = "kubernetes"
  /\ options.kubernetes # "enabled"
  /\ kubernetes' = [kubernetes EXCEPT !.status =
       IF options.kubernetes = "disabled" THEN "disabled" ELSE "configuration_error"]
  /\ pc' = "prometheus"
  /\ UNCHANGED <<options, nodeVars, files, index, exit>>

\* The snapshot is written whatever its status ...
CollectKubernetes ==
  /\ pc = "kubernetes"
  /\ options.kubernetes = "enabled"
  /\ \E status \in SnapshotStatuses :
       kubernetes' = [status |-> status, file |-> TRUE]
  /\ files' = files \cup {"kubernetes"}
  /\ pc' = "limit"
  /\ UNCHANGED <<options, nodeVars, index, exit>>

\* Mutant of CheckLimit: the removed file is still named.
CheckLimitKeepsName ==
  /\ pc = "limit"
  /\ \/ UNCHANGED <<kubernetes, files>>
     \/ /\ kubernetes' = [kubernetes EXCEPT !.status = "truncated"]
        /\ files' = files \ {"kubernetes"}
  /\ pc' = "prometheus"
  /\ UNCHANGED <<options, nodeVars, index, exit>>

\* ... and removed again when it is larger than max_bundle_bytes.
CheckLimit ==
  /\ pc = "limit"
  /\ \/ UNCHANGED <<kubernetes, files>>
     \/ /\ kubernetes' = [status |-> "truncated", file |-> FALSE]
        /\ files' = files \ {"kubernetes"}
  /\ pc' = "prometheus"
  /\ UNCHANGED <<options, nodeVars, index, exit>>

\* Prometheus answers or not: its snapshot is written all the same.
CollectPrometheus ==
  /\ pc = "prometheus"
  /\ files' = files \cup {"prometheus"}
  /\ pc' = "collection"
  /\ UNCHANGED <<options, nodeVars, kubernetes, index, exit>>

\* Mutant of CollectionStatus: some Kubernetes evidence is enough.
LaxCollectionStatus ==
  IF /\ \A h \in Hosts : reported[h] = "collected"
     /\ options.kubernetes = "disabled" \/ kubernetes.file
  THEN "complete" ELSE "partial"

CollectionStatus ==
  IF /\ \A h \in Hosts : reported[h] = "collected"
     /\ options.kubernetes = "disabled" \/ kubernetes.status = "collected"
  THEN "complete" ELSE "partial"

WriteCollection ==
  /\ pc = "collection"
  /\ index' = [status |-> CollectionStatus, nodes |-> reported, kubernetes |-> kubernetes]
  /\ pc' = "report"
  /\ UNCHANGED <<options, nodeVars, kubernetes, files, exit>>

BuildReport ==
  /\ pc = "report"
  /\ files' = files \cup {"report"}
  /\ pc' = IF options.baseline THEN "compare" ELSE "manifest"
  /\ UNCHANGED <<options, nodeVars, kubernetes, index, exit>>

\* Mutant of ReportRaises: the manifest is written in the clean-up of it all.
ReportRaisesAndSeals ==
  /\ pc = "report"
  /\ pc' = "manifest_then_raise"
  /\ UNCHANGED <<options, nodeVars, kubernetes, files, index, exit>>

\* build_report raises OSError or ValueError, or, over a Kubernetes snapshot with
\* more objects than MAX_GRAPH_NODES, a TypeError: build_causal_analysis sorts
\* targets among which the full graph has left a None.
ReportRaises ==
  /\ pc = "report"
  /\ \/ Ends("two")
     \/ kubernetes.file /\ Ends("one")
  /\ UNCHANGED <<options, nodeVars, kubernetes, files, index>>

\* compare_collection; what it raises is kept until the manifest is written.
Compare ==
  /\ pc = "compare"
  /\ \/ files' = files \cup {"comparison"} /\ pc' = "manifest"
     \/ pc' = "manifest_then_raise" /\ UNCHANGED files
  /\ UNCHANGED <<options, nodeVars, kubernetes, index, exit>>

WriteManifest ==
  /\ pc \in {"manifest", "manifest_then_raise"}
  /\ files' = files \cup {"manifest"}
  /\ Ends(IF pc = "manifest_then_raise" THEN "two"
          ELSE IF index.status = "complete" THEN "zero" ELSE "one")
  /\ UNCHANGED <<options, nodeVars, kubernetes, index>>

\* A write or a collector raises OSError: no later phase is run.  On a Prometheus answer that is no JSON object
\* collect_prometheus raises AttributeError, which neither it nor main catches.
PhaseRaises ==
  /\ pc \in {"kubernetes", "limit", "prometheus", "collection",
             "manifest", "manifest_then_raise"}
  /\ \/ Ends("two")
     \/ pc = "prometheus" /\ Ends("one")
  /\ UNCHANGED <<options, nodeVars, kubernetes, files, index>>

Killed ==
  /\ pc # "done"
  /\ Ends("killed")
  /\ UNCHANGED <<options, nodeVars, kubernetes, files, index>>

Step ==
  \/ VerifyBaseline \/ Prepare \/ NodePhase \/ NodesDone
  \/ SkipKubernetes \/ CollectKubernetes \/ CheckLimit \/ CollectPrometheus
  \/ WriteCollection \/ BuildReport \/ Compare \/ WriteManifest

Raises == NodePhaseRaises \/ ReportRaises \/ PhaseRaises

Next == Step \/ Raises \/ Killed

Spec == Init /\ [][Next]_vars

\* The process runs, and every host gets its result (NodeCollection); nothing
\* has to fail for it to end.
FairSpec == Spec /\ WF_vars(Step)
-----------------------------------------------------------------------------
(* Properties. *)

\* The shape of the state.
TypeOK ==
  /\ pc \in {"baseline", "prepare", "nodes", "kubernetes", "limit", "prometheus",
             "collection", "report", "compare", "manifest", "manifest_then_raise", "done"}
  /\ options \in Options
  /\ Nodes!TypeOK
  /\ kubernetes \in [status : SnapshotStatuses \cup {"disabled", "configuration_error", "truncated"},
                     file : BOOLEAN]
  /\ files \subseteq Files
  /\ exit \in {"none", "zero", "one", "two", "killed"}

\* Exit code 0: every host has its bundle, Kubernetes was collected or switched
\* off, and report and manifest are there (cli.py:219, orchestrator.py:216-218).
ExitZeroIsComplete ==
  exit = "zero" =>
    /\ stored = Hosts
    /\ options.kubernetes # "disabled" => kubernetes.status = "collected" /\ "kubernetes" \in files
    /\ {"prometheus", "report", "manifest"} \subseteq files
    /\ options.baseline => "comparison" \in files

\* collection.json names a file exactly when the report will find it: a bundle
\* for every host it calls collected, kubernetes.json.gz unless it was removed
\* for its size (orchestrator.py:189-196, report.py:29-39).
IndexIsBacked ==
  index # NoIndex =>
    /\ \A h \in Hosts : index.nodes[h] = "collected" => h \in stored
    /\ index.kubernetes.file <=> "kubernetes" \in files
    /\ "prometheus" \in files

\* A directory with a manifest has collection.json and a whole report: runs that
\* raised or were killed before the report was there leave none behind, a failed
\* comparison does (orchestrator.py:243-256).
ManifestSealsReport ==
  "manifest" \in files => index # NoIndex /\ "report" \in files

\* The command ends, whatever hosts, Kubernetes and Prometheus do.
Terminates == <>(pc = "done")

\* "1: partial collection saved": a directory that exits 1 leaves can be
\* verified and compared.
PartialIsSaved == exit = "one" => "manifest" \in files
=============================================================================
