--------------------------- MODULE SnapshotProofs ---------------------------
(***************************************************************************)
(* For every set of hosts: exit code 0 means a complete collection,        *)
(* collection.json names what is in the directory, and a manifest seals a  *)
(* whole report.  The invariant says what each phase of run_snapshot may   *)
(* rely on: which files the earlier ones left, and that collection.json,   *)
(* once written, still describes the results it was written from.          *)
(***************************************************************************)
EXTENDS Snapshot, TLAPS

BeforeIndex == {"baseline", "prepare", "nodes", "kubernetes", "limit", "prometheus", "collection"}
Sealing == {"compare", "manifest", "manifest_then_raise"}

\* The process has an exit code only when it has ended, and before the
\* directory is prepared there is nothing in it.
Begins ==
  /\ exit # "none" => pc = "done"
  /\ pc \in {"baseline", "prepare"} => files = {}

\* A host is called collected when its bundle is stored, Kubernetes when its
\* file is there, and the result names the file exactly then.
ResultsAreBacked ==
  /\ \A h \in Hosts : reported[h] = "collected" => h \in stored
  /\ kubernetes.file <=> "kubernetes" \in files
  /\ kubernetes.status = "collected" => kubernetes.file

\* collection.json is written once, from results no later phase touches.
IndexIsCurrent ==
  /\ pc \in BeforeIndex => index = NoIndex
  /\ index # NoIndex => index = [status |-> CollectionStatus, nodes |-> reported,
                                 kubernetes |-> kubernetes]

\* What a phase finds because the earlier ones have run.
PhasesLeave ==
  /\ pc = "collection" \/ index # NoIndex => "prometheus" \in files
  /\ pc = "report" \/ pc \in Sealing => index # NoIndex
  /\ pc \in Sealing => "report" \in files
  /\ pc = "manifest" /\ options.baseline => "comparison" \in files

IInv ==
  /\ TypeOK
  /\ Begins
  /\ ResultsAreBacked
  /\ IndexIsCurrent
  /\ PhasesLeave
  /\ ManifestSealsReport
  /\ ExitZeroIsComplete
-----------------------------------------------------------------------------
\* One step of the pool, as the promise of HostResults has it.
LEMMA PoolStep ==
  ASSUME Nodes!TypeOK, \A h \in Hosts : reported[h] = "collected" => h \in stored, Nodes!Next
  PROVE  /\ Nodes!TypeOK'
         /\ \A h \in Hosts : reported'[h] = "collected" => h \in stored'
<1>1. ASSUME NEW g \in Hosts, Nodes!Store(g)
      PROVE  Nodes!TypeOK' /\ \A h \in Hosts : reported'[h] = "collected" => h \in stored'
  BY <1>1 DEF Nodes!Store, Nodes!TypeOK
<1>2. ASSUME NEW g \in Hosts, NEW status \in Nodes!NodeStatuses, Nodes!Report(g, status)
      PROVE  Nodes!TypeOK' /\ \A h \in Hosts : reported'[h] = "collected" => h \in stored'
  BY <1>2 DEF Nodes!Report, Nodes!TypeOK
<1>3. QED BY <1>1, <1>2 DEF Nodes!Next

\* The type invariant is preserved by every step.
LEMMA TypeStep ==
  TypeOK /\ ResultsAreBacked /\ [Next]_vars
    => TypeOK'
<1> SUFFICES ASSUME TypeOK, ResultsAreBacked, [Next]_vars
             PROVE  TypeOK'
  OBVIOUS
<1> USE DEF TypeOK, Nodes!TypeOK, Files, SnapshotStatuses
<1>1. CASE VerifyBaseline BY <1>1 DEF VerifyBaseline, Ends, nodeVars
<1>2. CASE Prepare BY <1>2 DEF Prepare, Ends, nodeVars
<1>3. CASE NodePhase
  <2>1. Nodes!TypeOK' BY <1>3, PoolStep DEF NodePhase, ResultsAreBacked
  <2>2. QED BY <1>3, <2>1 DEF NodePhase
<1>4. CASE NodesDone BY <1>4 DEF NodesDone, nodeVars
<1>5. CASE SkipKubernetes BY <1>5 DEF SkipKubernetes, nodeVars
<1>6. CASE CollectKubernetes BY <1>6 DEF CollectKubernetes, nodeVars
<1>7. CASE CheckLimit
  <2>1. Nodes!TypeOK' BY <1>7 DEF CheckLimit, nodeVars
  <2>2. CASE UNCHANGED <<kubernetes, files>> BY <1>7, <2>1, <2>2 DEF CheckLimit
  <2>3. CASE /\ kubernetes' = [status |-> "truncated", file |-> FALSE]
             /\ files' = files \ {"kubernetes"}
    BY <1>7, <2>1, <2>3 DEF CheckLimit
  <2>4. QED BY <1>7, <2>2, <2>3 DEF CheckLimit
<1>8. CASE CollectPrometheus BY <1>8 DEF CollectPrometheus, nodeVars
<1>9. CASE WriteCollection BY <1>9 DEF WriteCollection, nodeVars
<1>10. CASE BuildReport BY <1>10 DEF BuildReport, nodeVars
<1>11. CASE Compare BY <1>11 DEF Compare, nodeVars
<1>12. CASE WriteManifest BY <1>12 DEF WriteManifest, Ends, nodeVars
<1>13. CASE NodePhaseRaises BY <1>13 DEF NodePhaseRaises, Ends, nodeVars
<1>14. CASE ReportRaises BY <1>14 DEF ReportRaises, Ends, nodeVars
<1>15. CASE PhaseRaises BY <1>15 DEF PhaseRaises, Ends, nodeVars
<1>16. CASE Killed BY <1>16 DEF Killed, Ends, nodeVars
<1>17. CASE UNCHANGED vars BY <1>17 DEF vars, nodeVars
<1>18. QED
  BY <1>1, <1>2, <1>3, <1>4, <1>5, <1>6, <1>7, <1>8, <1>9,
     <1>10, <1>11, <1>12, <1>13, <1>14, <1>15, <1>16, <1>17 DEF Next, Step, Raises

\* An exit code ends the process; the first phases leave nothing.
LEMMA BeginsStep ==
  Begins /\ [Next]_vars
    => Begins'
<1> SUFFICES ASSUME Begins, [Next]_vars
             PROVE  Begins'
  OBVIOUS
<1> USE DEF Begins
<1>1. CASE VerifyBaseline BY <1>1 DEF VerifyBaseline, Ends, nodeVars
<1>2. CASE Prepare BY <1>2 DEF Prepare, Ends, nodeVars
<1>3. CASE NodePhase BY <1>3 DEF NodePhase
<1>4. CASE NodesDone BY <1>4 DEF NodesDone, nodeVars
<1>5. CASE SkipKubernetes BY <1>5 DEF SkipKubernetes, nodeVars
<1>6. CASE CollectKubernetes BY <1>6 DEF CollectKubernetes, nodeVars
<1>7. CASE CheckLimit BY <1>7 DEF CheckLimit, nodeVars
<1>8. CASE CollectPrometheus BY <1>8 DEF CollectPrometheus, nodeVars
<1>9. CASE WriteCollection BY <1>9 DEF WriteCollection, nodeVars
<1>10. CASE BuildReport BY <1>10 DEF BuildReport, nodeVars
<1>11. CASE Compare BY <1>11 DEF Compare, nodeVars
<1>12. CASE WriteManifest BY <1>12 DEF WriteManifest, Ends, nodeVars
<1>13. CASE NodePhaseRaises BY <1>13 DEF NodePhaseRaises, Ends, nodeVars
<1>14. CASE ReportRaises BY <1>14 DEF ReportRaises, Ends, nodeVars
<1>15. CASE PhaseRaises BY <1>15 DEF PhaseRaises, Ends, nodeVars
<1>16. CASE Killed BY <1>16 DEF Killed, Ends, nodeVars
<1>17. CASE UNCHANGED vars BY <1>17 DEF vars, nodeVars
<1>18. QED
  BY <1>1, <1>2, <1>3, <1>4, <1>5, <1>6, <1>7, <1>8, <1>9,
     <1>10, <1>11, <1>12, <1>13, <1>14, <1>15, <1>16, <1>17 DEF Next, Step, Raises

\* No phase calls collected what is not in the directory.
LEMMA BackedStep ==
  TypeOK /\ Begins /\ ResultsAreBacked /\ [Next]_vars
    => ResultsAreBacked'
<1> SUFFICES ASSUME TypeOK, Begins, ResultsAreBacked, [Next]_vars
             PROVE  ResultsAreBacked'
  OBVIOUS
<1> USE DEF TypeOK, Begins, ResultsAreBacked, SnapshotStatuses
<1>1. CASE VerifyBaseline BY <1>1 DEF VerifyBaseline, Ends, nodeVars
<1>2. CASE Prepare BY <1>2 DEF Prepare, Ends, nodeVars
<1>3. CASE NodePhase
  BY <1>3, PoolStep DEF NodePhase
<1>4. CASE NodesDone BY <1>4 DEF NodesDone, nodeVars
<1>5. CASE SkipKubernetes BY <1>5 DEF SkipKubernetes, nodeVars
<1>6. CASE CollectKubernetes BY <1>6 DEF CollectKubernetes, nodeVars
<1>7. CASE CheckLimit BY <1>7 DEF CheckLimit, nodeVars
<1>8. CASE CollectPrometheus BY <1>8 DEF CollectPrometheus, nodeVars
<1>9. CASE WriteCollection BY <1>9 DEF WriteCollection, nodeVars
<1>10. CASE BuildReport BY <1>10 DEF BuildReport, nodeVars
<1>11. CASE Compare BY <1>11 DEF Compare, nodeVars
<1>12. CASE WriteManifest BY <1>12 DEF WriteManifest, Ends, nodeVars
<1>13. CASE NodePhaseRaises BY <1>13 DEF NodePhaseRaises, Ends, nodeVars
<1>14. CASE ReportRaises BY <1>14 DEF ReportRaises, Ends, nodeVars
<1>15. CASE PhaseRaises BY <1>15 DEF PhaseRaises, Ends, nodeVars
<1>16. CASE Killed BY <1>16 DEF Killed, Ends, nodeVars
<1>17. CASE UNCHANGED vars BY <1>17 DEF vars, nodeVars
<1>18. QED
  BY <1>1, <1>2, <1>3, <1>4, <1>5, <1>6, <1>7, <1>8, <1>9,
     <1>10, <1>11, <1>12, <1>13, <1>14, <1>15, <1>16, <1>17 DEF Next, Step, Raises

\* After collection.json no phase changes what it says.
LEMMA IndexStep ==
  IndexIsCurrent /\ [Next]_vars
    => IndexIsCurrent'
<1> SUFFICES ASSUME IndexIsCurrent, [Next]_vars
             PROVE  IndexIsCurrent'
  OBVIOUS
<1> USE DEF IndexIsCurrent, BeforeIndex, CollectionStatus
<1>1. CASE VerifyBaseline BY <1>1 DEF VerifyBaseline, Ends, nodeVars
<1>2. CASE Prepare BY <1>2 DEF Prepare, Ends, nodeVars
<1>3. CASE NodePhase BY <1>3 DEF NodePhase
<1>4. CASE NodesDone BY <1>4 DEF NodesDone, nodeVars
<1>5. CASE SkipKubernetes BY <1>5 DEF SkipKubernetes, nodeVars
<1>6. CASE CollectKubernetes BY <1>6 DEF CollectKubernetes, nodeVars
<1>7. CASE CheckLimit BY <1>7 DEF CheckLimit, nodeVars
<1>8. CASE CollectPrometheus BY <1>8 DEF CollectPrometheus, nodeVars
<1>9. CASE WriteCollection BY <1>9 DEF WriteCollection, nodeVars
<1>10. CASE BuildReport BY <1>10 DEF BuildReport, nodeVars
<1>11. CASE Compare BY <1>11 DEF Compare, nodeVars
<1>12. CASE WriteManifest BY <1>12 DEF WriteManifest, Ends, nodeVars
<1>13. CASE NodePhaseRaises BY <1>13 DEF NodePhaseRaises, Ends, nodeVars
<1>14. CASE ReportRaises BY <1>14 DEF ReportRaises, Ends, nodeVars
<1>15. CASE PhaseRaises BY <1>15 DEF PhaseRaises, Ends, nodeVars
<1>16. CASE Killed BY <1>16 DEF Killed, Ends, nodeVars
<1>17. CASE UNCHANGED vars BY <1>17 DEF vars, nodeVars
<1>18. QED
  BY <1>1, <1>2, <1>3, <1>4, <1>5, <1>6, <1>7, <1>8, <1>9,
     <1>10, <1>11, <1>12, <1>13, <1>14, <1>15, <1>16, <1>17 DEF Next, Step, Raises

\* collection.json has a status, so it is told from none.
LEMMA WrittenIndex == WriteCollection => index' # NoIndex
<1>1. ASSUME WriteCollection PROVE index'.status # NoIndex.status
  BY <1>1 DEF WriteCollection, CollectionStatus, NoIndex
<1>2. QED BY <1>1

\* Every phase adds its file, and no later one removes it.
LEMMA PhasesStep ==
  Begins /\ IndexIsCurrent /\ PhasesLeave /\ [Next]_vars
    => PhasesLeave'
<1> SUFFICES ASSUME Begins, IndexIsCurrent, PhasesLeave, [Next]_vars
             PROVE  PhasesLeave'
  OBVIOUS
<1> USE DEF Begins, IndexIsCurrent, PhasesLeave, BeforeIndex, Sealing
<1>1. CASE VerifyBaseline BY <1>1 DEF VerifyBaseline, Ends, nodeVars
<1>2. CASE Prepare BY <1>2 DEF Prepare, Ends, nodeVars
<1>3. CASE NodePhase BY <1>3 DEF NodePhase
<1>4. CASE NodesDone BY <1>4 DEF NodesDone, nodeVars
<1>5. CASE SkipKubernetes BY <1>5 DEF SkipKubernetes, nodeVars
<1>6. CASE CollectKubernetes BY <1>6 DEF CollectKubernetes, nodeVars
<1>7. CASE CheckLimit BY <1>7 DEF CheckLimit, nodeVars
<1>8. CASE CollectPrometheus BY <1>8 DEF CollectPrometheus, nodeVars
<1>9. CASE WriteCollection BY <1>9, WrittenIndex DEF WriteCollection, nodeVars, PhasesLeave, Sealing
<1>10. CASE BuildReport BY <1>10 DEF BuildReport, nodeVars
<1>11. CASE Compare BY <1>11 DEF Compare, nodeVars
<1>12. CASE WriteManifest BY <1>12 DEF WriteManifest, Ends, nodeVars
<1>13. CASE NodePhaseRaises BY <1>13 DEF NodePhaseRaises, Ends, nodeVars
<1>14. CASE ReportRaises BY <1>14 DEF ReportRaises, Ends, nodeVars
<1>15. CASE PhaseRaises BY <1>15 DEF PhaseRaises, Ends, nodeVars
<1>16. CASE Killed BY <1>16 DEF Killed, Ends, nodeVars
<1>17. CASE UNCHANGED vars BY <1>17 DEF vars, nodeVars
<1>18. QED
  BY <1>1, <1>2, <1>3, <1>4, <1>5, <1>6, <1>7, <1>8, <1>9,
     <1>10, <1>11, <1>12, <1>13, <1>14, <1>15, <1>16, <1>17 DEF Next, Step, Raises

\* Only a run whose report is there writes a manifest.
LEMMA SealStep ==
  Begins /\ IndexIsCurrent /\ PhasesLeave /\ ManifestSealsReport /\ [Next]_vars
    => ManifestSealsReport'
<1> SUFFICES ASSUME Begins, IndexIsCurrent, PhasesLeave, ManifestSealsReport, [Next]_vars
             PROVE  ManifestSealsReport'
  OBVIOUS
<1> USE DEF Begins, IndexIsCurrent, PhasesLeave, ManifestSealsReport, BeforeIndex, Sealing
<1>1. CASE VerifyBaseline BY <1>1 DEF VerifyBaseline, Ends, nodeVars
<1>2. CASE Prepare BY <1>2 DEF Prepare, Ends, nodeVars
<1>3. CASE NodePhase BY <1>3 DEF NodePhase
<1>4. CASE NodesDone BY <1>4 DEF NodesDone, nodeVars
<1>5. CASE SkipKubernetes BY <1>5 DEF SkipKubernetes, nodeVars
<1>6. CASE CollectKubernetes BY <1>6 DEF CollectKubernetes, nodeVars
<1>7. CASE CheckLimit BY <1>7 DEF CheckLimit, nodeVars
<1>8. CASE CollectPrometheus BY <1>8 DEF CollectPrometheus, nodeVars
<1>9. CASE WriteCollection BY <1>9, WrittenIndex DEF WriteCollection, nodeVars, ManifestSealsReport
<1>10. CASE BuildReport BY <1>10 DEF BuildReport, nodeVars
<1>11. CASE Compare BY <1>11 DEF Compare, nodeVars
<1>12. CASE WriteManifest BY <1>12 DEF WriteManifest, Ends, nodeVars
<1>13. CASE NodePhaseRaises BY <1>13 DEF NodePhaseRaises, Ends, nodeVars
<1>14. CASE ReportRaises BY <1>14 DEF ReportRaises, Ends, nodeVars
<1>15. CASE PhaseRaises BY <1>15 DEF PhaseRaises, Ends, nodeVars
<1>16. CASE Killed BY <1>16 DEF Killed, Ends, nodeVars
<1>17. CASE UNCHANGED vars BY <1>17 DEF vars, nodeVars
<1>18. QED
  BY <1>1, <1>2, <1>3, <1>4, <1>5, <1>6, <1>7, <1>8, <1>9,
     <1>10, <1>11, <1>12, <1>13, <1>14, <1>15, <1>16, <1>17 DEF Next, Step, Raises

\* Exit code 0 is given at the end of a run whose collection.json says complete.
LEMMA ExitStep ==
  TypeOK /\ Begins /\ ResultsAreBacked /\ IndexIsCurrent /\ PhasesLeave /\ ExitZeroIsComplete
    /\ [Next]_vars => ExitZeroIsComplete'
<1> SUFFICES ASSUME TypeOK, Begins, ResultsAreBacked, IndexIsCurrent, PhasesLeave,
                    ExitZeroIsComplete, [Next]_vars,
                    exit' = "zero"
             PROVE  ExitZeroIsComplete'
  BY DEF ExitZeroIsComplete
<1>1. CASE exit = "zero"
  <2>1. pc = "done" BY <1>1 DEF Begins
  <2>2. UNCHANGED vars
    BY <2>1 DEF Next, Step, Raises, VerifyBaseline, Prepare, NodePhase, NodesDone, SkipKubernetes,
       CollectKubernetes, CheckLimit, CollectPrometheus, WriteCollection, BuildReport, Compare,
       WriteManifest, NodePhaseRaises, ReportRaises, PhaseRaises, Killed
  <2>3. QED BY <2>2 DEF vars, ExitZeroIsComplete
<1>2. CASE exit # "zero"
  <2>1. WriteManifest /\ pc = "manifest" /\ index.status = "complete"
    BY <1>2 DEF Next, Step, Raises, vars, Ends, VerifyBaseline, Prepare, NodePhase, NodesDone,
       SkipKubernetes, CollectKubernetes, CheckLimit, CollectPrometheus, WriteCollection,
       BuildReport, Compare, WriteManifest, NodePhaseRaises, ReportRaises, PhaseRaises, Killed
  <2>2. index # NoIndex /\ {"prometheus", "report"} \subseteq files
    BY <2>1 DEF PhasesLeave, Sealing
  <2>3. CollectionStatus = "complete" BY <2>1, <2>2 DEF IndexIsCurrent
  <2>4. \A h \in Hosts : reported[h] = "collected" BY <2>3 DEF CollectionStatus
  <2>5. options.kubernetes = "disabled" \/ kubernetes.status = "collected"
    BY <2>3 DEF CollectionStatus
  <2>6. stored = Hosts BY <2>4 DEF ResultsAreBacked, TypeOK, Nodes!TypeOK
  <2>7. options.kubernetes # "disabled" => kubernetes.status = "collected" /\ "kubernetes" \in files
    BY <2>5 DEF ResultsAreBacked
  <2>8. options.baseline => "comparison" \in files BY <2>1 DEF PhasesLeave
  <2>9. QED BY <2>1, <2>2, <2>6, <2>7, <2>8 DEF WriteManifest, nodeVars, ExitZeroIsComplete
<1>3. QED BY <1>1, <1>2

\* The whole invariant, for every set of hosts.
THEOREM SnapshotInvariant == Spec => []IInv
<1>1. Init => IInv
  <2> SUFFICES ASSUME Init PROVE IInv
    OBVIOUS
  <2>1. TypeOK BY DEF Init, TypeOK, Nodes!Init, Nodes!TypeOK, Files, SnapshotStatuses
  <2>2. ResultsAreBacked BY DEF Init, ResultsAreBacked, Nodes!Init
  <2>3. Begins /\ IndexIsCurrent /\ PhasesLeave /\ ManifestSealsReport /\ ExitZeroIsComplete
    BY DEF Init, Begins, IndexIsCurrent, PhasesLeave, ManifestSealsReport,
       ExitZeroIsComplete, Sealing
  <2>4. QED BY <2>1, <2>2, <2>3 DEF IInv
<1>2. IInv /\ [Next]_vars => IInv'
  BY TypeStep, BeginsStep, BackedStep, IndexStep, PhasesStep, SealStep, ExitStep DEF IInv
<1>3. QED BY <1>1, <1>2, PTL DEF Spec

\* Exit code 0: every host's bundle, Kubernetes unless it was switched off, the
\* report, the comparison if one was asked for and the manifest are there.
THEOREM ExitZero == Spec => []ExitZeroIsComplete
<1>1. IInv => ExitZeroIsComplete BY DEF IInv
<1>2. QED BY <1>1, SnapshotInvariant, PTL

\* What collection.json names is in the directory, from when it is written on.
THEOREM IndexBacked == Spec => []IndexIsBacked
<1>1. IInv => IndexIsBacked
  <2> SUFFICES ASSUME IInv, index # NoIndex PROVE IndexIsBacked
    BY DEF IndexIsBacked
  <2>1. index.nodes = reported /\ index.kubernetes = kubernetes BY DEF IInv, IndexIsCurrent
  <2>2. QED BY <2>1 DEF IInv, ResultsAreBacked, PhasesLeave, IndexIsBacked
<1>2. QED BY <1>1, SnapshotInvariant, PTL

\* A manifest is only ever written over collection.json and a whole report.
THEOREM ManifestSeals == Spec => []ManifestSealsReport
<1>1. IInv => ManifestSealsReport BY DEF IInv
<1>2. QED BY <1>1, SnapshotInvariant, PTL
=============================================================================
