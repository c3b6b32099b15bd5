-------------------------- MODULE CollectorProofs --------------------------
(***************************************************************************)
(* The two collectors of a snapshot.  NodeCollection keeps the promise of  *)
(* HostResults, and reports every archive it leaves behind, for any number *)
(* of hosts, machines and workers.  KubernetesCollection calls collected   *)
(* only what it has whole and spends its budget on the first logs, for any *)
(* sources, Pods, sizes and limits.                                        *)
(***************************************************************************)
EXTENDS NodeCollection, KubernetesCollection, TLAPS

\* A failed copy or run has a status of its own, never "collected".
LEMMA FailureStatuses ==
  UploadFailures \cup RunFailures \subseteq Promise!NodeStatuses \ {"collected"}
<1>1. UploadFailures \subseteq {"unreachable", "failed"}
  BY DEF UploadFailures, UploadStatus
<1>2. RunFailures \subseteq {"timeout", "truncated", "unreachable", "permission_denied", "failed"}
  BY DEF RunFailures, RunStatus
<1> QED
  BY <1>1, <1>2 DEF Promise!NodeStatuses

\* What Upload and CleanUp do, one variable at a time.
LEMMA UploadEffect ==
  ASSUME NEW h \in Hosts, Upload(h)
  PROVE  /\ \E left \in {"absent", "partial", "whole", archive[Machine[h]]} :
              archive' = [archive EXCEPT ![Machine[h]] = left]
         /\ \/ /\ task' = [task EXCEPT ![h] = "run"]
               /\ archive' = [archive EXCEPT ![Machine[h]] = "whole"]
               /\ status' = status
            \/ /\ task' = [task EXCEPT ![h] = "cleanup"]
               /\ \E verdict \in Promise!NodeStatuses \ {"collected"} :
                    status' = [status EXCEPT ![h] = verdict]
         /\ task[h] = "upload"
         /\ UNCHANGED <<payload, cleanup, running, stored, results>>
BY FailureStatuses DEF Upload

\* Every action of a host keeps the shape of the state: what is assigned comes
\* from the statuses and clean-up outcomes the transport knows.
LEMMA TypeStep ==
  ASSUME TypeOK, NEW g \in Hosts, BundleMatchesTask(g), LocalStep(g) \/ RemoteStep(g)
  PROVE  TypeOK'
<1> USE PoolAssumption DEF TypeOK, Promise!NodeStatuses
<1>1. CASE Start(g)
  BY <1>1 DEF Start
<1>2. CASE Upload(g)
  <2>1. Machine[g] \in Machines
    OBVIOUS
  <2>2. archive' \in [Machines -> {"absent", "partial", "whole"}]
    <3>1. PICK left \in {"absent", "partial", "whole", archive[Machine[g]]} :
            archive' = [archive EXCEPT ![Machine[g]] = left]
      BY <1>2, UploadEffect
    <3>2. left \in {"absent", "partial", "whole"}
      BY <2>1
    <3> QED
      BY <3>1, <3>2
  <2>3. task' \in [Hosts -> {"queued", "upload", "run", "cleanup", "store", "return", "done"}]
    BY <1>2, UploadEffect
  <2>4. status' \in [Hosts -> Promise!NodeStatuses \cup {"none", "raised"}]
    <3>1. CASE status' = status
      BY <3>1
    <3>2. ASSUME NEW verdict \in Promise!NodeStatuses, status' = [status EXCEPT ![g] = verdict]
          PROVE  status' \in [Hosts -> Promise!NodeStatuses \cup {"none", "raised"}]
      BY <3>2
    <3> QED
      BY <1>2, <3>1, <3>2, UploadEffect
  <2> QED
    BY <1>2, <2>2, <2>3, <2>4, UploadEffect
<1>3. CASE RunEnds(g)
  BY <1>3, FailureStatuses DEF RunEnds
<1>4. CASE CleanUp(g)
  BY <1>4 DEF CleanUp
<1>5. CASE Reject(g)
  BY <1>5 DEF Reject
<1>6. CASE StoreBundle(g)
  BY <1>6 DEF StoreBundle
<1>7. CASE StoreRaises(g)
  BY <1>7 DEF StoreRaises
<1>8. CASE Record(g)
  BY <1>8 DEF Record, BundleMatchesTask
<1>9. CASE RemoteStarts(g)
  BY <1>9 DEF RemoteStarts
<1>10. CASE RemoteEnds(g)
  BY <1>10 DEF RemoteEnds
<1> QED
  BY <1>1, <1>2, <1>3, <1>4, <1>5, <1>6, <1>7, <1>8, <1>9, <1>10
  DEF LocalStep, RemoteStep

\* A step of one host says nothing about another host's worker.
LEMMA OtherHost ==
  ASSUME TypeOK, NEW g \in Hosts, NEW h \in Hosts, g # h, LocalStep(g) \/ RemoteStep(g)
  PROVE  /\ task'[h] = task[h]
         /\ status'[h] = status[h]
         /\ cleanup'[h] = cleanup[h]
         /\ results'[h] = results[h]
         /\ h \in stored' <=> h \in stored
         /\ Unshared(h) => archive'[Machine[h]] = archive[Machine[h]]
<1> USE DEF TypeOK
<1>1. CASE Start(g)
  BY <1>1 DEF Start
<1>2. CASE Upload(g)
  <2>1. task'[h] = task[h] /\ status'[h] = status[h]
    BY <1>2, UploadEffect
  <2>2. ASSUME Unshared(h) PROVE archive'[Machine[h]] = archive[Machine[h]]
    BY <1>2, <2>2, UploadEffect, PoolAssumption DEF Unshared
  <2> QED
    BY <1>2, <2>1, <2>2, UploadEffect
<1>3. CASE RunEnds(g)
  BY <1>3 DEF RunEnds
<1>4. CASE CleanUp(g)
  BY <1>4 DEF CleanUp, Unshared
<1>5. CASE Reject(g)
  BY <1>5 DEF Reject
<1>6. CASE StoreBundle(g)
  BY <1>6 DEF StoreBundle
<1>7. CASE StoreRaises(g)
  BY <1>7 DEF StoreRaises
<1>8. CASE Record(g)
  BY <1>8 DEF Record
<1>9. CASE RemoteStep(g)
  BY <1>9 DEF RemoteStep, RemoteStarts, RemoteEnds
<1> QED
  BY <1>1, <1>2, <1>3, <1>4, <1>5, <1>6, <1>7, <1>8, <1>9 DEF LocalStep

\* A step of a host keeps what is on disk in line with where its worker is.
LEMMA BundleStep ==
  ASSUME TypeOK, NEW h \in Hosts, BundleMatchesTask(h), LocalStep(h) \/ RemoteStep(h)
  PROVE  BundleMatchesTask(h)'
<1> USE DEF TypeOK, BundleMatchesTask, Promise!NodeStatuses
<1>1. CASE Start(h)
  BY <1>1 DEF Start
<1>2. CASE Upload(h)
  BY <1>2, UploadEffect
<1>3. CASE RunEnds(h)
  BY <1>3, FailureStatuses DEF RunEnds
<1>4. CASE CleanUp(h)
  BY <1>4 DEF CleanUp
<1>5. CASE Reject(h)
  BY <1>5 DEF Reject
<1>6. CASE StoreBundle(h)
  BY <1>6 DEF StoreBundle
<1>7. CASE StoreRaises(h)
  BY <1>7 DEF StoreRaises
<1>8. CASE Record(h)
  BY <1>8 DEF Record
<1>9. CASE RemoteStep(h)
  BY <1>9 DEF RemoteStep, RemoteStarts, RemoteEnds
<1> QED
  BY <1>1, <1>2, <1>3, <1>4, <1>5, <1>6, <1>7, <1>8, <1>9 DEF LocalStep

\* A step of a host keeps what is on its machine in line with its clean-up.
LEMMA ArchiveStep ==
  ASSUME TypeOK, NEW h \in Hosts, ArchiveMatchesTask(h), LocalStep(h) \/ RemoteStep(h)
  PROVE  ArchiveMatchesTask(h)'
<1> USE PoolAssumption DEF TypeOK, ArchiveMatchesTask
<1>1. CASE Start(h)
  BY <1>1 DEF Start
<1>2. CASE Upload(h)
  BY <1>2, UploadEffect
<1>3. CASE RunEnds(h)
  BY <1>3 DEF RunEnds
<1>4. CASE CleanUp(h)
  BY <1>4 DEF CleanUp
<1>5. CASE Reject(h)
  BY <1>5 DEF Reject
<1>6. CASE StoreBundle(h)
  BY <1>6 DEF StoreBundle
<1>7. CASE StoreRaises(h)
  BY <1>7 DEF StoreRaises
<1>8. CASE Record(h)
  BY <1>8 DEF Record
<1>9. CASE RemoteStep(h)
  BY <1>9 DEF RemoteStep, RemoteStarts, RemoteEnds
<1> QED
  BY <1>1, <1>2, <1>3, <1>4, <1>5, <1>6, <1>7, <1>8, <1>9 DEF LocalStep

\* The inductive invariant of the node phase holds whatever the machines do:
\* bundles and archives always match the place each worker has reached.
THEOREM NodeInvariant == Spec => []IInv
<1>1. Init => IInv
  BY PoolAssumption DEF Init, IInv, TypeOK, BundleMatchesTask, ArchiveMatchesTask, Pending,
     Promise!NodeStatuses
<1>2. IInv /\ [Next]_vars => IInv'
  <2> SUFFICES ASSUME IInv, [Next]_vars PROVE IInv'
    OBVIOUS
  <2>1. CASE UNCHANGED vars
    BY <2>1 DEF vars, IInv, TypeOK, BundleMatchesTask, ArchiveMatchesTask, Unshared
  <2>2. ASSUME NEW g \in Hosts, LocalStep(g) \/ RemoteStep(g) PROVE IInv'
    <3>1. TypeOK'
      BY <2>2, TypeStep DEF IInv
    <3>2. ASSUME NEW h \in Hosts PROVE BundleMatchesTask(h)'
      <4>1. CASE h = g
        BY <2>2, <4>1, BundleStep DEF IInv
      <4>2. CASE h # g
        BY <2>2, <4>2, OtherHost DEF IInv, BundleMatchesTask
      <4> QED
        BY <4>1, <4>2
    <3>3. ASSUME NEW h \in Hosts, Unshared(h) PROVE ArchiveMatchesTask(h)'
      <4>1. CASE h = g
        BY <2>2, <3>3, <4>1, ArchiveStep DEF IInv
      <4>2. CASE h # g
        BY <2>2, <3>3, <4>2, OtherHost DEF IInv, ArchiveMatchesTask
      <4> QED
        BY <4>1, <4>2
    <3> QED
      BY <3>1, <3>2, <3>3 DEF IInv, Unshared
  <2> QED
    BY <2>1, <2>2 DEF Next
<1> QED
  BY <1>1, <1>2, PTL DEF Spec

\* The state of the node phase keeps its shape.
THEOREM NodeTypeOK == Spec => []TypeOK
BY NodeInvariant, PTL DEF IInv

\* No clean result hides an archive left on a machine of its own.
THEOREM LeftoversReported == Spec => []LeftoverReported
<1>1. IInv => LeftoverReported
  BY DEF IInv, LeftoverReported, ArchiveMatchesTask
<1> QED
  BY <1>1, NodeInvariant, PTL

\* The archive of a machine of its own stays whole while its collector is awaited.
THEOREM ArchivesKept == Spec => []ArchiveKeptDuringRun
<1>1. IInv => ArchiveKeptDuringRun
  BY DEF IInv, ArchiveKeptDuringRun, ArchiveMatchesTask
<1> QED
  BY <1>1, NodeInvariant, PTL

\* Every step of the node phase is, for those who read its results and the
\* directory, a bundle stored, a result reported, or nothing.
LEMMA StepKeepsPromise ==
  ASSUME IInv, NEW h \in Hosts, LocalStep(h) \/ RemoteStep(h)
  PROVE  \/ Promise!Store(h)
         \/ \E s \in Promise!NodeStatuses : Promise!Report(h, s)
         \/ UNCHANGED <<results, stored>>
<1> USE DEF IInv, TypeOK, BundleMatchesTask
<1>1. CASE StoreBundle(h)
  BY <1>1 DEF StoreBundle, Promise!Store
<1>2. CASE StoreRaises(h)
  BY <1>2 DEF StoreRaises, Promise!Store
<1>3. CASE Record(h)
  <2> DEFINE s == IF status[h] = "raised" THEN "failed" ELSE status[h]
  <2>1. s \in Promise!NodeStatuses
    BY <1>3 DEF Record, Promise!NodeStatuses
  <2>2. Promise!Report(h, s)
    <3>1. results'[h].status = s /\ \A g \in Hosts \ {h} : results'[g] = results[g]
      BY <1>3 DEF Record
    <3>2. [g \in Hosts |-> results[g].status]' = [[g \in Hosts |-> results[g].status] EXCEPT ![h] = s]
      BY <3>1
    <3>3. /\ results[h].status = "pending"
          /\ s = "collected" => h \in stored
          /\ h \in stored => s \in {"collected", "failed"}
          /\ UNCHANGED stored
      BY <1>3 DEF Record
    <3> QED
      BY <3>2, <3>3 DEF Promise!Report
  <2> QED
    BY <2>1, <2>2, Zenon DEF Promise!Report
<1>4. CASE Start(h) \/ Upload(h) \/ RunEnds(h) \/ CleanUp(h) \/ Reject(h) \/ RemoteStep(h)
  BY <1>4 DEF Start, Upload, RunEnds, CleanUp, Reject, RemoteStep, RemoteStarts, RemoteEnds
<1> QED
  BY <1>1, <1>2, <1>3, <1>4 DEF LocalStep

\* The node phase implements HostResults: whatever the transport does, one
\* result per host, and a bundle behind every host reported as collected.
THEOREM ImplementsHostResults == Spec => KeepsPromise
<1>1. Init => Promise!Init
  BY DEF Init, Pending, Promise!Init
<1>2. IInv /\ [Next]_vars => [Promise!Next]_<<[h \in Hosts |-> results[h].status], stored>>
  <2> SUFFICES ASSUME IInv, [Next]_vars
               PROVE  Promise!Next \/ UNCHANGED <<[h \in Hosts |-> results[h].status], stored>>
    OBVIOUS
  <2>1. CASE UNCHANGED vars
    BY <2>1 DEF vars
  <2>2. ASSUME NEW g \in Hosts, LocalStep(g) \/ RemoteStep(g)
        PROVE  Promise!Next \/ UNCHANGED <<[h \in Hosts |-> results[h].status], stored>>
    BY <2>2, StepKeepsPromise DEF Promise!Next
  <2> QED
    BY <2>1, <2>2 DEF Next
<1> QED
  BY <1>1, <1>2, NodeInvariant, PTL DEF Spec, KeepsPromise, Promise!Spec
-----------------------------------------------------------------------------
(* KubernetesCollection *)

Calls == [pod : Nat \ {0}, container : Nat \ {0}, previous : BOOLEAN]
Entries == [call : Calls, status : {"collected", "failed"}, older : Nat, lacks : Nat]

\* The sources: what is pending has tried nothing, what runs has a candidate left.
SourcesAreHonest ==
  /\ sources \in [Ids -> {"pending", "running", "collected", "timeout", "truncated", "unsupported",
                          "failed", "malformed"}]
  /\ attempts \in [Configs -> Nat]
  /\ whole \subseteq Ids
  /\ \A id \in Ids : sources[id] = "collected" => id \in whole
  /\ \A id \in Configs :
       /\ sources[id] \in {"pending", "running"} => attempts[id] < Candidates[id]
       /\ attempts[id] <= Candidates[id]

\* The logs: nothing is read before the Pods are known, an entry is a log that
\* exists, and one called collected has all that was asked for.
EntriesAreLogs ==
  /\ pods \in Seq(Seq(BOOLEAN))
  /\ at \in Calls
  /\ entries \in Seq(Entries)
  /\ consumed \in 0 .. MaxLogBytes
  /\ limited \in BOOLEAN
  /\ stage = "sources" => pods = <<>> /\ at = FirstOf(1) /\ entries = <<>> /\ logs = "none"
  /\ stage = "logs" => logs = "none"
  /\ \A i \in 1 .. Len(entries) :
       /\ entries[i].call \in Logs
       /\ entries[i].status = "collected" => LacksOlderOnly(entries[i])

\* Among the first n of what was read is a log.
Reads(read, call, n) == \E j \in 1 .. n : read[j].call = call

\* As long as there is budget left, every log before the next one has been read.
NothingSkipped ==
  /\ ~limited => Len(pods) <= MaxPods
  /\ stage = "logs" /\ consumed < MaxLogBytes =>
       \A call \in Logs : Before(call, at) => Reads(entries, call, Len(entries))
  /\ \A i \in 1 .. Len(entries) : \A call \in Logs :
       Before(call, entries[i].call) => Reads(entries, call, i - 1)

\* Logs called collected are all there.
CollectedLogsAreWhole ==
  logs = "collected" =>
    \A call \in Logs : \E i \in 1 .. Len(entries) : entries[i].call = call /\ LacksOlderOnly(entries[i])

LogInv ==
  /\ stage \in {"sources", "logs", "done"}
  /\ logs \in {"none", "disabled", "source_unavailable", "truncated", "partial", "collected"}
  /\ EntriesAreLogs
  /\ NothingSkipped
  /\ CollectedLogsAreWhole

KubernetesInv == SourcesAreHonest /\ LogInv

\* A log of a Pod, by its place.
LEMMA LogsByPlace ==
  ASSUME pods \in Seq(Seq(BOOLEAN))
  PROVE  /\ Logs \subseteq Calls
         /\ \A call \in Calls :
              call \in Logs <=> /\ call.pod \in 1 .. Len(pods)
                                /\ call.container \in 1 .. Len(pods[call.pod])
                                /\ call.previous => pods[call.pod][call.container]
<1>1. \A i \in DOMAIN pods : pods[i] \in Seq(BOOLEAN) /\ DOMAIN pods[i] = 1 .. Len(pods[i])
  OBVIOUS
<1>2. DOMAIN pods = 1 .. Len(pods)
  OBVIOUS
<1>3. UNION {DOMAIN pods[i] : i \in DOMAIN pods} \subseteq Nat \ {0}
  BY <1>1
<1>4. Logs \subseteq Calls
  BY <1>2, <1>3 DEF Logs, Calls
<1>5. ASSUME NEW call \in Calls
      PROVE  call \in Logs <=> /\ call.pod \in 1 .. Len(pods)
                               /\ call.container \in 1 .. Len(pods[call.pod])
                               /\ call.previous => pods[call.pod][call.container]
  <2>1. call \in Logs <=> /\ call.pod \in 1 .. Len(pods)
                          /\ call.container \in UNION {DOMAIN pods[i] : i \in DOMAIN pods}
                          /\ call.container \in DOMAIN pods[call.pod]
                          /\ call.previous => Restarted(call)
    BY DEF Logs, Calls
  <2> QED
    BY <2>1, <1>1, <1>2 DEF Restarted
<1> QED
  BY <1>4, <1>5

\* A step of a source: what is called collected came whole.
LEMMA SourceStep ==
  ASSUME SourcesAreHonest, NEW id \in Ids, Submit(id) \/ Answer(id) \/ ProjectorRaises(id)
  PROVE  SourcesAreHonest' /\ UNCHANGED <<stage, logVars>>
<1> USE KubernetesAssumption DEF SourcesAreHonest, Ids, Configs
<1>1. CASE Submit(id)
  BY <1>1 DEF Submit, sourceVars
<1>2. CASE ProjectorRaises(id)
  BY <1>2 DEF ProjectorRaises, sourceVars
<1>3. CASE Answer(id)
  <2>1. PICK r \in Outcomes, wellFormed \in WellFormed(id) :
          LET answer == SourceStatus(r, wellFormed)
              last == id \notin Configs \/ attempts[id] + 1 = Candidates[id]
          IN  /\ sources' = [sources EXCEPT ![id] =
                               IF answer = "collected" \/ last THEN answer ELSE "running"]
              /\ attempts' = IF id \in Configs THEN [attempts EXCEPT ![id] = @ + 1] ELSE attempts
              /\ whole' = IF ~Cut(r) /\ wellFormed THEN whole \cup {id} ELSE whole
    BY <1>3 DEF Answer
  <2>2. wellFormed \in BOOLEAN
    BY DEF WellFormed
  <2>3. /\ SourceStatus(r, wellFormed) \in {"collected", "timeout", "truncated", "unsupported", "failed", "malformed"}
        /\ SourceStatus(r, wellFormed) = "collected" => ~Cut(r) /\ wellFormed
    BY <2>2 DEF SourceStatus, Cut, Outcomes
  <2>4. sources[id] = "running"
    BY <1>3 DEF Answer
  <2> QED
    BY <1>3, <2>1, <2>3, <2>4 DEF Answer
<1> QED
  BY <1>1, <1>2, <1>3

\* What a call may return: no more than its limit, and everything if its entry
\* is called collected.
LEMMA ResultOfCall ==
  ASSUME NEW size \in Nat, NEW limit \in Nat, NEW result \in LogResults(size, limit)
  PROVE  /\ result.kept \in 0 .. limit /\ result.kept <= size
         /\ EntryStatus(result.r) \in {"collected", "failed"}
         /\ EntryStatus(result.r) = "collected" => result.kept = size
BY DEF LogResults, EntryStatus, Cut

\* The log that is next exists, if its place does.
LEMMA NextLogExists ==
  ASSUME EntriesAreLogs, ContainersLeft, at.previous => Restarted(at)
  PROVE  at \in Logs
<1>1. at \in Calls /\ pods \in Seq(Seq(BOOLEAN))
  BY DEF EntriesAreLogs
<1>2. at.pod \in 1 .. Len(pods) /\ pods[at.pod] \in Seq(BOOLEAN)
  BY <1>1 DEF ContainersLeft, PodsLeft, Calls
<1>3. at.container \in 1 .. Len(pods[at.pod])
  BY <1>1, <1>2 DEF ContainersLeft, Calls
<1> QED
  BY <1>1, <1>2, <1>3, LogsByPlace DEF Restarted

\* What comes before the place after a log is that log and what came before it.
LEMMA AfterLog ==
  ASSUME EntriesAreLogs, NEW call \in Logs, NEW next \in Calls,
         next = IF at.previous THEN NextContainer ELSE [at EXCEPT !.previous = TRUE],
         Before(call, next)
  PROVE  call = at \/ Before(call, at)
<1>1. call \in Calls /\ at \in Calls
  BY LogsByPlace DEF EntriesAreLogs
<1>2. CASE at.previous
  <2>1. next = [pod |-> at.pod, container |-> at.container + 1, previous |-> FALSE]
    BY <1>1, <1>2 DEF NextContainer, Calls
  <2>2. call.pod < at.pod \/ (call.pod = at.pod /\ call.container <= at.container)
    BY <1>1, <2>1 DEF Before, Calls
  <2> QED
    BY <1>1, <1>2, <2>2 DEF Before, Calls
<1>3. CASE ~at.previous
  <2>1. next = [pod |-> at.pod, container |-> at.container, previous |-> TRUE]
    BY <1>1, <1>3 DEF Calls
  <2> QED
    BY <1>1, <1>3, <2>1 DEF Before, Calls
<1> QED
  BY <1>2, <1>3

LEMMA PlaceAfter ==
  ASSUME at \in Calls
  PROVE  /\ NextContainer \in Calls
         /\ [at EXCEPT !.previous = TRUE] \in Calls
         /\ FirstOf(at.pod + 1) \in Calls
<1>1. /\ at.pod + 1 \in Nat \ {0} /\ at.container + 1 \in Nat \ {0} /\ 1 \in Nat \ {0}
      /\ TRUE \in BOOLEAN /\ FALSE \in BOOLEAN
  BY DEF Calls
<1>2. \A c \in Nat \ {0}, previous \in BOOLEAN :
        /\ [at EXCEPT !.container = c, !.previous = previous] \in Calls
        /\ [at EXCEPT !.previous = previous] \in Calls
  BY DEF Calls
<1>3. NextContainer \in Calls /\ [at EXCEPT !.previous = TRUE] \in Calls
  BY <1>1, <1>2, Zenon DEF NextContainer
<1>4. FirstOf(at.pod + 1) \in Calls
  BY <1>1 DEF FirstOf, Calls
<1> QED
  BY <1>3, <1>4

\* A log is read: within the budget, after everything that comes before it.
LEMMA ReadLogStep == ASSUME LogInv, ReadLog PROVE LogInv'
<1> USE KubernetesAssumption
<1>1. PICK log \in LogShapes : \E result \in LogResults(log.tail, LogLimit) :
         /\ consumed' = consumed + result.kept
         /\ entries' = Append(entries, [ call |-> at, status |-> EntryStatus(result.r), older |-> log.older,
                                         lacks |-> log.older + log.tail - result.kept ])
  BY DEF ReadLog
<1>2. PICK result \in LogResults(log.tail, LogLimit) :
         /\ consumed' = consumed + result.kept
         /\ entries' = Append(entries, [ call |-> at, status |-> EntryStatus(result.r), older |-> log.older,
                                         lacks |-> log.older + log.tail - result.kept ])
  BY <1>1
<1>3. /\ stage = "logs" /\ stage' = "logs" /\ consumed < MaxLogBytes
      /\ UNCHANGED <<pods, limited, logs>> /\ logs = "none"
      /\ at' = IF at.previous THEN NextContainer ELSE [at EXCEPT !.previous = TRUE]
  BY DEF ReadLog, LogInv, EntriesAreLogs
<1>4. LogLimit \in 0 .. MaxLogBytes - consumed
  <2> DEFINE S == {MaxLogBytes - consumed, CallBytes}
  <2>1. MaxLogBytes - consumed \in Nat /\ CallBytes \in Nat
    BY <1>3 DEF LogInv, EntriesAreLogs
  <2>2. \E m \in S : \A x \in S : m <= x
    BY <2>1
  <2>3. Min(S) \in S /\ \A x \in S : Min(S) <= x
    BY <2>2 DEF Min
  <2> QED
    BY <2>1, <2>3 DEF LogLimit
<1>5. log.tail \in Nat /\ log.older \in Nat /\ LogLimit \in Nat
  BY <1>4, <1>3 DEF LogInv, EntriesAreLogs
<1>6. /\ result.kept \in 0 .. LogLimit
      /\ EntryStatus(result.r) \in {"collected", "failed"}
      /\ result.kept <= log.tail
      /\ EntryStatus(result.r) = "collected" => result.kept = log.tail
  BY <1>5, ResultOfCall
<1> DEFINE entry == [ call |-> at, status |-> EntryStatus(result.r), older |-> log.older,
                      lacks |-> log.older + log.tail - result.kept ]
<1>7. at \in Logs /\ at \in Calls /\ Logs \subseteq Calls
  BY NextLogExists, LogsByPlace DEF ReadLog, LogInv, EntriesAreLogs
<1>8. entry \in Entries /\ entry.call = at /\ (entry.status = "collected" => LacksOlderOnly(entry))
  <2>1. log.older + log.tail - result.kept \in Nat /\ log.older \in Nat
    BY <1>5, <1>6
  <2>2. entry \in Entries
    BY <1>6, <1>7, <2>1 DEF Entries
  <2> QED
    BY <1>5, <1>6, <2>2 DEF LacksOlderOnly
<1>9. entries' = Append(entries, entry)
  BY <1>2
<1> HIDE DEF entry
<1>10. /\ entries' \in Seq(Entries) /\ Len(entries') = Len(entries) + 1 /\ Len(entries) \in Nat
       /\ entries'[Len(entries) + 1] = entry
       /\ \A i \in 1 .. Len(entries) : entries'[i] = entries[i]
  BY <1>8, <1>9 DEF LogInv, EntriesAreLogs
<1>11. Logs' = Logs
  BY <1>3 DEF Logs, Restarted
<1>12. at' \in Calls
  BY <1>3, <1>7, PlaceAfter
<1>13. EntriesAreLogs'
  <2>1. consumed' \in 0 .. MaxLogBytes
    <3>1. consumed \in 0 .. MaxLogBytes /\ result.kept \in 0 .. LogLimit
      BY <1>6 DEF LogInv, EntriesAreLogs
    <3>2. consumed' = consumed + result.kept
      BY <1>2
    <3> HIDE DEF entry
    <3> QED
      BY <1>4, <3>1, <3>2
  <2>2. \A i \in 1 .. Len(entries') :
          entries'[i].call \in Logs /\ (entries'[i].status = "collected" => LacksOlderOnly(entries'[i]))
    <3> SUFFICES ASSUME NEW i \in 1 .. Len(entries')
                 PROVE  entries'[i].call \in Logs /\ (entries'[i].status = "collected" => LacksOlderOnly(entries'[i]))
      OBVIOUS
    <3>1. CASE i = Len(entries) + 1
      BY <3>1, <1>7, <1>8, <1>10
    <3>2. CASE i \in 1 .. Len(entries)
      BY <3>2, <1>10 DEF LogInv, EntriesAreLogs
    <3> QED
      BY <3>1, <3>2, <1>10
  <2> QED
    BY <1>3, <1>10, <1>11, <1>12, <2>1, <2>2 DEF LogInv, EntriesAreLogs
<1>14. \A call \in Logs : Before(call, at) => Reads(entries, call, Len(entries))
  BY <1>3 DEF LogInv, NothingSkipped
<1>15. \A call : \A n \in 0 .. Len(entries) : Reads(entries', call, n) <=> Reads(entries, call, n)
  <2> SUFFICES ASSUME NEW call, NEW n \in 0 .. Len(entries)
               PROVE  Reads(entries', call, n) <=> Reads(entries, call, n)
    OBVIOUS
  <2>1. \A j \in 1 .. n : entries'[j] = entries[j]
    BY <1>10
  <2> QED
    BY <2>1 DEF Reads
<1>16. NothingSkipped'
  <2>1. \A call \in Logs : Before(call, at') => Reads(entries', call, Len(entries'))
    <3> SUFFICES ASSUME NEW call \in Logs, Before(call, at') PROVE Reads(entries', call, Len(entries'))
      OBVIOUS
    <3>1. call = at \/ Before(call, at)
      BY <1>3, <1>12, AfterLog DEF LogInv
    <3>2. CASE call = at
      BY <3>2, <1>8, <1>10 DEF Reads
    <3>3. CASE Before(call, at)
      BY <3>3, <1>10, <1>14 DEF Reads
    <3> QED
      BY <3>1, <3>2, <3>3
  <2>2. \A i \in 1 .. Len(entries') : \A call \in Logs :
          Before(call, entries'[i].call) => Reads(entries', call, i - 1)
    <3> SUFFICES ASSUME NEW i \in 1 .. Len(entries'), NEW call \in Logs, Before(call, entries'[i].call)
                 PROVE  Reads(entries', call, i - 1)
      OBVIOUS
    <3>1. CASE i = Len(entries) + 1
      BY <3>1, <1>8, <1>10, <1>14, <1>15
    <3>2. CASE i \in 1 .. Len(entries)
      <4>1. Reads(entries, call, i - 1)
        BY <3>2, <1>10 DEF LogInv, NothingSkipped
      <4> QED
        BY <3>2, <4>1, <1>10, <1>15
    <3> QED
      BY <3>1, <3>2, <1>10
  <2> QED
    BY <1>3, <1>11, <2>1, <2>2 DEF LogInv, NothingSkipped, Before, Reads
<1>17. CollectedLogsAreWhole'
  BY <1>3 DEF CollectedLogsAreWhole
<1> QED
  BY <1>3, <1>13, <1>16, <1>17 DEF LogInv

\* Only the place of the next log changes: nothing was there to read, or no
\* budget is left.
LEMMA PlaceStep ==
  ASSUME LogInv, stage = "logs", at' \in Calls, UNCHANGED <<stage, pods, entries, consumed, logs>>,
         limited' \in {limited, TRUE},
         consumed >= MaxLogBytes \/ (\A call \in Logs : Before(call, at') => Before(call, at))
  PROVE  LogInv'
<1> USE KubernetesAssumption
<1>1. Logs' = Logs
  BY DEF Logs, Restarted
<1>2. EntriesAreLogs'
  BY <1>1 DEF LogInv, EntriesAreLogs
<1>3. consumed < MaxLogBytes => \A call \in Logs : Before(call, at') => Reads(entries, call, Len(entries))
  BY DEF LogInv, NothingSkipped, EntriesAreLogs
<1>4. NothingSkipped'
  BY <1>1, <1>3 DEF LogInv, NothingSkipped, EntriesAreLogs, Before
<1>5. CollectedLogsAreWhole'
  BY <1>1 DEF LogInv, CollectedLogsAreWhole
<1> QED
  BY <1>2, <1>4, <1>5 DEF LogInv

LEMMA SkipPreviousStep == ASSUME LogInv, SkipPrevious PROVE LogInv'
<1>1. at \in Calls /\ at.previous /\ at' = NextContainer /\ at' \in Calls /\ ~Restarted(at)
  BY PlaceAfter DEF LogInv, EntriesAreLogs, SkipPrevious
<1>2. ASSUME NEW call \in Logs, Before(call, at') PROVE Before(call, at)
  <2>1. call = at \/ Before(call, at)
    BY <1>1, <1>2, AfterLog DEF LogInv
  <2>2. call # at
    BY <1>1 DEF Logs
  <2> QED
    BY <2>1, <2>2
<1> QED
  BY <1>1, <1>2, PlaceStep DEF SkipPrevious

LEMMA OutOfBudgetStep == ASSUME LogInv, OutOfBudget PROVE LogInv'
<1>1. at' \in Calls
  BY PlaceAfter DEF LogInv, EntriesAreLogs, OutOfBudget
<1> QED
  BY <1>1, PlaceStep DEF OutOfBudget

LEMMA NextPodStep == ASSUME LogInv, NextPod PROVE LogInv'
<1>1. /\ at \in Calls /\ at' = FirstOf(at.pod + 1) /\ at' \in Calls
      /\ pods \in Seq(Seq(BOOLEAN)) /\ PodsLeft /\ ~ContainersLeft
  BY PlaceAfter DEF LogInv, EntriesAreLogs, NextPod
<1>2. at.pod \in 1 .. Len(pods) /\ at.container > Len(pods[at.pod]) /\ Len(pods[at.pod]) \in Nat
  BY <1>1 DEF PodsLeft, ContainersLeft, Calls
<1>3. ASSUME NEW call \in Logs, Before(call, at') PROVE Before(call, at)
  <2>1. /\ call \in Calls /\ call.pod \in 1 .. Len(pods) /\ call.container \in 1 .. Len(pods[call.pod])
    BY <1>1, LogsByPlace
  <2>2. call.pod < at.pod + 1
    BY <1>1, <1>3, <2>1 DEF Before, FirstOf, Calls
  <2>3. CASE call.pod = at.pod
    BY <2>1, <2>3, <1>1, <1>2 DEF Before, Calls
  <2>4. CASE call.pod < at.pod
    BY <2>4 DEF Before
  <2> QED
    BY <1>1, <2>1, <2>2, <2>3, <2>4 DEF Calls
<1> QED
  BY <1>1, <1>3, PlaceStep DEF NextPod

\* At the end, with budget left and no Pod left out, every log has been read.
LEMMA LogsEndStep == ASSUME LogInv, LogsEnd PROVE LogInv'
<1>1. /\ stage = "logs" /\ stage' = "done" /\ ~PodsLeft
      /\ UNCHANGED <<pods, at, entries, consumed, limited>>
      /\ logs' \in {"truncated", "partial", "collected"}
      /\ logs' = "collected" =>
           /\ ~limited /\ ~(consumed >= MaxLogBytes)
           /\ \A i \in DOMAIN entries : entries[i].status = "collected"
  BY DEF LogsEnd
<1>2. Logs' = Logs
  BY <1>1 DEF Logs, Restarted
<1>3. EntriesAreLogs'
  BY <1>1, <1>2 DEF LogInv, EntriesAreLogs
<1>4. NothingSkipped'
  BY <1>1, <1>2 DEF LogInv, NothingSkipped, Before
<1>5. CollectedLogsAreWhole'
  <2> SUFFICES ASSUME logs' = "collected", NEW call \in Logs
               PROVE  \E i \in 1 .. Len(entries) : entries[i].call = call /\ LacksOlderOnly(entries[i])
    BY <1>1, <1>2 DEF CollectedLogsAreWhole
  <2>1. consumed < MaxLogBytes /\ Len(pods) <= MaxPods
    BY <1>1, KubernetesAssumption DEF LogInv, EntriesAreLogs, NothingSkipped
  <2>2. /\ at \in Calls /\ pods \in Seq(Seq(BOOLEAN)) /\ call \in Calls /\ call.pod \in 1 .. Len(pods)
    BY LogsByPlace DEF LogInv, EntriesAreLogs
  <2>3. call.pod < at.pod
    BY <1>1, <2>1, <2>2, KubernetesAssumption DEF PodsLeft, Calls
  <2>4. Reads(entries, call, Len(entries))
    BY <1>1, <2>1, <2>3 DEF LogInv, NothingSkipped, Before
  <2>5. PICK i \in 1 .. Len(entries) : entries[i].call = call
    BY <2>4 DEF Reads
  <2>6. LacksOlderOnly(entries[i])
    BY <1>1, <2>5 DEF LogInv, EntriesAreLogs
  <2> QED
    BY <2>5, <2>6
<1> QED
  BY <1>1, <1>3, <1>4, <1>5 DEF LogInv

\* The Pods are known; nothing comes before the first place.
LEMMA StartLogsStep == ASSUME LogInv, StartLogs PROVE LogInv'
<1> USE KubernetesAssumption
<1>1. /\ stage = "sources" /\ stage' \in {"logs", "done"} /\ UNCHANGED <<at, entries, consumed>>
      /\ at = FirstOf(1) /\ entries = <<>>
  BY DEF StartLogs, LogInv, EntriesAreLogs
<1>2. \/ /\ logs' \in {"disabled", "source_unavailable"} /\ stage' = "done" /\ UNCHANGED <<pods, limited>>
      \/ /\ stage' = "logs" /\ logs' = logs
         /\ pods' \in Layouts /\ limited' = (Len(pods') > MaxPods)
  BY DEF StartLogs
<1>3. pods' \in Seq(Seq(BOOLEAN)) /\ limited' \in BOOLEAN /\ (~limited' => Len(pods') <= MaxPods)
  <2>1. pods' \in Seq(Seq(BOOLEAN))
    BY <1>2 DEF LogInv, EntriesAreLogs
  <2>2. CASE UNCHANGED <<pods, limited>>
    BY <2>2 DEF LogInv, EntriesAreLogs, NothingSkipped
  <2>3. CASE limited' = (Len(pods') > MaxPods)
    <3>1. Len(pods') \in Nat
      BY <2>1
    <3>2. limited' <=> Len(pods') > MaxPods
      BY <2>3
    <3>3. (Len(pods') > MaxPods) \in BOOLEAN
      OBVIOUS
    <3>4. limited' \in BOOLEAN
      BY <2>3, <3>3, Zenon
    <3> QED
      BY <2>1, <3>1, <3>2, <3>4
  <2> QED
    BY <1>2, <2>1, <2>2, <2>3
<1>4. EntriesAreLogs'
  BY <1>1, <1>2, <1>3 DEF LogInv, EntriesAreLogs
<1>5. \A call \in Calls : ~Before(call, at')
  BY <1>1 DEF Before, FirstOf, Calls
<1>6. Logs' \subseteq Calls
  <2>1. \A i \in DOMAIN pods' : DOMAIN pods'[i] \subseteq Nat \ {0}
    BY <1>3
  <2> QED
    BY <1>3, <2>1 DEF Logs, Calls
<1>7. NothingSkipped'
  BY <1>1, <1>3, <1>5, <1>6 DEF NothingSkipped, Before
<1>8. CollectedLogsAreWhole'
  BY <1>1, <1>2 DEF LogInv, EntriesAreLogs, CollectedLogsAreWhole
<1> QED
  BY <1>1, <1>2, <1>4, <1>7, <1>8 DEF LogInv

LEMMA LogsUndisturbed == ASSUME LogInv, UNCHANGED <<stage, logVars>> PROVE LogInv'
<1>1. /\ stage' = stage /\ pods' = pods /\ at' = at /\ entries' = entries /\ consumed' = consumed
      /\ limited' = limited /\ logs' = logs
  BY DEF logVars
<1>2. Logs' = Logs
  BY <1>1 DEF Logs, Restarted
<1>3. EntriesAreLogs' /\ CollectedLogsAreWhole'
  BY <1>1, <1>2 DEF LogInv, EntriesAreLogs, CollectedLogsAreWhole
<1>4. NothingSkipped'
  BY <1>1, <1>2 DEF LogInv, NothingSkipped, Before
<1> QED
  BY <1>1, <1>3, <1>4 DEF LogInv

\* The invariant of the Kubernetes phase: what is called collected came whole,
\* and the logs are read in order (kubernetes.py:873-1111).
THEOREM KubernetesInvariant == KubernetesSpec => []KubernetesInv
<1>1. KubernetesInit => KubernetesInv
  <2> SUFFICES ASSUME KubernetesInit PROVE KubernetesInv
    OBVIOUS
  <2>1. SourcesAreHonest
    BY KubernetesAssumption DEF KubernetesInit, SourcesAreHonest, Ids, Configs
  <2>2. pods = <<>> /\ Len(pods) = 0 /\ Len(entries) = 0 /\ Logs = {}
    BY DEF KubernetesInit, Logs
  <2>3. FirstOf(1) \in Calls
    <3>1. 1 \in Nat \ {0} /\ FALSE \in BOOLEAN
      OBVIOUS
    <3> QED
      BY <3>1, Zenon DEF FirstOf, Calls
  <2>4. EntriesAreLogs
    <3>1. <<>> \in Seq(Entries) /\ <<>> \in Seq(Seq(BOOLEAN)) /\ 0 \in 0 .. MaxLogBytes
      BY KubernetesAssumption
    <3>2. /\ stage = "sources" /\ at = FirstOf(1) /\ entries = <<>> /\ consumed = 0
          /\ limited \in BOOLEAN /\ logs = "none"
      BY Zenon DEF KubernetesInit
    <3> QED
      BY <2>2, <2>3, <3>1, <3>2 DEF EntriesAreLogs
  <2>5. NothingSkipped /\ CollectedLogsAreWhole
    BY <2>2, KubernetesAssumption DEF KubernetesInit, NothingSkipped, CollectedLogsAreWhole
  <2> QED
    BY <2>1, <2>4, <2>5 DEF KubernetesInv, LogInv, KubernetesInit
<1>2. KubernetesInv /\ [KubernetesNext]_kubernetesVars => KubernetesInv'
  <2> SUFFICES ASSUME KubernetesInv, [KubernetesNext]_kubernetesVars PROVE KubernetesInv'
    OBVIOUS
  <2>1. ASSUME NEW id \in Ids, Submit(id) \/ Answer(id) \/ ProjectorRaises(id) PROVE KubernetesInv'
    BY <2>1, SourceStep, LogsUndisturbed DEF KubernetesInv
  <2>2. CASE StartLogs \/ ReadLog \/ SkipPrevious \/ OutOfBudget \/ NextPod \/ LogsEnd
    <3>1. UNCHANGED <<sources, attempts, whole>>
      BY <2>2 DEF StartLogs, ReadLog, SkipPrevious, OutOfBudget, NextPod, LogsEnd, sourceVars
    <3>2. SourcesAreHonest'
      BY <3>1 DEF KubernetesInv, SourcesAreHonest
    <3>3. LogInv'
      BY <2>2, StartLogsStep, ReadLogStep, SkipPreviousStep, OutOfBudgetStep, NextPodStep, LogsEndStep
         DEF KubernetesInv
    <3> QED
      BY <3>2, <3>3 DEF KubernetesInv
  <2>3. CASE UNCHANGED kubernetesVars
    <3>1. UNCHANGED <<stage, logVars>> /\ UNCHANGED <<sources, attempts, whole>>
      BY <2>3 DEF kubernetesVars, sourceVars
    <3> QED
      BY <3>1, LogsUndisturbed DEF KubernetesInv, SourcesAreHonest
  <2> QED
    BY <2>1, <2>2, <2>3 DEF KubernetesNext
<1> QED
  BY <1>1, <1>2, PTL DEF KubernetesSpec

\* A source or a snapshot called collected is whole, its logs included, for any
\* sources, candidates, readers, Pods, limits and sizes of logs.
THEOREM CollectedMeansWhole == KubernetesSpec => []CollectedIsWhole
<1>1. KubernetesInv => CollectedIsWhole
  <2> SUFFICES ASSUME KubernetesInv PROVE CollectedIsWhole
    OBVIOUS
  <2>1. \A id \in Ids : sources[id] = "collected" => id \in whole
    BY DEF KubernetesInv, SourcesAreHonest
  <2>2. ASSUME SnapshotStatus(logs # "disabled") = "collected"
        PROVE  /\ \A id \in Required : sources[id] = "collected"
               /\ logs # "disabled" => logs = "collected"
    BY <2>2 DEF SnapshotStatus
  <2>3. DOMAIN entries = 1 .. Len(entries)
    BY DEF KubernetesInv, LogInv, EntriesAreLogs
  <2>4. logs = "collected" =>
          \A call \in Logs : \E i \in DOMAIN entries : entries[i].call = call /\ LacksOlderOnly(entries[i])
    BY <2>3 DEF KubernetesInv, LogInv, CollectedLogsAreWhole
  <2> QED
    BY <2>1, <2>2, <2>4 DEF CollectedIsWhole, Ids
<1> QED
  BY <1>1, KubernetesInvariant, PTL

\* The logs keep to their budget, which goes to the Pods of the highest priority,
\* for any Pods, limits and sizes of logs.
THEOREM BudgetIsForTheFirst == KubernetesSpec => []BudgetGoesToTheFirst
<1>1. KubernetesInv => BudgetGoesToTheFirst
  <2> SUFFICES ASSUME KubernetesInv PROVE BudgetGoesToTheFirst
    OBVIOUS
  <2>1. DOMAIN entries = 1 .. Len(entries)
    BY DEF KubernetesInv, LogInv, EntriesAreLogs
  <2>2. consumed <= MaxLogBytes
    BY KubernetesAssumption DEF KubernetesInv, LogInv, EntriesAreLogs
  <2> QED
    BY <2>1, <2>2 DEF KubernetesInv, LogInv, NothingSkipped, Reads, BudgetGoesToTheFirst
<1> QED
  BY <1>1, KubernetesInvariant, PTL

\* The state of the Kubernetes phase keeps its shape: no configuration source
\* tries more candidates than it has, no entry is of a log that does not exist.
THEOREM KubernetesShape == KubernetesSpec => []KubernetesTypeOK
<1>1. KubernetesInv => KubernetesTypeOK
  <2> SUFFICES ASSUME KubernetesInv PROVE KubernetesTypeOK
    OBVIOUS
  <2>1. DOMAIN entries = 1 .. Len(entries)
    BY DEF KubernetesInv, LogInv, EntriesAreLogs
  <2> QED
    BY <2>1 DEF KubernetesInv, LogInv, EntriesAreLogs, SourcesAreHonest, KubernetesTypeOK
<1> QED
  BY <1>1, KubernetesInvariant, PTL
=============================================================================
