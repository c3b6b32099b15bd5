# kdiag: TLA+ models, checks and proofs

kdiag collects evidence from the nodes and the API of a Kubernetes cluster into
a directory, seals it with a manifest, builds a report from it and compares it
with an approved baseline. This project models the parts of it that are hard to
test: the process runner, the node phase with its pool of workers, the reading of
the Kubernetes API, the commands that share a collection directory, the phases of
a snapshot, the life of a baseline and the comparison with it, the normalization of
evidence into events, counters and episodes, and the report: every rule of the
catalog, the graph of causes and the ledger of what was not looked at. TLC checks
the models on small instances; TLAPS proves the main results for all values of the
constants. Paths below are relative to
`src/src/kdiag/` unless they begin with `docs/` or name a document at the root.

## 1. The system

| Component | State | Operations | Interacts with | What makes it correct |
|---|---|---|---|---|
| Process runner (`runner.py`) | pipes, buffers, selector, deadline, process group | `run_process`, `_terminate_process_group` | every external command | complete output or an honest status; bounded memory and time; no zombie, no signal to strangers |
| SSH transport (`transport.py`) | archive on the machine, result record | upload, run, clean-up, validate, store | runner, remote collector, collection directory | status matches what happened; nothing left behind unreported |
| Orchestrator (`orchestrator.py`) | futures, node results, collection index | `run_snapshot` and its phases | transport, Kubernetes, Prometheus, report, baseline, bundle | one result for each host; the index agrees with the files; a manifest only over a complete report |
| Bundle (`bundle.py`, `util.py`) | files, temporary files, `manifest.json` | atomic write, `write_manifest`, `verify_manifest` | every command on the directory | verify accepts exactly what the manifest describes, after any crash |
| Command line (`cli.py`) | none | one process for each command | all of the above | exit codes say what happened |
| Baseline (`baseline.py`) | candidate and approved documents, profiles | create, approve, verify, compare | bundle, report, node identity | drift is found, missing evidence is never taken for a change or for health |
| Node identity (`node_identity.py`) | none | `match_node_identities` | baseline, report, rules | hosts are never merged |
| Kubernetes and Prometheus collectors (`kubernetes.py`) | sources with a status, log budget | parallel reads, candidates, log collection | orchestrator | a gap is recorded as a gap |
| Normalization (`normalize.py`) | events, bounded counters, episodes | classify, count, deduplicate, limit, correlate | report | bounds are honoured and every loss is counted |
| Report and coverage (`report.py`) | coverage matrix, rule ledger, documents | `build_report` | everything collected | a missing source never reads as "nothing found" |
| Causal analysis (`causal.py`) | bounded graph, hypotheses | `build_causal_analysis` | report | only temporally and topologically possible explanations |
| Node collector (`node.py`) | command records, Pod-log budget | `collect_node_snapshot`, fall-backs | runner, on the host | a fall-back never hides a failure |
| LLM export and client (`llm_export.py`, `llm_client.py`) | prepared and external packages, token map | prepare, validate, import, analyze | bundle | sizes and references hold |
| Rules (`rules.py`, `rule_catalog.py`, `runtime.py`) | none | `evaluate_rules` | report | a finding is about the cluster, never about what was not collected |
| Message insights, inventory, configuration, self test | none | pure functions | | each is a predicate of its input |

Hard behaviours: the runner interleaves with a command that writes, forks,
closes its pipes and dies when it likes, and with the clock; the pool runs
several remote collectors that go on after their ssh client has gone, on machines
two inventory names may share; every kdiag command is a process of its own that
can fail, be killed or overlap with another on one directory without a lock; a
snapshot goes through eight phases each of which can fail in its own way; a
comparison relates two collections with different gaps; and normalization keeps a
stream of any length within fixed limits and must say what that cost; and nearly a
hundred rules, written apart from the table that says what each of them reads, draw
conclusions from evidence of which anything may be missing. `PROJECT.json` lists
these hazards one by one with the line where each bites.

## 2. Modules

| Module | Models | Correspondence |
|---|---|---|
| `ProcessOutcome` | results of `run_process` and their status | `Outcomes` is the interface between the runner and its callers |
| `Runner` | `run_process`, `_terminate_process_group` (`runner.py` 71-172) | `pc` is the place in the code; one action for each step that another process can interleave with; bytes are counted |
| `HostResults` | what the node phase promises (abstract) | `reported` and `stored` |
| `NodeCollection` | `collect_node` in the thread pool (`transport.py`, `orchestrator.py` 124-163) | `task[h]` is the place in `collect_node`; `status`, `payload`, `cleanup` its locals |
| `Bundle` | snapshot, report, verify, compare, baseline create on one directory (`bundle.py`, `util.py` 68-95, `cli.py` 206-265) | `steps[c]` is what a command has left to do; a file's content is what it was made from |
| `Snapshot` | phases and exit codes of `kdiag snapshot` (`orchestrator.py` 84-258, `cli.py` 203-219, 331-333) | `pc` is the phase; the node phase is `HostResults` by INSTANCE |
| `NodeIdentity` | `match_node_identities` | operators, no state |
| `Comparison` | `build_profile`, `compare_profiles`, `compare_collection` (`baseline.py`) | one profile for the baseline, one for the current collection, a drifting cluster between them |
| `Baseline` | candidate, approval, verification, comparison over document files (`baseline.py` 116-124, 496-687, 891-905; `cli.py` 249-265) | `command[c]` is what a command has checked and is about to do; a document has a body and a digest, which is the body it was computed over |
| `KubernetesCollection` | `KubectlCollector.collect`, `_json_source`, `_first_json_source`, `_collect_logs`, `snapshot_status` (`kubernetes.py`) | `sources` has the status of each future; `at` is the place in the three nested loops over Pods, containers and current or previous |
| `Fingerprints` | the table `unknown` of `_append` (`normalize.py` 296-367, 430-466) | `table` and `replacements` are the code's; `total` and `seenOn` are what really happened |
| `Normalization` | `_append`, suppression, `_deduplicate_events`, `_fair_limit_events`, `correlate_events` (`normalize.py` 405-477, 806-988) | extends `Fingerprints`; `stage` is the place in `normalize_evidence`; a record is a member of `Kinds` |
| `Evidence` | what a collection hands to `build_report`, and the events made of it (`normalize.py` 170-206, 480-803, 843-878; `runtime.py`) | an evidence is a record of answers, each with a status and the set of what came; an object has the fields the rules read |
| `NodeRules`, `ClusterRules`, `EventRules` | every rule of `rules.py`, and `evaluate_rules` | one operator for each group of rules: a set of findings made of an evidence |
| `Causal` | status of a finding, graph, targets, reachability, hypotheses (`causal.py`) | an object of the graph is its kind and name; `Asked` is the order in which the code asks for objects, which decides what a full graph leaves out |
| `Ledger` | coverage, requirements of each rule, rule ledger (`report.py` 64-416) | a coverage row is its kind, id, host and status |
| `Report` | `load_collection` and `build_report` (`report.py` 23-44, 934-948) | `pc` is the step; `world` is what a collection that loses nothing would have, `evidence` what this one has |
| `RunnerProofs`, `CollectorProofs`, `BundleProofs`, `ComparisonProofs`, `BaselineProofs`, `NormalizationProofs`, `ReportProofs`, `SnapshotProofs` | theorems | extend their component; `CollectorProofs` has both collectors, `NormalizationProofs` the table and the stages |
| `MCNodeCollection`, `MCBundle`, `MCComparison`, `MCBaseline`, `MCKubernetes`, `MCNormalization`, `MCReport` | instances for TLC | |

They compose by contract: `Runner` shows that each call ends in a member of
`Outcomes`, and `NodeCollection` and `KubernetesCollection` take their calls' results from there;
`NodeCollection` implements `HostResults` (a refinement, checked by TLC and proved),
and `Snapshot` runs `HostResults` as its node phase. `Report` starts where they end:
what it lets a collection lose are the outcomes their handlers record (a failed or
timed-out host, a truncated command, a failed source, partial logs, a cluster that
does not answer) and those that nothing records (`silent`: a fact of a host that could
not be read, a log or a journal cut to the tail that was asked for, an `etcdctl` that
is not there), and its step `NormalizeEvidence` takes from `Normalization` that a
limit may drop an event.

Operators named in a comment as a *mutant* of a definition are plausible bugs of
it. No specification uses them: for each property there is one with which TLC
finds that property violated, so no property holds by the shape of its model.

## 3. Runs

| Run | Instance | Shows |
|---|---|---|
| `runner` | one descendant, limits 2 and 1, chunk and pipe of 2, up to 3 bytes a stream | completeness and truncation of the output, signals, zombies, results, and that the call returns once the descendants let go of the pipes |
| `nodes` | three names on two machines, two workers | clean-up reports, archives, `HostResults` |
| `bundle` | three commands, two at a time, two rule packs, one accident between commands | manifests, verification, repair after crashes |
| `snapshot` | two hosts, all options | exit 0, index, manifest, termination |
| `snapshot_exit` (violation) | the same | `PartialIsSaved` fails |
| `comparison` | two hosts that compete for one Node, two configurations; problems in a source of the profile, in a required source outside it (`pdb`) and in evidence whose loss is no finding (Prometheus) | drift, "no changes", what flags a problem that is called resolved while it is there |
| `comparison_removal` (violation) | the same, without Prometheus | `NoFalseRemoval` fails |
| `baseline` | two commands, two document files, a clean and a blocked collection, two hand-made changes | only an approved, unchanged document is ever compared with; when an approval does not verify; when an output is replaced |
| `kubernetes` | four sources (one with two candidates), two readers; up to three Pods, two of them selected, three bytes of logs | what "collected" means; where the log budget goes |
| `normalization` | streams of up to five records of ten kinds; table of two; limits of three candidates and two events, and of five and four; window of two | ranges and exact counts, accounting, fairness of the limit, episodes |
| `report` | two hosts and a whole cluster, healthy or with one symptom: 127 worlds, in which every rule matches; any one thing lost, with a trace or without | what findings, "not matched", "resolved" and "may explain" are worth when evidence is missing |
| `report_truncation` (violation) | the same | `TruncationIsAGap` fails |

Bounds. In `Runner` the interesting byte counts are below, at and above a limit,
with a chunk that fits in part: 3 bytes against limits of 2 and 1, read 2 at a
time, has them all; a second descendant would repeat what the first does. In
`NodeCollection` three hosts for two workers make a queue, and two names of one
machine make the interference that the `Unshared` condition excludes. In `Bundle`
a third command sees what two overlapping ones have left; three overlapping
writers add no kind of step. Accidents happen between commands, as no property
speaks of a command the directory changed under. `MaxRunning` also counts the
accidents that happened, so that overlap and damage are explored each on its own.
In `Comparison` two hosts are the least number that compete for a name, and the
Nodes and one required source outside the profile let a baseline have one gap and the
current collection another. In
`Baseline` two commands make every race of a check and a write, and two hand-made
changes can turn a document into another and back. In `KubernetesCollection` a log
is empty, within, or beyond the cap of a call (2) and the budget (3), longer than its
tail or not, so each of the three loops meets the end of the budget; the layouts
have a Pod too many, a Pod without containers, and restarted containers first and
last. In
`Normalization` three fingerprints for two places evict each other and come back,
with equal counts and different ones; four records against three candidates and
two events pass both limits, five against five and four leave room for two
episodes in a row, and the times of the kinds lie within, at and beyond the window
of 2 and outside the incident.

In `Report` a world holds one object or more of each kind, linked from host to Pod to
claim to volume, and one symptom; `MCReport` asserts that the healthy one has no
finding and that every rule about the cluster matches some world. One loss
shows what a rule makes of each of its sources; two at once are not explored by TLC,
and every invariant of the run is proved for any number and any well-formed world. Three
references to a finding let events push the reference to a state out of it, and a
graph of 22 objects is full in the two worlds with a crowd of 21 Pods or Services.

Fairness. `Runner.FairSpec` schedules the runner and lets the deadline pass; the
command owes nothing, so it may sleep, ignore SIGTERM or keep a pipe for ever.
`Snapshot.FairSpec` lets the process take its next step (`Step`), without asking that
a phase ever fails, that an exception is raised or that the process is killed:
every phase is a sequence of bounded calls, and the calls of the node phase are
those of `Runner` (ssh and scp hold their pipes alone). Everything else is safety.

Deadlock is not checked: every one of these programs ends, and the models of
commands and streams stop at their bounds.

Three properties allow exactly what the code does and no more. `CollectedIsWhole`: a
log is asked for with `--tail` and `--since-time` (`kubernetes.py` 1081-1086) and
`kubectl` exits with 0 whatever is older, so a log called collected may lack that and
nothing else. `ReplacesOnlyInRace`:
`README.md:191` says that existing baseline output is never overwritten; the check
and the replacing rename are two steps, so of two commands for one path the later
one replaces the output of the other, and nothing else is ever replaced.
`ApprovedVerifies`: an approval verifies, unless a candidate without blockers was
approved with `--override-unsafe`, which leaves an override without reasons that
`verify_approved_baseline` refuses.

### What the violations show

* `snapshot_exit`: exit code 1 is "partial collection saved"
  (`docs/UserGuide.md:371`), and also what Python returns for an exception `main`
  does not catch. Two are known: `collect_prometheus` raises AttributeError on an
  answer that is JSON but no object (`kubernetes.py` 1214-1230), which is what the run
  finds, and a graph of more than `MAX_GRAPH_NODES` objects raises TypeError
  (`causal.py` 148-150, 547). No manifest is written.
* `comparison_removal`: a host's object is keyed by its Kubernetes identity if
  one is known and by its hostname if not (`baseline.py` 436), so a gap in
  *another* source makes a host that never left "removed" and "added", which
  `CHANGELOG.md:37` excludes.
* `report_truncation`: the ledger is made of the coverage of the sources and never
  looks at what the normalization dropped (`report.py` 366-416). When a limit drops
  the one event that a rule would have matched, the rule is `not_matched` and its
  `missing_evidence` empty, against `src/kdiag/rule_catalog.py:54` and
  `docs/UserGuide.md:481`; only the finding `collector.normalization_truncated` tells.

Three more disagreements show in the models and have no run of their own.
"When a current source is unavailable, its result is `unverifiable`"
(`README.md:193`), but the findings are a source that always counts as collected
(`baseline.py` 527), and rules read more than the sources of the profile
(`baseline.py` 66-77). If a problem that the budgets or the metrics show is there both
times, and they are missing from the current collection, the finding is "resolved" and
the status `changes_detected`. `FalseResolutionIsFlagged` is what does hold: the loss of
a source of the profile makes the comparison incomplete, that of another required
source is a finding, which is new unless the baseline had one already; of any other
loss (Prometheus, optional sources, most commands of a host) the comparison says
nothing.
`_terminate_process_group` looks only at the leader: a descendant that the leader
leaves behind survives a time-out, although
`docs/k8s-diagnostic-system-implementation-plan-no-llm.md:44` says that the whole
group is killed; if it keeps a pipe, `run_process` waits for it whatever the
deadline, which is why `ReturnsOnceReleased` has its condition. And `_episode` cuts an
episode to its first 20 events (`normalize.py` 823) before it takes the categories,
the evidence and the end from them: the event that completes an episode is its last,
so a burst of one symptom hides the other, against `docs/UserGuide.md:456`;
`EpisodesMissNothing` therefore speaks of the match and not of what is shown.

### What the properties of the report allow

They hold of the rules they do not name, and name the others in the model.

* `FindingsSurviveCompletion`: what was not collected is not reported as a problem.
  Eight rules find *more* when less was collected (`ArguedFromAbsence`). A host
  without a snapshot counts as absent from the inventory; a container runtime is
  inactive when the unit that is active did not answer (`runtime.py` 10-24); an
  error in a log is over only if a readable source says so; Service frontends are
  sought in the second list of Cilium when the first was lost (`rules.py` 1080-1112),
  which may lack some that the first one has. The other four take a fact that could not
  be read for a default: without kubelet's configuration swap is not allowed
  (`rules.py` 936), the host's own `resolv.conf` counts (`node.py` 1056) and the driver
  of control groups is that of the flag (`rules.py` 356-363), and a link of the
  rotation that is there but could not be read is broken (`rules.py` 944). The lists of
  Cilium were found by the proof.
* `NotMatchedIsConclusive`: 47 of the 93 rules read more than they declare
  (`report.py` 160-340). The etcd rules, for one, declare only the host, so they are
  not matched when `etcdctl` failed there, and only the finding
  `collector.etcd_evidence_gap` tells; a rule about texts declares the journals of the
  unit it has in mind and matches a line of any. The facts of a host have no row in the
  coverage, so whatever a rule reads of them goes unnoticed: without `openssl` no
  certificate expires (`node.py` 726-732). Nor does a status tell that the log of a Pod on
  a host could not be opened or was cut to its tail (`node.py` 1018-1036), that `--tail`
  cut another, or that a journal of the boot before had more than 2000 lines.
  `Undeclared` is the table of what each of them reads and does not declare, and a rule
  is held to its declarations and to its entry in the table: if nothing of either was
  lost, "not matched" is conclusive.
* `ResolvedIsOver`: a finding keeps the first 100 references of its sorted list
  (`rules.py` 100), and is active if one of them is to a state of now (`causal.py`
  69-123). With more references than that the state can be the one cut off, and a
  problem that is still there is hidden as resolved; the property excludes findings
  cut to the limit.
* `ExplainedIsConnected` speaks of a graph with room for every object; a full one
  takes all objects it has no room for as one, or raises (`snapshot_exit`).

A correlation is reported under the scope `node:a` or `pod:ns/name`, which is the
name of no object (`rules.py` 2409-2437, `causal.py` 370-392), so it never takes part
in a chain of causes; the model has it so.

## 4. Proofs

Each proof module states an inductive invariant `IInv` of its component, proves
it from `Init` and for each action, and derives the properties.

* `RunnerProofs`. `CollectedIsComplete` is not inductive: that the buffers are
  complete at the end follows from what unregistering a stream means. `IInv` says
  that a stream leaves the selector only drained and closed
  (`UnregisteredIsDrained`), accounts for every byte (`BytesAccountedFor`), that
  nothing is registered outside the loop, and ties the leader to its return code
  (`LeaderState`). From the same: however the call ends, the command was waited for
  (`ReturnsReaped`), and a result is a member of `Outcomes` (`ReturnsOutcome`), which is
  what the models of its callers take for granted. Assumed: the leader is not one of
  the descendants; chunks and pipes hold at least a byte. Nothing is assumed of the
  number of processes.
* `CollectorProofs`, the nodes. A step of one host leaves the worker and, if no other
  name leads to the machine, the archive of another host alone (`OtherHost`); so the
  invariant is one of each host: what is on disk follows where its worker is
  (`BundleMatchesTask`), what is on the machine follows what the clean-up returned
  (`ArchiveMatchesTask`). `ImplementsHostResults` maps every step to a `Store`, a
  `Report` or a stutter. Assumed: the type of `Machine`, a finite set of hosts.
* `CollectorProofs`, the cluster. That the budget goes to the first logs is about an
  output which only grows, so `NothingSkipped` says it of the loops: while budget is
  left, every log before the place they are at has been read, and every entry comes
  after the entries of all logs before it. `EntriesAreLogs` ties the status of an
  entry to the bytes it has: all of the tail it was asked for, if it is called collected.
  At the end of the loops no log is left (`CollectedLogsAreWhole`). `SourcesAreHonest` follows a source from its candidates to
  its status. Assumed: the Pods are a required source, limits and sizes are numbers
  (`KubernetesAssumption`).
* `BundleProofs`. A manifest is right because of what its writer had read, hashed and
  written before, so the invariant follows every command that nothing disturbed along
  its program: what it may still have to do (`Lives`), what `verify_manifest` has
  compared so far (`Verifies`), that a report on its way is made of the evidence that
  is there (`Builds`), that the digests taken so far are those of the files (`Seals`).
  A step of another command either leaves these files alone or ends the quiet.
  For any commands at once, any rules and any accidents; assumed: a temporary file
  has a name no other file has (`TemporaryNames`), which `mkstemp` sees to.
* `ComparisonProofs`. Identities are one-to-one for any names
  (`IdentitiesAreOneToOne`). The object of a collected host holds the
  configuration of its time (`HoldsConfig`), so different configurations give an
  added or a changed object under whatever key, and an empty list of changes
  means equal configurations of hosts that were all seen. Every profile shows the
  problems whose evidence was read and the gaps of the required rest
  (`ProblemsAreShown`), so a false resolution has lost its evidence: either the Nodes
  source is not verifiable, or the gap is among the current findings, and new if the
  baseline does not have it (`NewFindingIsReported`, `FalseResolutionFlagged`). For any
  hosts and any evidence, inside the profile or outside.
* `BaselineProofs`. An edit by hand changes anything but a digest, so the digest in
  a file is always one that an approval has (`DigestsAreOfApprovals`); a document that
  verifies has the body its digest was computed over, which makes it that approval,
  unchanged (`VerifiedIsApproval`). Every approval has the digests of its own content
  and the reasons of its profile (`ApprovalsAreHonest`), so it verifies, with the one
  exception of an override without reasons (`ApprovedCanBeCompared`). For
  `ReplacesOnlyInRace` the output of a command is free or was claimed since it looked
  (`FreeOrClaimed`). Assumed: digests do not
  collide, nobody recomputes one, and the author of an approval is not empty.
* `NormalizationProofs`, the table. That a range holds the true count says nothing of what has
  been evicted, and a fingerprint that comes back inherits its error from
  another's count. So `RangeHoldsTotal` also says that nothing outside the table
  occurred more often than anything in it (the victim is least, and what takes its
  place counts more), and `TableInv` adds that nothing outside the table ever
  occurred before the table was full (`NothingLost`); from there the inherited count
  bounds whatever the newcomer lost, and an error of zero means a count from the
  first occurrence on. For any keys, nodes, weights, capacity of at least one and
  order of ties.
  Every step of `Normalization` is a message counted or leaves the table alone, so the
  theorems hold of its output (`ImplementsFingerprints`).
* `NormalizationProofs`, the stages. `EveryRecordIsAccounted` is about the output;
  `AccountInv` is the same balance in every stage, with what is left so far for the
  output, and rests on events being distinct records of the stream. `FairShare` is
  about the end of the turns; `RoundRobin` is what makes them fair: the queue has each
  bucket with events left exactly once, ordered by what it has had, and no bucket has
  had more than one event more than the first of the queue. `EpisodesMissNothing` is about a recursive
  search, and no induction theorem can be used; the least number that breaks a
  statement does instead (`LeastNatural`, from the well-foundedness of the naturals).
  The n-th candidate is the one with n - 1 sooner ones, so the candidates are all there
  in the order of time (`CandidatesInOrder`); a function that searches from each start
  exists, as one from m can be extended to m - 1 (`SearchExists`); and it finds all
  from every start on, as its first match ends before any window it could miss
  (`FirstMatch`, `SearchGoesOn`, `SearchFindsAll`). Episodes of two scopes share nothing
  because an event has one. Assumed: limits and the window are numbers, times
  integers, and the key, node and weight of a record are what the code makes them.
* `ReportProofs`. The ledger is written in one step, of the coverage of the evidence
  that was evaluated, so `LedgerBacked` follows from what an entry means: a
  requirement without a gap has rows (`NoGaps`), each of the coverage's rows is about
  something of the evidence and everything tried has one (`RowsAreEvidence`,
  `RowsOfTheEvidence`), hence what is declared was seen whole (`WithoutGapsIsSeen`).
  `AbsenceIsAsked`: the rules that argue from missing endpoints, DNS Pods and budgets
  find nothing without the sources that would show them. `AnalysisInv`: the
  analysis is made of the evidence that was evaluated, so its edges are links of the
  topology (`EdgesAreLinks`) and, with room for all objects, its targets the objects of
  the findings (`TargetsAreObjects`); reachability only grows with edges
  (`MoreIsReachable`), hence what explains is connected (`ExplainedConnected`). For
  every evidence, loss and option.
* `ReportProofs`, against the whole evidence. Three invariants compare a report with
  the one that nothing lost would have given. `EvidenceInv` is what they need of the
  steps: whatever was lost, one thing after the other, the evidence is what is left of
  the world (`LeftOf`: an answer is whole, gone, or a part that says so; a log, a journal
  or a fact may also be a part that does not, but then the evidence remembers it in
  `silent`). `FactsLeft` is what holds of the facts of a host whatever was lost of them,
  and lets rules outside `ArguedFromAbsence` find no more; `FactsKept` says which facts
  are those of the world if a source was not lost, and lets rules find no less. The
  findings are those of this evidence (`EvidenceInvariant`). The rest
  is about `evaluate_rules` (`RulesFollow`), a lemma for each group of rules. Rules about
  objects `Agree`: what they find they find of the world, and what they would find of the
  world they find if all they read was collected (`Complete`). Rules about events `Follow`:
  an event that was lost may be the Pod or the Node that tells where another one
  happened, so an event of the evidence is matched with the event of the world it is
  (`Placed`); events keep apart (`PlacedApart`), so a correlation in the evidence is one in
  the world. `FindingsSurvive` and `NotMatchedConclusive` are its two halves, the second
  by way of `LedgerBacked`, which says that what a rule declares was seen. `ResolvedOver` asks of
  a finding which references it kept: the references are finitely many, so fewer than
  the limit are all of them (`AllAreKept`, by the least rank not kept), and a state of now
  among the events of the world would be one of them. Assumed: the worlds are well-formed
  (`WorldsAssumption`: what a host, a command, an object or a line is, finitely many lines,
  each with a number), and the limits of losses and references are numbers.
* `SnapshotProofs`. That exit 0 is complete depends on four phases: `WriteManifest`
  reads the status that `WriteCollection` computed from what the pool and the
  Kubernetes phase left. `IInv` says that a status is backed by its file
  (`ResultsAreBacked`, for hosts from the promise of `HostResults` alone), that
  `collection.json` still describes the results when the exit code is chosen
  (`IndexIsCurrent`), and what a phase finds because the earlier ones have run
  (`PhasesLeave`). Nothing is assumed, the set of hosts included.

Only model-checked, and why:

* `ReturnsOnceReleased` and `Terminates` are liveness: fairness and ENABLED are out of
  the prover's reach.

## 5. Not modelled, and why

Formatting and texts (report Markdown, titles, summaries, recommendations,
catalogues, progress messages) carry no property. The score and rank of a
hypothesis are a sum of weights over one finding; metric signals are nodes of the
graph that no hypothesis uses. Message insights enrich texts by lookups. Inventory,
configuration and option parsing are validation before anything runs; the models
use what they let through. The patterns of `classify_message` and what a projector
keeps of an object are inputs of `Evidence`, `Normalization` and
`KubernetesCollection`; in `Evidence` two times are near or far, and an incident
window has been applied. That kubectl dies of the SIGTERM it is sent when its time is
up is assumed: `Outcomes` has the exit with 0 after a time-out, but
`KubernetesCollection.Cut` takes any exit with 0 that is not truncated for a whole
answer, since the status of a log does not look at `timed_out` (`kubernetes.py` 1099).
Of the facts of a host those that a rule reads can be lost, each in the ways its reader
has (`FactsWithout`); left out are a small file that is longer than its limit, and the
free space of the root file system, whose reader has no error path: it fails the whole
snapshot, which is `LoseNode`. A Prometheus answer with status 200 that reports an error
counts as collected in the code and is not modelled as a loss. That a killed or
failed `scp` opens its target only while `collect_node` waits for it is assumed: a
server-side process that opens the file after the clean-up is not modelled. Directory fsync and disk
contents after a power loss are outside: a rename is durable here.

By design, and so no property: a rerun of `report` seals what it reads without
verifying the old manifest (`cli.py` 241), and leaves `baseline-comparison.json` as an
older rule pack made it (`cli.py` 242).

## 6. Plan

Done: all modules of section 2 and the proofs of section 4. What is left, in this
order:

1. `LlmExport`: packages, trimming to size, validation and import
   (`llm_export.py`, `llm_client.py`).
2. `NodeSnapshot`: the cilium, etcd and Pod-log fall-backs and their budgets (`node.py`).
3. Prometheus: sources, range queries and their three statuses (`kubernetes.py` 1114-1292).
4. Proofs about these modules, once modelled.
