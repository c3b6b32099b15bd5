------------------------------- MODULE Report -------------------------------
(***************************************************************************)
(* build_report (report.py): from what a collection left to the findings,  *)
(* the hypotheses and the ledger. The collection of a cluster may lose     *)
(* some of what is there: the world is what a collection that loses        *)
(* nothing would have.                                                     *)
(***************************************************************************)
EXTENDS Causal, Ledger

CONSTANTS
  Worlds,      \* evidence of which nothing is lost
  LineIds,     \* commands whose text is used as far as it came
  MaxLosses    \* bound: what one collection loses

ASSUME LossesAssumption == MaxLosses \in Nat

\* What a world is: a record of finite answers, whose lines have a number and the
\* categories of a text, and whose hosts have a result and a name.
FactFields ==
  {"services", "kernel", "bootChanged", "rootFree", "swap", "failSwapOn", "nameservers", "etcNameservers", "rotate",
   "rotation", "cgroupMode", "controllers", "kubeletDriver", "driverFlag", "clusterDNS", "certificates", "etcd",
   "ipv6Disabled", "authFile"}
EvidenceFields ==
  {"results", "snaps", "kubeStatus", "kube", "logs", "promStatus", "prom", "options", "dropped", "silent"}

AreLines(items) == \A l \in items : l.number \in Nat /\ l.text \cap StateCategories = {}

IsSnapshot(s) ==
  /\ DOMAIN s = {"commands", "podLogs", "facts"} /\ DOMAIN s.facts = FactFields
  /\ \A id \in DOMAIN s.commands : IsFiniteSet(s.commands[id].items)
  /\ \A id \in JournalIds \cap DOMAIN s.commands : AreLines(s.commands[id].items)
  /\ IsFiniteSet(s.podLogs.items) /\ AreLines(s.podLogs.items)

IsWorld(w) ==
  /\ DOMAIN w = EvidenceFields /\ w.dropped = {} /\ w.silent = {}
  /\ IsFiniteSet(Hosts(w)) /\ Hosts(w) \subseteq DOMAIN w.results /\ "none" \notin Hosts(w)
  /\ \A h \in Hosts(w) : IsSnapshot(w.snaps[h])
  /\ \A id \in DOMAIN w.kube : IsFiniteSet(w.kube[id].items)
  /\ AreLines(Items(w, "events"))
  /\ \A n \in Items(w, "nodes") :
       n.conditions \subseteq {"NotReady", "DiskPressure", "MemoryPressure", "PIDPressure", "NetworkUnavailable"}
  /\ IsFiniteSet(w.logs.items) /\ AreLines(w.logs.items)

ASSUME WorldsAssumption == \A w \in Worlds : IsWorld(w)

VARIABLES
  pc,
  world,      \* what there is
  evidence,   \* what the collection has of it
  losses,
  findings,   \* annotated
  analysis,
  coverage,
  ledger

vars == <<pc, world, evidence, losses, findings, analysis, coverage, ledger>>
derived == <<findings, analysis, coverage, ledger>>

NoAnalysis == [raised |-> FALSE, truncated |-> FALSE, hypotheses |-> {}]

TypeOK ==
  /\ pc \in {"collect", "normalize", "evaluate", "analyze", "cover", "written", "raised"}
  /\ losses \in 0..MaxLosses
  /\ pc \in {"collect", "normalize"} => findings = {}
  /\ pc \notin {"written"} => coverage = {} /\ ledger = [rule \in {} |-> "unknown"]
  /\ pc = "written" => DOMAIN ledger = RuleCatalog

Init ==
  /\ pc = "collect" /\ losses = 0
  /\ world \in Worlds /\ evidence = world
  /\ findings = {} /\ analysis = NoAnalysis /\ coverage = {} /\ ledger = [rule \in {} |-> "unknown"]

---------------------------------------------------------------------------
\* What a collection may lose. The handlers that record these outcomes are the
\* subject of Runner, NodeCollection and KubernetesCollection.

Lose(lossy) ==
  /\ pc = "collect" /\ losses < MaxLosses
  /\ losses' = losses + 1 /\ evidence' = lossy
  /\ UNCHANGED <<pc, world, derived>>

\* No snapshot of the host was accepted.
LoseNode == \E h \in DOMAIN evidence.results, status \in {"failed", "timeout"} : Lose([evidence EXCEPT !.results[h] = status])

Without(f, S) == [x \in (DOMAIN f) \ S |-> f[x]]

\* The status of the etcd checks is made of those of their commands.
EtcdCommands == {"etcd_endpoint_health", "etcd_endpoint_status", "etcd_alarm_list"}
EtcdStatus(commands) ==
  LET statuses == {commands[id].status : id \in EtcdCommands \cap DOMAIN commands}
  IN IF statuses = {"collected"} THEN "collected" ELSE IF "collected" \in statuses THEN "partial" ELSE "unavailable"

\* Something of the snapshot of a host is lost: what of it is silent, nothing in
\* the collection says.
LoseIn(h, snapshot, silent) == Lose([evidence EXCEPT !.snaps[h] = snapshot, !.silent = @ \cup silent])

\* A command stops early: lines are used as far as they came, a document is not.
LoseCommand ==
  \E h \in Hosts(evidence), status \in {"failed", "truncated"} : \E id \in DOMAIN evidence.snaps[h].commands :
    \E left \in SUBSET evidence.snaps[h].commands[id].items :
      LET snapshot == evidence.snaps[h]
          commands == [snapshot.commands EXCEPT ![id] = [status |-> status, items |-> left]]
          etcd == IF id \notin EtcdCommands THEN snapshot.facts.etcd
                  ELSE [status |-> EtcdStatus(commands), quota |-> snapshot.facts.etcd.quota]
      IN /\ id \notin LineIds => left = {}
         /\ LoseIn(h, [snapshot EXCEPT !.commands = commands, !.facts.etcd = etcd], {})

\* The journals of the boot before are asked for their last 2000 lines.
PreviousIds == {"journal_services_previous", "journal_kernel_previous"}
LosePreviousBoot ==
  \E h \in Hosts(evidence) : \E id \in PreviousIds \cap DOMAIN evidence.snaps[h].commands :
    \E left \in SUBSET evidence.snaps[h].commands[id].items :
      LoseIn(h, [evidence.snaps[h] EXCEPT !.commands[id] = [status |-> @.status, items |-> left]], {"previous_boot"})

\* There is no etcdctl to run, or etcd's files are gone: no command says so.
LoseEtcd ==
  \E h \in Hosts(evidence), status \in {"unavailable", "unsupported"} :
    /\ EtcdCommands \cap DOMAIN evidence.snaps[h].commands # {}
    /\ LoseIn(h, [evidence.snaps[h] EXCEPT !.commands = Without(@, EtcdCommands),
                                           !.facts.etcd = [status |-> status, quota |-> 0]], {"etcd"})

\* The group is cut at its total, or the directory cannot be read. A file that
\* cannot be opened, or is longer than the tail, leaves the status as it is.
LosePodLogs ==
  \E h \in Hosts(evidence) : \E left \in SUBSET evidence.snaps[h].podLogs.items :
    LET with(logs) == [evidence.snaps[h] EXCEPT !.podLogs = logs]
    IN \/ LoseIn(h, with([status |-> "truncated", items |-> left]), {})
       \/ LoseIn(h, with([status |-> "permission_denied", items |-> {}]), {})
       \/ LoseIn(h, with([status |-> evidence.snaps[h].podLogs.status, items |-> left]), {"pod_logs"})

\* systemctl did not answer for a unit: no command of the snapshot says so.
LoseService ==
  \E h \in Hosts(evidence) : \E u \in DOMAIN Facts(evidence, h).services :
    LET flag == IF u = "kubelet" THEN "none" ELSE Facts(evidence, h).driverFlag
        unit == [status |-> "failed", load |-> "none", active |-> "none"]
    IN LoseIn(h, [evidence.snaps[h] EXCEPT !.facts.services[u] = unit, !.facts.driverFlag = flag], {})

\* What a host reads of its files, and of its certificates one by one.
FactSources ==
  {"kubelet_config", "resolv_conf", "swaps", "rotation", "certificate", "cgroup", "ipv6", "auth_files", "boot_id",
   "etcd_quota"}

\* What the facts may be without one of them. Most of the rules do not ask
\* whether a fact was read.
FactsWithout(facts, source) ==
  CASE source = "kubelet_config" ->   \* the defaults, and the resolv.conf of the host
         {[facts EXCEPT !.failSwapOn = TRUE, !.rotate = FALSE, !.clusterDNS = {}, !.kubeletDriver = "none",
                        !.nameservers = facts.etcNameservers]}
    [] source = "resolv_conf" -> {[facts EXCEPT !.nameservers = 0]}
    [] source = "swaps" -> {[facts EXCEPT !.swap = FALSE]}
    [] source = "rotation" ->         \* the link, with its target or without
         {[facts EXCEPT !.rotation = status, !.certificates = certificates] :
            status \in {"missing", "unavailable"},
            certificates \in {facts.certificates, {[client |-> c.client, current |-> FALSE, days |-> c.days]
                                                  : c \in facts.certificates}}}
    [] source = "certificate" -> {[facts EXCEPT !.certificates = left] : left \in SUBSET facts.certificates}
    [] source = "cgroup" -> {[facts EXCEPT !.cgroupMode = "v1_or_unknown", !.controllers = {}]}
    [] source = "ipv6" -> {[facts EXCEPT !.ipv6Disabled = FALSE]}
    [] source = "auth_files" -> {[facts EXCEPT !.authFile = FALSE]}
    [] source = "boot_id" -> {[facts EXCEPT !.bootChanged = changed] : changed \in BOOLEAN}
    [] source = "etcd_quota" -> {[facts EXCEPT !.etcd = [status |-> facts.etcd.status, quota |-> 0]]}

LoseFacts ==
  \E h \in Hosts(evidence), source \in FactSources : \E left \in FactsWithout(Facts(evidence, h), source) :
    LoseIn(h, [evidence.snaps[h] EXCEPT !.facts = left], {source})

Unanswered == [status |-> "failed", items |-> {}]

\* The logs are asked of the Pods, if they are asked at all.
LoseSource ==
  \E id \in DOMAIN evidence.kube :
    Lose([evidence EXCEPT !.kubeStatus = "partial", !.kube[id] = Unanswered,
                          !.logs = IF id = "pods" /\ @.status \notin {"absent", "disabled"}
                                   THEN [status |-> "source_unavailable", items |-> {}] ELSE @])

\* A call failed or the budget is spent; a log that is longer than the tail it
\* is asked for is whole to kubectl.
LoseLogs ==
  /\ evidence.logs.status = "collected"
  /\ \E left \in SUBSET evidence.logs.items :
       \/ \E status \in {"partial", "truncated"} : Lose([evidence EXCEPT !.logs = [status |-> status, items |-> left]])
       \/ Lose([evidence EXCEPT !.logs = [status |-> @.status, items |-> left], !.silent = @ \cup {"logs"}])

\* The API server does not answer at all.
LoseCluster ==
  /\ evidence.kubeStatus # "disabled"
  /\ Lose([evidence EXCEPT !.kubeStatus = "unreachable", !.kube = [id \in DOMAIN @ |-> Unanswered],
                           !.logs = [status |-> "source_unavailable", items |-> {}]])

\* Some of the metrics, or all.
LosePrometheus ==
  /\ evidence.promStatus # "not_configured"
  /\ \/ \E id \in DOMAIN evidence.prom :
            Lose([evidence EXCEPT !.promStatus = "partial", !.prom[id] = Unanswered])
     \/ Lose([evidence EXCEPT !.promStatus = "failed", !.prom = [id \in DOMAIN @ |-> Unanswered]])

---------------------------------------------------------------------------

\* load_collection: only the snapshots of hosts that were collected are read.
LoadCollection ==
  /\ pc = "collect" /\ pc' = "normalize"
  /\ evidence' = [evidence EXCEPT
       !.snaps = Without(@, {h \in DOMAIN @ : evidence.results[h] # "collected"})]
  /\ UNCHANGED <<world, losses, derived>>

\* The limits may drop any event, and count as a loss.
NormalizeEvidence ==
  /\ pc = "normalize" /\ pc' = "evaluate"
  /\ \/ UNCHANGED <<evidence, losses>>
     \/ /\ losses < MaxLosses /\ losses' = losses + 1
        /\ \E v \in Events(evidence) : evidence' = [evidence EXCEPT !.dropped = {v}]
  /\ UNCHANGED <<world, derived>>

Evaluate ==
  /\ pc = "evaluate" /\ pc' = "analyze"
  /\ findings' = {Annotated(f, evidence.options) : f \in EvaluateRules(evidence)}
  /\ UNCHANGED <<world, evidence, losses, analysis, coverage, ledger>>

Analyze ==
  /\ pc = "analyze"
  /\ analysis' = CausalAnalysis(evidence, findings)
  /\ pc' = IF analysis'.raised THEN "raised" ELSE "cover"
  /\ UNCHANGED <<world, evidence, losses, findings, coverage, ledger>>

MatchedRules == {a.finding.rule : a \in findings}

\* Mutant: the rules that were evaluated to something.
CoverMatched ==
  /\ pc = "cover" /\ pc' = "written"
  /\ coverage' = Coverage(evidence)
  /\ ledger' = [rule \in MatchedRules |-> "matched"]
  /\ UNCHANGED <<world, evidence, losses, findings, analysis>>

Cover ==
  /\ pc = "cover" /\ pc' = "written"
  /\ coverage' = Coverage(evidence)
  /\ ledger' = RuleLedger(MatchedRules, Coverage(evidence), evidence.options)
  /\ UNCHANGED <<world, evidence, losses, findings, analysis>>

Next ==
  \/ LoseNode \/ LoseCommand \/ LosePreviousBoot \/ LoseEtcd \/ LosePodLogs \/ LoseService \/ LoseFacts
  \/ LoseSource \/ LoseLogs \/ LoseCluster \/ LosePrometheus
  \/ LoadCollection \/ NormalizeEvidence \/ Evaluate \/ Analyze \/ Cover

Spec == Init /\ [][Next]_vars

---------------------------------------------------------------------------
\* Properties.

TrueOfTheWorld == Matched(EvaluateRules(world))

\* Rules that do find more where less was collected.
ArguedFromAbsence ==
  {"inventory.node_set_mismatch",                     \* a host without a snapshot is a host that is missing
   "node.runtime_inactive",                           \* the unit that is active did not answer
   "node.swap_active",                                \* kubelet is taken to refuse swap without a configuration
   "dns.nameserver_limit_exceeded",                   \* another resolv.conf is read without a configuration
   "cgroup.driver_mismatch",                          \* the flag is read without a configuration
   "certificate.kubelet_rotation_broken",             \* a link that could not be read is a broken one
   "cilium.service_frontend_missing",                 \* the second list is read where the first is lost
   "controlplane.authentication_config_read_error"}   \* what would show that the error is over is not there

\* What was not collected is never reported as a problem of the cluster: every
\* finding, but those about the collection and the eight above, is made of the
\* whole evidence too. Rules that conclude from something absent (no endpoint, no
\* kube-proxy, no StorageClass) must ask first whether its source was collected.
FindingsSurviveCompletion ==
  pc = "written" => MatchedRules \subseteq TrueOfTheWorld \cup CollectorRules \cup ArguedFromAbsence

\* What came of a Kubernetes source, the logs included if they were asked for.
Answers(e, id) ==
  {e.kube[s] : s \in {id} \cap DOMAIN e.kube} \cup {l \in {e.logs} : id = "logs" /\ l.status # "absent"}

\* Nothing of it is missing, even if there is nothing of it at all.
NoneLost(e, requirement) ==
  /\ requirement.kind = "node" => \A h \in DOMAIN e.results : e.results[h] = "collected"
  /\ requirement.kind = "command" =>
       \A h \in Hosts(e) : requirement.id \in DOMAIN e.snaps[h].commands => Collected(e.snaps[h].commands[requirement.id])
  /\ requirement.kind = "pod_logs" => \A h \in Hosts(e) : Collected(e.snaps[h].podLogs)
  /\ requirement.kind = "units" => \A h \in Hosts(e) : \A u \in DOMAIN Facts(e, h).services :
                                      Facts(e, h).services[u].status = "collected"
  /\ requirement.kind = "silent" => requirement.id \notin e.silent
  /\ requirement.kind = "kubernetes" => \A a \in Answers(e, requirement.id) : Collected(a)

\* What rules read that they do not declare (report.py:204-340). The answers of
\* systemctl have no row at all, and neither has what is lost silently.
Units == [kind |-> "units", id |-> "none"]
Silent(id) == [kind |-> "silent", id |-> id]
Journals == {Ran(id) : id \in JournalIds} \cup {Silent("previous_boot")}
Tails == {Silent("pod_logs"), Silent("logs")}
Texts == {Hosted, HostPodLogs, Api("events"), Api("logs")} \cup Journals \cup Tails

Undeclared ==
  { [rules |-> {"node.kubelet_inactive", "node.runtime_inactive"}, of |-> {Units}],
    \* facts that are read on their own
    [rules |-> {"node.swap_active"}, of |-> {Silent("swaps"), Silent("kubelet_config")}],
    [rules |-> {"dns.nameserver_limit_exceeded"}, of |-> {Silent("resolv_conf"), Silent("kubelet_config")}],
    [rules |-> {"certificate.kubelet_rotation_broken"}, of |-> {Silent("kubelet_config"), Silent("rotation")}],
    [rules |-> {"certificate.expiring"}, of |-> {Silent("certificate"), Silent("rotation")}],
    [rules |-> {"cgroup.controllers_missing"}, of |-> {Silent("cgroup")}],
    [rules |-> {"cgroup.driver_mismatch"}, of |-> {Silent("kubelet_config"), Units}],
    [rules |-> {"network.ipv6_disabled"}, of |-> {Silent("ipv6")}],
    [rules |-> {"etcd.database_near_quota"}, of |-> {Silent("etcd_quota")}],
    \* commands and sources
    [rules |-> {"time.not_synchronized"}, of |-> {Ran("timedatectl"), Ran("chrony_tracking")}],
    [rules |-> EtcdRules, of |-> {Ran(id) : id \in EtcdCommands} \cup {Silent("etcd")}],
    [rules |-> {"cilium.service_frontend_missing"}, of |-> {Ran("cilium_debug_services"), Ran("cilium_services")}],
    [rules |-> {"dns.cluster_dns_mismatch"}, of |-> {Api("endpoint_slices"), Silent("kubelet_config")}],
    [rules |-> {"dns.coredns_config_empty"}, of |-> {Api("node_local_dns_config")}],
    [rules |-> {"storage.csi_driver_registration_gap"}, of |-> {Api("volume_attachments")}],
    [rules |-> {"security_agent.cgroup_denial"}, of |-> {Ran("journal_services_previous"), Silent("previous_boot")}],
    \* every journal may hold the line
    [rules |-> {"node.conntrack_full", "node.filesystem_error", "node.filesystem_warning", "node.hardware_error",
                "node.io_error", "node.kernel_oops", "node.task_hung", "node.unregister_netdevice",
                "security_agent.ptrace_alert", "node.oom_detected", "cgroup.service_failure", "network.cni_unavailable",
                "correlation.node_runtime_failure"}, of |-> Journals],
    \* and so may every text
    [rules |-> {"kubernetes.image_pull_failure", "kubernetes.failed_scheduling", "kubernetes.probe_failures",
                "storage.volume_operation_failure", "dns.coredns_errors", "network.ipv6_disabled",
                "controlplane.authentication_config_read_error"}, of |-> Texts],
    \* what is declared is read as far as it came
    [rules |-> {"node.oom_detected", "network.cni_unavailable"}, of |-> Tails],
    [rules |-> {"correlation.probe_network_failure"}, of |-> {Hosted, HostPodLogs} \cup Tails],
    \* the Pods know the host of an event
    [rules |-> {"correlation.node_cni_failure", "correlation.memory_oom_failure", "correlation.storage_failure",
                "correlation.certificate_api_failure", "correlation.conntrack_network_failure"},
     of |-> Texts \cup {Api("pods")}] }

UndeclaredOf(rule) == UNION {r.of : r \in {x \in Undeclared : rule \in x.rules}}

\* "Not matched" in the ledger is a negative result: the rule does not match the
\* whole evidence either, if nothing that it reads and does not declare was lost.
NotMatchedIsConclusive ==
  pc = "written" /\ evidence.dropped = {} =>
    {rule \in RuleCatalog \ CollectorRules :
       ledger[rule] = "not_matched" /\ \A q \in UndeclaredOf(rule) : NoneLost(evidence, q)} \cap TrueOfTheWorld = {}

\* rule_catalog.py:54 says that the rules which depend on an event that the
\* limits dropped have an evidence gap, UserGuide.md:481 that their negative
\* results are incomplete.
TruncationIsAGap ==
  pc = "written" /\ evidence.dropped # {} =>
    {rule \in RuleCatalog : ledger[rule] = "not_matched"} \cap TrueOfTheWorld = {}

\* What a requirement asks of the evidence: a snapshot of every host, all the
\* output of a command of the hosts that ran it, a source that came whole.
Seen(e, requirement) ==
  /\ requirement.kind = "node" => \A h \in DOMAIN e.results : e.results[h] = "collected"
  /\ requirement.kind = "command" =>
       LET ran == {h \in Hosts(e) : requirement.id \in DOMAIN e.snaps[h].commands}
       IN ran # {} /\ \A h \in ran : Collected(e.snaps[h].commands[requirement.id])
  /\ requirement.kind = "pod_logs" => \A h \in Hosts(e) : Collected(e.snaps[h].podLogs)
  /\ requirement.kind = "kubernetes" =>
       Answers(e, requirement.id) # {} /\ \A a \in Answers(e, requirement.id) : Collected(a)
  /\ requirement = [kind |-> "cluster", id |-> "prometheus"] => e.promStatus = "collected"

\* A rule is called matched when it has a finding and not matched only when all
\* it declares was collected, whatever the rules, the evidence and the losses.
LedgerIsBacked ==
  pc = "written" =>
    \A rule \in RuleCatalog :
      /\ ledger[rule] = "matched" <=> rule \in MatchedRules
      /\ ledger[rule] = "not_matched" => \A q \in RequirementsOf(rule) : Seen(evidence, q)

\* The objects of a finding, in the whole topology of the evidence.
ObjectsOf(objects, finding) ==
  LET named == {o \in objects : o[1] # "component" /\ Whole(o[2]) \in finding.affected}
  IN IF named # {} THEN named ELSE {<<"component", c>> : c \in ComponentOf(finding.rule)}

\* What a hypothesis is said to explain is linked to it: a chain of objects leads
\* from one of the cause to one of the consequence. A graph that was full is
\* another matter: it takes all objects it has no room for as one.
ExplainedIsConnected ==
  LET objects == Objects(evidence)
      links == Links(evidence)
  IN GraphNodes(evidence) = objects =>
     \A h \in analysis.hypotheses : \A q \in h.downstream :
       Reachable(links, ObjectsOf(objects, h.cause)) \cap ObjectsOf(objects, q) # {}

\* A check hides what is called resolved: the same problem of the same object is
\* not there now, if its evidence was neither cut to the references a finding
\* keeps nor lost.
ResolvedIsOver ==
  pc = "written" /\ evidence.dropped = {} /\ SourceCollected(evidence, "pods") /\ SourceCollected(evidence, "nodes") =>
    \A a \in findings : a.status = "resolved" /\ Cardinality(a.finding.evidence) < MaxEvidence =>
      \A f \in EvaluateRules(world) :
        f.rule = a.finding.rule /\ f.affected \cap a.finding.affected # {} =>
          \A ref \in f.evidence : ref[1] \notin {"nodes", "pods", "facts"}
=============================================================================
