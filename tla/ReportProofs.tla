---------------------------- MODULE ReportProofs ----------------------------
(***************************************************************************)
(* What a report is worth when evidence is missing, for every cluster, any *)
(* number of losses and every set of limits.                               *)
(*                                                                         *)
(* The ledger says "not matched" only of a rule whose every declared       *)
(* source was seen whole (LedgerBacked), and rules that conclude from an   *)
(* absence have asked first (AbsenceIsAsked). What explains is linked to   *)
(* what it explains (ExplainedConnected).                                  *)
(*                                                                         *)
(* The other theorems compare the report with that of the whole evidence.  *)
(* They rest on EvidenceInv: whatever was lost, the evidence is what is    *)
(* left of the world, and the findings are those of the evidence. From     *)
(* there on nothing is about steps any more. A group of rules Agrees when  *)
(* what it finds in the evidence it finds in the world too, and what it    *)
(* finds in the world it finds in the evidence, if all that the rule reads *)
(* is there (Complete); there is one lemma for each group of rules.py.     *)
(* The rules about events Follow: an event that was lost may be needed to  *)
(* place another one, so each event of the evidence is taken for the event *)
(* of the world that it is (Placed).                                       *)
(***************************************************************************)
EXTENDS Report, FiniteSetTheorems, TLAPS

(* Every variable keeps its type, and the ledger has one entry per rule of *)
(* rule_catalog.py.                                                        *)
THEOREM TypeCorrect == Spec => []TypeOK
<1>1. Init => TypeOK
  BY LossesAssumption DEF Init, TypeOK
<1>2. TypeOK /\ [Next]_vars => TypeOK'
  <2> SUFFICES ASSUME TypeOK, [Next]_vars PROVE TypeOK'
    OBVIOUS
  <2>1. ASSUME NEW lossy, Lose(lossy) PROVE TypeOK'
    BY <2>1, LossesAssumption DEF Lose, TypeOK, derived
  <2>2. CASE LoadCollection
    BY <2>2 DEF LoadCollection, TypeOK, derived
  <2>3. CASE NormalizeEvidence
    BY <2>3, LossesAssumption DEF NormalizeEvidence, TypeOK, derived
  <2>4. CASE Evaluate
    BY <2>4 DEF Evaluate, TypeOK
  <2>5. CASE Analyze
    BY <2>5 DEF Analyze, TypeOK
  <2>6. CASE Cover
    <3>1. DOMAIN ledger' = RuleCatalog
      BY <2>6 DEF Cover, RuleLedger
    <3>. QED
      BY <2>6, <3>1 DEF Cover, TypeOK
  <2>7. CASE UNCHANGED vars
    BY <2>7 DEF vars, TypeOK
  <2>8. CASE \/ LoseNode \/ LoseCommand \/ LosePreviousBoot \/ LoseEtcd \/ LosePodLogs \/ LoseService
             \/ LoseFacts \/ LoseSource \/ LoseLogs \/ LoseCluster \/ LosePrometheus
    BY <2>1, <2>8
       DEF LoseNode, LoseCommand, LosePreviousBoot, LoseEtcd, LosePodLogs, LoseService, LoseFacts,
           LoseSource, LoseLogs, LoseCluster, LosePrometheus, LoseIn
  <2>. QED
    BY <2>2, <2>3, <2>4, <2>5, <2>6, <2>7, <2>8 DEF Next
<1>. QED
  BY <1>1, <1>2, PTL DEF Spec

---------------------------------------------------------------------------

(* A requirement without gaps has rows, and all of them were collected.    *)
LEMMA NoGaps ==
  ASSUME NEW rows, NEW q, RequirementGaps(rows, q) = {}
  PROVE  RowsOf(rows, q) # {} /\ \A r \in RowsOf(rows, q) : r.status = "collected"
BY DEF RequirementGaps

(* The coverage has a row for everything that was tried.                   *)
LEMMA RowsOfTheEvidence ==
  ASSUME NEW e
  PROVE  /\ \A h \in DOMAIN e.results : Row("node", "none", h, e.results[h]) \in Coverage(e)
         /\ \A h \in Hosts(e) : \A id \in DOMAIN e.snaps[h].commands :
              Row("command", id, h, e.snaps[h].commands[id].status) \in Coverage(e)
         /\ \A h \in Hosts(e) : Row("pod_logs", "none", h, e.snaps[h].podLogs.status) \in Coverage(e)
         /\ \A id \in DOMAIN e.kube : Row("kubernetes", id, "none", e.kube[id].status) \in Coverage(e)
         /\ e.logs.status # "absent" => Row("kubernetes", "logs", "none", e.logs.status) \in Coverage(e)
         /\ Row("cluster", "prometheus", "none", e.promStatus) \in Coverage(e)
<1>1. \A h \in DOMAIN e.results : Row("node", "none", h, e.results[h]) \in HostRows(e)
  BY DEF HostRows
<1>2. \A h \in Hosts(e) : \A id \in DOMAIN e.snaps[h].commands :
        Row("command", id, h, e.snaps[h].commands[id].status) \in CommandRows(e)
  BY DEF CommandRows
<1>3. \A h \in Hosts(e) : Row("pod_logs", "none", h, e.snaps[h].podLogs.status) \in PodLogRows(e)
  BY DEF PodLogRows
<1>4. \A id \in DOMAIN e.kube : Row("kubernetes", id, "none", e.kube[id].status) \in SourceRows(e)
  BY DEF SourceRows
<1>5. e.logs.status # "absent" => Row("kubernetes", "logs", "none", e.logs.status) \in LogRows(e)
  BY DEF LogRows
<1>6. Row("cluster", "prometheus", "none", e.promStatus) \in ClusterRows(e)
  BY DEF ClusterRows
<1>. QED
  BY <1>1, <1>2, <1>3, <1>4, <1>5, <1>6 DEF Coverage

(* And no other rows.                                                      *)
LEMMA RowsAreEvidence ==
  ASSUME NEW e, NEW r \in Coverage(e)
  PROVE  /\ r.kind = "command" => \E h \in Hosts(e) : r.id \in DOMAIN e.snaps[h].commands
         /\ r.kind = "kubernetes" => r.id \in DOMAIN e.kube \/ (r.id = "logs" /\ e.logs.status # "absent")
<1>1. CASE r \in HostRows(e)
  BY <1>1 DEF HostRows, Row
<1>2. CASE r \in CommandRows(e)
  BY <1>2 DEF CommandRows, Row
<1>3. CASE r \in PodLogRows(e)
  BY <1>3 DEF PodLogRows, Row
<1>4. CASE r \in SourceRows(e)
  BY <1>4 DEF SourceRows, Row
<1>5. CASE r \in LogRows(e)
  BY <1>5 DEF LogRows, Row
<1>6. CASE r \in ClusterRows(e)
  BY <1>6 DEF ClusterRows, Row
<1>7. CASE r \in MetricRows(e)
  BY <1>7 DEF MetricRows, Row
<1>. QED
  BY <1>1, <1>2, <1>3, <1>4, <1>5, <1>6, <1>7 DEF Coverage

(* Rows of hosts and of their Pod logs have no name of their own.          *)
LEMMA RowsHaveNames ==
  ASSUME NEW e, NEW r \in Coverage(e), r.kind \in {"node", "pod_logs"}
  PROVE  r.id = "none"
<1>1. r \in HostRows(e) \cup PodLogRows(e) => r.id = "none"
  BY DEF HostRows, PodLogRows, Row
<1>2. r \in CommandRows(e) => r.kind = "command"
  BY DEF CommandRows, Row
<1>3. r \in SourceRows(e) \cup LogRows(e) => r.kind = "kubernetes"
  BY DEF SourceRows, LogRows, Row
<1>4. r \in ClusterRows(e) \cup MetricRows(e) => r.kind \in {"cluster", "prometheus"}
  BY DEF ClusterRows, MetricRows, Row
<1>. QED
  BY <1>1, <1>2, <1>3, <1>4 DEF Coverage

(* What a rule declares without a gap was seen whole.                      *)
LEMMA WithoutGapsIsSeen ==
  ASSUME NEW e, NEW q, RequirementGaps(Coverage(e), q) = {}
  PROVE  Seen(e, q)
<1>1. RowsOf(Coverage(e), q) # {} /\ \A r \in RowsOf(Coverage(e), q) : r.status = "collected"
  BY NoGaps
<1>2. PICK row \in Coverage(e) : row.kind = q.kind /\ row.id = q.id
  BY <1>1 DEF RowsOf
<1>3. \A kind, id, host, status :
        Row(kind, id, host, status) \in Coverage(e) /\ kind = q.kind /\ id = q.id => status = "collected"
  BY <1>1 DEF RowsOf, Row
<1>4. ASSUME q.kind = "node" PROVE \A h \in DOMAIN e.results : e.results[h] = "collected"
  <2>1. q.id = "none"
    BY <1>2, <1>4, RowsHaveNames
  <2>. QED
    BY <1>3, <1>4, <2>1, RowsOfTheEvidence
<1>5. ASSUME q.kind = "command"
      PROVE  LET ran == {h \in Hosts(e) : q.id \in DOMAIN e.snaps[h].commands}
             IN ran # {} /\ \A h \in ran : Collected(e.snaps[h].commands[q.id])
  <2>1. \E h \in Hosts(e) : q.id \in DOMAIN e.snaps[h].commands
    BY <1>2, <1>5, RowsAreEvidence
  <2>2. \A h \in Hosts(e) : q.id \in DOMAIN e.snaps[h].commands => Collected(e.snaps[h].commands[q.id])
    BY <1>3, <1>5, RowsOfTheEvidence DEF Collected
  <2>. QED
    BY <2>1, <2>2
<1>6. ASSUME q.kind = "pod_logs" PROVE \A h \in Hosts(e) : Collected(e.snaps[h].podLogs)
  <2>1. q.id = "none"
    BY <1>2, <1>6, RowsHaveNames
  <2>. QED
    BY <1>3, <1>6, <2>1, RowsOfTheEvidence DEF Collected
<1>7. ASSUME q.kind = "kubernetes" PROVE Answers(e, q.id) # {} /\ \A a \in Answers(e, q.id) : Collected(a)
  <2>1. q.id \in DOMAIN e.kube \/ (q.id = "logs" /\ e.logs.status # "absent")
    BY <1>2, <1>7, RowsAreEvidence
  <2>2. q.id \in DOMAIN e.kube => Collected(e.kube[q.id])
    BY <1>3, <1>7, RowsOfTheEvidence DEF Collected
  <2>3. q.id = "logs" /\ e.logs.status # "absent" => Collected(e.logs)
    BY <1>3, <1>7, RowsOfTheEvidence DEF Collected
  <2>. QED
    BY <2>1, <2>2, <2>3 DEF Answers
<1>8. ASSUME q = [kind |-> "cluster", id |-> "prometheus"] PROVE e.promStatus = "collected"
  BY <1>3, <1>8, RowsOfTheEvidence
<1>. QED
  BY <1>4, <1>5, <1>6, <1>7, <1>8 DEF Seen

---------------------------------------------------------------------------

(* _rule_ledger: "not matched" leaves no gap in what the rule declares, and *)
(* a rule with a finding is matched whatever is missing.                   *)
LEMMA StatusIsBacked ==
  ASSUME NEW matched, NEW e, NEW options, NEW rule
  PROVE  /\ LedgerStatus(matched, Coverage(e), options, rule) = "matched" <=> rule \in matched
         /\ LedgerStatus(matched, Coverage(e), options, rule) = "not_matched" =>
              \A q \in RequirementsOf(rule) : Seen(e, q)
<1>1. LedgerStatus(matched, Coverage(e), options, rule) = "matched" <=> rule \in matched
  BY DEF LedgerStatus
<1>2. ASSUME LedgerStatus(matched, Coverage(e), options, rule) = "not_matched"
      PROVE  Missing(Coverage(e), rule) = {}
  BY <1>2 DEF LedgerStatus
<1>3. ASSUME Missing(Coverage(e), rule) = {}, NEW q \in RequirementsOf(rule) PROVE Seen(e, q)
  <2>1. RequirementGaps(Coverage(e), q) \subseteq Missing(Coverage(e), rule)
    BY DEF Missing
  <2>. QED
    BY <1>3, <2>1, WithoutGapsIsSeen
<1>. QED
  BY <1>1, <1>2, <1>3

(* LedgerIsBacked holds of every report that is written: the ledger is     *)
(* made in the last step, of the coverage of the evidence that was         *)
(* evaluated.                                                              *)
THEOREM LedgerBacked == Spec => []LedgerIsBacked
<1>1. Init => LedgerIsBacked
  BY DEF Init, LedgerIsBacked
<1>2. LedgerIsBacked /\ [Next]_vars => LedgerIsBacked'
  <2> SUFFICES ASSUME LedgerIsBacked, [Next]_vars, pc' = "written" PROVE LedgerIsBacked'
    BY DEF LedgerIsBacked
  <2>1. CASE Cover
    <3>1. ledger' = RuleLedger(MatchedRules, Coverage(evidence), evidence.options)
      BY <2>1 DEF Cover
    <3>2. evidence' = evidence /\ MatchedRules' = MatchedRules
      BY <2>1 DEF Cover, MatchedRules
    <3>3. \A rule \in RuleCatalog :
            ledger'[rule] = LedgerStatus(MatchedRules, Coverage(evidence), evidence.options, rule)
      BY <3>1 DEF RuleLedger
    <3>. QED
      BY <3>2, <3>3, StatusIsBacked DEF LedgerIsBacked
  <2>2. CASE UNCHANGED vars
    BY <2>2 DEF vars, LedgerIsBacked, MatchedRules
  <2>3. CASE Next /\ ~Cover
    BY <2>3 DEF Next, Lose, LoseIn, LoseNode, LoseCommand, LosePreviousBoot, LoseEtcd, LosePodLogs,
           LoseService, LoseFacts, LoseSource, LoseLogs, LoseCluster, LosePrometheus, LoadCollection,
           NormalizeEvidence, Evaluate, Analyze
  <2>. QED
    BY <2>1, <2>2, <2>3
<1>. QED
  BY <1>1, <1>2, PTL DEF Spec

---------------------------------------------------------------------------

(* The rules about Services, DNS and PodDisruptionBudgets conclude from    *)
(* what is not there (rules.py:458, :872): without the sources that would  *)
(* show it, whatever else the evidence holds, they find nothing.           *)
THEOREM AbsenceIsAsked ==
  ASSUME NEW e
  PROVE  /\ ServiceFindings(e) # {} => SourceCollected(e, "services") /\ SourceCollected(e, "endpoint_slices")
         /\ DnsFindings(e) # {} => SourceCollected(e, "services") /\ SourceCollected(e, "endpoint_slices")
         /\ PdbFindings(e) # {} => SourceCollected(e, "pdb")
<1>1. \A rule : Found(rule, {}) = {}
  BY DEF Found, FoundIn
<1>2. ASSUME ~(SourceCollected(e, "services") /\ SourceCollected(e, "endpoint_slices"))
      PROVE  ServiceFindings(e) = {} /\ DnsFindings(e) = {}
  <2>1. Named({}) = {}
    BY DEF Named
  <2>2. DnsFindings(e) = {}
    BY <1>2 DEF DnsFindings
  <2>3. ServiceFindings(e) = {}
    BY <1>1, <1>2, <2>1 DEF ServiceFindings
  <2>. QED
    BY <2>2, <2>3
<1>3. ASSUME ~SourceCollected(e, "pdb") PROVE PdbFindings(e) = {}
  <2>1. Named({}) = {}
    BY DEF Named
  <2>. QED
    BY <1>1, <1>3, <2>1 DEF PdbFindings
<1>. QED
  BY <1>2, <1>3

---------------------------------------------------------------------------

(* What is reached on some edges is reached on more of them.               *)
LEMMA MoreIsBeyond ==
  ASSUME NEW edges, NEW links, edges \subseteq links, NEW some, NEW all, some \subseteq all
  PROVE  Beyond(edges, some) \subseteq Beyond(links, all)
BY DEF Beyond

LEMMA MoreIsReachable ==
  ASSUME NEW edges, NEW links, edges \subseteq links, NEW starts
  PROVE  Reachable(edges, starts) \subseteq Reachable(links, starts)
<1> DEFINE a1 == Beyond(edges, starts)   b1 == Beyond(links, starts)
           a2 == Beyond(edges, a1)       b2 == Beyond(links, b1)
           a3 == Beyond(edges, a2)       b3 == Beyond(links, b2)
           a4 == Beyond(edges, a3)       b4 == Beyond(links, b3)
           a5 == Beyond(edges, a4)       b5 == Beyond(links, b4)
           a6 == Beyond(edges, a5)       b6 == Beyond(links, b5)
<1>1. Reachable(edges, starts) = a6 /\ Reachable(links, starts) = b6
  BY DEF Reachable
<1>2. a1 \subseteq b1
  BY MoreIsBeyond
<1> HIDE DEF a1, b1
<1>3. a2 \subseteq b2
  BY <1>2, MoreIsBeyond
<1> HIDE DEF a2, b2
<1>4. a3 \subseteq b3
  BY <1>3, MoreIsBeyond
<1> HIDE DEF a3, b3
<1>5. a4 \subseteq b4
  BY <1>4, MoreIsBeyond
<1> HIDE DEF a4, b4
<1>6. a5 \subseteq b5
  BY <1>5, MoreIsBeyond
<1> HIDE DEF a5, b5
<1>7. a6 \subseteq b6
  BY <1>6, MoreIsBeyond
<1> QED
  BY <1>1, <1>7

(* The graph has no edge that the topology has not.                        *)
LEMMA EdgesAreLinks == ASSUME NEW links, NEW nodes PROVE GraphEdges(links, nodes) \subseteq links
BY DEF GraphEdges

(* With room for all objects, the targets of a finding are its objects.    *)
LEMMA TargetsAreObjects ==
  ASSUME NEW e, NEW finding, GraphNodes(e) = Objects(e)
  PROVE  FindingTargets(e, Objects(e), GraphNodes(e), finding) = ObjectsOf(Objects(e), finding)
<1>1. Standing(e, Objects(e), Objects(e), finding) =
        {o \in Objects(e) : o[1] # "component" /\ Whole(o[2]) \in finding.affected}
  BY DEF Standing
<1>2. \A c \in ComponentOf(finding.rule) : <<"component", c>> \in Components
  BY DEF ComponentOf, Components
<1>3. Components \subseteq Objects(e)
  BY DEF Objects
<1>4. {IF <<"component", c>> \in Objects(e) THEN <<"component", c>>
        ELSE NoObject : c \in ComponentOf(finding.rule)}
        = {<<"component", c>> : c \in ComponentOf(finding.rule)}
  BY <1>2, <1>3
<1> QED
  BY <1>1, <1>4 DEF FindingTargets, ObjectsOf

(* What build_causal_analysis returns is of the evidence and the findings  *)
(* that the report is made of.                                             *)
AnalysisInv ==
  /\ pc \in {"collect", "normalize", "evaluate", "analyze"} => analysis = NoAnalysis
  /\ pc \notin {"collect", "normalize", "evaluate", "analyze"} => analysis
       = CausalAnalysis(evidence, findings)

LEMMA AnalysisInvariant == Spec => []AnalysisInv
<1>1. Init => AnalysisInv
  BY DEF Init, AnalysisInv
<1>2. AnalysisInv /\ [Next]_vars => AnalysisInv'
  <2> SUFFICES ASSUME AnalysisInv, [Next]_vars PROVE AnalysisInv'
    OBVIOUS
  <2>1. ASSUME NEW lossy, Lose(lossy) PROVE AnalysisInv'
    BY <2>1 DEF Lose, AnalysisInv, derived
  <2>2. CASE LoadCollection \/ NormalizeEvidence
    BY <2>2 DEF LoadCollection, NormalizeEvidence, AnalysisInv, derived
  <2>3. CASE Evaluate
    BY <2>3 DEF Evaluate, AnalysisInv
  <2>4. CASE Analyze
    BY <2>4 DEF Analyze, AnalysisInv
  <2>5. CASE Cover
    BY <2>5 DEF Cover, AnalysisInv
  <2>6. CASE UNCHANGED vars
    BY <2>6 DEF vars, AnalysisInv
  <2>7. CASE \/ LoseNode \/ LoseCommand \/ LosePreviousBoot \/ LoseEtcd \/ LosePodLogs \/ LoseService
             \/ LoseFacts \/ LoseSource \/ LoseLogs \/ LoseCluster \/ LosePrometheus
    BY <2>1, <2>7
       DEF LoseNode, LoseCommand, LosePreviousBoot, LoseEtcd, LosePodLogs, LoseService, LoseFacts,
           LoseSource, LoseLogs, LoseCluster, LosePrometheus, LoseIn
  <2> QED
    BY <2>2, <2>3, <2>4, <2>5, <2>6, <2>7 DEF Next
<1> QED
  BY <1>1, <1>2, PTL DEF Spec

(* What a hypothesis is said to explain is linked to it, for every topology *)
(* and every set of findings, unless the graph was full.                   *)
THEOREM ExplainedConnected == Spec => []ExplainedIsConnected
<1>1. ASSUME AnalysisInv PROVE ExplainedIsConnected
  <2> DEFINE objects == Objects(evidence)
             links == Links(evidence)
  <2> SUFFICES ASSUME GraphNodes(evidence) = objects,
                      NEW h \in analysis.hypotheses, NEW q \in h.downstream
               PROVE  Reachable(links, ObjectsOf(objects, h.cause)) \cap ObjectsOf(objects, q) # {}
    BY DEF ExplainedIsConnected
  <2> DEFINE edges == GraphEdges(links, GraphNodes(evidence))
             target(a) == FindingTargets(evidence, objects, GraphNodes(evidence), a.finding)
             targets == [a \in findings |-> target(a)]
             reach == [a \in findings |-> Reachable(edges, targets[a])]
             causes == {a \in findings : ~a.consequence /\ a.finding.rule \notin AboutCollection}
             explains(c, x) ==
               /\ targets[x] # {} /\ reach[c] \cap targets[x] # {}
               /\ TemporallyCompatible(c.finding, x.finding)
             ranked == {a \in causes : evidence.options.incident \/ a.status # "resolved"}
             downstream(c) == {x.finding : x \in {y \in findings : y.consequence /\ explains(c, y)}}
  <2>1. analysis = CausalAnalysis(evidence, findings)
    BY <1>1 DEF AnalysisInv, NoAnalysis
  <2>2. PICK c \in findings : /\ h.cause = c.finding
                              /\ \E x \in findings : /\ q = x.finding
                                                     /\ Reachable(edges, target(c)) \cap target(x) # {}
    <3>1. analysis.hypotheses =
            {[cause |-> c.finding, status |-> c.status, downstream |-> downstream(c)] : c \in ranked}
      BY <2>1 DEF CausalAnalysis
    <3> HIDE DEF downstream, ranked
    <3>2. PICK c \in ranked : h.cause = c.finding /\ h.downstream = downstream(c)
      BY <3>1
    <3>3. c \in findings
      BY DEF ranked
    <3>4. PICK x \in findings : q = x.finding /\ reach[c] \cap targets[x] # {}
      BY <3>2 DEF downstream
    <3>5. reach[c] = Reachable(edges, target(c)) /\ targets[x] = target(x)
      BY <3>3
    <3> QED
      BY <3>2, <3>3, <3>4, <3>5
  <2>3. PICK x \in findings : q = x.finding /\ Reachable(edges, target(c)) \cap target(x) # {}
    BY <2>2
  <2>4. target(c) = ObjectsOf(objects, h.cause) /\ target(x) = ObjectsOf(objects, q)
    BY <2>2, <2>3, TargetsAreObjects
  <2>5. Reachable(edges, target(c)) \subseteq Reachable(links, target(c))
    BY EdgesAreLinks, MoreIsReachable
  <2> QED
    BY <2>3, <2>4, <2>5
<1> QED
  BY <1>1, AnalysisInvariant, PTL

---------------------------------------------------------------------------

(* What a loss leaves of an answer: some of its lines, or nothing.         *)
LossStatuses == {"failed", "timeout", "truncated", "partial", "source_unavailable", "permission_denied"}
PartOf(a, b) == a = b \/ (a.status \in LossStatuses /\ a.items \subseteq b.items)
GoneOrAll(a, b) == a = b \/ (a.status \in LossStatuses /\ a.items = {})

(* What is left of the commands of a host. The status tells what was lost  *)
(* of a command, but of the journals of the boot before, and all the       *)
(* commands of etcd go together.                                           *)
CommandsLeft(c, d, silent) ==
  /\ DOMAIN c = DOMAIN d \/ ("etcd" \in silent /\ DOMAIN c = (DOMAIN d) \ EtcdCommands)
  /\ \A id \in DOMAIN c :
       \/ PartOf(c[id], d[id])
       \/ "previous_boot" \in silent /\ id \in PreviousIds /\ c[id].items \subseteq d[id].items

(* What the facts may be, whatever was lost of them.                       *)
FactsLeft(f, t) ==
  /\ DOMAIN f = FactFields
  /\ f.kernel = t.kernel /\ f.rootFree = t.rootFree
  /\ DOMAIN f.services = DOMAIN t.services
  /\ \A u \in DOMAIN t.services : f.services[u] = t.services[u] \/ f.services[u].status \in LossStatuses
  /\ f.driverFlag = t.driverFlag \/ ("kubelet" \in DOMAIN t.services /\ f.services["kubelet"].status \in LossStatuses)
  /\ f.clusterDNS \in {t.clusterDNS, {}}
  /\ f.cgroupMode = "v2" => f.cgroupMode = t.cgroupMode /\ f.controllers = t.controllers
  /\ Expiring(f) => Expiring(t)
  /\ f.etcd.quota \in {t.etcd.quota, 0}
  /\ f.ipv6Disabled => t.ipv6Disabled
  /\ f.authFile => t.authFile

(* And what they are, when their source was not lost.                      *)
FactsKept(f, t, silent) ==
  /\ "swaps" \notin silent => f.swap = t.swap
  /\ "kubelet_config" \notin silent =>
       /\ f.failSwapOn = t.failSwapOn /\ f.rotate = t.rotate
       /\ f.kubeletDriver = t.kubeletDriver /\ f.clusterDNS = t.clusterDNS
       /\ "resolv_conf" \notin silent => f.nameservers = t.nameservers
  /\ "rotation" \notin silent =>
       /\ f.rotation = t.rotation
       /\ "certificate" \notin silent => f.certificates = t.certificates
  /\ "cgroup" \notin silent => f.cgroupMode = t.cgroupMode /\ f.controllers = t.controllers
  /\ "etcd" \notin silent /\ "etcd_quota" \notin silent => f.etcd.quota = t.etcd.quota
  /\ "ipv6" \notin silent => f.ipv6Disabled = t.ipv6Disabled

(* What is left of a snapshot, with what was lost silently.                *)
SnapshotOf(s, t, silent) ==
  /\ DOMAIN s = {"commands", "podLogs", "facts"}
  /\ CommandsLeft(s.commands, t.commands, silent)
  /\ \/ PartOf(s.podLogs, t.podLogs)
     \/ "pod_logs" \in silent /\ s.podLogs.items \subseteq t.podLogs.items
  /\ FactsLeft(s.facts, t.facts) /\ FactsKept(s.facts, t.facts, silent)

(* What losses leave of a world.                                           *)
LeftOf(e, w) ==
  /\ DOMAIN e = EvidenceFields
  /\ DOMAIN e.results = DOMAIN w.results
  /\ \A h \in DOMAIN w.results : e.results[h] = w.results[h] \/ e.results[h] \in LossStatuses
  /\ Hosts(e) \subseteq Hosts(w)
  /\ \A h \in Hosts(e) : SnapshotOf(e.snaps[h], w.snaps[h], e.silent)
  /\ DOMAIN e.kube = DOMAIN w.kube
  /\ \A id \in DOMAIN w.kube : GoneOrAll(e.kube[id], w.kube[id])
  /\ \/ PartOf(e.logs, w.logs)
     \/ "logs" \in e.silent /\ e.logs.items \subseteq w.logs.items
  /\ DOMAIN e.prom = DOMAIN w.prom
  /\ \A id \in DOMAIN w.prom : GoneOrAll(e.prom[id], w.prom[id])
  /\ e.promStatus = "collected" => e.prom = w.prom
  /\ e.options = w.options

(* The evidence is what is left of the world, without the snapshots of the *)
(* hosts that failed once it was loaded; the findings are those of it.     *)
EvidenceInv ==
  /\ world \in Worlds
  /\ LeftOf(evidence, world)
  /\ pc = "collect" => Hosts(evidence) = Hosts(world)
  /\ pc # "collect" => Hosts(evidence) = {h \in Hosts(world) : evidence.results[h] = "collected"}
  /\ pc \in {"analyze", "cover", "written", "raised"} =>
       findings = {Annotated(f, evidence.options) : f \in EvaluateRules(evidence)}

(* What more is said to be lost takes nothing away.                        *)
LEMMA SilenceIsNoLoss ==
  ASSUME NEW s, NEW t, NEW silent, SnapshotOf(s, t, silent), NEW more, silent \subseteq more
  PROVE  SnapshotOf(s, t, more)
<1>1. CommandsLeft(s.commands, t.commands, more)
  BY DEF SnapshotOf, CommandsLeft
<1>2. FactsKept(s.facts, t.facts, more)
  BY DEF SnapshotOf, FactsKept
<1> QED
  BY <1>1, <1>2 DEF SnapshotOf

(* Each loss leaves a part of what was left before.                        *)
LEMMA LossOfNode ==
  ASSUME NEW e, NEW w, LeftOf(e, w), NEW h \in DOMAIN e.results, NEW status \in LossStatuses
  PROVE  LET lossy == [e EXCEPT !.results[h] = status] IN LeftOf(lossy, w) /\ Hosts(lossy) = Hosts(e)
<1> DEFINE lossy == [e EXCEPT !.results[h] = status]
<1>1. DOMAIN lossy = EvidenceFields /\ \A f \in EvidenceFields \ {"results"} : lossy[f] = e[f]
  BY DEF LeftOf, EvidenceFields
<1>2. DOMAIN lossy.results = DOMAIN w.results
  BY DEF LeftOf, EvidenceFields
<1>3. \A k \in DOMAIN w.results : lossy.results[k] = w.results[k] \/ lossy.results[k] \in LossStatuses
  BY DEF LeftOf, EvidenceFields
<1> HIDE DEF lossy
<1>4. /\ lossy.snaps = e.snaps /\ lossy.kube = e.kube /\ lossy.logs = e.logs
           /\ lossy.promStatus = e.promStatus
      /\ lossy.prom = e.prom /\ lossy.options = e.options /\ lossy.silent = e.silent
  BY <1>1 DEF EvidenceFields
<1> QED
  BY <1>1, <1>2, <1>3, <1>4 DEF LeftOf, Hosts, lossy

(* What no rule asks for may change.                                       *)
LEMMA SameFactsLeft ==
  ASSUME NEW f, NEW t, NEW silent, FactsLeft(f, t), FactsKept(f, t, silent), NEW g, DOMAIN g = FactFields,
         \A field \in FactFields \ {"etcd", "bootChanged"} : g[field] = f[field], g.etcd.quota = f.etcd.quota
  PROVE  FactsLeft(g, t) /\ FactsKept(g, t, silent)
<1>1. /\ g.services = f.services /\ g.kernel = f.kernel /\ g.rootFree = f.rootFree /\ g.swap = f.swap
      /\ g.failSwapOn = f.failSwapOn /\ g.nameservers = f.nameservers /\ g.rotate = f.rotate
      /\ g.rotation = f.rotation /\ g.cgroupMode = f.cgroupMode /\ g.controllers = f.controllers
      /\ g.kubeletDriver = f.kubeletDriver /\ g.driverFlag = f.driverFlag /\ g.clusterDNS = f.clusterDNS
      /\ g.certificates = f.certificates /\ g.ipv6Disabled = f.ipv6Disabled /\ g.authFile = f.authFile
  BY DEF FactFields
<1>2. Expiring(g) <=> Expiring(f)
  BY <1>1 DEF Expiring
<1>3. FactsLeft(g, t)
  BY <1>1, <1>2 DEF FactsLeft
<1> QED
  BY <1>1, <1>3 DEF FactsKept

LEMMA LossOfCommand ==
  ASSUME NEW s, NEW t, NEW silent, SnapshotOf(s, t, silent), NEW id \in DOMAIN s.commands,
         NEW status \in LossStatuses, NEW left, left \subseteq s.commands[id].items,
         NEW commands, commands = [s.commands EXCEPT ![id] = [status |-> status, items |-> left]],
         NEW etcd, etcd.quota = s.facts.etcd.quota
  PROVE  SnapshotOf([s EXCEPT !.commands = commands, !.facts.etcd = etcd], t, silent)
<1> DEFINE lossy == [s EXCEPT !.commands = commands, !.facts.etcd = etcd]
<1>1. /\ DOMAIN lossy = {"commands", "podLogs", "facts"} /\ lossy.podLogs = s.podLogs
      /\ lossy.commands = commands /\ lossy.facts = [s.facts EXCEPT !.etcd = etcd]
  BY DEF SnapshotOf
<1>2. /\ DOMAIN commands = DOMAIN s.commands
      /\ \A k \in DOMAIN s.commands :
           commands[k] = IF k = id THEN [status |-> status, items |-> left] ELSE s.commands[k]
  OBVIOUS
<1>3. CommandsLeft(s.commands, t.commands, silent)
  BY DEF SnapshotOf
<1>4. CommandsLeft(commands, t.commands, silent)
  <2>1. left \subseteq t.commands[id].items
    BY <1>3 DEF CommandsLeft, PartOf
  <2> QED
    BY <1>2, <1>3, <2>1 DEF CommandsLeft, PartOf
<1>5. FactsLeft(lossy.facts, t.facts) /\ FactsKept(lossy.facts, t.facts, silent)
  <2> DEFINE g == [s.facts EXCEPT !.etcd = etcd]
  <2>1. FactsLeft(s.facts, t.facts) /\ FactsKept(s.facts, t.facts, silent) /\ DOMAIN s.facts = FactFields
    BY DEF SnapshotOf, FactsLeft
  <2>2. /\ DOMAIN g = FactFields /\ g.etcd = etcd
        /\ \A field \in FactFields \ {"etcd", "bootChanged"} : g[field] = s.facts[field]
    BY <2>1 DEF FactFields
  <2> HIDE DEF g
  <2>3. FactsLeft(g, t.facts) /\ FactsKept(g, t.facts, silent)
    BY <2>1, <2>2, SameFactsLeft
  <2> QED
    BY <1>1, <2>3 DEF g
<1> HIDE DEF lossy
<1>6. SnapshotOf(lossy, t, silent)
  BY <1>1, <1>4, <1>5 DEF SnapshotOf
<1> QED
  BY <1>6 DEF lossy

LEMMA LossOfPreviousBoot ==
  ASSUME NEW s, NEW t, NEW silent, SnapshotOf(s, t, silent), "previous_boot" \in silent,
         NEW id \in PreviousIds \cap DOMAIN s.commands, NEW left, left \subseteq s.commands[id].items
  PROVE  SnapshotOf([s EXCEPT !.commands[id] = [status |-> @.status, items |-> left]], t, silent)
<1> DEFINE lossy == [s EXCEPT !.commands[id] = [status |-> @.status, items |-> left]]
<1>1. DOMAIN lossy = DOMAIN s /\ lossy.podLogs = s.podLogs /\ lossy.facts = s.facts
  BY DEF SnapshotOf
<1>2. /\ DOMAIN lossy.commands = DOMAIN s.commands /\ lossy.commands[id].items = left
      /\ \A k \in (DOMAIN s.commands) \ {id} : lossy.commands[k] = s.commands[k]
  BY DEF SnapshotOf
<1> HIDE DEF lossy
<1>3. CommandsLeft(s.commands, t.commands, silent)
  BY DEF SnapshotOf
<1>4. left \subseteq t.commands[id].items
  BY <1>3 DEF CommandsLeft, PartOf
<1>5. CommandsLeft(lossy.commands, t.commands, silent)
  BY <1>2, <1>3, <1>4 DEF CommandsLeft
<1>6. SnapshotOf(lossy, t, silent)
  BY <1>1, <1>5 DEF SnapshotOf
<1> QED
  BY <1>6 DEF lossy

LEMMA LossOfEtcd ==
  ASSUME NEW s, NEW t, NEW silent, SnapshotOf(s, t, silent), "etcd" \in silent, NEW status
  PROVE  SnapshotOf([s EXCEPT !.commands = Without(@, EtcdCommands),
                              !.facts.etcd = [status |-> status, quota |-> 0]], t, silent)
<1> DEFINE etcd == [status |-> status, quota |-> 0]
           lossy == [s EXCEPT !.commands = Without(@, EtcdCommands), !.facts.etcd = etcd]
           commands == Without(s.commands, EtcdCommands)
           facts == [s.facts EXCEPT !.etcd = etcd]
<1>1. /\ DOMAIN lossy = {"commands", "podLogs", "facts"} /\ lossy.podLogs = s.podLogs
      /\ lossy.commands = commands /\ lossy.facts = facts
  BY DEF SnapshotOf
<1>2. /\ DOMAIN commands = (DOMAIN s.commands) \ EtcdCommands
      /\ \A id \in DOMAIN commands : commands[id] = s.commands[id]
  BY DEF Without
<1> HIDE DEF commands
<1>3. CommandsLeft(commands, t.commands, silent)
  BY <1>2 DEF SnapshotOf, CommandsLeft
<1>4. FactsLeft(s.facts, t.facts) /\ FactsKept(s.facts, t.facts, silent) /\ DOMAIN s.facts = FactFields
  BY DEF SnapshotOf, FactsLeft
<1>5. /\ DOMAIN facts = FactFields /\ facts.etcd.quota = 0
      /\ facts.services = s.facts.services /\ facts.kernel = s.facts.kernel
      /\ facts.rootFree = s.facts.rootFree /\ facts.swap = s.facts.swap
      /\ facts.failSwapOn = s.facts.failSwapOn /\ facts.nameservers = s.facts.nameservers
      /\ facts.rotate = s.facts.rotate /\ facts.rotation = s.facts.rotation
      /\ facts.cgroupMode = s.facts.cgroupMode /\ facts.controllers = s.facts.controllers
      /\ facts.kubeletDriver = s.facts.kubeletDriver /\ facts.driverFlag = s.facts.driverFlag
      /\ facts.clusterDNS = s.facts.clusterDNS /\ facts.certificates = s.facts.certificates
      /\ facts.ipv6Disabled = s.facts.ipv6Disabled /\ facts.authFile = s.facts.authFile
  BY <1>4 DEF FactFields
<1> HIDE DEF facts
<1>6. Expiring(facts) <=> Expiring(s.facts)
  BY <1>5 DEF Expiring
<1>7. FactsLeft(facts, t.facts)
  BY <1>4, <1>5, <1>6 DEF FactsLeft
<1>8. FactsKept(facts, t.facts, silent)
  BY <1>4, <1>5 DEF FactsKept
<1> HIDE DEF lossy
<1>9. SnapshotOf(lossy, t, silent)
  BY <1>1, <1>3, <1>7, <1>8 DEF SnapshotOf
<1> QED
  BY <1>9 DEF lossy

LEMMA LossOfPodLogs ==
  ASSUME NEW s, NEW t, NEW silent, SnapshotOf(s, t, silent), NEW logs,
         logs.items \subseteq s.podLogs.items, logs.status \in LossStatuses \/ "pod_logs" \in silent
  PROVE  SnapshotOf([s EXCEPT !.podLogs = logs], t, silent)
<1> DEFINE lossy == [s EXCEPT !.podLogs = logs]
<1>1. DOMAIN lossy = DOMAIN s /\ lossy.commands = s.commands /\ lossy.facts = s.facts /\ lossy.podLogs = logs
  BY DEF SnapshotOf
<1>2. logs.items \subseteq t.podLogs.items
  BY DEF SnapshotOf, PartOf
<1>3. PartOf(logs, t.podLogs) \/ ("pod_logs" \in silent /\ logs.items \subseteq t.podLogs.items)
  BY <1>2 DEF PartOf
<1> HIDE DEF lossy
<1>4. SnapshotOf(lossy, t, silent)
  BY <1>1, <1>3 DEF SnapshotOf
<1> QED
  BY <1>4 DEF lossy

LEMMA LossOfService ==
  ASSUME NEW s, NEW t, NEW silent, SnapshotOf(s, t, silent), NEW u \in DOMAIN s.facts.services, NEW unit,
         unit.status \in LossStatuses, NEW flag, flag = s.facts.driverFlag \/ u = "kubelet"
  PROVE  SnapshotOf([s EXCEPT !.facts.services[u] = unit, !.facts.driverFlag = flag], t, silent)
<1> DEFINE lossy == [s EXCEPT !.facts.services[u] = unit, !.facts.driverFlag = flag]
           services == [s.facts.services EXCEPT ![u] = unit]
           facts == [s.facts EXCEPT !.services = services, !.driverFlag = flag]
<1>1. FactsLeft(s.facts, t.facts) /\ FactsKept(s.facts, t.facts, silent) /\ DOMAIN s.facts = FactFields
  BY DEF SnapshotOf, FactsLeft
<1>2. /\ DOMAIN lossy = {"commands", "podLogs", "facts"} /\ lossy.podLogs = s.podLogs
      /\ lossy.commands = s.commands
  BY DEF SnapshotOf
<1>3. lossy.facts = facts
  BY <1>1 DEF SnapshotOf, FactFields
<1>4. /\ DOMAIN services = DOMAIN s.facts.services /\ services[u] = unit
      /\ \A k \in (DOMAIN s.facts.services) \ {u} : services[k] = s.facts.services[k]
  OBVIOUS
<1>5. /\ DOMAIN facts = FactFields /\ facts.services = services /\ facts.driverFlag = flag
      /\ facts.kernel = s.facts.kernel /\ facts.etcd = s.facts.etcd
      /\ facts.rootFree = s.facts.rootFree /\ facts.swap = s.facts.swap
      /\ facts.failSwapOn = s.facts.failSwapOn /\ facts.nameservers = s.facts.nameservers
      /\ facts.rotate = s.facts.rotate /\ facts.rotation = s.facts.rotation
      /\ facts.cgroupMode = s.facts.cgroupMode /\ facts.controllers = s.facts.controllers
      /\ facts.kubeletDriver = s.facts.kubeletDriver
      /\ facts.clusterDNS = s.facts.clusterDNS /\ facts.certificates = s.facts.certificates
      /\ facts.ipv6Disabled = s.facts.ipv6Disabled /\ facts.authFile = s.facts.authFile
  BY <1>1 DEF FactFields
<1> HIDE DEF services, facts, lossy
<1>6. Expiring(facts) <=> Expiring(s.facts)
  BY <1>5 DEF Expiring
<1>7. FactsLeft(facts, t.facts)
  <2>1. \A k \in DOMAIN t.facts.services :
          services[k] = t.facts.services[k] \/ services[k].status \in LossStatuses
    BY <1>1, <1>4 DEF FactsLeft
  <2>2. \/ flag = t.facts.driverFlag
        \/ "kubelet" \in DOMAIN t.facts.services /\ services["kubelet"].status \in LossStatuses
    BY <1>1, <1>4 DEF FactsLeft
  <2> QED
    BY <1>1, <1>4, <1>5, <1>6, <2>1, <2>2 DEF FactsLeft
<1>8. FactsKept(facts, t.facts, silent)
  BY <1>1, <1>5 DEF FactsKept
<1>9. SnapshotOf(lossy, t, silent)
  BY <1>2, <1>3, <1>7, <1>8 DEF SnapshotOf
<1> QED
  BY <1>9 DEF lossy

(* Of the facts of a host each source takes its own.                       *)
LEMMA LossOfFactSource ==
  ASSUME NEW f, NEW t, NEW silent, FactsLeft(f, t), FactsKept(f, t, silent), NEW source \in FactSources,
         NEW g \in FactsWithout(f, source), source \in silent
  PROVE  FactsLeft(g, t) /\ FactsKept(g, t, silent)
<1> DEFINE unchanged(fields) == \A field \in FactFields \ fields : g[field] = f[field]
<1>1. DOMAIN f = FactFields
  BY DEF FactsLeft
<1>2. CASE source = "kubelet_config"
  <2>1. g = [f EXCEPT !.failSwapOn = TRUE, !.rotate = FALSE, !.clusterDNS = {}, !.kubeletDriver = "none",
                      !.nameservers = f.etcNameservers]
    BY <1>2 DEF FactsWithout
  <2>2. /\ DOMAIN g = FactFields /\ g.clusterDNS = {}
        /\ unchanged({"failSwapOn", "rotate", "clusterDNS", "kubeletDriver", "nameservers"})
    BY <1>1, <2>1 DEF FactFields
  <2>3. /\ g.services = f.services /\ g.kernel = f.kernel /\ g.rootFree = f.rootFree /\ g.swap = f.swap
        /\ g.rotation = f.rotation /\ g.cgroupMode = f.cgroupMode /\ g.controllers = f.controllers
        /\ g.driverFlag = f.driverFlag /\ g.certificates = f.certificates /\ g.etcd = f.etcd
        /\ g.ipv6Disabled = f.ipv6Disabled /\ g.authFile = f.authFile
    BY <2>2 DEF FactFields
  <2>4. FactsLeft(g, t)
    BY <2>2, <2>3 DEF FactsLeft, Expiring
  <2> QED
    BY <1>2, <2>3, <2>4 DEF FactsKept
<1>3. CASE source = "resolv_conf"
  <2>1. g = [f EXCEPT !.nameservers = 0]
    BY <1>3 DEF FactsWithout
  <2>2. DOMAIN g = FactFields /\ unchanged({"nameservers"})
    BY <1>1, <2>1 DEF FactFields
  <2>3. /\ g.services = f.services /\ g.kernel = f.kernel /\ g.rootFree = f.rootFree /\ g.swap = f.swap
        /\ g.failSwapOn = f.failSwapOn /\ g.rotate = f.rotate /\ g.kubeletDriver = f.kubeletDriver
        /\ g.clusterDNS = f.clusterDNS
        /\ g.rotation = f.rotation /\ g.cgroupMode = f.cgroupMode /\ g.controllers = f.controllers
        /\ g.driverFlag = f.driverFlag /\ g.certificates = f.certificates /\ g.etcd = f.etcd
        /\ g.ipv6Disabled = f.ipv6Disabled /\ g.authFile = f.authFile
    BY <2>2 DEF FactFields
  <2>4. FactsLeft(g, t)
    BY <2>2, <2>3 DEF FactsLeft, Expiring
  <2> QED
    BY <1>3, <2>3, <2>4 DEF FactsKept
<1>4. CASE source = "swaps"
  <2>1. g = [f EXCEPT !.swap = FALSE]
    BY <1>4 DEF FactsWithout
  <2>2. DOMAIN g = FactFields /\ unchanged({"swap"})
    BY <1>1, <2>1 DEF FactFields
  <2>3. /\ g.services = f.services /\ g.kernel = f.kernel /\ g.rootFree = f.rootFree
        /\ g.failSwapOn = f.failSwapOn /\ g.rotate = f.rotate /\ g.kubeletDriver = f.kubeletDriver
        /\ g.clusterDNS = f.clusterDNS /\ g.nameservers = f.nameservers
        /\ g.rotation = f.rotation /\ g.cgroupMode = f.cgroupMode /\ g.controllers = f.controllers
        /\ g.driverFlag = f.driverFlag /\ g.certificates = f.certificates /\ g.etcd = f.etcd
        /\ g.ipv6Disabled = f.ipv6Disabled /\ g.authFile = f.authFile
    BY <2>2 DEF FactFields
  <2>4. FactsLeft(g, t)
    BY <2>2, <2>3 DEF FactsLeft, Expiring
  <2> QED
    BY <1>4, <2>3, <2>4 DEF FactsKept
<1>5. CASE source = "rotation"
  <2>1. PICK status, certificates :
          /\ \/ certificates = f.certificates
             \/ \A c \in certificates : \E b \in f.certificates :
                  c = [client |-> b.client, current |-> FALSE, days |-> b.days]
          /\ g = [f EXCEPT !.rotation = status, !.certificates = certificates]
    <3> DEFINE old == {[client |-> c.client, current |-> FALSE, days |-> c.days] : c \in f.certificates}
    <3>1. g \in {[f EXCEPT !.rotation = status, !.certificates = certificates] :
                    status \in {"missing", "unavailable"}, certificates \in {f.certificates, old}}
      BY <1>5 DEF FactsWithout
    <3>2. \A c \in old : \E b \in f.certificates : c = [client |-> b.client, current |-> FALSE, days |-> b.days]
      OBVIOUS
    <3> HIDE DEF old
    <3>3. PICK status \in {"missing", "unavailable"}, certificates \in {f.certificates, old} :
            g = [f EXCEPT !.rotation = status, !.certificates = certificates]
      BY <3>1
    <3>4. \/ certificates = f.certificates
          \/ \A c \in certificates : \E b \in f.certificates :
               c = [client |-> b.client, current |-> FALSE, days |-> b.days]
      BY <3>2
    <3> QED
      BY <3>3, <3>4, Zenon
  <2>2. DOMAIN g = FactFields /\ g.certificates = certificates /\ unchanged({"rotation", "certificates"})
    BY <1>1, <2>1 DEF FactFields
  <2>3. /\ g.services = f.services /\ g.kernel = f.kernel /\ g.rootFree = f.rootFree /\ g.swap = f.swap
        /\ g.failSwapOn = f.failSwapOn /\ g.rotate = f.rotate /\ g.kubeletDriver = f.kubeletDriver
        /\ g.clusterDNS = f.clusterDNS /\ g.nameservers = f.nameservers
        /\ g.cgroupMode = f.cgroupMode /\ g.controllers = f.controllers
        /\ g.driverFlag = f.driverFlag /\ g.etcd = f.etcd
        /\ g.ipv6Disabled = f.ipv6Disabled /\ g.authFile = f.authFile
    BY <2>2 DEF FactFields
  <2>4. Expiring(g) => Expiring(f)
    <3> SUFFICES ASSUME NEW c \in g.certificates, c.client => c.current, c.days <= 30 PROVE Expiring(f)
      BY DEF Expiring
    <3>1. CASE certificates = f.certificates
      BY <2>2, <3>1 DEF Expiring
    <3>2. CASE \E b \in f.certificates : c = [client |-> b.client, current |-> FALSE, days |-> b.days]
      BY <3>2 DEF Expiring
    <3> QED
      BY <2>1, <2>2, <3>1, <3>2
  <2>5. FactsLeft(g, t)
    BY <2>2, <2>3, <2>4 DEF FactsLeft
  <2> QED
    BY <1>5, <2>3, <2>5 DEF FactsKept
<1>6. CASE source = "certificate"
  <2>1. PICK left \in SUBSET f.certificates : g = [f EXCEPT !.certificates = left]
    BY <1>6 DEF FactsWithout
  <2>2. DOMAIN g = FactFields /\ g.certificates = left /\ unchanged({"certificates"})
    BY <1>1, <2>1 DEF FactFields
  <2>3. /\ g.services = f.services /\ g.kernel = f.kernel /\ g.rootFree = f.rootFree /\ g.swap = f.swap
        /\ g.failSwapOn = f.failSwapOn /\ g.rotate = f.rotate /\ g.kubeletDriver = f.kubeletDriver
        /\ g.clusterDNS = f.clusterDNS /\ g.nameservers = f.nameservers /\ g.rotation = f.rotation
        /\ g.cgroupMode = f.cgroupMode /\ g.controllers = f.controllers
        /\ g.driverFlag = f.driverFlag /\ g.etcd = f.etcd
        /\ g.ipv6Disabled = f.ipv6Disabled /\ g.authFile = f.authFile
    BY <2>2 DEF FactFields
  <2>4. Expiring(g) => Expiring(f)
    BY <2>2 DEF Expiring
  <2>5. FactsLeft(g, t)
    BY <2>2, <2>3, <2>4 DEF FactsLeft
  <2> QED
    BY <1>6, <2>3, <2>5 DEF FactsKept
<1>7. CASE source = "cgroup"
  <2>1. g = [f EXCEPT !.cgroupMode = "v1_or_unknown", !.controllers = {}]
    BY <1>7 DEF FactsWithout
  <2>2. DOMAIN g = FactFields /\ g.cgroupMode = "v1_or_unknown" /\ unchanged({"cgroupMode", "controllers"})
    BY <1>1, <2>1 DEF FactFields
  <2>3. /\ g.services = f.services /\ g.kernel = f.kernel /\ g.rootFree = f.rootFree /\ g.swap = f.swap
        /\ g.failSwapOn = f.failSwapOn /\ g.rotate = f.rotate /\ g.kubeletDriver = f.kubeletDriver
        /\ g.clusterDNS = f.clusterDNS /\ g.nameservers = f.nameservers /\ g.rotation = f.rotation
        /\ g.certificates = f.certificates /\ g.driverFlag = f.driverFlag /\ g.etcd = f.etcd
        /\ g.ipv6Disabled = f.ipv6Disabled /\ g.authFile = f.authFile
    BY <2>2 DEF FactFields
  <2>4. FactsLeft(g, t)
    BY <2>2, <2>3 DEF FactsLeft, Expiring
  <2> QED
    BY <1>7, <2>3, <2>4 DEF FactsKept
<1>8. CASE source = "ipv6"
  <2>1. g = [f EXCEPT !.ipv6Disabled = FALSE]
    BY <1>8 DEF FactsWithout
  <2>2. DOMAIN g = FactFields /\ ~g.ipv6Disabled /\ unchanged({"ipv6Disabled"})
    BY <1>1, <2>1 DEF FactFields
  <2>3. /\ g.services = f.services /\ g.kernel = f.kernel /\ g.rootFree = f.rootFree /\ g.swap = f.swap
        /\ g.failSwapOn = f.failSwapOn /\ g.rotate = f.rotate /\ g.kubeletDriver = f.kubeletDriver
        /\ g.clusterDNS = f.clusterDNS /\ g.nameservers = f.nameservers /\ g.rotation = f.rotation
        /\ g.certificates = f.certificates /\ g.driverFlag = f.driverFlag /\ g.etcd = f.etcd
        /\ g.cgroupMode = f.cgroupMode /\ g.controllers = f.controllers /\ g.authFile = f.authFile
    BY <2>2 DEF FactFields
  <2>4. FactsLeft(g, t)
    BY <2>2, <2>3 DEF FactsLeft, Expiring
  <2> QED
    BY <1>8, <2>3, <2>4 DEF FactsKept
<1>9. CASE source = "auth_files"
  <2>1. g = [f EXCEPT !.authFile = FALSE]
    BY <1>9 DEF FactsWithout
  <2>2. DOMAIN g = FactFields /\ ~g.authFile /\ unchanged({"authFile"})
    BY <1>1, <2>1 DEF FactFields
  <2>3. /\ g.services = f.services /\ g.kernel = f.kernel /\ g.rootFree = f.rootFree /\ g.swap = f.swap
        /\ g.failSwapOn = f.failSwapOn /\ g.rotate = f.rotate /\ g.kubeletDriver = f.kubeletDriver
        /\ g.clusterDNS = f.clusterDNS /\ g.nameservers = f.nameservers /\ g.rotation = f.rotation
        /\ g.certificates = f.certificates /\ g.driverFlag = f.driverFlag /\ g.etcd = f.etcd
        /\ g.cgroupMode = f.cgroupMode /\ g.controllers = f.controllers /\ g.ipv6Disabled = f.ipv6Disabled
    BY <2>2 DEF FactFields
  <2>4. FactsLeft(g, t)
    BY <2>2, <2>3 DEF FactsLeft, Expiring
  <2> QED
    BY <2>3, <2>4 DEF FactsKept
<1>10. CASE source = "boot_id"
  <2>1. PICK changed : g = [f EXCEPT !.bootChanged = changed]
    BY <1>10 DEF FactsWithout
  <2>2. DOMAIN g = FactFields /\ unchanged({"bootChanged"})
    BY <1>1, <2>1 DEF FactFields
  <2>3. g.etcd = f.etcd
    BY <2>2 DEF FactFields
  <2> QED
    BY <2>2, <2>3, SameFactsLeft
<1>11. CASE source = "etcd_quota"
  <2>1. g = [f EXCEPT !.etcd = [status |-> f.etcd.status, quota |-> 0]]
    BY <1>11 DEF FactsWithout
  <2>2. DOMAIN g = FactFields /\ g.etcd.quota = 0 /\ unchanged({"etcd"})
    BY <1>1, <2>1 DEF FactFields
  <2>3. /\ g.services = f.services /\ g.kernel = f.kernel /\ g.rootFree = f.rootFree /\ g.swap = f.swap
        /\ g.failSwapOn = f.failSwapOn /\ g.rotate = f.rotate /\ g.kubeletDriver = f.kubeletDriver
        /\ g.clusterDNS = f.clusterDNS /\ g.nameservers = f.nameservers /\ g.rotation = f.rotation
        /\ g.certificates = f.certificates /\ g.driverFlag = f.driverFlag
        /\ g.ipv6Disabled = f.ipv6Disabled /\ g.authFile = f.authFile
        /\ g.cgroupMode = f.cgroupMode /\ g.controllers = f.controllers
    BY <2>2 DEF FactFields
  <2>4. FactsLeft(g, t)
    BY <2>2, <2>3 DEF FactsLeft, Expiring
  <2> QED
    BY <1>11, <2>2, <2>3, <2>4 DEF FactsKept
<1> QED
  BY <1>2, <1>3, <1>4, <1>5, <1>6, <1>7, <1>8, <1>9, <1>10, <1>11 DEF FactSources

LEMMA LossOfFacts ==
  ASSUME NEW s, NEW t, NEW silent, SnapshotOf(s, t, silent), NEW source \in FactSources,
         NEW left \in FactsWithout(s.facts, source), source \in silent
  PROVE  SnapshotOf([s EXCEPT !.facts = left], t, silent)
<1> DEFINE lossy == [s EXCEPT !.facts = left]
<1>1. /\ DOMAIN lossy = DOMAIN s /\ lossy.commands = s.commands /\ lossy.podLogs = s.podLogs
      /\ lossy.facts = left
  BY DEF SnapshotOf
<1>2. FactsLeft(left, t.facts) /\ FactsKept(left, t.facts, silent)
  BY LossOfFactSource DEF SnapshotOf
<1> HIDE DEF lossy
<1>3. SnapshotOf(lossy, t, silent)
  BY <1>1, <1>2 DEF SnapshotOf
<1> QED
  BY <1>3 DEF lossy

(* A source that does not answer, the logs that are cut, a whole cluster,  *)
(* some of the metrics: what hosts have is not touched.                    *)
LEMMA LossOfSources ==
  ASSUME NEW e, NEW w, LeftOf(e, w), NEW lossy, DOMAIN lossy = EvidenceFields,
         \A f \in EvidenceFields \ {"kubeStatus", "kube", "logs", "promStatus", "prom", "silent"} : lossy[f] = e[f],
         DOMAIN lossy.kube = DOMAIN e.kube, \A id \in DOMAIN e.kube : GoneOrAll(lossy.kube[id], e.kube[id]),
         lossy.logs.items \subseteq e.logs.items,
         lossy.logs = e.logs \/ lossy.logs.status \in LossStatuses \/ "logs" \in lossy.silent,
         DOMAIN lossy.prom = DOMAIN e.prom, \A id \in DOMAIN e.prom : GoneOrAll(lossy.prom[id], e.prom[id]),
         lossy.promStatus = "collected" => lossy.prom = e.prom /\ e.promStatus = "collected",
         e.silent \subseteq lossy.silent
  PROVE  LeftOf(lossy, w) /\ Hosts(lossy) = Hosts(e)
<1>1. lossy.results = e.results /\ lossy.snaps = e.snaps /\ lossy.options = e.options
  BY DEF EvidenceFields
<1>2. \A id \in DOMAIN w.kube : GoneOrAll(lossy.kube[id], w.kube[id])
  BY DEF LeftOf, GoneOrAll
<1>3. \A id \in DOMAIN w.prom : GoneOrAll(lossy.prom[id], w.prom[id])
  BY DEF LeftOf, GoneOrAll
<1>4. PartOf(lossy.logs, w.logs) \/ ("logs" \in lossy.silent /\ lossy.logs.items \subseteq w.logs.items)
  BY DEF LeftOf, PartOf
<1>5. \A h \in Hosts(e) : SnapshotOf(lossy.snaps[h], w.snaps[h], lossy.silent)
  BY <1>1, SilenceIsNoLoss DEF LeftOf
<1> QED
  BY <1>1, <1>2, <1>3, <1>4, <1>5 DEF LeftOf, Hosts

(* load_collection reads the snapshots of the hosts that were collected.   *)
LEMMA LoadedIsLeft ==
  ASSUME NEW e, NEW w, LeftOf(e, w)
  PROVE  LET loaded == [e EXCEPT !.snaps = Without(@, {h \in DOMAIN @ : e.results[h] # "collected"})]
         IN /\ LeftOf(loaded, w) /\ loaded.results = e.results
            /\ Hosts(loaded) = {h \in Hosts(e) : e.results[h] = "collected"}
<1> DEFINE loaded == [e EXCEPT !.snaps = Without(@, {h \in DOMAIN @ : e.results[h] # "collected"})]
<1>1. /\ DOMAIN loaded = EvidenceFields
      /\ \A f \in EvidenceFields \ {"snaps"} : loaded[f] = e[f]
      /\ loaded.snaps = Without(e.snaps, {h \in DOMAIN e.snaps : e.results[h] # "collected"})
  BY DEF LeftOf, EvidenceFields
<1>2. /\ DOMAIN loaded.snaps = {h \in Hosts(e) : e.results[h] = "collected"}
      /\ \A h \in DOMAIN loaded.snaps : loaded.snaps[h] = e.snaps[h]
  BY <1>1 DEF Without, Hosts
<1> HIDE DEF loaded
<1>3. /\ loaded.results = e.results /\ loaded.kube = e.kube /\ loaded.logs = e.logs
      /\ loaded.promStatus = e.promStatus /\ loaded.prom = e.prom /\ loaded.options = e.options
      /\ loaded.silent = e.silent
  BY <1>1 DEF EvidenceFields
<1>4. LeftOf(loaded, w)
  BY <1>1, <1>2, <1>3 DEF LeftOf, Hosts
<1> QED
  BY <1>2, <1>3, <1>4 DEF loaded, Hosts

LEMMA DroppedIsLeft ==
  ASSUME NEW e, NEW w, LeftOf(e, w), NEW dropped
  PROVE  LET lossy == [e EXCEPT !.dropped = dropped]
         IN LeftOf(lossy, w) /\ lossy.results = e.results /\ Hosts(lossy) = Hosts(e)
<1> DEFINE lossy == [e EXCEPT !.dropped = dropped]
<1>1. DOMAIN lossy = EvidenceFields /\ \A f \in EvidenceFields \ {"dropped"} : lossy[f] = e[f]
  BY DEF LeftOf, EvidenceFields
<1> HIDE DEF lossy
<1>2. /\ lossy.results = e.results /\ lossy.snaps = e.snaps /\ lossy.kube = e.kube /\ lossy.logs = e.logs
      /\ lossy.promStatus = e.promStatus /\ lossy.prom = e.prom /\ lossy.options = e.options
      /\ lossy.silent = e.silent
  BY <1>1 DEF EvidenceFields
<1>3. LeftOf(lossy, w)
  BY <1>1, <1>2 DEF LeftOf, Hosts
<1> QED
  BY <1>2, <1>3 DEF lossy, Hosts

(* One step of the collection, whichever thing it loses. What happens to   *)
(* the snapshot of one host leaves the others alone.                       *)
LEMMA EachLoss ==
  ASSUME EvidenceInv, NEW lossy, Lose(lossy), LeftOf(lossy, world), Hosts(lossy) = Hosts(evidence)
  PROVE  EvidenceInv'
BY DEF EvidenceInv, Lose, derived

LEMMA EachLossIn ==
  ASSUME EvidenceInv, NEW h \in Hosts(evidence), NEW s, NEW silent, LoseIn(h, s, silent),
         SnapshotOf(s, world.snaps[h], evidence.silent \cup silent)
  PROVE  EvidenceInv'
<1> DEFINE lossy == [evidence EXCEPT !.snaps[h] = s, !.silent = @ \cup silent]
<1>7. LeftOf(evidence, world)
  BY DEF EvidenceInv
<1>1. /\ DOMAIN lossy = EvidenceFields /\ lossy.silent = evidence.silent \cup silent
      /\ \A f \in EvidenceFields \ {"snaps", "silent"} : lossy[f] = evidence[f]
  BY <1>7 DEF LeftOf, EvidenceFields
<1>2. /\ DOMAIN lossy.snaps = DOMAIN evidence.snaps
      /\ \A k \in DOMAIN evidence.snaps : lossy.snaps[k] = IF k = h THEN s ELSE evidence.snaps[k]
  BY <1>7 DEF LeftOf, EvidenceFields
<1> HIDE DEF lossy
<1>3. /\ lossy.results = evidence.results /\ lossy.kube = evidence.kube /\ lossy.logs = evidence.logs
           /\ lossy.promStatus = evidence.promStatus
      /\ lossy.prom = evidence.prom /\ lossy.options = evidence.options
  BY <1>1 DEF EvidenceFields
<1>4. ASSUME NEW k \in Hosts(lossy) PROVE SnapshotOf(lossy.snaps[k], world.snaps[k], lossy.silent)
  <2>1. k \in Hosts(evidence) /\ SnapshotOf(evidence.snaps[k], world.snaps[k], evidence.silent)
    BY <1>2, <1>7 DEF LeftOf, Hosts
  <2>2. SnapshotOf(evidence.snaps[k], world.snaps[k], lossy.silent)
    BY <1>1, <2>1, SilenceIsNoLoss
  <2> QED
    BY <1>1, <1>2, <2>1, <2>2 DEF Hosts
<1>5. PartOf(lossy.logs, world.logs) \/ ("logs" \in lossy.silent /\ lossy.logs.items \subseteq world.logs.items)
  BY <1>1, <1>3, <1>7 DEF LeftOf
<1>6. LeftOf(lossy, world) /\ Hosts(lossy) = Hosts(evidence)
  BY <1>1, <1>2, <1>3, <1>4, <1>5, <1>7 DEF LeftOf, Hosts
<1>8. Lose(lossy)
  BY DEF LoseIn, lossy
<1> QED
  BY <1>6, <1>8, EachLoss

(* Whatever is lost, in whatever order, the evidence is what is left of    *)
(* the world, and what build_report evaluates is that evidence.            *)
THEOREM EvidenceInvariant == Spec => []EvidenceInv
<1>1. Init => EvidenceInv
  <2> SUFFICES ASSUME Init PROVE EvidenceInv
    OBVIOUS
  <2>1. IsWorld(world)
    BY WorldsAssumption DEF Init
  <2>2. \A h \in Hosts(world) : SnapshotOf(world.snaps[h], world.snaps[h], world.silent)
    BY <2>1 DEF IsWorld, IsSnapshot, SnapshotOf, CommandsLeft, FactsLeft, FactsKept, PartOf
  <2>3. LeftOf(world, world)
    BY <2>1, <2>2 DEF IsWorld, LeftOf, PartOf, GoneOrAll
  <2> QED
    BY <2>3 DEF Init, EvidenceInv
<1>2. EvidenceInv /\ [Next]_vars => EvidenceInv'
  <2> SUFFICES ASSUME EvidenceInv, [Next]_vars PROVE EvidenceInv'
    OBVIOUS
  <2>1. LeftOf(evidence, world)
    BY DEF EvidenceInv
  <2> DEFINE snapshot(h) == evidence.snaps[h]
  <2>16. ASSUME NEW h \in Hosts(evidence), NEW silent
         PROVE  SnapshotOf(snapshot(h), world.snaps[h], evidence.silent \cup silent)
    BY <2>1, SilenceIsNoLoss DEF LeftOf
  <2>2. CASE LoseNode
    <3>1. PICK h \in DOMAIN evidence.results, status \in {"failed", "timeout"} :
            Lose([evidence EXCEPT !.results[h] = status])
      BY <2>2 DEF LoseNode
    <3>2. status \in LossStatuses
      BY DEF LossStatuses
    <3> QED
      BY <2>1, <3>1, <3>2, LossOfNode, EachLoss
  <2>3. CASE LoseCommand
    <3> DEFINE lost(h, id, status, left) == [snapshot(h).commands EXCEPT ![id] = [status |-> status, items |-> left]]
    <3>1. PICK h \in Hosts(evidence), status \in {"failed", "truncated"} :
            \E id \in DOMAIN snapshot(h).commands : \E left \in SUBSET snapshot(h).commands[id].items :
              \E commands, etcd :
                /\ commands = lost(h, id, status, left) /\ etcd.quota = snapshot(h).facts.etcd.quota
                /\ LoseIn(h, [snapshot(h) EXCEPT !.commands = commands, !.facts.etcd = etcd], {})
      <4>1. PICK h \in Hosts(evidence), status \in {"failed", "truncated"} :
              \E id \in DOMAIN snapshot(h).commands : \E left \in SUBSET snapshot(h).commands[id].items :
                LET commands == lost(h, id, status, left)
                    etcd == IF id \notin EtcdCommands THEN snapshot(h).facts.etcd
                            ELSE [status |-> EtcdStatus(commands), quota |-> snapshot(h).facts.etcd.quota]
                IN /\ id \notin LineIds => left = {}
                   /\ LoseIn(h, [snapshot(h) EXCEPT !.commands = commands, !.facts.etcd = etcd], {})
        BY <2>3 DEF LoseCommand
      <4>2. PICK id \in DOMAIN snapshot(h).commands : \E left \in SUBSET snapshot(h).commands[id].items :
                LET commands == lost(h, id, status, left)
                    etcd == IF id \notin EtcdCommands THEN snapshot(h).facts.etcd
                            ELSE [status |-> EtcdStatus(commands), quota |-> snapshot(h).facts.etcd.quota]
                IN /\ id \notin LineIds => left = {}
                   /\ LoseIn(h, [snapshot(h) EXCEPT !.commands = commands, !.facts.etcd = etcd], {})
        BY <4>1
      <4>3. PICK left \in SUBSET snapshot(h).commands[id].items :
                LET commands == lost(h, id, status, left)
                    etcd == IF id \notin EtcdCommands THEN snapshot(h).facts.etcd
                            ELSE [status |-> EtcdStatus(commands), quota |-> snapshot(h).facts.etcd.quota]
                IN /\ id \notin LineIds => left = {}
                   /\ LoseIn(h, [snapshot(h) EXCEPT !.commands = commands, !.facts.etcd = etcd], {})
        BY <4>2
      <4> DEFINE commands == lost(h, id, status, left)
                 etcd == IF id \notin EtcdCommands THEN snapshot(h).facts.etcd
                         ELSE [status |-> EtcdStatus(commands), quota |-> snapshot(h).facts.etcd.quota]
      <4>4. LoseIn(h, [snapshot(h) EXCEPT !.commands = commands, !.facts.etcd = etcd], {})
        BY <4>3
      <4>5. commands = lost(h, id, status, left) /\ etcd.quota = snapshot(h).facts.etcd.quota
        OBVIOUS
      <4> HIDE DEF commands, etcd
      <4> QED
        BY <4>4, <4>5
    <3>5. PICK id \in DOMAIN snapshot(h).commands : \E left \in SUBSET snapshot(h).commands[id].items :
            \E commands, etcd :
              /\ commands = lost(h, id, status, left) /\ etcd.quota = snapshot(h).facts.etcd.quota
              /\ LoseIn(h, [snapshot(h) EXCEPT !.commands = commands, !.facts.etcd = etcd], {})
      BY <3>1
    <3>6. PICK left \in SUBSET snapshot(h).commands[id].items : \E commands, etcd :
            /\ commands = lost(h, id, status, left) /\ etcd.quota = snapshot(h).facts.etcd.quota
            /\ LoseIn(h, [snapshot(h) EXCEPT !.commands = commands, !.facts.etcd = etcd], {})
      BY <3>5
    <3>2. PICK commands, etcd :
            /\ commands = lost(h, id, status, left) /\ etcd.quota = snapshot(h).facts.etcd.quota
            /\ LoseIn(h, [snapshot(h) EXCEPT !.commands = commands, !.facts.etcd = etcd], {})
      BY <3>6
    <3>3. status \in LossStatuses
      BY DEF LossStatuses
    <3>4. SnapshotOf([snapshot(h) EXCEPT !.commands = commands, !.facts.etcd = etcd], world.snaps[h],
                     evidence.silent \cup {})
      BY <2>16, <3>2, <3>3, LossOfCommand
    <3> QED
      BY <3>2, <3>4, EachLossIn
  <2>17. CASE LosePreviousBoot
    <3>1. PICK h \in Hosts(evidence) : \E id \in PreviousIds \cap DOMAIN snapshot(h).commands :
            \E left \in SUBSET snapshot(h).commands[id].items :
              LoseIn(h, [snapshot(h) EXCEPT !.commands[id] = [status |-> @.status, items |-> left]],
                     {"previous_boot"})
      BY <2>17 DEF LosePreviousBoot
    <3>4. PICK id \in PreviousIds \cap DOMAIN snapshot(h).commands :
            \E left \in SUBSET snapshot(h).commands[id].items :
              LoseIn(h, [snapshot(h) EXCEPT !.commands[id] = [status |-> @.status, items |-> left]],
                     {"previous_boot"})
      BY <3>1
    <3>2. PICK left \in SUBSET snapshot(h).commands[id].items :
            LoseIn(h, [snapshot(h) EXCEPT !.commands[id] = [status |-> @.status, items |-> left]],
                   {"previous_boot"})
      BY <3>4
    <3>3. SnapshotOf([snapshot(h) EXCEPT !.commands[id] = [status |-> @.status, items |-> left]],
                     world.snaps[h], evidence.silent \cup {"previous_boot"})
      BY <2>16, LossOfPreviousBoot
    <3> QED
      BY <3>2, <3>3, EachLossIn
  <2>18. CASE LoseEtcd \/ LoseFacts
    <3>1. CASE LoseEtcd
      <4>1. PICK h \in Hosts(evidence), status \in {"unavailable", "unsupported"} :
              LoseIn(h, [snapshot(h) EXCEPT !.commands = Without(@, EtcdCommands),
                                            !.facts.etcd = [status |-> status, quota |-> 0]], {"etcd"})
        BY <3>1 DEF LoseEtcd
      <4>2. SnapshotOf([snapshot(h) EXCEPT !.commands = Without(@, EtcdCommands),
                                           !.facts.etcd = [status |-> status, quota |-> 0]],
                       world.snaps[h], evidence.silent \cup {"etcd"})
        BY <2>16, LossOfEtcd
      <4> QED
        BY <4>1, <4>2, EachLossIn
    <3>2. CASE LoseFacts
      <4>1. PICK h \in Hosts(evidence), source \in FactSources :
              \E left \in FactsWithout(snapshot(h).facts, source) :
                LoseIn(h, [snapshot(h) EXCEPT !.facts = left], {source})
        BY <3>2 DEF LoseFacts, Facts
      <4>2. PICK left \in FactsWithout(snapshot(h).facts, source) :
              LoseIn(h, [snapshot(h) EXCEPT !.facts = left], {source})
        BY <4>1
      <4>3. SnapshotOf([snapshot(h) EXCEPT !.facts = left], world.snaps[h], evidence.silent \cup {source})
        BY <2>16, LossOfFacts
      <4> QED
        BY <4>2, <4>3, EachLossIn
    <3> QED
      BY <2>18, <3>1, <3>2
  <2>4. CASE LosePodLogs
    <3>1. PICK h \in Hosts(evidence) : \E logs, silent :
            /\ logs.items \subseteq snapshot(h).podLogs.items
            /\ logs.status \in LossStatuses \/ "pod_logs" \in silent
            /\ LoseIn(h, [snapshot(h) EXCEPT !.podLogs = logs], silent)
      BY <2>4 DEF LosePodLogs, LossStatuses
    <3>2. PICK logs, silent :
            /\ logs.items \subseteq snapshot(h).podLogs.items
            /\ logs.status \in LossStatuses \/ "pod_logs" \in silent
            /\ LoseIn(h, [snapshot(h) EXCEPT !.podLogs = logs], silent)
      BY <3>1
    <3>3. SnapshotOf([snapshot(h) EXCEPT !.podLogs = logs], world.snaps[h], evidence.silent \cup silent)
      BY <2>16, <3>2, LossOfPodLogs
    <3> QED
      BY <3>2, <3>3, EachLossIn
  <2>5. CASE LoseService
    <3> DEFINE down == [status |-> "failed", load |-> "none", active |-> "none"]
    <3>1. PICK h \in Hosts(evidence) : \E u \in DOMAIN snapshot(h).facts.services : \E flag :
            /\ flag = snapshot(h).facts.driverFlag \/ u = "kubelet"
            /\ LoseIn(h, [snapshot(h) EXCEPT !.facts.services[u] = down, !.facts.driverFlag = flag], {})
      BY <2>5 DEF LoseService, Facts
    <3>5. PICK u \in DOMAIN snapshot(h).facts.services : \E flag :
            /\ flag = snapshot(h).facts.driverFlag \/ u = "kubelet"
            /\ LoseIn(h, [snapshot(h) EXCEPT !.facts.services[u] = down, !.facts.driverFlag = flag], {})
      BY <3>1
    <3>2. PICK flag :
            /\ flag = snapshot(h).facts.driverFlag \/ u = "kubelet"
            /\ LoseIn(h, [snapshot(h) EXCEPT !.facts.services[u] = down, !.facts.driverFlag = flag], {})
      BY <3>5
    <3>3. down.status \in LossStatuses
      BY DEF LossStatuses
    <3> HIDE DEF down
    <3>4. SnapshotOf([snapshot(h) EXCEPT !.facts.services[u] = down, !.facts.driverFlag = flag],
                     world.snaps[h], evidence.silent \cup {})
      BY <2>16, <3>2, <3>3, LossOfService
    <3> QED
      BY <3>2, <3>4, EachLossIn
  <2> DEFINE lost(lossy) ==
        /\ Lose(lossy) /\ DOMAIN lossy = EvidenceFields
        /\ \A f \in EvidenceFields \ {"kubeStatus", "kube", "logs", "promStatus", "prom", "silent"} :
             lossy[f] = evidence[f]
        /\ DOMAIN lossy.kube = DOMAIN evidence.kube
        /\ \A id \in DOMAIN evidence.kube : GoneOrAll(lossy.kube[id], evidence.kube[id])
        /\ lossy.logs.items \subseteq evidence.logs.items
        /\ lossy.logs = evidence.logs \/ lossy.logs.status \in LossStatuses \/ "logs" \in lossy.silent
        /\ DOMAIN lossy.prom = DOMAIN evidence.prom
        /\ \A id \in DOMAIN evidence.prom : GoneOrAll(lossy.prom[id], evidence.prom[id])
        /\ lossy.promStatus = "collected" => lossy.prom = evidence.prom /\ evidence.promStatus = "collected"
        /\ evidence.silent \subseteq lossy.silent
  <2> DEFINE Answered == EvidenceInv'
  <2>20. ASSUME NEW lossy, lost(lossy) PROVE Answered
    BY <2>1, <2>20, LossOfSources, EachLoss
  <2>6. CASE LoseSource
    <3>1. PICK id \in DOMAIN evidence.kube :
            Lose([evidence EXCEPT !.kubeStatus = "partial", !.kube[id] = Unanswered,
                    !.logs = IF id = "pods" /\ @.status \notin {"absent", "disabled"}
                             THEN [status |-> "source_unavailable", items |-> {}] ELSE @])
      BY <2>6 DEF LoseSource
    <3> DEFINE lossy == [evidence EXCEPT !.kubeStatus = "partial", !.kube[id] = Unanswered,
                           !.logs = IF id = "pods" /\ @.status \notin {"absent", "disabled"}
                                    THEN [status |-> "source_unavailable", items |-> {}] ELSE @]
    <3>2. /\ DOMAIN lossy = EvidenceFields
          /\ \A f \in EvidenceFields \ {"kubeStatus", "kube", "logs"} : lossy[f] = evidence[f]
          /\ lossy.kube = [evidence.kube EXCEPT ![id] = Unanswered]
          /\ lossy.logs \in {evidence.logs, [status |-> "source_unavailable", items |-> {}]}
      BY <2>1 DEF LeftOf, EvidenceFields
    <3>3. Lose(lossy)
      BY <3>1
    <3> HIDE DEF lossy
    <3>4. lossy.promStatus = evidence.promStatus /\ lossy.prom = evidence.prom /\ lossy.silent = evidence.silent
      BY <3>2 DEF EvidenceFields
    <3>5. /\ DOMAIN lossy.kube = DOMAIN evidence.kube
          /\ \A k \in DOMAIN evidence.kube : GoneOrAll(lossy.kube[k], evidence.kube[k])
      BY <3>2 DEF GoneOrAll, LossStatuses, Unanswered
    <3>6. lossy.logs.items \subseteq evidence.logs.items
          /\ (lossy.logs = evidence.logs \/ lossy.logs.status \in LossStatuses)
      BY <3>2 DEF LossStatuses
    <3>7. lost(lossy)
      BY <3>2, <3>3, <3>4, <3>5, <3>6 DEF GoneOrAll
    <3> QED
      BY <2>20, <3>7
  <2>7. CASE LoseLogs
    <3>1. PICK logs, silent : /\ logs.items \subseteq evidence.logs.items
                              /\ logs.status \in LossStatuses \/ "logs" \in silent
                              /\ Lose([evidence EXCEPT !.logs = logs, !.silent = @ \cup silent])
      <4>1. PICK left \in SUBSET evidence.logs.items :
              \/ \E status \in {"partial", "truncated"} :
                   Lose([evidence EXCEPT !.logs = [status |-> status, items |-> left]])
              \/ Lose([evidence EXCEPT !.logs = [status |-> @.status, items |-> left],
                                       !.silent = @ \cup {"logs"}])
        BY <2>7 DEF LoseLogs
      <4>2. \A logs : [evidence EXCEPT !.logs = logs] = [evidence EXCEPT !.logs = logs, !.silent = @ \cup {}]
        BY <2>1 DEF LeftOf, EvidenceFields
      <4>3. ASSUME NEW status \in {"partial", "truncated"},
                   Lose([evidence EXCEPT !.logs = [status |-> status, items |-> left]])
            PROVE  /\ status \in LossStatuses
                   /\ Lose([evidence EXCEPT !.logs = [status |-> status, items |-> left], !.silent = @ \cup {}])
        BY <4>2, <4>3 DEF LossStatuses
      <4> QED
        BY <4>1, <4>3
    <3> DEFINE lossy == [evidence EXCEPT !.logs = logs, !.silent = @ \cup silent]
    <3>2. /\ DOMAIN lossy = EvidenceFields
          /\ \A f \in EvidenceFields \ {"logs", "silent"} : lossy[f] = evidence[f]
          /\ lossy.logs = logs /\ lossy.silent = evidence.silent \cup silent
      BY <2>1 DEF LeftOf, EvidenceFields
    <3>3. Lose(lossy)
      BY <3>1
    <3> HIDE DEF lossy
    <3>4. lossy.promStatus = evidence.promStatus /\ lossy.prom = evidence.prom /\ lossy.kube = evidence.kube
      BY <3>2 DEF EvidenceFields
    <3>5. lost(lossy)
      BY <3>1, <3>2, <3>3, <3>4 DEF GoneOrAll
    <3> QED
      BY <2>20, <3>5
  <2>8. CASE LoseCluster
    <3> DEFINE kube == [id \in DOMAIN evidence.kube |-> Unanswered]
               logs == [status |-> "source_unavailable", items |-> {}]
               lossy == [evidence EXCEPT !.kubeStatus = "unreachable", !.kube = [id \in DOMAIN @ |-> Unanswered],
                                         !.logs = logs]
    <3>1. Lose(lossy)
      BY <2>8 DEF LoseCluster
    <3>2. /\ DOMAIN lossy = EvidenceFields
          /\ \A f \in EvidenceFields \ {"kubeStatus", "kube", "logs"} : lossy[f] = evidence[f]
          /\ lossy.kube = kube /\ lossy.logs = logs
      BY <2>1 DEF LeftOf, EvidenceFields
    <3> HIDE DEF lossy
    <3>3. lossy.promStatus = evidence.promStatus /\ lossy.prom = evidence.prom /\ lossy.silent = evidence.silent
      BY <3>2 DEF EvidenceFields
    <3>4. lost(lossy)
      BY <3>1, <3>2, <3>3 DEF GoneOrAll, LossStatuses, Unanswered
    <3> QED
      BY <2>20, <3>4
  <2>9. CASE LosePrometheus
    <3> DEFINE without(status, prom) == [evidence EXCEPT !.promStatus = status, !.prom = prom]
               gone(prom) == /\ DOMAIN prom = DOMAIN evidence.prom
                             /\ \A id \in DOMAIN evidence.prom : GoneOrAll(prom[id], evidence.prom[id])
    <3>7. ASSUME NEW status \in {"partial", "failed"}, NEW prom, gone(prom), Lose(without(status, prom))
          PROVE  Answered
      <4> DEFINE lossy == without(status, prom)
      <4>2. /\ DOMAIN lossy = EvidenceFields
            /\ \A f \in EvidenceFields \ {"promStatus", "prom"} : lossy[f] = evidence[f]
            /\ lossy.promStatus = status /\ lossy.prom = prom
        BY <2>1 DEF LeftOf, EvidenceFields
      <4>3. Lose(lossy)
        BY <3>7
      <4> HIDE DEF lossy
      <4>4. lossy.kube = evidence.kube /\ lossy.logs = evidence.logs /\ lossy.silent = evidence.silent
        BY <4>2 DEF EvidenceFields
      <4>5. lost(lossy)
        BY <3>7, <4>2, <4>3, <4>4 DEF GoneOrAll
      <4> QED
        BY <2>20, <4>5
    <3>1. CASE \E id \in DOMAIN evidence.prom :
                 Lose([evidence EXCEPT !.promStatus = "partial", !.prom[id] = Unanswered])
      <4>1. PICK id \in DOMAIN evidence.prom :
                   Lose([evidence EXCEPT !.promStatus = "partial", !.prom[id] = Unanswered])
        BY <3>1
      <4> DEFINE prom == [evidence.prom EXCEPT ![id] = Unanswered]
      <4>2. Lose(without("partial", prom))
        <5>1. [evidence EXCEPT !.promStatus = "partial", !.prom[id] = Unanswered] = without("partial", prom)
          BY <2>1 DEF LeftOf, EvidenceFields
        <5> QED
          BY <4>1, <5>1
      <4>3. gone(prom)
        BY DEF GoneOrAll, LossStatuses, Unanswered
      <4> HIDE DEF prom, without, gone
      <4> QED
        BY <3>7, <4>2, <4>3
    <3>2. CASE Lose([evidence EXCEPT !.promStatus = "failed", !.prom = [id \in DOMAIN @ |-> Unanswered]])
      <4> DEFINE prom == [id \in DOMAIN evidence.prom |-> Unanswered]
      <4>1. Lose(without("failed", prom))
        <5>1. [evidence EXCEPT !.promStatus = "failed", !.prom = [id \in DOMAIN @ |-> Unanswered]]
                = without("failed", prom)
          BY <2>1 DEF LeftOf, EvidenceFields
        <5> QED
          BY <3>2, <5>1
      <4>2. gone(prom)
        BY DEF GoneOrAll, LossStatuses, Unanswered
      <4> HIDE DEF prom, without, gone
      <4> QED
        BY <3>7, <4>1, <4>2
    <3> QED
      BY <2>9, <3>1, <3>2 DEF LosePrometheus
  <2>10. CASE LoadCollection
    <3>1. evidence' = [evidence EXCEPT !.snaps
            = Without(@, {h \in DOMAIN @ : evidence.results[h] # "collected"})]
      BY <2>10 DEF LoadCollection
    <3>2. /\ LeftOf(evidence', world) /\ evidence.results = evidence'.results
          /\ Hosts(evidence') = {h \in Hosts(evidence) : evidence.results[h] = "collected"}
      BY <2>1, <3>1, LoadedIsLeft
    <3>3. /\ Hosts(evidence) = Hosts(world) /\ world \in Worlds /\ world' = world /\ pc' = "normalize"
      BY <2>10 DEF LoadCollection, EvidenceInv
    <3> QED
      BY <3>2, <3>3 DEF EvidenceInv
  <2>11. CASE NormalizeEvidence
    <3>1. LeftOf(evidence', world) /\ evidence.results = evidence'.results
            /\ Hosts(evidence') = Hosts(evidence)
      <4>1. CASE evidence' = evidence
        BY <2>1, <4>1
      <4>2. CASE \E v \in Events(evidence) : evidence' = [evidence EXCEPT !.dropped = {v}]
        BY <2>1, <4>2, DroppedIsLeft
      <4> QED
        BY <2>11, <4>1, <4>2 DEF NormalizeEvidence
    <3> QED
      BY <2>11, <3>1 DEF NormalizeEvidence, EvidenceInv
  <2>12. CASE Evaluate
    BY <2>12 DEF Evaluate, EvidenceInv
  <2>13. CASE Analyze
    BY <2>13 DEF Analyze, EvidenceInv
  <2>14. CASE Cover
    BY <2>14 DEF Cover, EvidenceInv
  <2>15. CASE UNCHANGED vars
    BY <2>15 DEF vars, EvidenceInv
  <2> QED
    BY <2>2, <2>3, <2>4, <2>5, <2>6, <2>7, <2>8, <2>9, <2>10, <2>11, <2>12, <2>13, <2>14, <2>15, <2>16,
       <2>17, <2>18 DEF Next
<1> QED
  BY <1>1, <1>2, PTL DEF Spec

---------------------------------------------------------------------------

(* An evidence as build_report reads it.                                   *)
Loaded(e, w) ==
  /\ IsWorld(w) /\ LeftOf(e, w)
  /\ Hosts(e) = {h \in Hosts(w) : e.results[h] = "collected"}

(* All that a rule reads is there.                                         *)
Complete(e, rule) ==
  /\ \A q \in RequirementsOf(rule) : Seen(e, q)
  /\ \A q \in UndeclaredOf(rule) : NoneLost(e, q)

(* What the evidence has of the facts of a host: some are always there, of *)
(* others less may be told, and none is false but for a default.           *)
LEMMA SameFacts ==
  ASSUME NEW e, NEW w, LeftOf(e, w)
  PROVE  /\ Hosts(e) \subseteq Hosts(w)
         /\ \A h \in Hosts(e) : FactsLeft(Facts(e, h), Facts(w, h)) /\ FactsKept(Facts(e, h), Facts(w, h), e.silent)
BY DEF LeftOf, SnapshotOf, Facts

LEMMA NotSilent == ASSUME NEW e, NEW id PROVE NoneLost(e, Silent(id)) <=> id \notin e.silent
BY DEF NoneLost, Silent

(* So it is of the units, the commands, the sources and the metrics.       *)
LEMMA PartOfTheServices ==
  ASSUME NEW e, NEW w, LeftOf(e, w), NEW h \in Hosts(e)
  PROVE  /\ DOMAIN Facts(e, h).services = DOMAIN Facts(w, h).services
         /\ \A u \in DOMAIN Facts(w, h).services :
              Facts(e, h).services[u].status = "collected" => Facts(e, h).services[u]
                  = Facts(w, h).services[u]
BY SameFacts DEF FactsLeft, LossStatuses

LEMMA PartOfTheCommands ==
  ASSUME NEW e, NEW w, LeftOf(e, w), NEW h \in Hosts(e), NEW id
  PROVE  /\ Command(e, h, id).items \subseteq Command(w, h, id).items
         /\ Collected(Command(e, h, id)) /\ id \notin PreviousIds => Command(e, h, id) = Command(w, h, id)
         /\ id \notin PreviousIds => JsonCommand(e, h, id) \subseteq JsonCommand(w, h, id)
<1>1. CommandsLeft(e.snaps[h].commands, w.snaps[h].commands, e.silent)
  BY DEF LeftOf, SnapshotOf
<1>2. CASE id \notin DOMAIN e.snaps[h].commands
  <2>1. Command(e, h, id) = [status |-> "missing", items |-> {}]
    BY <1>2 DEF Command
  <2> QED
    BY <2>1 DEF JsonCommand, Collected
<1>3. CASE id \in DOMAIN e.snaps[h].commands
  <2>1. Command(e, h, id) = e.snaps[h].commands[id] /\ Command(w, h, id) = w.snaps[h].commands[id]
    BY <1>1, <1>3 DEF Command, CommandsLeft
  <2>2. \/ PartOf(Command(e, h, id), Command(w, h, id))
        \/ id \in PreviousIds /\ Command(e, h, id).items \subseteq Command(w, h, id).items
    BY <1>1, <1>3, <2>1 DEF CommandsLeft
  <2>3. Collected(Command(e, h, id)) /\ id \notin PreviousIds => Command(e, h, id) = Command(w, h, id)
    BY <2>2 DEF PartOf, Collected, LossStatuses
  <2> QED
    BY <2>2, <2>3 DEF PartOf, JsonCommand
<1> QED
  BY <1>2, <1>3

LEMMA PartOfTheSources ==
  ASSUME NEW e, NEW w, LeftOf(e, w), NEW id
  PROVE  /\ Items(e, id) = Items(w, id) \/ Items(e, id) = {}
         /\ SourceCollected(e, id) => SourceCollected(w, id) /\ Items(e, id) = Items(w, id)
<1>1. /\ DOMAIN e.kube = DOMAIN w.kube
      /\ id \in DOMAIN w.kube => GoneOrAll(e.kube[id], w.kube[id])
  BY DEF LeftOf
<1> QED
  BY <1>1 DEF GoneOrAll, Items, SourceCollected, Collected, LossStatuses

LEMMA PartOfTheMetrics ==
  ASSUME NEW e, NEW w, LeftOf(e, w), NEW id \in DOMAIN e.prom, Collected(e.prom[id])
  PROVE  id \in DOMAIN w.prom /\ e.prom[id] = w.prom[id]
BY DEF LeftOf, GoneOrAll, Collected, LossStatuses

---------------------------------------------------------------------------

(* What was not lost is as it is in the world.                             *)
LEMMA AllHosts ==
  ASSUME NEW e, NEW w, Loaded(e, w), NoneLost(e, Hosted)
  PROVE  Hosts(e) = Hosts(w)
BY DEF Loaded, LeftOf, IsWorld, NoneLost, Hosted

LEMMA AllOfTheCommand ==
  ASSUME NEW e, NEW w, LeftOf(e, w), NEW id, NoneLost(e, Ran(id)), NEW h \in Hosts(e),
         id \in EtcdCommands => NoneLost(e, Silent("etcd")),
         id \in PreviousIds => NoneLost(e, Silent("previous_boot"))
  PROVE  Command(e, h, id) = Command(w, h, id) /\ JsonCommand(e, h, id) = JsonCommand(w, h, id)
<1>1. id \in DOMAIN e.snaps[h].commands => Collected(e.snaps[h].commands[id])
  BY DEF NoneLost, Ran
<1>2. /\ id \in EtcdCommands => "etcd" \notin e.silent
      /\ id \in PreviousIds => "previous_boot" \notin e.silent
  BY DEF NoneLost, Silent
<1>3. CommandsLeft(e.snaps[h].commands, w.snaps[h].commands, e.silent)
  BY DEF LeftOf, SnapshotOf
<1>4. id \in DOMAIN e.snaps[h].commands <=> id \in DOMAIN w.snaps[h].commands
  BY <1>2, <1>3 DEF CommandsLeft
<1>5. id \in DOMAIN e.snaps[h].commands => e.snaps[h].commands[id] = w.snaps[h].commands[id]
  BY <1>1, <1>2, <1>3 DEF CommandsLeft, PartOf, Collected, LossStatuses
<1>6. Command(e, h, id) = Command(w, h, id)
  BY <1>4, <1>5 DEF Command
<1> QED
  BY <1>6 DEF JsonCommand

LEMMA AllOfThePodLogs ==
  ASSUME NEW e, NEW w, LeftOf(e, w), NoneLost(e, HostPodLogs), NoneLost(e, Silent("pod_logs")), NEW h \in Hosts(e)
  PROVE  e.snaps[h].podLogs = w.snaps[h].podLogs
BY DEF LeftOf, SnapshotOf, PartOf, NoneLost, HostPodLogs, Silent, Collected, LossStatuses

LEMMA AllOfTheServices ==
  ASSUME NEW e, NEW w, LeftOf(e, w), NoneLost(e, Units), NEW h \in Hosts(e)
  PROVE  /\ DOMAIN Facts(e, h).services = DOMAIN Facts(w, h).services
         /\ \A u \in DOMAIN Facts(w, h).services : Facts(e, h).services[u] = Facts(w, h).services[u]
BY PartOfTheServices DEF NoneLost, Units

LEMMA AllOfTheSource ==
  ASSUME NEW e, NEW w, LeftOf(e, w), NEW id, NoneLost(e, Api(id))
  PROVE  Items(e, id) = Items(w, id) /\ (SourceCollected(e, id) <=> SourceCollected(w, id))
<1>1. id \in DOMAIN e.kube => Collected(e.kube[id])
  BY DEF NoneLost, Api, Answers
<1>2. DOMAIN e.kube = DOMAIN w.kube
  BY DEF LeftOf
<1> QED
  BY <1>1, <1>2, PartOfTheSources DEF SourceCollected, Items

LEMMA AllOfTheLogs ==
  ASSUME NEW e, NEW w, LeftOf(e, w), NoneLost(e, Api("logs")), NoneLost(e, Silent("logs"))
  PROVE  e.logs.items = w.logs.items
<1>1. e.logs.status # "absent" => Collected(e.logs)
  BY DEF NoneLost, Api, Answers
<1>2. "logs" \notin e.silent
  BY DEF NoneLost, Silent
<1> QED
  BY <1>1, <1>2 DEF LeftOf, PartOf, Collected, LossStatuses

LEMMA AllOfTheMetrics ==
  ASSUME NEW e, NEW w, LeftOf(e, w), Seen(e, [kind |-> "cluster", id |-> "prometheus"])
  PROVE  e.prom = w.prom
BY DEF LeftOf, Seen

---------------------------------------------------------------------------

(* What a rule declares in a row of the table is among what it declares.   *)
LEMMA RowsOfTheTables ==
  /\ \A row \in Requirements : \A rule \in row.rules : row.of \subseteq RequirementsOf(rule)
  /\ \A row \in Undeclared : \A rule \in row.rules : row.of \subseteq UndeclaredOf(rule)
BY DEF RequirementsOf, UndeclaredOf

LEMMA SeenIsNotLost ==
  ASSUME NEW e, NEW q, Seen(e, q), q.kind \notin {"units", "silent"}
  PROVE  NoneLost(e, q)
BY DEF Seen, NoneLost

(* Nothing of what a complete rule declares or reads is lost.              *)
LEMMA CompleteRow ==
  ASSUME NEW e, NEW rule, Complete(e, rule), NEW row \in Requirements \cup Undeclared, rule \in row.rules,
         NEW q \in row.of, q.kind \notin {"units", "silent"} \/ row \in Undeclared
  PROVE  NoneLost(e, q)
BY RowsOfTheTables, SeenIsNotLost DEF Complete

Declares(table, rule, q) == \E row \in table : rule \in row.rules /\ q \in row.of

(* The catalog declares no units, and nothing that is lost silently.       *)
LEMMA NoRowOfUnits == \A row \in Requirements : \A q \in row.of : q.kind \notin {"units", "silent"}
BY DEF Requirements, NodeRequirements, ApiRequirements, ControlPlaneRequirements, CorrelationRequirements,
       Api, Ran, Hosted, HostPodLogs

LEMMA DeclaredIsNotLost ==
  ASSUME NEW e, NEW rule, Complete(e, rule), NEW q,
         \/ Declares(NodeRequirements, rule, q)
         \/ Declares(ApiRequirements, rule, q)
         \/ Declares(ControlPlaneRequirements, rule, q)
         \/ Declares(CorrelationRequirements, rule, q)
         \/ Declares(Undeclared, rule, q)
  PROVE  NoneLost(e, q)
<1>1. CASE Declares(Undeclared, rule, q)
  BY <1>1, CompleteRow DEF Declares
<1>2. CASE Declares(Requirements, rule, q)
  BY <1>2, CompleteRow, NoRowOfUnits DEF Declares
<1> QED
  BY <1>1, <1>2 DEF Declares, Requirements

---------------------------------------------------------------------------

EventRuleIds ==
  {"node.kernel_oops", "node.task_hung", "node.filesystem_error", "node.filesystem_warning", "node.io_error",
   "node.unregister_netdevice", "node.hardware_error", "node.oom_detected", "node.conntrack_full",
   "kubernetes.node_not_ready", "kubernetes.node_pressure", "kubernetes.network_unavailable",
   "kubernetes.pod_crash_loop", "kubernetes.image_pull_failure", "kubernetes.pod_oom_killed",
   "kubernetes.failed_scheduling", "network.cni_unavailable", "cilium.unhealthy",
   "storage.volume_operation_failure", "security_agent.ptrace_alert", "dns.coredns_errors",
   "controlplane.authentication_config_read_error", "cgroup.service_failure",
       "correlation.node_runtime_failure",
   "correlation.node_cni_failure", "correlation.probe_network_failure", "correlation.storage_failure",
   "correlation.memory_oom_failure", "correlation.certificate_api_failure",
   "correlation.conntrack_network_failure"}

Excepted == CollectorRules \cup ArguedFromAbsence

Finds(found, rule) == \E f \in found : f.rule = rule

(* A state has no times, and no rule about events tells it.                *)
Timeless(found) == \A f \in found : f.ended = "none" /\ f.rule \notin EventRuleIds

(* What a group of rules finds in the evidence and in the world.           *)
Agree(e, left, all) ==
  /\ \A rule : /\ Finds(left, rule) => Finds(all, rule) \/ rule \in Excepted
               /\ Finds(all, rule) /\ Complete(e, rule) /\ rule \notin CollectorRules => Finds(left, rule)
  /\ Timeless(left) /\ Timeless(all)

(* The finding of a rule about objects, made when there are any.           *)
FoundWith(refs, rule, affected) == {Finding(rule, a, refs, {}) : a \in {affected} \ {{}}}

(* A rule finds something when there is something to find.                 *)
LEMMA FoundFinds ==
  ASSUME NEW refs, NEW rule, NEW affected, NEW r
  PROVE  Finds(FoundWith(refs, rule, affected), r) <=> r = rule /\ affected # {}
<1>1. CASE affected = {}
  <2>1. FoundWith(refs, rule, affected) = {}
    BY <1>1 DEF FoundWith
  <2> QED
    BY <1>1, <2>1 DEF Finds
<1>2. CASE affected # {}
  <2>1. FoundWith(refs, rule, affected) = {Finding(rule, affected, refs, {})}
    BY <1>2 DEF FoundWith
  <2>2. Finding(rule, affected, refs, {}).rule = rule
    BY DEF Finding
  <2> QED
    BY <1>2, <2>1, <2>2 DEF Finds
<1> QED
  BY <1>1, <1>2

(* Findings about objects agree when the sets of objects do.               *)
LEMMA FoundIsWith ==
  ASSUME NEW class, NEW rule, NEW affected
  PROVE  FoundIn(class, rule, affected) = FoundWith({Reference(class, 1)}, rule, affected)
BY DEF FoundIn, FoundWith

(* Where there is nothing to find, nothing is.                             *)
LEMMA NothingFound == ASSUME NEW rule PROVE Found(rule, {}) = {} /\ Named({}) = {}
BY DEF Found, FoundIn, Named

LEMMA FoundWithAgrees ==
  ASSUME NEW e, NEW refs, NEW rule, rule \notin EventRuleIds, NEW left, NEW all,
         left # {} => all # {} \/ rule \in Excepted,
         (rule \in CollectorRules) \/ (Complete(e, rule) /\ all # {} => left # {})
  PROVE  Agree(e, FoundWith(refs, rule, left), FoundWith(refs, rule, all))
<1>1. \A affected : Timeless(FoundWith(refs, rule, affected))
  BY DEF Timeless, FoundWith, Finding, Latest
<1> QED
  BY <1>1, FoundFinds DEF Agree

LEMMA FoundAgrees ==
  ASSUME NEW e, NEW class, NEW rule, rule \notin EventRuleIds, NEW left, NEW all,
         left # {} => all # {} \/ rule \in Excepted,
         (rule \in CollectorRules) \/ (Complete(e, rule) /\ all # {} => left # {})
  PROVE  Agree(e, FoundIn(class, rule, left), FoundIn(class, rule, all))
BY FoundWithAgrees, FoundIsWith

(* Groups of rules that agree do so together.                              *)
LEMMA AgreeTogether ==
  ASSUME NEW e, NEW left1, NEW all1, Agree(e, left1, all1), NEW left2, NEW all2, Agree(e, left2, all2)
  PROVE  Agree(e, left1 \cup left2, all1 \cup all2)
<1>1. \A rule : Finds(left1 \cup left2, rule) <=> Finds(left1, rule) \/ Finds(left2, rule)
  BY DEF Finds
<1>2. \A rule : Finds(all1 \cup all2, rule) <=> Finds(all1, rule) \/ Finds(all2, rule)
  BY DEF Finds
<1> QED
  BY <1>1, <1>2 DEF Agree, Timeless

(* What is found of the collection itself agrees whatever it is.           *)
LEMMA CollectorAgrees ==
  ASSUME NEW e, NEW left, NEW all, \A f \in left \cup all : f.rule \in CollectorRules /\ f.ended = "none"
  PROVE  Agree(e, left, all)
<1>1. \A rule \in CollectorRules : rule \in Excepted /\ rule \notin EventRuleIds
  BY DEF Excepted, CollectorRules, EventRuleIds
<1> QED
  BY <1>1 DEF Agree, Finds, Timeless

LEMMA EtcdIsHosted ==
  ASSUME NEW e, NEW rule \in EtcdRules, Complete(e, rule)
  PROVE  NoneLost(e, Hosted)
<1>1. [rules |-> EtcdRules, of |-> {Hosted}] \in Requirements
  BY DEF Requirements
<1>2. Hosted.kind \notin {"units", "silent"}
  BY DEF Hosted
<1> QED
  BY <1>1, <1>2, CompleteRow

LEMMA MetricsAreSeen ==
  ASSUME NEW e, NEW rule \in PrometheusRules, Complete(e, rule)
  PROVE  Seen(e, [kind |-> "cluster", id |-> "prometheus"])
<1>1. [rules |-> PrometheusRules, of |-> {[kind |-> "cluster", id |-> "prometheus"]}] \in Requirements
  BY DEF Requirements
<1> QED
  BY <1>1, RowsOfTheTables DEF Complete

---------------------------------------------------------------------------

(* The rules about a host.                                                 *)
LEMMA HostRulesAgree == ASSUME NEW e, NEW w, Loaded(e, w) PROVE Agree(e, HostFindings(e), HostFindings(w))
<1> DEFINE
     services(x, h) == Facts(x, h).services
     A1(x) == {Whole(h) : h \in {k \in Hosts(x) : Facts(x, k).rootFree < 10}}
     A2(x) == {Whole(h) : h \in {k \in Hosts(x) : Full(x, k, "df_inodes", 95) # {}}}
     A3(x) == {Whole(h) : h \in {k \in Hosts(x) :
                 /\ "kubelet" \in DOMAIN services(x, k)
                 /\ services(x, k)["kubelet"].status = "collected"
                      /\ services(x, k)["kubelet"].load = "loaded"
                 /\ services(x, k)["kubelet"].active \notin ActiveStates}}
     A4(x) == {Whole(h) : h \in {k \in Hosts(x) : LoadedRuntimes(services(x, k)) # {}
         /\ ~RuntimeActive(services(x, k))}}
     F1(x) == Found("node.low_root_disk", A1(x))
     F2(x) == Found("node.low_inodes", A2(x))
     F3(x) == Found("node.kubelet_inactive", A3(x))
     F4(x) == Found("node.runtime_inactive", A4(x))
<1>1. ASSUME NEW x, NEW f
      PROVE  f \in HostFindings(x) <=> f \in F1(x) \/ f \in F2(x) \/ f \in F3(x) \/ f \in F4(x)
  <2>1. HostFindings(x) = F1(x) \cup F2(x) \cup F3(x) \cup F4(x)
    BY DEF HostFindings
  <2> HIDE DEF F1, F2, F3, F4
  <2> QED
    BY <2>1
<1> HIDE DEF A1, A2, A3, A4
<1>2. /\ Complete(e, "node.low_root_disk") => NoneLost(e, Hosted)
      /\ Complete(e, "node.low_inodes") => NoneLost(e, Hosted) /\ NoneLost(e, Ran("df_inodes"))
  BY DeclaredIsNotLost DEF Declares, NodeRequirements
<1>3. /\ Complete(e, "node.kubelet_inactive") => NoneLost(e, Hosted) /\ NoneLost(e, Units)
      /\ Complete(e, "node.runtime_inactive") => NoneLost(e, Hosted) /\ NoneLost(e, Units)
  BY DeclaredIsNotLost DEF Declares, NodeRequirements, Undeclared
<1>4. LeftOf(e, w)
  BY DEF Loaded
<1>5. Agree(e, F1(e), F1(w))
  <2>1. A1(e) # {} => A1(w) # {}
    BY <1>4, SameFacts DEF A1, FactsLeft
  <2>2. Complete(e, "node.low_root_disk") /\ A1(w) # {} => A1(e) # {}
    BY <1>2, <1>4, SameFacts, AllHosts DEF A1, FactsLeft
  <2> QED
    BY <2>1, <2>2, FoundAgrees DEF Found, EventRuleIds
<1>6. Agree(e, F2(e), F2(w))
  <2>1. A2(e) # {} => A2(w) # {}
    BY <1>4, SameFacts, PartOfTheCommands DEF A2, Full
  <2>2. Complete(e, "node.low_inodes") /\ A2(w) # {} => A2(e) # {}
    BY <1>2, <1>4, AllHosts, AllOfTheCommand DEF A2, Full, EtcdCommands, PreviousIds
  <2> QED
    BY <2>1, <2>2, FoundAgrees DEF Found, EventRuleIds
<1>7. Agree(e, F3(e), F3(w))
  <2>1. A3(e) # {} => A3(w) # {}
    BY <1>4, SameFacts, PartOfTheServices DEF A3
  <2>2. Complete(e, "node.kubelet_inactive") /\ A3(w) # {} => A3(e) # {}
    BY <1>3, <1>4, AllHosts, AllOfTheServices DEF A3
  <2> QED
    BY <2>1, <2>2, FoundAgrees DEF Found, EventRuleIds
<1>8. Agree(e, F4(e), F4(w))
  <2>1. "node.runtime_inactive" \in Excepted
    BY DEF Excepted, ArguedFromAbsence
  <2>2. Complete(e, "node.runtime_inactive") /\ A4(w) # {} => A4(e) # {}
    BY <1>3, <1>4, AllHosts, AllOfTheServices DEF A4, LoadedRuntimes, RuntimeActive
  <2> QED
    BY <2>1, <2>2, FoundAgrees DEF Found, EventRuleIds
<1> HIDE DEF F1, F2, F3, F4
<1> QED
  BY <1>1, <1>5, <1>6, <1>7, <1>8 DEF Agree, Finds, Timeless

(* The rules about the container runtime and the kubelet.                  *)
LEMMA RuntimeRulesAgree ==
  ASSUME NEW e, NEW w, Loaded(e, w)
  PROVE  Agree(e, RuntimeFindings(e), RuntimeFindings(w))
<1> DEFINE
     crictl(x, h) == JsonCommand(x, h, "runtime_crictl_info")
     A1(x) == {Whole(h) : h \in {k \in Hosts(x) : \E i \in crictl(x, k) : ~i.runtimeReady}}
     A2(x) == {Whole(h) : h \in {k \in Hosts(x) : \E i \in crictl(x, k) : ~i.networkReady}}
     A3(x) == {Whole(h) : h \in {k \in Hosts(x) : Facts(x, k).swap /\ Facts(x, k).failSwapOn}}
     A4(x) == {Whole(h) : h \in {k \in Hosts(x) : Facts(x, k).nameservers > 3}}
     A5(x) == {Whole(h) : h \in {k \in Hosts(x) : \E m \in Full(x, k, "df_blocks", 90) :
         m.mount \in RuntimeDiskPaths}}
     A6(x) == {Whole(h) : h \in {k \in Hosts(x) : Facts(x, k).rotate
         /\ Facts(x, k).rotation \notin {"collected", "none"}}}
     F1(x) == FoundIn("snapshot", "runtime.cri_not_ready", A1(x))
     F2(x) == FoundIn("snapshot", "runtime.cri_network_not_ready", A2(x))
     F3(x) == FoundIn("snapshot", "node.swap_active", A3(x))
     F4(x) == FoundIn("snapshot", "dns.nameserver_limit_exceeded", A4(x))
     F5(x) == Found("node.low_runtime_disk", A5(x))
     F6(x) == Found("certificate.kubelet_rotation_broken", A6(x))
<1>1. ASSUME NEW x, NEW f
      PROVE  f \in RuntimeFindings(x) <=> f \in F1(x) \/ f \in F2(x) \/ f \in F3(x) \/ f \in F4(x)
               \/ f \in F5(x) \/ f \in F6(x)
  <2>1. RuntimeFindings(x) = F1(x) \cup F2(x) \cup F3(x) \cup F4(x) \cup F5(x) \cup F6(x)
    BY DEF RuntimeFindings
  <2> HIDE DEF F1, F2, F3, F4, F5, F6
  <2> QED
    BY <2>1
<1> HIDE DEF A1, A2, A3, A4, A5, A6
<1>2. /\ Complete(e, "runtime.cri_not_ready") => NoneLost(e, Hosted)
           /\ NoneLost(e, Ran("runtime_crictl_info"))
      /\ Complete(e, "runtime.cri_network_not_ready") => NoneLost(e, Hosted)
           /\ NoneLost(e, Ran("runtime_crictl_info"))
      /\ Complete(e, "node.low_runtime_disk") => NoneLost(e, Hosted) /\ NoneLost(e, Ran("df_blocks"))
  BY DeclaredIsNotLost DEF Declares, NodeRequirements
<1>10. /\ Complete(e, "node.swap_active") => NoneLost(e, Hosted)
            /\ NoneLost(e, Silent("swaps")) /\ NoneLost(e, Silent("kubelet_config"))
       /\ Complete(e, "dns.nameserver_limit_exceeded") => NoneLost(e, Hosted)
            /\ NoneLost(e, Silent("resolv_conf")) /\ NoneLost(e, Silent("kubelet_config"))
       /\ Complete(e, "certificate.kubelet_rotation_broken") => NoneLost(e, Hosted)
            /\ NoneLost(e, Silent("rotation")) /\ NoneLost(e, Silent("kubelet_config"))
  BY DeclaredIsNotLost DEF Declares, NodeRequirements, Undeclared
<1>3. LeftOf(e, w)
  BY DEF Loaded
<1>4. Agree(e, F1(e), F1(w))
  <2>1. A1(e) # {} => A1(w) # {}
    BY <1>3, SameFacts, PartOfTheCommands DEF A1, PreviousIds
  <2>2. Complete(e, "runtime.cri_not_ready") /\ A1(w) # {} => A1(e) # {}
    BY <1>2, <1>3, AllHosts, AllOfTheCommand DEF A1, EtcdCommands, PreviousIds
  <2> QED
    BY <2>1, <2>2, FoundAgrees DEF Found, EventRuleIds
<1>5. Agree(e, F2(e), F2(w))
  <2>1. A2(e) # {} => A2(w) # {}
    BY <1>3, SameFacts, PartOfTheCommands DEF A2, PreviousIds
  <2>2. Complete(e, "runtime.cri_network_not_ready") /\ A2(w) # {} => A2(e) # {}
    BY <1>2, <1>3, AllHosts, AllOfTheCommand DEF A2, EtcdCommands, PreviousIds
  <2> QED
    BY <2>1, <2>2, FoundAgrees DEF Found, EventRuleIds
<1>6. Agree(e, F3(e), F3(w))
  <2>1. "node.swap_active" \in Excepted
    BY DEF Excepted, ArguedFromAbsence
  <2>2. Complete(e, "node.swap_active") /\ A3(w) # {} => A3(e) # {}
    BY <1>3, <1>10, SameFacts, AllHosts, NotSilent DEF A3, FactsKept
  <2> QED
    BY <2>1, <2>2, FoundAgrees DEF Found, EventRuleIds
<1>7. Agree(e, F4(e), F4(w))
  <2>1. "dns.nameserver_limit_exceeded" \in Excepted
    BY DEF Excepted, ArguedFromAbsence
  <2>2. Complete(e, "dns.nameserver_limit_exceeded") /\ A4(w) # {} => A4(e) # {}
    BY <1>3, <1>10, SameFacts, AllHosts, NotSilent DEF A4, FactsKept
  <2> QED
    BY <2>1, <2>2, FoundAgrees DEF Found, EventRuleIds
<1>8. Agree(e, F5(e), F5(w))
  <2>1. A5(e) # {} => A5(w) # {}
    BY <1>3, SameFacts, PartOfTheCommands DEF A5, Full
  <2>2. Complete(e, "node.low_runtime_disk") /\ A5(w) # {} => A5(e) # {}
    BY <1>2, <1>3, AllHosts, AllOfTheCommand DEF A5, Full, EtcdCommands, PreviousIds
  <2> QED
    BY <2>1, <2>2, FoundAgrees DEF Found, EventRuleIds
<1>9. Agree(e, F6(e), F6(w))
  <2>1. "certificate.kubelet_rotation_broken" \in Excepted
    BY DEF Excepted, ArguedFromAbsence
  <2>2. Complete(e, "certificate.kubelet_rotation_broken") /\ A6(w) # {} => A6(e) # {}
    BY <1>3, <1>10, SameFacts, AllHosts, NotSilent DEF A6, FactsKept
  <2> QED
    BY <2>1, <2>2, FoundAgrees DEF Found, EventRuleIds
<1> HIDE DEF F1, F2, F3, F4, F5, F6
<1> QED
  BY <1>1, <1>4, <1>5, <1>6, <1>7, <1>8, <1>9 DEF Agree, Finds, Timeless

(* The rules about the clock and the certificates.                         *)
LEMMA TimeRulesAgree == ASSUME NEW e, NEW w, Loaded(e, w) PROVE Agree(e, TimeFindings(e), TimeFindings(w))
<1> DEFINE
     A1(x) == {Whole(h) : h \in {k \in Hosts(x) :
                 "unsynchronized" \in Command(x, k, "timedatectl").items
                     \cup Command(x, k, "chrony_tracking").items}}
     A2(x) == {Whole(h) : h \in {k \in Hosts(x) : Expiring(Facts(x, k))}}
     F1(x) == Found("time.not_synchronized", A1(x))
     F2(x) == Found("certificate.expiring", A2(x))
<1>1. ASSUME NEW x, NEW f
      PROVE  f \in TimeFindings(x) <=> f \in F1(x) \/ f \in F2(x)
  <2>1. TimeFindings(x) = F1(x) \cup F2(x)
    BY DEF TimeFindings
  <2> HIDE DEF F1, F2
  <2> QED
    BY <2>1
<1> HIDE DEF A1, A2
<1>2. Complete(e, "time.not_synchronized") => NoneLost(e, Hosted) /\ NoneLost(e, Ran("timedatectl"))
        /\ NoneLost(e, Ran("chrony_tracking"))
  BY DeclaredIsNotLost DEF Declares, NodeRequirements, Undeclared
<1>3. Complete(e, "certificate.expiring") => NoneLost(e, Hosted)
        /\ NoneLost(e, Silent("certificate")) /\ NoneLost(e, Silent("rotation"))
  BY DeclaredIsNotLost DEF Declares, NodeRequirements, Undeclared
<1>4. LeftOf(e, w)
  BY DEF Loaded
<1>5. Agree(e, F1(e), F1(w))
  <2>1. A1(e) # {} => A1(w) # {}
    BY <1>4, SameFacts, PartOfTheCommands DEF A1
  <2>2. Complete(e, "time.not_synchronized") /\ A1(w) # {} => A1(e) # {}
    BY <1>2, <1>4, AllHosts, AllOfTheCommand DEF A1, EtcdCommands, PreviousIds
  <2> QED
    BY <2>1, <2>2, FoundAgrees DEF Found, EventRuleIds
<1>6. Agree(e, F2(e), F2(w))
  <2>1. A2(e) # {} => A2(w) # {}
    BY <1>4, SameFacts DEF A2, FactsLeft
  <2>2. Complete(e, "certificate.expiring") /\ A2(w) # {} => A2(e) # {}
    BY <1>3, <1>4, SameFacts, AllHosts, NotSilent DEF A2, FactsKept, Expiring
  <2> QED
    BY <2>1, <2>2, FoundAgrees DEF Found, EventRuleIds
<1> HIDE DEF F1, F2
<1> QED
  BY <1>1, <1>5, <1>6 DEF Agree, Finds, Timeless

---------------------------------------------------------------------------

(* The rules about the collection.                                         *)
LEMMA CollectionRulesAgree == ASSUME NEW e, NEW w PROVE Agree(e, CollectionFindings(e), CollectionFindings(w))
<1>1. ASSUME NEW rule, NEW affected, NEW f \in Found(rule, affected) PROVE f.rule = rule /\ f.ended = "none"
  BY DEF Found, FoundIn, Finding, Latest
<1>2. ASSUME NEW x, NEW f \in CollectionFindings(x) PROVE f.rule \in CollectorRules /\ f.ended = "none"
  <2> DEFINE gap(g) == Finding("collector.evidence_gap", {p[1] : p \in g}, {p[2] : p \in g}, {})
             cut == Finding("collector.normalization_truncated", {Whole("cluster")},
                 {Reference("normalized", 1)}, {})
  <2>1. \A g : gap(g).rule = "collector.evidence_gap" /\ gap(g).ended = "none"
    BY DEF Finding, Latest
  <2>2. cut.rule = "collector.normalization_truncated" /\ cut.ended = "none"
    BY DEF Finding, Latest
  <2>3. \/ f \in Found("collector.node_gap",
             {Whole(h) : h \in {y \in DOMAIN x.results : x.results[y] # "collected"}})
        \/ \E g : f = gap(g)
        \/ f = cut
        \/ f \in Found("collector.boot_changed",
             {Whole(h) : h \in {y \in Hosts(x) : Facts(x, y).bootChanged}})
    BY DEF CollectionFindings
  <2> HIDE DEF gap, cut
  <2> QED
    BY <1>1, <2>1, <2>2, <2>3 DEF CollectorRules
<1> QED
  BY <1>2, CollectorAgrees

(* The rules about the set of hosts.                                       *)
LEMMA InventoryRulesAgree ==
  ASSUME NEW e, NEW w, Loaded(e, w)
  PROVE  Agree(e, InventoryFindings(e), InventoryFindings(w))
<1> DEFINE
     A1(x) == IF SourceCollected(x, "nodes")
        THEN {Whole(n) : n \in (NodeNames(x) \ Hosts(x)) \cup (Hosts(x) \ NodeNames(x))} ELSE {}
     A2(x) == IF Several({Facts(x, h).kernel : h \in Hosts(x)}) THEN {Whole(h) : h \in Hosts(x)} ELSE {}
     F1(x) == Found("inventory.node_set_mismatch", A1(x))
     F2(x) == Found("inventory.mixed_kernel", A2(x))
<1>1. ASSUME NEW x, NEW f
      PROVE  f \in InventoryFindings(x) <=> f \in F1(x) \/ f \in F2(x)
  <2>1. InventoryFindings(x) = F1(x) \cup F2(x)
    BY DEF InventoryFindings
  <2> HIDE DEF F1, F2
  <2> QED
    BY <2>1
<1> HIDE DEF A1, A2
<1>2. Complete(e, "inventory.node_set_mismatch") => NoneLost(e, Hosted) /\ NoneLost(e, Api("nodes"))
  BY DeclaredIsNotLost DEF Declares, ApiRequirements
<1>3. Complete(e, "inventory.mixed_kernel") => NoneLost(e, Hosted)
  BY DeclaredIsNotLost DEF Declares, NodeRequirements
<1>4. LeftOf(e, w)
  BY DEF Loaded
<1>5. Agree(e, F1(e), F1(w))
  <2>1. "inventory.node_set_mismatch" \in Excepted
    BY DEF Excepted, ArguedFromAbsence
  <2>2. Complete(e, "inventory.node_set_mismatch") /\ A1(w) # {} => A1(e) # {}
    BY <1>2, <1>4, AllHosts, AllOfTheSource DEF A1, NodeNames
  <2> QED
    BY <2>1, <2>2, FoundAgrees DEF Found, EventRuleIds
<1>6. Agree(e, F2(e), F2(w))
  <2>1. A2(e) # {} => A2(w) # {}
    BY <1>4, SameFacts DEF A2, Several, FactsLeft
  <2>2. Complete(e, "inventory.mixed_kernel") /\ A2(w) # {} => A2(e) # {}
    BY <1>3, <1>4, SameFacts, AllHosts DEF A2, Several, FactsLeft
  <2> QED
    BY <2>1, <2>2, FoundAgrees DEF Found, EventRuleIds
<1> HIDE DEF F1, F2
<1> QED
  BY <1>1, <1>5, <1>6 DEF Agree, Finds, Timeless

(* The rules about control groups.                                         *)
LEMMA CgroupRulesAgree ==
  ASSUME NEW e, NEW w, Loaded(e, w)
  PROVE  Agree(e, CgroupFindings(e), CgroupFindings(w))
<1> DEFINE
     denials(x, h) == {l \in Command(x, h, "journal_services_current").items
                                \cup Command(x, h, "journal_services_previous").items :
                                    "cgroup_access_denied" \in l.text}
     A1(x) == {Whole(h) : h \in {k \in Hosts(x) :
          Facts(x, k).cgroupMode = "v2" /\ ~({"cpu", "io"} \subseteq Facts(x, k).controllers)}}
     A2(x) == {Whole(h) : h \in {k \in Hosts(x) :
          \E i \in JsonCommand(x, k, "runtime_crictl_info") :
             KubeletDriver(Facts(x, k)) \notin {"none", i.driver} /\ i.driver # "none"}}
     A3(x) == {Whole(h) : h \in {k \in Hosts(x) : denials(x, k) # {}
         /\ "kesl" \in Command(x, k, "installed_packages").items}}
     F1(x) == Found("cgroup.controllers_missing", A1(x))
     F2(x) == Found("cgroup.driver_mismatch", A2(x))
     F3(x) == FoundWith({Reference("commands", 0)}, "security_agent.cgroup_denial", A3(x))
<1>1. ASSUME NEW x, NEW f
      PROVE  f \in CgroupFindings(x) <=> f \in F1(x) \/ f \in F2(x) \/ f \in F3(x)
  <2>1. CgroupFindings(x) = F1(x) \cup F2(x) \cup F3(x)
    BY DEF CgroupFindings, FoundWith
  <2> HIDE DEF F1, F2, F3
  <2> QED
    BY <2>1
<1> HIDE DEF A1, A2, A3
<1>2. /\ Complete(e, "cgroup.controllers_missing") => NoneLost(e, Hosted) /\ NoneLost(e, Silent("cgroup"))
      /\ Complete(e, "cgroup.driver_mismatch") => NoneLost(e, Hosted)
           /\ NoneLost(e, Ran("runtime_crictl_info"))
           /\ NoneLost(e, Silent("kubelet_config")) /\ NoneLost(e, Units)
  BY DeclaredIsNotLost DEF Declares, NodeRequirements, Undeclared
<1>3. Complete(e, "security_agent.cgroup_denial") => NoneLost(e, Hosted)
        /\ NoneLost(e, Ran("installed_packages")) /\ NoneLost(e, Ran("journal_services_current"))
        /\ NoneLost(e, Ran("journal_services_previous")) /\ NoneLost(e, Silent("previous_boot"))
  BY DeclaredIsNotLost DEF Declares, NodeRequirements, Undeclared
<1>4. LeftOf(e, w)
  BY DEF Loaded
<1>5. Agree(e, F1(e), F1(w))
  <2>1. A1(e) # {} => A1(w) # {}
    BY <1>4, SameFacts DEF A1, FactsLeft
  <2>2. Complete(e, "cgroup.controllers_missing") /\ A1(w) # {} => A1(e) # {}
    BY <1>2, <1>4, SameFacts, AllHosts, NotSilent DEF A1, FactsKept
  <2> QED
    BY <2>1, <2>2, FoundAgrees DEF Found, EventRuleIds
<1>6. Agree(e, F2(e), F2(w))
  <2>1. "cgroup.driver_mismatch" \in Excepted
    BY DEF Excepted, ArguedFromAbsence
  <2>2. Complete(e, "cgroup.driver_mismatch") /\ A2(w) # {} => A2(e) # {}
    <3> SUFFICES ASSUME Complete(e, "cgroup.driver_mismatch"), A2(w) # {} PROVE A2(e) # {}
      OBVIOUS
    <3>1. Hosts(e) = Hosts(w)
      BY <1>2, AllHosts
    <3>2. \A h \in Hosts(e) : KubeletDriver(Facts(e, h)) = KubeletDriver(Facts(w, h))
      <4>1. \A h \in Hosts(e) : Facts(e, h).kubeletDriver = Facts(w, h).kubeletDriver
        BY <1>2, <1>4, SameFacts, NotSilent DEF FactsKept
      <4>2. ASSUME NEW h \in Hosts(e) PROVE Facts(e, h).driverFlag = Facts(w, h).driverFlag
        <5>1. \A u \in DOMAIN Facts(e, h).services : Facts(e, h).services[u].status = "collected"
          BY <1>2 DEF NoneLost, Units
        <5> QED
          BY <1>4, <5>1, SameFacts DEF FactsLeft, LossStatuses
      <4> QED
        BY <4>1, <4>2 DEF KubeletDriver
    <3>3. \A h \in Hosts(e) : JsonCommand(e, h, "runtime_crictl_info") = JsonCommand(w, h, "runtime_crictl_info")
      BY <1>2, <1>4, AllOfTheCommand DEF EtcdCommands, PreviousIds
    <3> QED
      BY <3>1, <3>2, <3>3 DEF A2
  <2> QED
    BY <2>1, <2>2, FoundAgrees DEF Found, EventRuleIds
<1>7. Agree(e, F3(e), F3(w))
  <2>1. A3(e) # {} => A3(w) # {}
    BY <1>4, SameFacts, PartOfTheCommands DEF A3
  <2>2. Complete(e, "security_agent.cgroup_denial") /\ A3(w) # {} => A3(e) # {}
    BY <1>3, <1>4, AllHosts, AllOfTheCommand DEF A3, EtcdCommands, PreviousIds
  <2> QED
    BY <2>1, <2>2, FoundWithAgrees DEF EventRuleIds
<1> HIDE DEF F1, F2, F3
<1> QED
  BY <1>1, <1>5, <1>6, <1>7 DEF Agree, Finds, Timeless

(* The rules about etcd.                                                   *)
LEMMA EtcdRulesAgree == ASSUME NEW e, NEW w, Loaded(e, w) PROVE Agree(e, EtcdFindings(e), EtcdFindings(w))
<1> DEFINE
     read(x, id) == UNION {JsonCommand(x, h, id) : h \in Hosts(x)}
     status(x) == read(x, "etcd_endpoint_status")
     leaders(x) == {r.leader : r \in status(x)}
     etcd(affected) == {Whole("etcd") : a \in affected}
     revisions(x) == {r.revision : r \in status(x)}
     A1(x) == {Whole(h) : h \in {k \in Hosts(x) :
         Facts(x, k).etcd.status \in {"partial", "unavailable", "unsupported"}}}
     A2(x) == {Whole(r.endpoint) : r \in {y \in read(x, "etcd_endpoint_health") : ~y.healthy}}
     A3(x) == {Whole(a) : a \in read(x, "etcd_alarm_list")}
     A4(x) == IF 0 \in leaders(x) \/ Several(leaders(x) \ {0}) \/ Several({r.cluster : r \in status(x)})
         THEN {Whole("etcd")} ELSE {}
     A5(x) == etcd({r \in status(x) : r.raftLag > 1000})
           \cup etcd({p \in revisions(x) \X revisions(x) : p[1] - p[2] > 1000})
     A6(x) == etcd({h \in Hosts(x) : Facts(x, h).etcd.quota > 0 /\
                  \E r \in JsonCommand(x, h, "etcd_endpoint_status") :
                      10 * r.size >= 8 * Facts(x, h).etcd.quota})
     A7(x) == etcd({r \in status(x) : r.size >= 100 /\ 2 * r.inUse < r.size})
     A8(x) == IF Several({r.version : r \in status(x)}) THEN {Whole("etcd")} ELSE {}
     F1(x) == Found("collector.etcd_evidence_gap", A1(x))
     F2(x) == Found("etcd.unhealthy", A2(x))
     F3(x) == Found("etcd.alarm_active", A3(x))
     F4(x) == Found("etcd.topology_inconsistent", A4(x))
     F5(x) == Found("etcd.raft_apply_lag", A5(x))
     F6(x) == Found("etcd.database_near_quota", A6(x))
     F7(x) == Found("etcd.fragmentation_high", A7(x))
     F8(x) == Found("etcd.member_version_drift", A8(x))
<1>1. ASSUME NEW x, NEW f
      PROVE  f \in EtcdFindings(x) <=> f \in F1(x) \/ f \in F2(x) \/ f \in F3(x) \/ f \in F4(x) \/ f \in F5(x)
               \/ f \in F6(x) \/ f \in F7(x) \/ f \in F8(x)
  <2>1. EtcdFindings(x) = F1(x) \cup F2(x) \cup F3(x) \cup F4(x) \cup F5(x) \cup F6(x) \cup F7(x) \cup F8(x)
    BY DEF EtcdFindings
  <2> HIDE DEF F1, F2, F3, F4, F5, F6, F7, F8
  <2> QED
    BY <2>1
<1> HIDE DEF A1, A2, A3, A4, A5, A6, A7, A8, read
<1>2. /\ Complete(e, "etcd.unhealthy") => NoneLost(e, Hosted) /\ NoneLost(e, Ran("etcd_endpoint_health"))
      /\ Complete(e, "etcd.alarm_active") => NoneLost(e, Hosted) /\ NoneLost(e, Ran("etcd_alarm_list"))
      /\ Complete(e, "etcd.topology_inconsistent") => NoneLost(e, Hosted)
           /\ NoneLost(e, Ran("etcd_endpoint_status"))
      /\ Complete(e, "etcd.raft_apply_lag") => NoneLost(e, Hosted) /\ NoneLost(e, Ran("etcd_endpoint_status"))
      /\ Complete(e, "etcd.database_near_quota") => NoneLost(e, Hosted)
           /\ NoneLost(e, Ran("etcd_endpoint_status"))
      /\ Complete(e, "etcd.fragmentation_high") => NoneLost(e, Hosted)
           /\ NoneLost(e, Ran("etcd_endpoint_status"))
      /\ Complete(e, "etcd.member_version_drift") => NoneLost(e, Hosted)
           /\ NoneLost(e, Ran("etcd_endpoint_status"))
  BY EtcdIsHosted, DeclaredIsNotLost DEF Declares, Undeclared, EtcdRules, EtcdCommands
<1>14. /\ \A rule \in EtcdRules : Complete(e, rule) => NoneLost(e, Silent("etcd"))
       /\ Complete(e, "etcd.database_near_quota") => NoneLost(e, Silent("etcd_quota"))
  BY DeclaredIsNotLost DEF Declares, Undeclared
<1>3. LeftOf(e, w)
  BY DEF Loaded
<1>4. \A id \in EtcdCommands : read(e, id) \subseteq read(w, id)
  BY <1>3, SameFacts, PartOfTheCommands DEF read, EtcdCommands, PreviousIds
<1>5. \A id \in EtcdCommands :
        NoneLost(e, Hosted) /\ NoneLost(e, Ran(id)) /\ NoneLost(e, Silent("etcd")) => read(e, id) = read(w, id)
  BY <1>3, AllHosts, AllOfTheCommand DEF read, EtcdCommands, PreviousIds
<1>6. Agree(e, F1(e), F1(w))
  <2>1. "collector.etcd_evidence_gap" \in Excepted
    BY DEF Excepted, CollectorRules
  <2>2. "collector.etcd_evidence_gap" \in CollectorRules
    BY DEF CollectorRules
  <2> QED
    BY <2>1, <2>2, FoundAgrees DEF Found, EventRuleIds
<1>7. Agree(e, F2(e), F2(w))
  <2>1. A2(e) # {} => A2(w) # {}
    BY <1>3, <1>4 DEF EtcdCommands, A2
  <2>2. Complete(e, "etcd.unhealthy") /\ A2(w) # {} => A2(e) # {}
    BY <1>2, <1>3, <1>5, <1>14 DEF EtcdCommands, EtcdRules, A2
  <2> QED
    BY <2>1, <2>2, FoundAgrees DEF Found, EventRuleIds
<1>8. Agree(e, F3(e), F3(w))
  <2>1. A3(e) # {} => A3(w) # {}
    BY <1>3, <1>4 DEF EtcdCommands, A3
  <2>2. Complete(e, "etcd.alarm_active") /\ A3(w) # {} => A3(e) # {}
    BY <1>2, <1>3, <1>5, <1>14 DEF EtcdCommands, EtcdRules, A3
  <2> QED
    BY <2>1, <2>2, FoundAgrees DEF Found, EventRuleIds
<1>9. Agree(e, F4(e), F4(w))
  <2>1. A4(e) # {} => A4(w) # {}
    BY <1>3, <1>4 DEF EtcdCommands, A4, Several
  <2>2. Complete(e, "etcd.topology_inconsistent") /\ A4(w) # {} => A4(e) # {}
    BY <1>2, <1>3, <1>5, <1>14 DEF EtcdCommands, EtcdRules, A4, Several
  <2> QED
    BY <2>1, <2>2, FoundAgrees DEF Found, EventRuleIds
<1>10. Agree(e, F5(e), F5(w))
  <2>1. A5(e) # {} => A5(w) # {}
    BY <1>3, <1>4 DEF EtcdCommands, A5
  <2>2. Complete(e, "etcd.raft_apply_lag") /\ A5(w) # {} => A5(e) # {}
    BY <1>2, <1>3, <1>5, <1>14 DEF EtcdCommands, EtcdRules, A5
  <2> QED
    BY <2>1, <2>2, FoundAgrees DEF Found, EventRuleIds
<1>11. Agree(e, F6(e), F6(w))
  <2>1. A6(e) # {} => A6(w) # {}
    BY <1>3, SameFacts, PartOfTheCommands DEF A6, FactsLeft, PreviousIds
  <2>2. Complete(e, "etcd.database_near_quota") /\ A6(w) # {} => A6(e) # {}
    BY <1>2, <1>3, <1>14, SameFacts, AllHosts, AllOfTheCommand, NotSilent
       DEF A6, FactsKept, EtcdRules, PreviousIds
  <2> QED
    BY <2>1, <2>2, FoundAgrees DEF Found, EventRuleIds
<1>12. Agree(e, F7(e), F7(w))
  <2>1. A7(e) # {} => A7(w) # {}
    BY <1>3, <1>4 DEF EtcdCommands, A7
  <2>2. Complete(e, "etcd.fragmentation_high") /\ A7(w) # {} => A7(e) # {}
    BY <1>2, <1>3, <1>5, <1>14 DEF EtcdCommands, EtcdRules, A7
  <2> QED
    BY <2>1, <2>2, FoundAgrees DEF Found, EventRuleIds
<1>13. Agree(e, F8(e), F8(w))
  <2>1. A8(e) # {} => A8(w) # {}
    BY <1>3, <1>4 DEF EtcdCommands, A8, Several
  <2>2. Complete(e, "etcd.member_version_drift") /\ A8(w) # {} => A8(e) # {}
    BY <1>2, <1>3, <1>5, <1>14 DEF EtcdCommands, EtcdRules, A8, Several
  <2> QED
    BY <2>1, <2>2, FoundAgrees DEF Found, EventRuleIds
<1> HIDE DEF F1, F2, F3, F4, F5, F6, F7, F8
<1> QED
  BY <1>1, <1>6, <1>7, <1>8, <1>9, <1>10, <1>11, <1>12, <1>13 DEF Agree, Finds, Timeless

---------------------------------------------------------------------------

(* The rules about Pods.                                                   *)
LEMMA PodRulesAgree == ASSUME NEW e, NEW w, Loaded(e, w) PROVE Agree(e, PodFindings(e), PodFindings(w))
<1> DEFINE
     containers(pods, which) == {Part(p.name, which) : p \in pods}
     pods(x) == Items(x, "pods")
     A1(x) == containers({p \in pods(x) : Waits(p.main)}, "main")
     A2(x) == containers({p \in pods(x) : Waits(p.init) \/ p.init = "exit"}, "init")
     A3(x) == containers({p \in pods(x) : p.main = "exit" /\ p.phase = "Failed"}, "main")
     A4(x) == Named({p \in pods(x) : p.phase = "Failed" /\ p.evicted})
     A5(x) == containers({p \in pods(x) : p.restarts >= 5 /\ p.ended = "recent"}, "main")
     F1(x) == Found("kubernetes.pod_waiting", A1(x))
     F2(x) == Found("kubernetes.init_container_failed", A2(x))
     F3(x) == Found("kubernetes.container_exit_nonzero", A3(x))
     F4(x) == Found("kubernetes.pod_evicted", A4(x))
     F5(x) == Found("kubernetes.pod_restart_storm", A5(x))
<1>1. ASSUME NEW x, NEW f
      PROVE  f \in PodFindings(x) <=> f \in F1(x) \/ f \in F2(x) \/ f \in F3(x) \/ f \in F4(x) \/ f \in F5(x)
  <2>1. PodFindings(x) = F1(x) \cup F2(x) \cup F3(x) \cup F4(x) \cup F5(x)
    BY DEF PodFindings
  <2> HIDE DEF F1, F2, F3, F4, F5
  <2> QED
    BY <2>1
<1> HIDE DEF A1, A2, A3, A4, A5
<1>2. /\ Complete(e, "kubernetes.pod_waiting") => NoneLost(e, Api("pods"))
      /\ Complete(e, "kubernetes.init_container_failed") => NoneLost(e, Api("pods"))
      /\ Complete(e, "kubernetes.container_exit_nonzero") => NoneLost(e, Api("pods"))
      /\ Complete(e, "kubernetes.pod_evicted") => NoneLost(e, Api("pods"))
      /\ Complete(e, "kubernetes.pod_restart_storm") => NoneLost(e, Api("pods"))
  BY DeclaredIsNotLost DEF Declares, ApiRequirements
<1>3. LeftOf(e, w)
  BY DEF Loaded
<1>4. Agree(e, F1(e), F1(w))
  <2>1. A1(e) # {} => A1(w) # {}
    BY <1>3, PartOfTheSources DEF A1
  <2>2. Complete(e, "kubernetes.pod_waiting") /\ A1(w) # {} => A1(e) # {}
    BY <1>2, <1>3, AllOfTheSource DEF A1
  <2> QED
    BY <2>1, <2>2, FoundAgrees DEF Found, EventRuleIds
<1>5. Agree(e, F2(e), F2(w))
  <2>1. A2(e) # {} => A2(w) # {}
    BY <1>3, PartOfTheSources DEF A2
  <2>2. Complete(e, "kubernetes.init_container_failed") /\ A2(w) # {} => A2(e) # {}
    BY <1>2, <1>3, AllOfTheSource DEF A2
  <2> QED
    BY <2>1, <2>2, FoundAgrees DEF Found, EventRuleIds
<1>6. Agree(e, F3(e), F3(w))
  <2>1. A3(e) # {} => A3(w) # {}
    BY <1>3, PartOfTheSources DEF A3
  <2>2. Complete(e, "kubernetes.container_exit_nonzero") /\ A3(w) # {} => A3(e) # {}
    BY <1>2, <1>3, AllOfTheSource DEF A3
  <2> QED
    BY <2>1, <2>2, FoundAgrees DEF Found, EventRuleIds
<1>7. Agree(e, F4(e), F4(w))
  <2>1. A4(e) # {} => A4(w) # {}
    BY <1>3, PartOfTheSources DEF A4, Named
  <2>2. Complete(e, "kubernetes.pod_evicted") /\ A4(w) # {} => A4(e) # {}
    BY <1>2, <1>3, AllOfTheSource DEF A4, Named
  <2> QED
    BY <2>1, <2>2, FoundAgrees DEF Found, EventRuleIds
<1>8. Agree(e, F5(e), F5(w))
  <2>1. A5(e) # {} => A5(w) # {}
    BY <1>3, PartOfTheSources DEF A5
  <2>2. Complete(e, "kubernetes.pod_restart_storm") /\ A5(w) # {} => A5(e) # {}
    BY <1>2, <1>3, AllOfTheSource DEF A5
  <2> QED
    BY <2>1, <2>2, FoundAgrees DEF Found, EventRuleIds
<1> HIDE DEF F1, F2, F3, F4, F5
<1> QED
  BY <1>1, <1>4, <1>5, <1>6, <1>7, <1>8 DEF Agree, Finds, Timeless

(* The rules about workloads.                                              *)
LEMMA WorkloadRulesAgree ==
  ASSUME NEW e, NEW w, Loaded(e, w)
  PROVE  Agree(e, WorkloadFindings(e), WorkloadFindings(w))
<1> DEFINE
     failed(x, kind, conditions) == {y \in Items(x, "workloads") : y.kind = kind
         /\ y.condition \in conditions}
     A1(x) == Named(failed(x, "Deployment", {"ProgressDeadlineExceeded", "ReplicaFailure"}))
     A2(x) == Named({y \in Items(x, "workloads") : y.kind = "DaemonSet" /\ y.misscheduled > 0})
     A3(x) == Named(failed(x, "StatefulSet", FailedConditions))
     A4(x) == Named(failed(x, "Job", {"Failed"}))
     F1(x) == Found("kubernetes.deployment_rollout_failed", A1(x))
     F2(x) == Found("kubernetes.daemonset_misscheduled", A2(x))
     F3(x) == Found("kubernetes.statefulset_rollout_stalled", A3(x))
     F4(x) == Found("kubernetes.job_failed", A4(x))
<1>1. ASSUME NEW x, NEW f
      PROVE  f \in WorkloadFindings(x) <=> f \in F1(x) \/ f \in F2(x) \/ f \in F3(x) \/ f \in F4(x)
  <2>1. WorkloadFindings(x) = F1(x) \cup F2(x) \cup F3(x) \cup F4(x)
    BY DEF WorkloadFindings
  <2> HIDE DEF F1, F2, F3, F4
  <2> QED
    BY <2>1
<1> HIDE DEF A1, A2, A3, A4
<1>2. /\ Complete(e, "kubernetes.deployment_rollout_failed") => NoneLost(e, Api("workloads"))
      /\ Complete(e, "kubernetes.daemonset_misscheduled") => NoneLost(e, Api("workloads"))
      /\ Complete(e, "kubernetes.statefulset_rollout_stalled") => NoneLost(e, Api("workloads"))
      /\ Complete(e, "kubernetes.job_failed") => NoneLost(e, Api("workloads"))
  BY DeclaredIsNotLost DEF Declares, ApiRequirements
<1>3. LeftOf(e, w)
  BY DEF Loaded
<1>4. Agree(e, F1(e), F1(w))
  <2>1. A1(e) # {} => A1(w) # {}
    BY <1>3, PartOfTheSources DEF A1, Named
  <2>2. Complete(e, "kubernetes.deployment_rollout_failed") /\ A1(w) # {} => A1(e) # {}
    BY <1>2, <1>3, AllOfTheSource DEF A1, Named
  <2> QED
    BY <2>1, <2>2, FoundAgrees DEF Found, EventRuleIds
<1>5. Agree(e, F2(e), F2(w))
  <2>1. A2(e) # {} => A2(w) # {}
    BY <1>3, PartOfTheSources DEF A2, Named
  <2>2. Complete(e, "kubernetes.daemonset_misscheduled") /\ A2(w) # {} => A2(e) # {}
    BY <1>2, <1>3, AllOfTheSource DEF A2, Named
  <2> QED
    BY <2>1, <2>2, FoundAgrees DEF Found, EventRuleIds
<1>6. Agree(e, F3(e), F3(w))
  <2>1. A3(e) # {} => A3(w) # {}
    BY <1>3, PartOfTheSources DEF A3, Named
  <2>2. Complete(e, "kubernetes.statefulset_rollout_stalled") /\ A3(w) # {} => A3(e) # {}
    BY <1>2, <1>3, AllOfTheSource DEF A3, Named
  <2> QED
    BY <2>1, <2>2, FoundAgrees DEF Found, EventRuleIds
<1>7. Agree(e, F4(e), F4(w))
  <2>1. A4(e) # {} => A4(w) # {}
    BY <1>3, PartOfTheSources DEF A4, Named
  <2>2. Complete(e, "kubernetes.job_failed") /\ A4(w) # {} => A4(e) # {}
    BY <1>2, <1>3, AllOfTheSource DEF A4, Named
  <2> QED
    BY <2>1, <2>2, FoundAgrees DEF Found, EventRuleIds
<1> HIDE DEF F1, F2, F3, F4
<1> QED
  BY <1>1, <1>4, <1>5, <1>6, <1>7 DEF Agree, Finds, Timeless

(* A workload that is degraded.                                            *)
LEMMA DegradedRuleAgrees ==
  ASSUME NEW e, NEW w, Loaded(e, w)
  PROVE  Agree(e, DegradedFindings(e), DegradedFindings(w))
<1> DEFINE
     degraded(y) == CASE y.kind \in {"Deployment", "DaemonSet"} -> y.ready < y.desired
                      [] y.kind = "StatefulSet" -> y.condition \in FailedConditions
                      [] y.kind = "Job" -> y.condition = "Failed"
     A1(x) == {Part(y.name, y.kind) : y \in {z \in Items(x, "workloads") : degraded(z)}}
     F1(x) == Found("kubernetes.workload_degraded", A1(x))
<1>1. ASSUME NEW x, NEW f
      PROVE  f \in DegradedFindings(x) <=> f \in F1(x)
  <2>1. DegradedFindings(x) = F1(x)
    BY DEF DegradedFindings
  <2> HIDE DEF F1
  <2> QED
    BY <2>1
<1> HIDE DEF A1, degraded
<1>2. Complete(e, "kubernetes.workload_degraded") => NoneLost(e, Api("workloads"))
  BY DeclaredIsNotLost DEF Declares, ApiRequirements
<1>3. LeftOf(e, w)
  BY DEF Loaded
<1>4. Agree(e, F1(e), F1(w))
  <2>1. A1(e) # {} => A1(w) # {}
    BY <1>3, PartOfTheSources DEF A1
  <2>2. Complete(e, "kubernetes.workload_degraded") /\ A1(w) # {} => A1(e) # {}
    BY <1>2, <1>3, AllOfTheSource DEF A1
  <2> QED
    BY <2>1, <2>2, FoundAgrees DEF Found, EventRuleIds
<1> HIDE DEF F1
<1> QED
  BY <1>1, <1>4 DEF Agree, Finds, Timeless

(* The rules about PodDisruptionBudgets.                                   *)
LEMMA PdbRulesAgree == ASSUME NEW e, NEW w, Loaded(e, w) PROVE Agree(e, PdbFindings(e), PdbFindings(w))
<1> DEFINE
     pdb(x) == IF SourceCollected(x, "pdb") THEN {p \in Items(x, "pdb") : p.expected > 0} ELSE {}
     A1(x) == Named({p \in pdb(x) : p.current < p.desired})
     A2(x) == Named({p \in pdb(x) : p.allowed = 0})
     F1(x) == Found("pdb.insufficient_healthy", A1(x))
     F2(x) == Found("pdb.disruption_blocked", A2(x))
<1>1. ASSUME NEW x, NEW f
      PROVE  f \in PdbFindings(x) <=> f \in F1(x) \/ f \in F2(x)
  <2>1. PdbFindings(x) = F1(x) \cup F2(x)
    BY DEF PdbFindings
  <2> HIDE DEF F1, F2
  <2> QED
    BY <2>1
<1> HIDE DEF A1, A2
<1>2. /\ Complete(e, "pdb.insufficient_healthy") => NoneLost(e, Api("pdb"))
      /\ Complete(e, "pdb.disruption_blocked") => NoneLost(e, Api("pdb"))
  BY DeclaredIsNotLost DEF Declares, ControlPlaneRequirements
<1>3. LeftOf(e, w)
  BY DEF Loaded
<1>4. Agree(e, F1(e), F1(w))
  <2>1. A1(e) # {} => A1(w) # {}
    BY <1>3, PartOfTheSources DEF A1, Named
  <2>2. Complete(e, "pdb.insufficient_healthy") /\ A1(w) # {} => A1(e) # {}
    BY <1>2, <1>3, AllOfTheSource DEF A1, Named
  <2> QED
    BY <2>1, <2>2, FoundAgrees DEF Found, EventRuleIds
<1>5. Agree(e, F2(e), F2(w))
  <2>1. A2(e) # {} => A2(w) # {}
    BY <1>3, PartOfTheSources DEF A2, Named
  <2>2. Complete(e, "pdb.disruption_blocked") /\ A2(w) # {} => A2(e) # {}
    BY <1>2, <1>3, AllOfTheSource DEF A2, Named
  <2> QED
    BY <2>1, <2>2, FoundAgrees DEF Found, EventRuleIds
<1> HIDE DEF F1, F2
<1> QED
  BY <1>1, <1>4, <1>5 DEF Agree, Finds, Timeless

(* The rules about Services.                                               *)
LEMMA ServiceRulesAgree ==
  ASSUME NEW e, NEW w, Loaded(e, w)
  PROVE  Agree(e, ServiceFindings(e), ServiceFindings(w))
<1> DEFINE
     seen(x) == SourceCollected(x, "services") /\ SourceCollected(x, "endpoint_slices")
     selecting(x) == IF seen(x) THEN {s \in Items(x, "services") : s.type # "ExternalName" /\ s.selector}
         ELSE {}
     sliced(x) == {s \in selecting(x) : SlicesOf(x, s) # {}}
     serving(x) == {s \in sliced(x) : HasReadyEndpoint(x, s)}
     A1(x) == Named(selecting(x) \ sliced(x))
     A2(x) == Named(sliced(x) \ serving(x))
     A3(x) == UNION {{Part(s.name, port.name) : port \in {p \in s.ports : Unresolved(x, s, p)}} :
         s \in serving(x)}
     F1(x) == Found("kubernetes.service_no_endpoints", A1(x))
     F2(x) == Found("kubernetes.service_no_ready_endpoints", A2(x))
     F3(x) == Found("kubernetes.service_port_unresolved", A3(x))
<1>1. ASSUME NEW x, NEW f
      PROVE  f \in ServiceFindings(x) <=> f \in F1(x) \/ f \in F2(x) \/ f \in F3(x)
  <2>1. ServiceFindings(x) = F1(x) \cup F2(x) \cup F3(x)
    BY DEF ServiceFindings
  <2> HIDE DEF F1, F2, F3
  <2> QED
    BY <2>1
<1> HIDE DEF A1, A2, A3
<1>2. /\ Complete(e, "kubernetes.service_no_endpoints") => NoneLost(e, Api("services"))
           /\ NoneLost(e, Api("endpoint_slices"))
      /\ Complete(e, "kubernetes.service_no_ready_endpoints") => NoneLost(e, Api("services"))
           /\ NoneLost(e, Api("endpoint_slices"))
      /\ Complete(e, "kubernetes.service_port_unresolved") => NoneLost(e, Api("services"))
           /\ NoneLost(e, Api("endpoint_slices"))
  BY DeclaredIsNotLost DEF Declares, ApiRequirements
<1>3. LeftOf(e, w)
  BY DEF Loaded
<1>4. seen(e) => selecting(e) = selecting(w) /\ sliced(e) = sliced(w) /\ serving(e) = serving(w)
          /\ \A s, p : Unresolved(e, s, p) <=> Unresolved(w, s, p)
  BY <1>3, PartOfTheSources DEF SlicesOf, HasReadyEndpoint, EndpointsOf, Unresolved
<1>5. ~seen(e) => selecting(e) = {} /\ sliced(e) = {} /\ serving(e) = {}
  OBVIOUS
<1>6. seen(w) /\ NoneLost(e, Api("services")) /\ NoneLost(e, Api("endpoint_slices")) => seen(e)
  BY <1>3, AllOfTheSource
<1>7. ~seen(w) => selecting(w) = {} /\ sliced(w) = {} /\ serving(w) = {}
  OBVIOUS
<1> HIDE DEF seen, selecting, sliced, serving
<1>8. Agree(e, F1(e), F1(w))
  <2>1. A1(e) # {} => A1(w) # {}
    BY <1>3, <1>4, <1>5 DEF A1, Named
  <2>2. Complete(e, "kubernetes.service_no_endpoints") /\ A1(w) # {} => A1(e) # {}
    BY <1>2, <1>3, <1>4, <1>6, <1>7 DEF A1, Named
  <2> QED
    BY <2>1, <2>2, FoundAgrees DEF Found, EventRuleIds
<1>9. Agree(e, F2(e), F2(w))
  <2>1. A2(e) # {} => A2(w) # {}
    BY <1>3, <1>4, <1>5 DEF A2, Named
  <2>2. Complete(e, "kubernetes.service_no_ready_endpoints") /\ A2(w) # {} => A2(e) # {}
    BY <1>2, <1>3, <1>4, <1>6, <1>7 DEF A2, Named
  <2> QED
    BY <2>1, <2>2, FoundAgrees DEF Found, EventRuleIds
<1>10. Agree(e, F3(e), F3(w))
  <2>1. A3(e) # {} => A3(w) # {}
    BY <1>3, <1>4, <1>5 DEF A3
  <2>2. Complete(e, "kubernetes.service_port_unresolved") /\ A3(w) # {} => A3(e) # {}
    BY <1>2, <1>3, <1>4, <1>6, <1>7 DEF A3
  <2> QED
    BY <2>1, <2>2, FoundAgrees DEF Found, EventRuleIds
<1> HIDE DEF F1, F2, F3
<1> QED
  BY <1>1, <1>8, <1>9, <1>10 DEF Agree, Finds, Timeless

(* The rules about the cluster DNS.                                        *)
LEMMA DnsRulesAgree == ASSUME NEW e, NEW w, Loaded(e, w) PROVE Agree(e, DnsFindings(e), DnsFindings(w))
<1> DEFINE
     seen(x) == SourceCollected(x, "services") /\ SourceCollected(x, "endpoint_slices")
     backends(x) == {s \in Items(x, "services") : s.dns > 0 /\ HasClusterIP(s)}
     backend(x) == {s \in backends(x) : \A t \in backends(x) : s.dns <= t.dns}
     coredns(x) == {p \in Items(x, "pods") : p.app = "coredns"}
     local(x) == {p \in Items(x, "pods") : p.app = "node-local-dns"}
     problem(x) ==
       \/ backend(x) = {}
       \/ \E s \in backend(x) : ~HasReadyEndpoint(x, s)
       \/ /\ SourceCollected(x, "pods")
          /\ \/ ~\E p \in coredns(x) : Ready(p)
             \/ local(x) # {} /\ ~\E p \in local(x) : Ready(p)
     mismatched(x, h) == Facts(x, h).clusterDNS # {}
         /\ \E s \in backend(x) : s.clusterIP \notin Facts(x, h).clusterDNS
     A1(x) == IF seen(x) THEN {Whole(h) : h \in {y \in Hosts(x) : mismatched(x, y)}} ELSE {}
     A2(x) == IF ~seen(x) \/ ~problem(x) THEN {}
          ELSE IF backend(x) = {} THEN {Whole("cluster-dns")} ELSE Named(backend(x))
     F1(x) == Found("dns.cluster_dns_mismatch", A1(x))
     F2(x) == Found("dns.kube_dns_unavailable", A2(x))
<1>1. ASSUME NEW x, NEW f
      PROVE  f \in DnsFindings(x) <=> f \in F1(x) \/ f \in F2(x)
  <2>1. DnsFindings(x) = F1(x) \cup F2(x)
    BY NothingFound DEF DnsFindings
  <2> HIDE DEF F1, F2
  <2> QED
    BY <2>1
<1> HIDE DEF A1, A2
<1>2. Complete(e, "dns.cluster_dns_mismatch") => NoneLost(e, Hosted) /\ NoneLost(e, Api("services"))
        /\ NoneLost(e, Api("endpoint_slices")) /\ NoneLost(e, Silent("kubelet_config"))
  BY DeclaredIsNotLost DEF Declares, ApiRequirements, Undeclared
<1>3. Complete(e, "dns.kube_dns_unavailable") => NoneLost(e, Api("services"))
        /\ NoneLost(e, Api("endpoint_slices")) /\ NoneLost(e, Api("pods"))
  BY DeclaredIsNotLost DEF Declares, ApiRequirements
<1>4. LeftOf(e, w)
  BY DEF Loaded
<1>5. seen(e) => seen(w) /\ backend(e) = backend(w)
        /\ \A s : HasReadyEndpoint(e, s) <=> HasReadyEndpoint(w, s)
  BY <1>4, PartOfTheSources DEF HasReadyEndpoint, EndpointsOf, SlicesOf
<1>6. seen(w) /\ NoneLost(e, Api("services")) /\ NoneLost(e, Api("endpoint_slices")) => seen(e)
  BY <1>4, AllOfTheSource
<1>7. SourceCollected(e, "pods") => SourceCollected(w, "pods") /\ coredns(e) = coredns(w)
        /\ local(e) = local(w)
  BY <1>4, PartOfTheSources
<1>8. NoneLost(e, Api("pods")) /\ SourceCollected(w, "pods") =>
        SourceCollected(e, "pods") /\ coredns(e) = coredns(w) /\ local(e) = local(w)
  BY <1>4, AllOfTheSource
<1> HIDE DEF seen, backend, backends, coredns, local
<1>9. Agree(e, F1(e), F1(w))
  <2>1. A1(e) # {} => A1(w) # {}
    BY <1>4, SameFacts, <1>5 DEF A1, FactsLeft
  <2>2. Complete(e, "dns.cluster_dns_mismatch") /\ A1(w) # {} => A1(e) # {}
    BY <1>2, <1>4, SameFacts, AllHosts, NotSilent, <1>5, <1>6 DEF A1, FactsKept
  <2> QED
    BY <2>1, <2>2, FoundAgrees DEF Found, EventRuleIds
<1>10. Agree(e, F2(e), F2(w))
  <2>1. A2(e) # {} => A2(w) # {}
    BY <1>4, <1>5, <1>7 DEF A2, Named
  <2>2. Complete(e, "dns.kube_dns_unavailable") /\ A2(w) # {} => A2(e) # {}
    BY <1>3, <1>4, <1>5, <1>6, <1>8 DEF A2, Named
  <2> QED
    BY <2>1, <2>2, FoundAgrees DEF Found, EventRuleIds
<1> HIDE DEF F1, F2
<1> QED
  BY <1>1, <1>9, <1>10 DEF Agree, Finds, Timeless

(* The rules about the configuration of DNS and Cilium.                    *)
LEMMA CiliumRulesAgree ==
  ASSUME NEW e, NEW w, Loaded(e, w)
  PROVE  Agree(e, CiliumFindings(e), CiliumFindings(w))
<1> DEFINE
     expected(x) == {s \in Items(x, "services") : HasClusterIP(s) /\ s.ports # {}}
     missing(x, h) == {s \in expected(x) : s.clusterIP \notin CiliumDocument(x, h)}
     withoutProxy(x) == \A p \in Items(x, "pods") : p.app # "kube-proxy"
     A1(x) == UNION {Named({c \in Items(x, id) : ~c.corefile}) :
         id \in {s \in DnsConfigs : SourceCollected(x, s)}}
     A2(x) == IF SourceCollected(x, "pods") /\ SourceCollected(x, "cilium_config") /\ withoutProxy(x)
          THEN {Whole("cluster") : c \in {y \in Items(x, "cilium_config") : ~y.replacement}} ELSE {}
     A3(x) == {Whole(h) : h \in {y \in Hosts(x) : "invalid" \notin CiliumDocument(x, y)
         /\ missing(x, y) # {}}}
     F1(x) == Found("dns.coredns_config_empty", A1(x))
     F2(x) == Found("cilium.kube_proxy_replacement_disabled", A2(x))
     F3(x) == Found("cilium.service_frontend_missing", A3(x))
<1>1. ASSUME NEW x, NEW f
      PROVE  f \in CiliumFindings(x) <=> f \in F1(x) \/ f \in F2(x) \/ f \in F3(x)
  <2>1. CiliumFindings(x) = F1(x) \cup F2(x) \cup F3(x)
    BY DEF CiliumFindings
  <2> HIDE DEF F1, F2, F3
  <2> QED
    BY <2>1
<1> HIDE DEF A1, A2, A3
<1>2. /\ Complete(e, "dns.coredns_config_empty") => NoneLost(e, Api("coredns_config"))
           /\ NoneLost(e, Api("node_local_dns_config"))
      /\ Complete(e, "cilium.service_frontend_missing") => NoneLost(e, Hosted)
           /\ NoneLost(e, Api("services")) /\ NoneLost(e, Ran("cilium_debug_services"))
           /\ NoneLost(e, Ran("cilium_services"))
  BY DeclaredIsNotLost DEF Declares, ApiRequirements, Undeclared
<1>3. Complete(e, "cilium.kube_proxy_replacement_disabled") => NoneLost(e, Api("cilium_config"))
        /\ NoneLost(e, Api("pods"))
  BY DeclaredIsNotLost DEF Declares, ControlPlaneRequirements
<1>4. LeftOf(e, w)
  BY DEF Loaded
<1>5. Agree(e, F1(e), F1(w))
  <2>1. A1(e) # {} => A1(w) # {}
    BY <1>4, PartOfTheSources DEF A1, Named, DnsConfigs
  <2>2. Complete(e, "dns.coredns_config_empty") /\ A1(w) # {} => A1(e) # {}
    BY <1>2, <1>4, AllOfTheSource DEF A1, Named, DnsConfigs
  <2> QED
    BY <2>1, <2>2, FoundAgrees DEF Found, EventRuleIds
<1>6. Agree(e, F2(e), F2(w))
  <2>1. A2(e) # {} => A2(w) # {}
    BY <1>4, PartOfTheSources DEF A2
  <2>2. Complete(e, "cilium.kube_proxy_replacement_disabled") /\ A2(w) # {} => A2(e) # {}
    BY <1>3, <1>4, AllOfTheSource DEF A2
  <2> QED
    BY <2>1, <2>2, FoundAgrees DEF Found, EventRuleIds
<1>7. Agree(e, F3(e), F3(w))
  <2>1. "cilium.service_frontend_missing" \in Excepted
    BY DEF Excepted, ArguedFromAbsence
  <2>2. Complete(e, "cilium.service_frontend_missing") /\ A3(w) # {} => A3(e) # {}
    BY <1>2, <1>4, AllHosts, AllOfTheCommand, AllOfTheSource DEF A3, CiliumDocument, EtcdCommands, PreviousIds
  <2> QED
    BY <2>1, <2>2, FoundAgrees DEF Found, EventRuleIds
<1> HIDE DEF F1, F2, F3
<1> QED
  BY <1>1, <1>5, <1>6, <1>7 DEF Agree, Finds, Timeless

(* The rules about the control plane.                                      *)
LEMMA ControlPlaneRulesAgree ==
  ASSUME NEW e, NEW w, Loaded(e, w)
  PROVE  Agree(e, ControlPlaneFindings(e), ControlPlaneFindings(w))
<1> DEFINE
     A1(x) == {Whole("kube-apiserver") : c \in {y \in Items(x, "api_readyz") : y.failed}}
     A2(x) == IF SourceCollected(x, "api_services")
         THEN Named({s \in Items(x, "api_services") : ~s.available}) ELSE {}
     A3(x) == IF SourceCollected(x, "nodes") /\ SourceCollected(x, "leases") THEN Named(StaleLeases(x))
         ELSE {}
     A4(x) == IF SourceCollected(x, "pods")
          THEN Named({p \in Items(x, "pods") : p.app \in ControlComponents /\ ~Ready(p)}) ELSE {}
     F1(x) == Found("controlplane.api_readyz_failed", A1(x))
     F2(x) == Found("controlplane.apiservice_unavailable", A2(x))
     F3(x) == Found("controlplane.node_lease_stale", A3(x))
     F4(x) == Found("controlplane.static_pod_unhealthy", A4(x))
<1>1. ASSUME NEW x, NEW f
      PROVE  f \in ControlPlaneFindings(x) <=> f \in F1(x) \/ f \in F2(x) \/ f \in F3(x) \/ f \in F4(x)
  <2>1. ControlPlaneFindings(x) = F1(x) \cup F2(x) \cup F3(x) \cup F4(x)
    BY DEF ControlPlaneFindings
  <2> HIDE DEF F1, F2, F3, F4
  <2> QED
    BY <2>1
<1> HIDE DEF A1, A2, A3, A4
<1>2. /\ Complete(e, "controlplane.api_readyz_failed") => NoneLost(e, Api("api_readyz"))
      /\ Complete(e, "controlplane.apiservice_unavailable") => NoneLost(e, Api("api_services"))
      /\ Complete(e, "controlplane.node_lease_stale") => NoneLost(e, Api("nodes"))
           /\ NoneLost(e, Api("leases"))
  BY DeclaredIsNotLost DEF Declares, ControlPlaneRequirements
<1>3. Complete(e, "controlplane.static_pod_unhealthy") => NoneLost(e, Api("pods"))
  BY DeclaredIsNotLost DEF Declares, ApiRequirements
<1>4. LeftOf(e, w)
  BY DEF Loaded
<1>5. Agree(e, F1(e), F1(w))
  <2>1. A1(e) # {} => A1(w) # {}
    BY <1>4, PartOfTheSources DEF A1
  <2>2. Complete(e, "controlplane.api_readyz_failed") /\ A1(w) # {} => A1(e) # {}
    BY <1>2, <1>4, AllOfTheSource DEF A1
  <2> QED
    BY <2>1, <2>2, FoundAgrees DEF Found, EventRuleIds
<1>6. Agree(e, F2(e), F2(w))
  <2>1. A2(e) # {} => A2(w) # {}
    BY <1>4, PartOfTheSources DEF A2, Named
  <2>2. Complete(e, "controlplane.apiservice_unavailable") /\ A2(w) # {} => A2(e) # {}
    BY <1>2, <1>4, AllOfTheSource DEF A2, Named
  <2> QED
    BY <2>1, <2>2, FoundAgrees DEF Found, EventRuleIds
<1>7. Agree(e, F3(e), F3(w))
  <2>1. A3(e) # {} => A3(w) # {}
    BY <1>4, PartOfTheSources DEF A3, Named, StaleLeases
  <2>2. Complete(e, "controlplane.node_lease_stale") /\ A3(w) # {} => A3(e) # {}
    BY <1>2, <1>4, AllOfTheSource DEF A3, Named, StaleLeases
  <2> QED
    BY <2>1, <2>2, FoundAgrees DEF Found, EventRuleIds
<1>8. Agree(e, F4(e), F4(w))
  <2>1. A4(e) # {} => A4(w) # {}
    BY <1>4, PartOfTheSources DEF A4, Named
  <2>2. Complete(e, "controlplane.static_pod_unhealthy") /\ A4(w) # {} => A4(e) # {}
    BY <1>3, <1>4, AllOfTheSource DEF A4, Named
  <2> QED
    BY <2>1, <2>2, FoundAgrees DEF Found, EventRuleIds
<1> HIDE DEF F1, F2, F3, F4
<1> QED
  BY <1>1, <1>5, <1>6, <1>7, <1>8 DEF Agree, Finds, Timeless

(* The rules about versions.                                               *)
LEMMA VersionRulesAgree ==
  ASSUME NEW e, NEW w, Loaded(e, w)
  PROVE  Agree(e, VersionFindings(e), VersionFindings(w))
<1> DEFINE
     api(x) == {p.version : p \in {y \in Items(x, "pods") : y.app = "kube-apiserver"}}
     oldest(x) == CHOOSE v \in api(x) : \A u \in api(x) : v <= u
     newest(x) == CHOOSE v \in api(x) : \A u \in api(x) : u <= v
     allowedOlder(v) == IF v < 25 THEN 2 ELSE 3
     unsupported(x, v) == v > oldest(x) \/ newest(x) - v > allowedOlder(v)
     A1(x) == IF api(x) # {} /\ newest(x) # oldest(x) THEN {Whole("kube-apiserver")} ELSE {}
     A2(x) == IF api(x) = {} THEN {}
          ELSE (IF newest(x) - oldest(x) > 1 THEN {Part("kube-apiserver", "skew")} ELSE {})
                 \cup {Part(n.name, "kubelet") : n \in {y \in Items(x, "nodes") : unsupported(x, y.version)}}
     F1(x) == Found("inventory.mixed_apiserver_versions", A1(x))
     F2(x) == Found("inventory.unsupported_version_skew", A2(x))
<1>1. ASSUME NEW x, NEW f
      PROVE  f \in VersionFindings(x) <=> f \in F1(x) \/ f \in F2(x)
  <2>1. VersionFindings(x) = F1(x) \cup F2(x)
    BY NothingFound DEF VersionFindings
  <2> HIDE DEF F1, F2
  <2> QED
    BY <2>1
<1> HIDE DEF A1, A2
<1>2. /\ Complete(e, "inventory.mixed_apiserver_versions") => NoneLost(e, Api("pods"))
      /\ Complete(e, "inventory.unsupported_version_skew") => NoneLost(e, Api("nodes"))
           /\ NoneLost(e, Api("pods"))
  BY DeclaredIsNotLost DEF Declares, ApiRequirements
<1>3. LeftOf(e, w)
  BY DEF Loaded
<1>4. api(e) = {} \/ api(e) = api(w)
  BY <1>3, PartOfTheSources
<1>5. api(e) = api(w) => oldest(e) = oldest(w) /\ newest(e) = newest(w)
          /\ \A v : unsupported(e, v) <=> unsupported(w, v)
  OBVIOUS
<1>6. NoneLost(e, Api("pods")) => api(e) = api(w)
  BY <1>3, AllOfTheSource
<1> HIDE DEF api, oldest, newest, unsupported
<1>7. Agree(e, F1(e), F1(w))
  <2>1. A1(e) # {} => A1(w) # {}
    BY <1>3, <1>4, <1>5 DEF A1
  <2>2. Complete(e, "inventory.mixed_apiserver_versions") /\ A1(w) # {} => A1(e) # {}
    BY <1>2, <1>3, <1>5, <1>6 DEF A1
  <2> QED
    BY <2>1, <2>2, FoundAgrees DEF Found, EventRuleIds
<1>8. Agree(e, F2(e), F2(w))
  <2>1. A2(e) # {} => A2(w) # {}
    BY <1>3, PartOfTheSources, <1>4, <1>5 DEF A2
  <2>2. Complete(e, "inventory.unsupported_version_skew") /\ A2(w) # {} => A2(e) # {}
    BY <1>2, <1>3, AllOfTheSource, <1>5, <1>6 DEF A2
  <2> QED
    BY <2>1, <2>2, FoundAgrees DEF Found, EventRuleIds
<1> HIDE DEF F1, F2
<1> QED
  BY <1>1, <1>7, <1>8 DEF Agree, Finds, Timeless

(* The rules about storage.                                                *)
LEMMA StorageRulesAgree ==
  ASSUME NEW e, NEW w, Loaded(e, w)
  PROVE  Agree(e, StorageFindings(e), StorageFindings(w))
<1> DEFINE
     read(x, id) == IF SourceCollected(x, id) THEN Items(x, id) ELSE {}
     failed(x) == {y \in read(x, "volume_attachments") : ~y.attached /\ y.error}
     drivers(x) == {v \in read(x, "pv") : v.driver # "none"}
     absent(x, y) == \E v \in drivers(x), n \in read(x, "csi_nodes") :
                       v.name = y.pv /\ n.name = y.node /\ v.driver \notin n.drivers
     A1(x) == Named({c \in read(x, "pvc") : c.phase = "Pending"})
     A2(x) == IF SourceCollected(x, "storage_classes")
          THEN {Part(c.name, "class") : c \in {y \in read(x, "pvc") :
                  y.class # "none" /\ y.class \notin Names(Items(x, "storage_classes"))}} ELSE {}
     A3(x) == Named({v \in read(x, "pv") : v.phase = "Failed"})
     A4(x) == Named(failed(x))
     A5(x) == IF SourceCollected(x, "pv") /\ SourceCollected(x, "csi_drivers")
          THEN {Part(v.name, "driver") : v
              \in {y \in drivers(x) : y.driver \notin Names(Items(x, "csi_drivers"))}}
               \cup {Part(y.pv, "driver") : y \in {z \in failed(x) : absent(x, z)}} ELSE {}
     F1(x) == Found("storage.pvc_pending", A1(x))
     F2(x) == Found("storage.storage_class_missing", A2(x))
     F3(x) == Found("storage.pv_failed", A3(x))
     F4(x) == Found("storage.volume_attachment_failed", A4(x))
     F5(x) == Found("storage.csi_driver_registration_gap", A5(x))
<1>1. ASSUME NEW x, NEW f
      PROVE  f \in StorageFindings(x) <=> f \in F1(x) \/ f \in F2(x) \/ f \in F3(x) \/ f \in F4(x)
               \/ f \in F5(x)
  <2>1. StorageFindings(x) = F1(x) \cup F2(x) \cup F3(x) \cup F4(x) \cup F5(x)
    BY DEF StorageFindings
  <2> HIDE DEF F1, F2, F3, F4, F5
  <2> QED
    BY <2>1
<1> HIDE DEF A1, A2, A3, A4, A5
<1>2. /\ Complete(e, "storage.pvc_pending") => NoneLost(e, Api("pvc"))
      /\ Complete(e, "storage.storage_class_missing") => NoneLost(e, Api("pvc"))
           /\ NoneLost(e, Api("storage_classes"))
      /\ Complete(e, "storage.pv_failed") => NoneLost(e, Api("pv"))
      /\ Complete(e, "storage.volume_attachment_failed") => NoneLost(e, Api("volume_attachments"))
  BY DeclaredIsNotLost DEF Declares, ControlPlaneRequirements
<1>3. Complete(e, "storage.csi_driver_registration_gap") => NoneLost(e, Api("pv"))
        /\ NoneLost(e, Api("csi_drivers")) /\ NoneLost(e, Api("csi_nodes"))
        /\ NoneLost(e, Api("volume_attachments"))
  BY DeclaredIsNotLost DEF Declares, ControlPlaneRequirements, Undeclared
<1>4. LeftOf(e, w)
  BY DEF Loaded
<1>5. \A id : read(e, id) = read(w, id) \/ read(e, id) = {}
  BY <1>4, PartOfTheSources
<1>6. \A id : NoneLost(e, Api(id)) => read(e, id) = read(w, id)
  BY <1>4, AllOfTheSource
<1> HIDE DEF read
<1>7. Agree(e, F1(e), F1(w))
  <2>1. A1(e) # {} => A1(w) # {}
    BY <1>4, <1>5 DEF A1, Named
  <2>2. Complete(e, "storage.pvc_pending") /\ A1(w) # {} => A1(e) # {}
    BY <1>2, <1>4, <1>6 DEF A1, Named
  <2> QED
    BY <2>1, <2>2, FoundAgrees DEF Found, EventRuleIds
<1>8. Agree(e, F2(e), F2(w))
  <2>1. A2(e) # {} => A2(w) # {}
    BY <1>4, <1>5, PartOfTheSources DEF A2, Names
  <2>2. Complete(e, "storage.storage_class_missing") /\ A2(w) # {} => A2(e) # {}
    BY <1>2, <1>4, <1>6, AllOfTheSource DEF A2, Names
  <2> QED
    BY <2>1, <2>2, FoundAgrees DEF Found, EventRuleIds
<1>9. Agree(e, F3(e), F3(w))
  <2>1. A3(e) # {} => A3(w) # {}
    BY <1>4, <1>5 DEF A3, Named
  <2>2. Complete(e, "storage.pv_failed") /\ A3(w) # {} => A3(e) # {}
    BY <1>2, <1>4, <1>6 DEF A3, Named
  <2> QED
    BY <2>1, <2>2, FoundAgrees DEF Found, EventRuleIds
<1>10. Agree(e, F4(e), F4(w))
  <2>1. A4(e) # {} => A4(w) # {}
    BY <1>4, <1>5 DEF A4, Named
  <2>2. Complete(e, "storage.volume_attachment_failed") /\ A4(w) # {} => A4(e) # {}
    BY <1>2, <1>4, <1>6 DEF A4, Named
  <2> QED
    BY <2>1, <2>2, FoundAgrees DEF Found, EventRuleIds
<1>11. Agree(e, F5(e), F5(w))
  <2>1. A5(e) # {} => A5(w) # {}
    BY <1>4, <1>5, PartOfTheSources DEF A5, Names
  <2>2. Complete(e, "storage.csi_driver_registration_gap") /\ A5(w) # {} => A5(e) # {}
    BY <1>3, <1>4, <1>6, AllOfTheSource DEF A5, Names
  <2> QED
    BY <2>1, <2>2, FoundAgrees DEF Found, EventRuleIds
<1> HIDE DEF F1, F2, F3, F4, F5
<1> QED
  BY <1>1, <1>7, <1>8, <1>9, <1>10, <1>11 DEF Agree, Finds, Timeless

(* The rules about the objects of Cilium.                                  *)
LEMMA CiliumObjectRulesAgree ==
  ASSUME NEW e, NEW w, Loaded(e, w)
  PROVE  Agree(e, CiliumObjectFindings(e), CiliumObjectFindings(w))
<1> DEFINE
     read(x, id) == IF SourceCollected(x, id) THEN Items(x, id) ELSE {}
     A1(x) == Named({y \in read(x, "cilium_endpoints") : ~y.healthy})
     A2(x) == Named({y \in read(x, "cilium_nodes") : y.error})
     A3(x) == Named({y \in read(x, "cilium_network_policies")
         \cup read(x, "cilium_clusterwide_network_policies") : y.failed})
     F1(x) == Found("cilium.endpoint_unhealthy", A1(x))
     F2(x) == Found("cilium.node_ipam_error", A2(x))
     F3(x) == Found("cilium.policy_import_failed", A3(x))
<1>1. ASSUME NEW x, NEW f
      PROVE  f \in CiliumObjectFindings(x) <=> f \in F1(x) \/ f \in F2(x) \/ f \in F3(x)
  <2>1. CiliumObjectFindings(x) = F1(x) \cup F2(x) \cup F3(x)
    BY DEF CiliumObjectFindings
  <2> HIDE DEF F1, F2, F3
  <2> QED
    BY <2>1
<1> HIDE DEF A1, A2, A3
<1>2. /\ Complete(e, "cilium.endpoint_unhealthy") => NoneLost(e, Api("cilium_endpoints"))
      /\ Complete(e, "cilium.node_ipam_error") => NoneLost(e, Api("cilium_nodes"))
      /\ Complete(e, "cilium.policy_import_failed") => NoneLost(e, Api("cilium_network_policies"))
           /\ NoneLost(e, Api("cilium_clusterwide_network_policies"))
  BY DeclaredIsNotLost DEF Declares, ControlPlaneRequirements
<1>3. LeftOf(e, w)
  BY DEF Loaded
<1>4. \A id : read(e, id) = read(w, id) \/ read(e, id) = {}
  BY <1>3, PartOfTheSources
<1>5. \A id : NoneLost(e, Api(id)) => read(e, id) = read(w, id)
  BY <1>3, AllOfTheSource
<1> HIDE DEF read
<1>6. Agree(e, F1(e), F1(w))
  <2>1. A1(e) # {} => A1(w) # {}
    BY <1>3, <1>4 DEF A1, Named
  <2>2. Complete(e, "cilium.endpoint_unhealthy") /\ A1(w) # {} => A1(e) # {}
    BY <1>2, <1>3, <1>5 DEF A1, Named
  <2> QED
    BY <2>1, <2>2, FoundAgrees DEF Found, EventRuleIds
<1>7. Agree(e, F2(e), F2(w))
  <2>1. A2(e) # {} => A2(w) # {}
    BY <1>3, <1>4 DEF A2, Named
  <2>2. Complete(e, "cilium.node_ipam_error") /\ A2(w) # {} => A2(e) # {}
    BY <1>2, <1>3, <1>5 DEF A2, Named
  <2> QED
    BY <2>1, <2>2, FoundAgrees DEF Found, EventRuleIds
<1>8. Agree(e, F3(e), F3(w))
  <2>1. A3(e) # {} => A3(w) # {}
    BY <1>3, <1>4 DEF A3, Named
  <2>2. Complete(e, "cilium.policy_import_failed") /\ A3(w) # {} => A3(e) # {}
    BY <1>2, <1>3, <1>5 DEF A3, Named
  <2> QED
    BY <2>1, <2>2, FoundAgrees DEF Found, EventRuleIds
<1> HIDE DEF F1, F2, F3
<1> QED
  BY <1>1, <1>6, <1>7, <1>8 DEF Agree, Finds, Timeless

(* The rules about Prometheus.                                             *)
LEMMA PrometheusRulesAgree ==
  ASSUME NEW e, NEW w, Loaded(e, w)
  PROVE  Agree(e, PrometheusFindings(e), PrometheusFindings(w))
<1> DEFINE
     read(x, id) == IF id \in DOMAIN x.prom /\ Collected(x.prom[id]) THEN x.prom[id].items ELSE {}
     A1(x) == {Whole(y.target) : y \in {z \in read(x, "alerts") : z.state = "firing"}}
     A2(x) == {Whole("prometheus") : y \in {z \in read(x, "runtimeinfo") : ~z.reloaded}}
     A3(x) == {Whole("prometheus") : y \in {z \in read(x, "runtimeinfo") : z.corruption > 0}}
     F1(x) == Found("prometheus.alert_firing", A1(x))
     F2(x) == Found("prometheus.config_reload_failed", A2(x))
     F3(x) == Found("prometheus.corruption_detected", A3(x))
<1>1. ASSUME NEW x, NEW f
      PROVE  f \in PrometheusFindings(x) <=> f \in F1(x) \/ f \in F2(x) \/ f \in F3(x)
  <2>1. PrometheusFindings(x) = F1(x) \cup F2(x) \cup F3(x)
    BY DEF PrometheusFindings
  <2> HIDE DEF F1, F2, F3
  <2> QED
    BY <2>1
<1> HIDE DEF A1, A2, A3
<1>2. /\ Complete(e, "prometheus.alert_firing") => Seen(e, [kind |-> "cluster", id |-> "prometheus"])
      /\ Complete(e, "prometheus.config_reload_failed") => Seen(e, [kind |-> "cluster", id |-> "prometheus"])
      /\ Complete(e, "prometheus.corruption_detected") => Seen(e, [kind |-> "cluster", id |-> "prometheus"])
  BY MetricsAreSeen DEF PrometheusRules
<1>3. LeftOf(e, w)
  BY DEF Loaded
<1>4. \A id : read(e, id) \subseteq read(w, id)
  BY <1>3, PartOfTheMetrics
<1>5. Seen(e, [kind |-> "cluster", id |-> "prometheus"]) => \A id : read(e, id) = read(w, id)
  BY <1>3, AllOfTheMetrics
<1> HIDE DEF read
<1>6. Agree(e, F1(e), F1(w))
  <2>1. A1(e) # {} => A1(w) # {}
    BY <1>3, <1>4 DEF A1
  <2>2. Complete(e, "prometheus.alert_firing") /\ A1(w) # {} => A1(e) # {}
    BY <1>2, <1>3, <1>5 DEF A1
  <2> QED
    BY <2>1, <2>2, FoundAgrees DEF Found, EventRuleIds
<1>7. Agree(e, F2(e), F2(w))
  <2>1. A2(e) # {} => A2(w) # {}
    BY <1>3, <1>4 DEF A2
  <2>2. Complete(e, "prometheus.config_reload_failed") /\ A2(w) # {} => A2(e) # {}
    BY <1>2, <1>3, <1>5 DEF A2
  <2> QED
    BY <2>1, <2>2, FoundAgrees DEF Found, EventRuleIds
<1>8. Agree(e, F3(e), F3(w))
  <2>1. A3(e) # {} => A3(w) # {}
    BY <1>3, <1>4 DEF A3
  <2>2. Complete(e, "prometheus.corruption_detected") /\ A3(w) # {} => A3(e) # {}
    BY <1>2, <1>3, <1>5 DEF A3
  <2> QED
    BY <2>1, <2>2, FoundAgrees DEF Found, EventRuleIds
<1> HIDE DEF F1, F2, F3
<1> QED
  BY <1>1, <1>6, <1>7, <1>8 DEF Agree, Finds, Timeless

---------------------------------------------------------------------------

(* Rules about the collection, the hosts and etcd; and about the objects.  *)
LEMMA NodeRulesAgree == ASSUME NEW e, NEW w, Loaded(e, w) PROVE Agree(e, NodeFindings(e), NodeFindings(w))
BY CollectionRulesAgree, InventoryRulesAgree, HostRulesAgree, RuntimeRulesAgree, CgroupRulesAgree,
    TimeRulesAgree,
   EtcdRulesAgree, AgreeTogether DEF NodeFindings

LEMMA ClusterRulesAgree ==
  ASSUME NEW e, NEW w, Loaded(e, w)
  PROVE  Agree(e, ClusterFindings(e), ClusterFindings(w))
<1>1. Agree(e, PodFindings(e) \cup WorkloadFindings(e) \cup DegradedFindings(e) \cup PdbFindings(e)
                 \cup ServiceFindings(e) \cup DnsFindings(e),
               PodFindings(w) \cup WorkloadFindings(w) \cup DegradedFindings(w) \cup PdbFindings(w)
                 \cup ServiceFindings(w) \cup DnsFindings(w))
  BY PodRulesAgree, WorkloadRulesAgree, DegradedRuleAgrees, PdbRulesAgree, ServiceRulesAgree, DnsRulesAgree,
     AgreeTogether
<1> QED
  BY <1>1, CiliumRulesAgree, ControlPlaneRulesAgree, VersionRulesAgree, StorageRulesAgree,
      CiliumObjectRulesAgree,
     PrometheusRulesAgree, AgreeTogether DEF ClusterFindings

---------------------------------------------------------------------------

(* What an event of each source is.                                        *)
JournalEvent(h, l) ==
  Event("journal", Classify(l.text, "journal", l.component), h, "none", l.component, l.when,
      Reference("commands", l.number))
PodLogEvent(h, l) ==
  Event("cri_log", Classify(l.text, "cri_log", l.component), h, l.pod, l.component, l.when,
      Reference("pod_logs", l.number))
ClusterEvent(node, l) ==
  Event("kubernetes_event", Classify(l.text, "kubernetes_event", l.component), node, l.pod, l.component,
      l.when,
        Reference("events", l.number))
LogEvent(node, l) ==
  Event("kubernetes_pod_log", Classify(l.text, "kubernetes_pod_log", l.component), node, l.pod,
      l.component, l.when,
        Reference("logs", l.number))
ConditionEvent(n, c) ==
  Event("kubernetes_condition", ConditionCategories(c), n.name, "none", "kubelet", n.since,
      Reference("nodes", 1))

(* An event is made of a line, an object or a unit.                        *)
LEMMA EventsOfTheSources ==
  ASSUME NEW x, NEW v
  PROVE  /\ v \in JournalEvents(x) <=>
              \E h \in Hosts(x) : \E id \in JournalIds : \E l \in Command(x, h, id).items :
                  v = JournalEvent(h, l)
         /\ v \in NodePodLogEvents(x) <=> \E h \in Hosts(x) : \E l \in x.snaps[h].podLogs.items :
              v = PodLogEvent(h, l)
         /\ v \in KubernetesEvents(x) <=> \E l \in Items(x, "events") : v = ClusterEvent(NodeOf(x, l.pod), l)
         /\ v \in KubernetesLogEvents(x) <=> \E l \in x.logs.items : v = LogEvent(NodeOf(x, l.pod), l)
         /\ v \in NodeConditionEvents(x) <=> \E n \in Items(x, "nodes") : \E c \in n.conditions :
              v = ConditionEvent(n, c)
<1>1. v \in JournalEvents(x) <=>
        \E h \in Hosts(x) : \E id \in JournalIds : \E l \in Command(x, h, id).items : v = JournalEvent(h, l)
  BY DEF JournalEvents, JournalEvent, Hosts
<1>2. v \in NodePodLogEvents(x) <=> \E h \in Hosts(x) : \E l \in x.snaps[h].podLogs.items :
        v = PodLogEvent(h, l)
  BY DEF NodePodLogEvents, PodLogEvent, Hosts
<1>3. v \in KubernetesEvents(x) <=> \E l \in Items(x, "events") : v = ClusterEvent(NodeOf(x, l.pod), l)
  BY DEF KubernetesEvents, ClusterEvent
<1>4. v \in KubernetesLogEvents(x) <=> \E l \in x.logs.items : v = LogEvent(NodeOf(x, l.pod), l)
  BY DEF KubernetesLogEvents, LogEvent
<1>5. v \in NodeConditionEvents(x) <=> \E n \in Items(x, "nodes") : \E c \in n.conditions :
        v = ConditionEvent(n, c)
  BY DEF NodeConditionEvents, ConditionEvent
<1> QED
  BY <1>1, <1>2, <1>3, <1>4, <1>5

(* The categories of states.                                               *)
PodStates == {"pod_pending", "pod_failed", "cilium_unhealthy"}
ContainerStates == {"image_pull", "oom_kill", "crash_loop", "container_config_error", "cilium_unhealthy"}
UnitStates == {"kubelet_inactive", "runtime_unavailable"}
Conditions == {"node_not_ready", "disk_pressure", "memory_pressure", "pid_pressure", "network_unavailable"}

(* What the events of Pods and units are.                                  *)
LEMMA PodStateEventsAre ==
  ASSUME NEW x, NEW v \in PodStateEvents(x)
  PROVE  /\ \/ v.source = "kubernetes_pod_state" /\ v.categories \subseteq PodStates /\ v.when = "none"
            \/ v.source = "kubernetes_container_state" /\ v.categories \subseteq ContainerStates
         /\ v.ref = Reference("pods", 1)
         /\ v = Event(v.source, v.categories, v.node, v.pod, v.component, v.when, v.ref)
<1> DEFINE cilium(p) == IF p.app = "cilium" THEN {"cilium_unhealthy"} ELSE {}
           phase(p) == IF p.phase \notin {"Pending", "Failed"} THEN {}
                       ELSE { Event("kubernetes_pod_state",
                                    {IF p.phase = "Pending" THEN "pod_pending" ELSE "pod_failed"}
                                        \cup cilium(p),
                                    p.node, p.name, "none", "none", Reference("pods", 1)) }
           state(p, s) == Event("kubernetes_container_state", ReasonCategories(s) \cup cilium(p), p.node,
               p.name,
                                p.app, IF s = "OOMKilled" THEN p.ended ELSE "none", Reference("pods", 1))
           states(p) == { state(p, s) : s \in {r \in {p.init, p.main} : ReasonCategories(r) # {}} }
<1>1. PICK p \in Items(x, "pods") : v \in phase(p) \cup states(p)
  BY DEF PodStateEvents
<1>2. \A s : ReasonCategories(s) \subseteq ContainerStates
  BY DEF ReasonCategories, ContainerStates
<1>3. CASE v \in phase(p)
  <2>1. v = Event("kubernetes_pod_state", {IF p.phase = "Pending" THEN "pod_pending" ELSE "pod_failed"}
          \cup cilium(p),
                  p.node, p.name, "none", "none", Reference("pods", 1))
    BY <1>3
  <2> QED
    BY <2>1 DEF Event, PodStates
<1>4. CASE v \in states(p)
  <2>1. PICK s : v = state(p, s)
    BY <1>4
  <2>2. v.source = "kubernetes_container_state" /\ v.categories = ReasonCategories(s) \cup cilium(p)
        /\ v.ref = Reference("pods", 1)
             /\ v = Event(v.source, v.categories, v.node, v.pod, v.component, v.when, v.ref)
    BY <2>1 DEF Event
  <2> QED
    BY <1>2, <2>2 DEF ContainerStates
<1> QED
  BY <1>1, <1>3, <1>4

LEMMA ServiceEventsAre ==
  ASSUME NEW x, NEW v \in ServiceStateEvents(x)
  PROVE  /\ v.source = "systemd_state" /\ v.categories \subseteq UnitStates /\ v.when = "none"
         /\ v.ref = Reference("facts", 1) /\ v.pod = "none"
         /\ v = Event(v.source, v.categories, v.node, v.pod, v.component, v.when, v.ref)
<1>1. PICK h, u : v = Event("systemd_state",
        {IF u = "kubelet" THEN "kubelet_inactive" ELSE "runtime_unavailable"},
                            h, "none", u, "none", Reference("facts", 1))
  BY DEF ServiceStateEvents
<1> QED
  BY <1>1 DEF Event, UnitStates

---------------------------------------------------------------------------

(* Where a text may come from, and what only a journal can say.            *)
TextSources == {"journal", "cri_log", "kubernetes_event", "kubernetes_pod_log"}
JournalCategories == NodeContextCategories \cup {"ptrace_security_alert"}

(* What the categories of an event say of its source.                      *)
Sourced(v) ==
  /\ v.source \in AnySource
  /\ v.source = "kubernetes_condition" => v.categories \subseteq Conditions
  /\ v.source = "kubernetes_pod_state" => v.categories \subseteq PodStates /\ v.when = "none"
  /\ v.source = "kubernetes_container_state" => v.categories \subseteq ContainerStates
  /\ v.source = "systemd_state" => v.categories \subseteq UnitStates /\ v.when = "none"
  /\ v.source \in TextSources => v.categories \cap StateCategories = {}
  /\ v.source \in TextSources \ {"journal"} => v.categories \cap JournalCategories = {}
  /\ v.source \in {"journal", "kubernetes_condition", "systemd_state"} => v.pod = "none"

LEMMA Classified ==
  ASSUME NEW text, NEW source \in TextSources, NEW component
  PROVE  /\ Classify(text, source, component) \subseteq text
         /\ source # "journal" => Classify(text, source, component) \cap JournalCategories = {}
BY DEF Classify, TextSources, JournalCategories, NodeContextCategories, NpdCategories

(* The events before any is suppressed or dropped.                         *)
RawEvents(x) ==
  JournalEvents(x) \cup NodePodLogEvents(x) \cup KubernetesEvents(x) \cup NodeConditionEvents(x)
    \cup PodStateEvents(x) \cup KubernetesLogEvents(x) \cup ServiceStateEvents(x)

Shown(x, v) == v.categories # {} /\ (x.options.cgroup \/ "cgroup_access_denied" \notin v.categories)

LEMMA EventsAreRaw ==
  ASSUME NEW x, NEW v
  PROVE  v \in Events(x) <=> v \in RawEvents(x) /\ Shown(x, v) /\ v \notin x.dropped
BY DEF Events, RawEvents, Shown

(* The events of a world, and of what is left of it, are of such sources.  *)
LEMMA EventsAreSourced ==
  ASSUME NEW w, IsWorld(w), NEW v \in Events(w)
  PROVE  Sourced(v)
<1>1. v \in RawEvents(w)
  BY EventsAreRaw
<1>2. CASE v \in JournalEvents(w)
  <2>1. PICK h \in Hosts(w), id \in JournalIds : \E l \in Command(w, h, id).items : v = JournalEvent(h, l)
    BY <1>2, EventsOfTheSources
  <2>2. PICK l \in Command(w, h, id).items : v = JournalEvent(h, l)
    BY <2>1
  <2>3. l.text \cap StateCategories = {}
    BY <2>2 DEF IsWorld, IsSnapshot, AreLines, Command
  <2> QED
    BY <2>2, <2>3, Classified DEF JournalEvent, Event, Sourced, AnySource, TextSources
<1>3. CASE v \in NodePodLogEvents(w)
  <2>1. PICK h \in Hosts(w) : \E l \in w.snaps[h].podLogs.items : v = PodLogEvent(h, l)
    BY <1>3, EventsOfTheSources
  <2>2. PICK l \in w.snaps[h].podLogs.items : v = PodLogEvent(h, l)
    BY <2>1
  <2>3. l.text \cap StateCategories = {}
    BY <2>2 DEF IsWorld, IsSnapshot, AreLines
  <2> QED
    BY <2>2, <2>3, Classified DEF PodLogEvent, Event, Sourced, AnySource, TextSources
<1>4. CASE v \in KubernetesEvents(w)
  <2>1. PICK l \in Items(w, "events") : v = ClusterEvent(NodeOf(w, l.pod), l)
    BY <1>4, EventsOfTheSources
  <2>2. l.text \cap StateCategories = {}
    BY <2>1 DEF IsWorld, AreLines
  <2> QED
    BY <2>1, <2>2, Classified DEF ClusterEvent, Event, Sourced, AnySource, TextSources
<1>5. CASE v \in KubernetesLogEvents(w)
  <2>1. PICK l \in w.logs.items : v = LogEvent(NodeOf(w, l.pod), l)
    BY <1>5, EventsOfTheSources
  <2>2. l.text \cap StateCategories = {}
    BY <2>1 DEF IsWorld, AreLines
  <2> QED
    BY <2>1, <2>2, Classified DEF LogEvent, Event, Sourced, AnySource, TextSources
<1>6. CASE v \in NodeConditionEvents(w)
  <2>1. PICK n \in Items(w, "nodes") : \E c \in n.conditions : v = ConditionEvent(n, c)
    BY <1>6, EventsOfTheSources
  <2>2. PICK c \in n.conditions : v = ConditionEvent(n, c)
    BY <2>1
  <2>3. c \in {"NotReady", "DiskPressure", "MemoryPressure", "PIDPressure", "NetworkUnavailable"}
    BY <2>2 DEF IsWorld
  <2>4. ConditionCategories(c) \subseteq Conditions
    BY <2>3 DEF ConditionCategories, Conditions
  <2> QED
    BY <2>2, <2>4 DEF ConditionEvent, Event, Sourced, AnySource, TextSources
<1>7. CASE v \in PodStateEvents(w)
  BY <1>7, PodStateEventsAre DEF Sourced, AnySource, TextSources
<1>8. CASE v \in ServiceStateEvents(w)
  BY <1>8, ServiceEventsAre DEF Sourced, AnySource, TextSources
<1> QED
  BY <1>1, <1>2, <1>3, <1>4, <1>5, <1>6, <1>7, <1>8 DEF RawEvents

---------------------------------------------------------------------------

(* An event whose host the Pods tell, with the host that those of the world *)
(* tell.                                                                   *)
PlacedByPods == {"kubernetes_event", "kubernetes_pod_log"}
Placed(w, v) ==
  Event(v.source, v.categories, IF v.source \in PlacedByPods THEN NodeOf(w, v.pod) ELSE v.node, v.pod,
      v.component,
        v.when, v.ref)

IsEvent(x, v) ==
  /\ v = Event(v.source, v.categories, v.node, v.pod, v.component, v.when, v.ref)
  /\ v.source \in PlacedByPods => v.node = NodeOf(x, v.pod)

LEMMA EventsAreEvents == ASSUME NEW x, NEW v \in RawEvents(x) PROVE IsEvent(x, v)
<1>1. CASE v \in JournalEvents(x)
  BY <1>1, EventsOfTheSources DEF JournalEvent, Event, IsEvent, PlacedByPods
<1>2. CASE v \in NodePodLogEvents(x)
  BY <1>2, EventsOfTheSources DEF PodLogEvent, Event, IsEvent, PlacedByPods
<1>3. CASE v \in KubernetesEvents(x)
  BY <1>3, EventsOfTheSources DEF ClusterEvent, Event, IsEvent, PlacedByPods
<1>4. CASE v \in KubernetesLogEvents(x)
  BY <1>4, EventsOfTheSources DEF LogEvent, Event, IsEvent, PlacedByPods
<1>5. CASE v \in NodeConditionEvents(x)
  BY <1>5, EventsOfTheSources DEF ConditionEvent, Event, IsEvent, PlacedByPods
<1>6. CASE v \in PodStateEvents(x)
  BY <1>6, PodStateEventsAre DEF PlacedByPods, IsEvent
<1>7. CASE v \in ServiceStateEvents(x)
  BY <1>7, ServiceEventsAre DEF PlacedByPods, IsEvent
<1> QED
  BY <1>1, <1>2, <1>3, <1>4, <1>5, <1>6, <1>7 DEF RawEvents

LEMMA PlacedFields ==
  ASSUME NEW w, NEW v
  PROVE  /\ Placed(w, v).source = v.source /\ Placed(w, v).categories = v.categories
              /\ Placed(w, v).pod = v.pod
         /\ Placed(w, v).component = v.component /\ Placed(w, v).when = v.when /\ Placed(w, v).ref = v.ref
         /\ v.source \notin PlacedByPods => Placed(w, v).node = v.node
BY DEF Placed, Event

---------------------------------------------------------------------------

(* The Pods are all there or none is, so a host they tell is the right     *)
(* one.                                                                    *)
LEMMA PodsTellTheHost ==
  ASSUME NEW e, NEW w, LeftOf(e, w), NEW pod
  PROVE  /\ NodeOf(e, pod) = NodeOf(w, pod) \/ NodeOf(e, pod) = "none"
         /\ NoneLost(e, Api("pods")) => NodeOf(e, pod) = NodeOf(w, pod)
<1>1. Items(e, "pods") = {} => NodeOf(e, pod) = "none"
  BY DEF NodeOf
<1>2. Items(e, "pods") = Items(w, "pods") => NodeOf(e, pod) = NodeOf(w, pod)
  BY DEF NodeOf
<1> QED
  BY <1>1, <1>2, PartOfTheSources, AllOfTheSource

(* An event with a host is the event of the world.                         *)
LEMMA PlacedIsItself ==
  ASSUME NEW e, NEW w, LeftOf(e, w), NEW v \in Events(e),
         v.node # "none" \/ v.source \notin PlacedByPods \/ NoneLost(e, Api("pods"))
  PROVE  Placed(w, v) = v
<1>1. IsEvent(e, v)
  BY EventsAreRaw, EventsAreEvents
<1>2. v.source \in PlacedByPods => NodeOf(w, v.pod) = v.node
  BY <1>1, PodsTellTheHost DEF IsEvent
<1> QED
  BY <1>1, <1>2 DEF Placed, IsEvent

(* Two events stay two.                                                    *)
LEMMA PlacedApart ==
  ASSUME NEW e, NEW w, NEW v1 \in Events(e), NEW v2 \in Events(e), Placed(w, v1) = Placed(w, v2)
  PROVE  v1 = v2
<1>1. IsEvent(e, v1) /\ IsEvent(e, v2)
  BY EventsAreRaw, EventsAreEvents
<1>2. /\ v1.source = v2.source /\ v1.categories = v2.categories /\ v1.pod = v2.pod
           /\ v1.component = v2.component
      /\ v1.when = v2.when /\ v1.ref = v2.ref
      /\ v1.source \notin PlacedByPods => v1.node = v2.node
  BY PlacedFields
<1>3. v1.node = v2.node
  BY <1>1, <1>2 DEF IsEvent
<1> QED
  BY <1>1, <1>2, <1>3 DEF IsEvent

(* What is found in the evidence is found in the world.                    *)
LEMMA EventOfTheWorld ==
  ASSUME NEW e, NEW w, Loaded(e, w), NEW v \in Events(e), v.source # "systemd_state"
  PROVE  Placed(w, v) \in Events(w)
<1>1. LeftOf(e, w) /\ IsWorld(w)
  BY DEF Loaded
<1>2. v \in RawEvents(e) /\ Shown(e, v)
  BY EventsAreRaw
<1>3. Shown(w, Placed(w, v)) /\ Placed(w, v) \notin w.dropped
  BY <1>1, <1>2, PlacedFields DEF Shown, LeftOf, IsWorld
<1>4. Hosts(e) \subseteq Hosts(w)
  BY <1>1 DEF LeftOf
<1>5. CASE v \in JournalEvents(e)
  <2>1. PICK h \in Hosts(e), id \in JournalIds : \E l \in Command(e, h, id).items : v = JournalEvent(h, l)
    BY <1>5, EventsOfTheSources
  <2>2. PICK l \in Command(w, h, id).items : v = JournalEvent(h, l)
    BY <1>1, <2>1, PartOfTheCommands
  <2>3. v \in JournalEvents(w)
    BY <1>4, <2>2, EventsOfTheSources
  <2>4. Placed(w, v) = v
    BY <1>1, <2>2, PlacedIsItself DEF JournalEvent, Event, PlacedByPods
  <2> QED
    BY <1>3, <2>3, <2>4, EventsAreRaw DEF RawEvents
<1>6. CASE v \in NodePodLogEvents(e)
  <2>1. PICK h \in Hosts(e) : \E l \in e.snaps[h].podLogs.items : v = PodLogEvent(h, l)
    BY <1>6, EventsOfTheSources
  <2>2. PICK l \in w.snaps[h].podLogs.items : v = PodLogEvent(h, l)
    BY <1>1, <2>1 DEF LeftOf, SnapshotOf, PartOf
  <2>3. v \in NodePodLogEvents(w)
    BY <1>4, <2>2, EventsOfTheSources
  <2>4. Placed(w, v) = v
    BY <1>1, <2>2, PlacedIsItself DEF PodLogEvent, Event, PlacedByPods
  <2> QED
    BY <1>3, <2>3, <2>4, EventsAreRaw DEF RawEvents
<1>7. CASE v \in KubernetesEvents(e)
  <2>1. PICK l \in Items(e, "events") : v = ClusterEvent(NodeOf(e, l.pod), l)
    BY <1>7, EventsOfTheSources
  <2>2. Placed(w, v) = ClusterEvent(NodeOf(w, l.pod), l)
    BY <2>1 DEF Placed, ClusterEvent, Event, PlacedByPods
  <2>3. l \in Items(w, "events")
    BY <1>1, <2>1, PartOfTheSources
  <2>4. Placed(w, v) \in KubernetesEvents(w)
    BY <2>2, <2>3, EventsOfTheSources
  <2> QED
    BY <1>3, <2>4, EventsAreRaw DEF RawEvents
<1>8. CASE v \in KubernetesLogEvents(e)
  <2>1. PICK l \in e.logs.items : v = LogEvent(NodeOf(e, l.pod), l)
    BY <1>8, EventsOfTheSources
  <2>2. Placed(w, v) = LogEvent(NodeOf(w, l.pod), l)
    BY <2>1 DEF Placed, LogEvent, Event, PlacedByPods
  <2>3. l \in w.logs.items
    BY <1>1, <2>1 DEF LeftOf, PartOf
  <2>4. Placed(w, v) \in KubernetesLogEvents(w)
    BY <2>2, <2>3, EventsOfTheSources
  <2> QED
    BY <1>3, <2>4, EventsAreRaw DEF RawEvents
<1>9. CASE v \in NodeConditionEvents(e)
  <2>1. PICK n \in Items(e, "nodes") : \E c \in n.conditions : v = ConditionEvent(n, c)
    BY <1>9, EventsOfTheSources
  <2>2. n \in Items(w, "nodes")
    BY <1>1, <2>1, PartOfTheSources
  <2>3. v \in NodeConditionEvents(w)
    BY <2>1, <2>2, EventsOfTheSources
  <2>4. Placed(w, v) = v
    BY <1>1, <2>1, PlacedIsItself DEF ConditionEvent, Event, PlacedByPods
  <2> QED
    BY <1>3, <2>3, <2>4, EventsAreRaw DEF RawEvents
<1>10. CASE v \in PodStateEvents(e)
  <2>1. \E p \in Items(e, "pods") : TRUE
    BY <1>10 DEF PodStateEvents
  <2>2. Items(e, "pods") = Items(w, "pods")
    BY <1>1, <2>1, PartOfTheSources
  <2>3. v \in PodStateEvents(w)
    BY <1>10, <2>2 DEF PodStateEvents
  <2>4. Placed(w, v) = v
    BY <1>1, <1>10, PodStateEventsAre, PlacedIsItself DEF PlacedByPods
  <2> QED
    BY <1>3, <2>3, <2>4, EventsAreRaw DEF RawEvents
<1>11. CASE v \in ServiceStateEvents(e)
  BY <1>11, ServiceEventsAre
<1> QED
  BY <1>2, <1>5, <1>6, <1>7, <1>8, <1>9, <1>10, <1>11 DEF RawEvents

---------------------------------------------------------------------------

(* All that an event may come from is there.                               *)
WholeSource(e, source) ==
  /\ source \in {"journal", "cri_log"} => NoneLost(e, Hosted)
  /\ source = "journal" => NoneLost(e, Silent("previous_boot")) /\ \A id \in JournalIds : NoneLost(e, Ran(id))
  /\ source = "cri_log" => NoneLost(e, HostPodLogs) /\ NoneLost(e, Silent("pod_logs"))
  /\ source = "kubernetes_event" => NoneLost(e, Api("events"))
  /\ source = "kubernetes_condition" => NoneLost(e, Api("nodes"))
  /\ source \in {"kubernetes_pod_state", "kubernetes_container_state"} => NoneLost(e, Api("pods"))
  /\ source = "kubernetes_pod_log" => NoneLost(e, Api("logs")) /\ NoneLost(e, Silent("logs"))

(* What is found in the world is found in the evidence, if the source of   *)
(* the event is whole.                                                     *)
LEMMA EventOfTheEvidence ==
  ASSUME NEW e, NEW w, Loaded(e, w), e.dropped = {}, NEW u \in Events(w), u.source # "systemd_state",
         WholeSource(e, u.source)
  PROVE  \E v \in Events(e) : Placed(w, v) = u
<1>1. LeftOf(e, w) /\ IsWorld(w)
  BY DEF Loaded
<1>2. u \in RawEvents(w) /\ Shown(w, u)
  BY EventsAreRaw
<1>3. ASSUME NEW v \in RawEvents(e), Placed(w, v) = u
      PROVE  \E k \in Events(e) : Placed(w, k) = u
  <2>1. v.categories = u.categories
    BY <1>3, PlacedFields
  <2>2. Shown(e, v)
    BY <1>1, <1>2, <2>1 DEF Shown, LeftOf
  <2> QED
    BY <1>3, <2>2, EventsAreRaw
<1>4. ASSUME u \in RawEvents(e), u.source \notin PlacedByPods
      PROVE  \E v \in Events(e) : Placed(w, v) = u
  <2>1. u = Event(u.source, u.categories, u.node, u.pod, u.component, u.when, u.ref)
    BY <1>2, EventsAreEvents DEF IsEvent
  <2>2. Placed(w, u) = u
    BY <1>4, <2>1 DEF Placed
  <2> QED
    BY <1>3, <1>4, <2>2
<1>5. CASE u \in JournalEvents(w)
  <2>1. PICK h \in Hosts(w), id \in JournalIds : \E l \in Command(w, h, id).items : u = JournalEvent(h, l)
    BY <1>5, EventsOfTheSources
  <2>2. u.source = "journal"
    BY <2>1 DEF JournalEvent, Event
  <2>3. Hosts(e) = Hosts(w) /\ Command(e, h, id) = Command(w, h, id)
    BY <1>1, <2>2, AllHosts, AllOfTheCommand DEF WholeSource, JournalIds, EtcdCommands
  <2>4. u \in JournalEvents(e)
    BY <2>1, <2>3, EventsOfTheSources
  <2> QED
    BY <1>4, <2>2, <2>4 DEF RawEvents, PlacedByPods
<1>6. CASE u \in NodePodLogEvents(w)
  <2>1. PICK h \in Hosts(w) : \E l \in w.snaps[h].podLogs.items : u = PodLogEvent(h, l)
    BY <1>6, EventsOfTheSources
  <2>2. u.source = "cri_log"
    BY <2>1 DEF PodLogEvent, Event
  <2>3. Hosts(e) = Hosts(w) /\ e.snaps[h].podLogs = w.snaps[h].podLogs
    BY <1>1, <2>2, AllHosts, AllOfThePodLogs DEF WholeSource
  <2>4. u \in NodePodLogEvents(e)
    BY <2>1, <2>3, EventsOfTheSources
  <2> QED
    BY <1>4, <2>2, <2>4 DEF RawEvents, PlacedByPods
<1>7. CASE u \in KubernetesEvents(w)
  <2>1. PICK l \in Items(w, "events") : u = ClusterEvent(NodeOf(w, l.pod), l)
    BY <1>7, EventsOfTheSources
  <2>2. u.source = "kubernetes_event"
    BY <2>1 DEF ClusterEvent, Event
  <2>3. l \in Items(e, "events")
    BY <1>1, <2>1, <2>2, AllOfTheSource DEF WholeSource
  <2>4. ClusterEvent(NodeOf(e, l.pod), l) \in KubernetesEvents(e)
    BY <2>3, EventsOfTheSources
  <2>5. Placed(w, ClusterEvent(NodeOf(e, l.pod), l)) = u
    BY <2>1 DEF Placed, ClusterEvent, Event, PlacedByPods
  <2> QED
    BY <1>3, <2>4, <2>5 DEF RawEvents
<1>8. CASE u \in KubernetesLogEvents(w)
  <2>1. PICK l \in w.logs.items : u = LogEvent(NodeOf(w, l.pod), l)
    BY <1>8, EventsOfTheSources
  <2>2. u.source = "kubernetes_pod_log"
    BY <2>1 DEF LogEvent, Event
  <2>3. l \in e.logs.items
    BY <1>1, <2>1, <2>2, AllOfTheLogs DEF WholeSource
  <2>4. LogEvent(NodeOf(e, l.pod), l) \in KubernetesLogEvents(e)
    BY <2>3, EventsOfTheSources
  <2>5. Placed(w, LogEvent(NodeOf(e, l.pod), l)) = u
    BY <2>1 DEF Placed, LogEvent, Event, PlacedByPods
  <2> QED
    BY <1>3, <2>4, <2>5 DEF RawEvents
<1>9. CASE u \in NodeConditionEvents(w)
  <2>1. PICK n \in Items(w, "nodes") : \E c \in n.conditions : u = ConditionEvent(n, c)
    BY <1>9, EventsOfTheSources
  <2>2. u.source = "kubernetes_condition"
    BY <2>1 DEF ConditionEvent, Event
  <2>3. n \in Items(e, "nodes")
    BY <1>1, <2>1, <2>2, AllOfTheSource DEF WholeSource
  <2>4. u \in NodeConditionEvents(e)
    BY <2>1, <2>3, EventsOfTheSources
  <2> QED
    BY <1>4, <2>2, <2>4 DEF RawEvents, PlacedByPods
<1>10. CASE u \in PodStateEvents(w)
  <2>1. u.source \in {"kubernetes_pod_state", "kubernetes_container_state"}
    BY <1>10, PodStateEventsAre
  <2>2. Items(e, "pods") = Items(w, "pods")
    BY <1>1, <2>1, AllOfTheSource DEF WholeSource
  <2>3. u \in PodStateEvents(e)
    BY <1>10, <2>2 DEF PodStateEvents
  <2> QED
    BY <1>4, <2>1, <2>3 DEF RawEvents, PlacedByPods
<1>11. CASE u \in ServiceStateEvents(w)
  BY <1>11, ServiceEventsAre
<1> QED
  BY <1>2, <1>5, <1>6, <1>7, <1>8, <1>9, <1>10, <1>11 DEF RawEvents

---------------------------------------------------------------------------

(* Where an event of a category can be found.                              *)
LEMMA SourceOfCategory ==
  ASSUME NEW v, Sourced(v), NEW c \in v.categories
  PROVE  /\ c \in JournalCategories \ UnitStates => v.source = "journal"
         /\ c \in Conditions => v.source = "kubernetes_condition"
         /\ c = "cilium_unhealthy" => v.source \in {"kubernetes_pod_state", "kubernetes_container_state"}
         /\ c \in ContainerStates \ {"cilium_unhealthy"} => v.source \in TextSources
              \cup {"kubernetes_container_state"}
         /\ c \notin StateCategories \cup ContainerStates \cup UnitStates => v.source \in TextSources
         /\ c \notin UnitStates => v.source # "systemd_state"
         /\ c = "runtime_unavailable" /\ v.when # "none" => v.source = "journal"
         /\ c = "kubelet_inactive" => v.when = "none"
<1>1. JournalCategories \cap (StateCategories \cup Conditions \cup PodStates \cup ContainerStates) = {}
  BY DEF JournalCategories, NodeContextCategories, NpdCategories, StateCategories, Conditions, PodStates,
      ContainerStates
<1>2. Conditions \subseteq StateCategories /\ PodStates \subseteq StateCategories
        /\ "kubelet_inactive" \in StateCategories
      /\ "runtime_unavailable" \in JournalCategories
  BY DEF Conditions, PodStates, StateCategories, JournalCategories, NodeContextCategories
<1>3. /\ Conditions \cap (PodStates \cup ContainerStates \cup UnitStates) = {}
      /\ "cilium_unhealthy" \notin Conditions \cup UnitStates /\ "cilium_unhealthy" \in StateCategories
      /\ (ContainerStates \ {"cilium_unhealthy"}) \cap (Conditions \cup PodStates \cup UnitStates) = {}
      /\ {"runtime_unavailable", "kubelet_inactive"} \cap (Conditions \cup PodStates \cup ContainerStates)
           = {}
  BY DEF Conditions, PodStates, ContainerStates, UnitStates, StateCategories
<1>4. v.source \in TextSources
        \cup {"kubernetes_condition", "kubernetes_pod_state", "kubernetes_container_state", "systemd_state"}
  BY DEF Sourced, AnySource, TextSources
<1> QED
  BY <1>1, <1>2, <1>3, <1>4 DEF Sourced

---------------------------------------------------------------------------

(* What the rules about events are complete with.                          *)
JournalRules ==
  {"node.conntrack_full", "node.filesystem_error", "node.filesystem_warning", "node.hardware_error",
   "node.io_error", "node.kernel_oops", "node.task_hung", "node.unregister_netdevice",
   "security_agent.ptrace_alert", "node.oom_detected", "cgroup.service_failure", "network.cni_unavailable",
   "correlation.node_runtime_failure"}
TextRules ==
  {"kubernetes.image_pull_failure", "kubernetes.failed_scheduling", "kubernetes.probe_failures",
   "storage.volume_operation_failure", "dns.coredns_errors", "network.ipv6_disabled",
   "controlplane.authentication_config_read_error"}
PlacedRules ==
  {"correlation.node_cni_failure", "correlation.memory_oom_failure", "correlation.storage_failure",
   "correlation.certificate_api_failure", "correlation.conntrack_network_failure"}

(* A complete rule has all the journals, or all the texts.                 *)
LEMMA CompleteOfJournals ==
  ASSUME NEW e, NEW rule \in JournalRules, Complete(e, rule)
  PROVE  WholeSource(e, "journal")
<1>1. \E row \in Undeclared : rule \in row.rules /\ row.of = Journals
  BY DEF Undeclared, JournalRules
<1>2. \A q \in Journals : NoneLost(e, q)
  BY <1>1, CompleteRow
<1>3. NoneLost(e, Hosted)
  BY DeclaredIsNotLost DEF Declares, NodeRequirements, CorrelationRequirements, JournalRules
<1> QED
  BY <1>2, <1>3 DEF Journals, WholeSource

LEMMA CompleteOfTails ==
  ASSUME NEW e, NEW rule, Complete(e, rule),
         rule \in {"node.oom_detected", "network.cni_unavailable", "correlation.probe_network_failure"}
  PROVE  NoneLost(e, Silent("pod_logs")) /\ NoneLost(e, Silent("logs"))
<1>1. \E row \in Undeclared : rule \in row.rules /\ Tails \subseteq row.of
  BY DEF Undeclared
<1>2. \A q \in Tails : NoneLost(e, q)
  BY <1>1, CompleteRow
<1> QED
  BY <1>2 DEF Tails

LEMMA WholeTexts ==
  ASSUME NEW e, \A q \in Texts : NoneLost(e, q), NEW source \in TextSources
  PROVE  WholeSource(e, source)
<1>1. Silent("previous_boot") \in Texts /\ \A id \in JournalIds : Ran(id) \in Texts
  BY DEF Texts, Journals
<1>2. {Hosted, HostPodLogs, Api("events"), Api("logs"), Silent("pod_logs"), Silent("logs")} \subseteq Texts
  BY DEF Texts, Tails
<1> QED
  BY <1>1, <1>2 DEF WholeSource, TextSources

LEMMA CompleteOfTexts ==
  ASSUME NEW e, NEW rule \in TextRules \cup PlacedRules, Complete(e, rule)
  PROVE  /\ \A source \in TextSources : WholeSource(e, source)
         /\ NoneLost(e, Hosted)
         /\ rule \in PlacedRules => NoneLost(e, Api("pods"))
<1>1. CASE rule \in TextRules
  <2>1. \E row \in Undeclared : rule \in row.rules /\ row.of = Texts
    BY <1>1 DEF Undeclared, TextRules
  <2>2. \A q \in Texts : NoneLost(e, q)
    BY <2>1, CompleteRow
  <2>3. rule \notin PlacedRules /\ Hosted \in Texts
    BY <1>1 DEF TextRules, PlacedRules, Texts
  <2> QED
    BY <2>2, <2>3, WholeTexts
<1>2. CASE rule \in PlacedRules
  <2>1. \E row \in Undeclared : rule \in row.rules /\ row.of = Texts \cup {Api("pods")}
    BY <1>2 DEF Undeclared, PlacedRules
  <2>2. \A q \in Texts \cup {Api("pods")} : NoneLost(e, q)
    BY <2>1, CompleteRow
  <2>3. Hosted \in Texts
    BY DEF Texts
  <2> QED
    BY <2>2, <2>3, WholeTexts
<1> QED
  BY <1>1, <1>2

---------------------------------------------------------------------------

(* The tables of the rules that are made of categories and sources.        *)
TimedRows ==
  StateRules \cup SignatureRules \cup TailRules
    \cup {[rule |-> r.rule, categories |-> r.categories, sources |-> AnySource] : r \in KernelRules}
ProbeRow == [rule |-> "kubernetes.probe_failures", categories |-> {"probe_failure"}, sources |-> AnySource]
EventRows == TimedRows \cup {ProbeRow}

(* A rule about events finds something when there is such an event.        *)
LEMMA EventFindingFinds ==
  ASSUME NEW rule, NEW events, NEW r
  PROVE  Finds(EventFinding(rule, events), r) <=> r = rule /\ events # {}
<1>1. CASE events = {}
  <2>1. EventFinding(rule, events) = {}
    BY <1>1 DEF EventFinding
  <2> QED
    BY <1>1, <2>1 DEF Finds
<1>2. CASE events # {}
  <2> DEFINE f == Finding(rule, {Target(v) : v \in events}, {v.ref : v \in events}, {v.when : v \in events})
  <2>1. EventFinding(rule, events) = {f}
    BY <1>2 DEF EventFinding
  <2>2. f.rule = rule
    BY DEF Finding
  <2> QED
    BY <1>2, <2>1, <2>2 DEF Finds
<1> QED
  BY <1>1, <1>2

LEMMA EventRulesFind ==
  ASSUME NEW events, NEW rule
  PROVE  Finds(EventRuleFindings(events), rule) <=>
           \E row \in EventRows : row.rule = rule /\ Having(events, row.categories, row.sources) # {}
<1> DEFINE having(row) == Having(events, row.categories, row.sources)
           of(row) == EventFinding(row.rule, having(row))
           kernel(r) == [rule |-> r.rule, categories |-> r.categories, sources |-> AnySource]
<1>1. \A f : f \in EventRuleFindings(events) <=>
              (\E row \in TimedRows : f \in of(row)) \/ f \in ProbeFindings(events)
  <2>1. \A r : of(kernel(r)) = EventFinding(r.rule, Having(events, r.categories, AnySource))
    OBVIOUS
  <2>2. \A row : row \in TimedRows <=> \/ row \in StateRules \cup SignatureRules \cup TailRules
                                      \/ \E r \in KernelRules : row = kernel(r)
    BY DEF TimedRows
  <2>3. \A f : f \in EventRuleFindings(events) <=>
                \/ \E row \in StateRules \cup SignatureRules \cup TailRules : f \in of(row)
                \/ \E r \in KernelRules : f \in EventFinding(r.rule, Having(events, r.categories, AnySource))
                \/ f \in ProbeFindings(events)
    <3> DEFINE A == UNION {of(row) : row \in StateRules \cup SignatureRules \cup TailRules}
               B == UNION {EventFinding(r.rule, Having(events, r.categories, AnySource)) : r \in KernelRules}
    <3>1. EventRuleFindings(events) = A \cup B \cup ProbeFindings(events)
      BY DEF EventRuleFindings
    <3> QED
      BY <3>1
  <2> HIDE DEF of, kernel
  <2> QED
    BY <2>1, <2>2, <2>3
<1>2. \A row : Finds(of(row), rule) <=> rule = row.rule /\ having(row) # {}
  BY EventFindingFinds
<1>3. Finds(ProbeFindings(events), rule) <=> rule = ProbeRow.rule /\ having(ProbeRow) # {}
  <2> DEFINE made(s) == Finding("kubernetes.probe_failures", {Target(v) : v \in s}, {v.ref : v \in s}, {})
  <2>1. /\ ProbeRow.rule = "kubernetes.probe_failures"
        /\ having(ProbeRow) = Having(events, {"probe_failure"}, AnySource)
    BY DEF ProbeRow
  <2>2. ProbeFindings(events) = {made(s) : s \in {having(ProbeRow)} \ {{}}}
    BY <2>1 DEF ProbeFindings
  <2>3. \A s : made(s).rule = "kubernetes.probe_failures"
    BY DEF Finding
  <2> HIDE DEF made, having
  <2> QED
    BY <2>1, <2>2, <2>3 DEF Finds
<1> HIDE DEF of, having
<1>4. Finds(EventRuleFindings(events), rule) <=>
        (\E row \in TimedRows : Finds(of(row), rule)) \/ Finds(ProbeFindings(events), rule)
  BY <1>1 DEF Finds
<1>5. (\E row \in EventRows : row.rule = rule /\ having(row) # {}) <=>
        (\E row \in TimedRows : row.rule = rule /\ having(row) # {})
          \/ (rule = ProbeRow.rule /\ having(ProbeRow) # {})
  BY DEF EventRows
<1> QED
  BY <1>2, <1>3, <1>4, <1>5 DEF having

(* The sources of the events that a complete rule is made of are whole.    *)
LEMMA EventRowsAreWhole ==
  ASSUME NEW e, NEW row \in EventRows, Complete(e, row.rule), NEW v, Sourced(v), v.source \in row.sources,
         v.categories \cap row.categories # {}
  PROVE  WholeSource(e, v.source)
<1>1. PICK c \in row.categories : c \in v.categories
  OBVIOUS
<1>2. CASE row.rule \in JournalRules \ {"node.oom_detected", "network.cni_unavailable"}
  <2>1. row.categories \subseteq JournalCategories \ UnitStates
    BY <1>2 DEF EventRows, TimedRows, ProbeRow, KernelRules, StateRules, SignatureRules, TailRules, JournalRules,
        JournalCategories,
                NodeContextCategories, NpdCategories, UnitStates
  <2> QED
    BY <1>1, <1>2, <2>1, SourceOfCategory, CompleteOfJournals
<1>3. CASE row.rule \in {"kubernetes.node_not_ready", "kubernetes.node_pressure",
        "kubernetes.network_unavailable"}
  <2>1. row.categories \subseteq Conditions
    BY <1>3 DEF EventRows, TimedRows, ProbeRow, KernelRules, StateRules, SignatureRules, TailRules, Conditions
  <2>2. NoneLost(e, Api("nodes"))
    BY <1>3, DeclaredIsNotLost DEF Declares, ApiRequirements
  <2> QED
    BY <1>1, <2>1, <2>2, SourceOfCategory DEF WholeSource
<1>4. CASE row.rule = "kubernetes.pod_crash_loop"
  <2>1. row.sources = {"kubernetes_container_state", "kubernetes_event"}
    BY <1>4 DEF EventRows, TimedRows, ProbeRow, KernelRules, StateRules, SignatureRules, TailRules
  <2>2. NoneLost(e, Api("pods")) /\ NoneLost(e, Api("events"))
    BY <1>4, DeclaredIsNotLost DEF Declares, ApiRequirements
  <2> QED
    BY <2>1, <2>2 DEF WholeSource
<1>5. CASE row.rule = "kubernetes.pod_oom_killed"
  <2>1. row.sources = {"kubernetes_container_state"}
    BY <1>5 DEF EventRows, TimedRows, ProbeRow, KernelRules, StateRules, SignatureRules, TailRules
  <2>2. NoneLost(e, Api("pods"))
    BY <1>5, DeclaredIsNotLost DEF Declares, ApiRequirements
  <2> QED
    BY <2>1, <2>2 DEF WholeSource
<1>6. CASE row.rule = "kubernetes.image_pull_failure"
  <2>1. row.categories \subseteq ContainerStates \ {"cilium_unhealthy"}
    BY <1>6 DEF EventRows, TimedRows, ProbeRow, KernelRules, StateRules, SignatureRules, TailRules, ContainerStates
  <2>2. NoneLost(e, Api("pods"))
    BY <1>6, DeclaredIsNotLost DEF Declares, ApiRequirements
  <2>3. v.source \in TextSources \cup {"kubernetes_container_state"}
    BY <1>1, <2>1, SourceOfCategory
  <2>4. \A source \in TextSources : WholeSource(e, source)
    BY <1>6, CompleteOfTexts DEF TextRules
  <2> QED
    BY <2>2, <2>3, <2>4 DEF WholeSource
<1>7. CASE row.rule \in {"kubernetes.failed_scheduling", "kubernetes.probe_failures",
        "storage.volume_operation_failure"}
  <2>1. row.categories \subseteq {"failed_scheduling", "probe_failure", "volume_error"}
    BY <1>7 DEF EventRows, TimedRows, ProbeRow, KernelRules, StateRules, SignatureRules, TailRules
  <2>2. v.source \in TextSources
    BY <1>1, <2>1, SourceOfCategory DEF StateCategories, ContainerStates, UnitStates
  <2> QED
    BY <1>7, <2>2, CompleteOfTexts DEF TextRules
<1>8. CASE row.rule = "network.cni_unavailable"
  <2>1. row.categories = {"cni_unavailable"}
    BY <1>8 DEF EventRows, TimedRows, ProbeRow, KernelRules, StateRules, SignatureRules, TailRules
  <2>2. v.source \in TextSources
    BY <1>1, <2>1, SourceOfCategory DEF StateCategories, ContainerStates, UnitStates
  <2>3. WholeSource(e, "journal")
    BY <1>8, CompleteOfJournals DEF JournalRules
  <2>4. NoneLost(e, Hosted) /\ NoneLost(e, HostPodLogs) /\ NoneLost(e, Api("events"))
          /\ NoneLost(e, Api("logs"))
    BY <1>8, DeclaredIsNotLost DEF Declares, CorrelationRequirements
  <2>5. NoneLost(e, Silent("pod_logs")) /\ NoneLost(e, Silent("logs"))
    BY <1>8, CompleteOfTails
  <2> QED
    BY <2>2, <2>3, <2>4, <2>5 DEF WholeSource, TextSources
<1>9. CASE row.rule = "cilium.unhealthy"
  <2>1. row.categories = {"cilium_unhealthy"}
    BY <1>9 DEF EventRows, TimedRows, ProbeRow, KernelRules, StateRules, SignatureRules, TailRules
  <2>2. NoneLost(e, Api("pods"))
    BY <1>9, DeclaredIsNotLost DEF Declares, CorrelationRequirements
  <2> QED
    BY <1>1, <2>1, <2>2, SourceOfCategory DEF WholeSource
<1>10. CASE row.rule = "node.oom_detected"
  <2>1. row.sources = {"journal", "cri_log", "kubernetes_pod_log"}
    BY <1>10 DEF EventRows, TimedRows, ProbeRow, KernelRules, StateRules, SignatureRules, TailRules
  <2>2. WholeSource(e, "journal")
    BY <1>10, CompleteOfJournals DEF JournalRules
  <2>3. NoneLost(e, Hosted) /\ NoneLost(e, HostPodLogs) /\ NoneLost(e, Api("logs"))
    BY <1>10, DeclaredIsNotLost DEF Declares, NodeRequirements
  <2>4. NoneLost(e, Silent("pod_logs")) /\ NoneLost(e, Silent("logs"))
    BY <1>10, CompleteOfTails
  <2> QED
    BY <2>1, <2>2, <2>3, <2>4 DEF WholeSource
<1> QED
  BY <1>2, <1>3, <1>4, <1>5, <1>6, <1>7, <1>8, <1>9, <1>10
     DEF EventRows, TimedRows, ProbeRow, KernelRules, StateRules, SignatureRules, TailRules, JournalRules

---------------------------------------------------------------------------

(* What systemctl says has no time of its own.                             *)
LEMMA UnitEvents ==
  ASSUME NEW x, NEW v \in Events(x), v.source = "systemd_state"
  PROVE  v.categories \subseteq UnitStates /\ v.when = "none"
<1>1. v \in RawEvents(x)
  BY EventsAreRaw
<1>2. v \notin JournalEvents(x) /\ v \notin NodePodLogEvents(x) /\ v \notin KubernetesEvents(x)
      /\ v \notin KubernetesLogEvents(x) /\ v \notin NodeConditionEvents(x)
  BY EventsOfTheSources DEF JournalEvent, PodLogEvent, ClusterEvent, LogEvent, ConditionEvent, Event
<1>3. v \notin PodStateEvents(x)
  BY PodStateEventsAre
<1> QED
  BY <1>1, <1>2, <1>3, ServiceEventsAre DEF RawEvents

(* An event of another category than those is in the world.                *)
LEMMA CategorizedIsInTheWorld ==
  ASSUME NEW e, NEW w, Loaded(e, w), NEW v \in Events(e), NEW c \in v.categories,
      c \notin UnitStates \/ v.when # "none"
  PROVE  Placed(w, v) \in Events(w)
<1>1. v.source # "systemd_state"
  BY UnitEvents
<1> QED
  BY <1>1, EventOfTheWorld

(* What the rules about events find in the evidence and in the world, when *)
(* the limits of the normalization dropped nothing.                        *)
Follow(e, left, all) ==
  \A rule : /\ Finds(left, rule) => Finds(all, rule) \/ rule \in Excepted
            /\ Finds(all, rule) /\ Complete(e, rule) /\ e.dropped = {}
                 /\ rule \notin CollectorRules => Finds(left, rule)

(* Groups that agree follow, and groups that follow do so together.        *)
LEMMA AgreeFollows == ASSUME NEW e, NEW left, NEW all, Agree(e, left, all) PROVE Follow(e, left, all)
BY DEF Agree, Follow

LEMMA FollowTogether ==
  ASSUME NEW e, NEW left1, NEW all1, Follow(e, left1, all1), NEW left2, NEW all2, Follow(e, left2, all2)
  PROVE  Follow(e, left1 \cup left2, all1 \cup all2)
<1>1. \A rule : Finds(left1 \cup left2, rule) <=> Finds(left1, rule) \/ Finds(left2, rule)
  BY DEF Finds
<1>2. \A rule : Finds(all1 \cup all2, rule) <=> Finds(all1, rule) \/ Finds(all2, rule)
  BY DEF Finds
<1> QED
  BY <1>1, <1>2 DEF Follow

(* The rules of the tables, of CoreDNS, of the API server, of IPv6 and of  *)
(* the correlations follow, each for its own reason.                       *)
LEMMA EventRulesFollow ==
  ASSUME NEW e, NEW w, Loaded(e, w)
  PROVE  Follow(e, EventRuleFindings(Events(e)), EventRuleFindings(Events(w)))
<1>1. IsWorld(w)
  BY DEF Loaded
<1>2. \A row \in EventRows : row.categories \cap UnitStates = {}
  BY DEF EventRows, TimedRows, ProbeRow, KernelRules, StateRules, SignatureRules, TailRules, UnitStates
<1>3. ASSUME NEW row \in EventRows, NEW v \in Having(Events(e), row.categories, row.sources)
      PROVE  Having(Events(w), row.categories, row.sources) # {}
  <2>1. v \in Events(e) /\ v.categories \cap row.categories # {} /\ v.source \in row.sources
    BY DEF Having
  <2>2. PICK c \in v.categories : c \in row.categories
    BY <2>1
  <2>3. Placed(w, v) \in Events(w)
    BY <1>2, <2>1, <2>2, CategorizedIsInTheWorld
  <2>4. Placed(w, v) \in Having(Events(w), row.categories, row.sources)
    BY <2>1, <2>3, PlacedFields DEF Having
  <2> QED
    BY <2>4
<1>4. ASSUME NEW row \in EventRows, NEW u \in Having(Events(w), row.categories, row.sources),
             Complete(e, row.rule), e.dropped = {}
      PROVE  Having(Events(e), row.categories, row.sources) # {}
  <2>1. u \in Events(w) /\ u.categories \cap row.categories # {} /\ u.source \in row.sources
    BY DEF Having
  <2>2. Sourced(u)
    BY <1>1, <2>1, EventsAreSourced
  <2>3. WholeSource(e, u.source)
    BY <1>4, <2>1, <2>2, EventRowsAreWhole
  <2>4. u.source # "systemd_state"
    BY <1>2, <2>1, <2>2 DEF Sourced
  <2>5. PICK v \in Events(e) : Placed(w, v) = u
    BY <1>4, <2>1, <2>3, <2>4, EventOfTheEvidence
  <2>6. v \in Having(Events(e), row.categories, row.sources)
    BY <2>1, <2>5, PlacedFields DEF Having
  <2> QED
    BY <2>6
<1>5. ASSUME NEW rule, Finds(EventRuleFindings(Events(e)), rule)
      PROVE  Finds(EventRuleFindings(Events(w)), rule)
  <2>1. PICK row \in EventRows : row.rule = rule /\ Having(Events(e), row.categories, row.sources) # {}
    BY <1>5, EventRulesFind
  <2> QED
    BY <1>3, <2>1, EventRulesFind
<1>6. ASSUME NEW rule, Finds(EventRuleFindings(Events(w)), rule), Complete(e, rule), e.dropped = {}
      PROVE  Finds(EventRuleFindings(Events(e)), rule)
  <2>1. PICK row \in EventRows : row.rule = rule /\ Having(Events(w), row.categories, row.sources) # {}
    BY <1>6, EventRulesFind
  <2> QED
    BY <1>4, <1>6, <2>1, EventRulesFind
<1> QED
  BY <1>5, <1>6 DEF Follow

LEMMA CorednsFollows ==
  ASSUME NEW e, NEW w, Loaded(e, w)
  PROVE  Follow(e, CorednsFindings(Events(e)), CorednsFindings(Events(w)))
<1> DEFINE errors(x) == {v \in Events(x) : v.categories \cap DnsErrorCategories # {}
      /\ v.component = "coredns"}
<1>1. IsWorld(w)
  BY DEF Loaded
<1>2. DnsErrorCategories \cap (UnitStates \cup StateCategories \cup ContainerStates) = {}
  BY DEF DnsErrorCategories, UnitStates, StateCategories, ContainerStates
<1>3. ASSUME NEW v \in errors(e) PROVE errors(w) # {}
  <2>1. PICK c \in v.categories : c \in DnsErrorCategories
    OBVIOUS
  <2>2. Placed(w, v) \in Events(w)
    BY <1>2, <2>1, CategorizedIsInTheWorld
  <2>3. Placed(w, v) \in errors(w)
    BY <2>2, PlacedFields
  <2> QED
    BY <2>3
<1>4. ASSUME NEW u \in errors(w), Complete(e, "dns.coredns_errors"), e.dropped = {} PROVE errors(e) # {}
  <2>1. PICK c \in u.categories : c \in DnsErrorCategories
    OBVIOUS
  <2>2. Sourced(u)
    BY <1>1, EventsAreSourced
  <2>3. u.source \in TextSources
    BY <1>2, <2>1, <2>2, SourceOfCategory
  <2>4. WholeSource(e, u.source) /\ u.source # "systemd_state"
    BY <1>4, <2>3, CompleteOfTexts DEF TextRules, TextSources
  <2>5. PICK v \in Events(e) : Placed(w, v) = u
    BY <1>4, <2>4, EventOfTheEvidence
  <2>6. v \in errors(e)
    BY <2>5, PlacedFields
  <2> QED
    BY <2>6
<1>5. \A x, rule : Finds(CorednsFindings(Events(x)), rule) <=> rule = "dns.coredns_errors" /\ errors(x) # {}
  BY EventFindingFinds DEF CorednsFindings
<1> HIDE DEF errors
<1> QED
  BY <1>3, <1>4, <1>5 DEF Follow

(* A control plane that is seen to be healthy is.                          *)
LEMMA HealthyIsHealthy ==
  ASSUME NEW e, NEW w, LeftOf(e, w), CurrentlyHealthy(e)
  PROVE  CurrentlyHealthy(w)
<1>1. \E h \in Hosts(w) : Facts(w, h).authFile
  BY SameFacts DEF CurrentlyHealthy, FactsLeft
<1>2. /\ SourceCollected(w, "api_readyz") /\ Items(e, "api_readyz") = Items(w, "api_readyz")
      /\ SourceCollected(w, "pods") /\ Items(e, "pods") = Items(w, "pods")
  BY PartOfTheSources DEF CurrentlyHealthy
<1> QED
  BY <1>1, <1>2 DEF CurrentlyHealthy

LEMMA AuthenticationFollows ==
  ASSUME NEW e, NEW w, Loaded(e, w)
  PROVE  Follow(e, AuthenticationConfigFindings(e, Events(e)), AuthenticationConfigFindings(w, Events(w)))
<1> DEFINE rule == "controlplane.authentication_config_read_error"
           errors(x) == {v \in Events(x) : "authentication_config_read_error" \in v.categories}
<1>1. IsWorld(w) /\ LeftOf(e, w)
  BY DEF Loaded
<1>2. rule \in Excepted
  BY DEF Excepted, ArguedFromAbsence
<1>3. \A x, r : Finds(AuthenticationConfigFindings(x, Events(x)), r) <=>
                  r = rule /\ Several(errors(x)) /\ ~CurrentlyHealthy(x)
  <2> SUFFICES ASSUME NEW x, NEW r
               PROVE  Finds(AuthenticationConfigFindings(x, Events(x)), r) <=>
                        r = rule /\ Several(errors(x)) /\ ~CurrentlyHealthy(x)
    OBVIOUS
  <2>1. CASE Several(errors(x)) /\ ~CurrentlyHealthy(x)
    <3>1. errors(x) # {}
      BY <2>1 DEF Several
    <3>2. Finds(EventFinding(rule, errors(x)), r) <=> r = rule
      BY <3>1, EventFindingFinds
    <3> QED
      BY <2>1, <3>2 DEF AuthenticationConfigFindings
  <2>2. CASE ~(Several(errors(x)) /\ ~CurrentlyHealthy(x))
    <3>1. AuthenticationConfigFindings(x, Events(x)) = {}
      BY <2>2 DEF AuthenticationConfigFindings
    <3> QED
      BY <2>2, <3>1 DEF Finds
  <2> QED
    BY <2>1, <2>2
<1>4. ASSUME NEW u \in errors(w), Complete(e, rule), e.dropped = {}
      PROVE  \E v \in errors(e) : Placed(w, v) = u
  <2>1. Sourced(u) /\ "authentication_config_read_error" \in u.categories
    BY <1>1, EventsAreSourced
  <2>2. u.source \in TextSources
    BY <2>1, SourceOfCategory DEF StateCategories, ContainerStates, UnitStates
  <2>3. WholeSource(e, u.source) /\ u.source # "systemd_state"
    BY <1>4, <2>2, CompleteOfTexts DEF TextRules, TextSources
  <2>4. PICK v \in Events(e) : Placed(w, v) = u
    BY <1>4, <2>3, EventOfTheEvidence
  <2> QED
    BY <2>1, <2>4, PlacedFields
<1>5. ASSUME Several(errors(w)), Complete(e, rule), e.dropped = {} PROVE Several(errors(e))
  BY <1>4, <1>5 DEF Several
<1> HIDE DEF errors, rule
<1> QED
  BY <1>1, <1>2, <1>3, <1>5, HealthyIsHealthy DEF Follow

---------------------------------------------------------------------------

LEMMA Ipv6Follows ==
  ASSUME NEW e, NEW w, Loaded(e, w)
  PROVE  Follow(e, Ipv6Findings(e, Events(e)), Ipv6Findings(w, Events(w)))
<1> DEFINE rule == "network.ipv6_disabled"
           disabled(x) == {h \in Hosts(x) : Facts(x, h).ipv6Disabled}
           pods(x) == {p \in Items(x, "pods") : p.ipv6}
           errors(x) == {v \in Events(x) : "address_family" \in v.categories}
           linked(x) == pods(x) # {} \/ \E v \in errors(x) : v.node \in disabled(x)
           found(x) == Finding(rule, Named({[name |-> h] : h \in disabled(x)}),
                               {Reference("facts", 1)} \cup {Reference("pods", 0) : p \in pods(x)}
                                 \cup {v.ref : v \in errors(x)}, {})
<1>1. IsWorld(w) /\ LeftOf(e, w) /\ "none" \notin Hosts(w)
  BY DEF Loaded, IsWorld
<1>2. \A x, r : Finds(Ipv6Findings(x, Events(x)), r) <=> r = rule /\ linked(x) /\ disabled(x) # {}
  <2> SUFFICES ASSUME NEW x, NEW r
               PROVE  Finds(Ipv6Findings(x, Events(x)), r) <=> r = rule /\ linked(x) /\ disabled(x) # {}
    OBVIOUS
  <2>1. Ipv6Findings(x, Events(x)) = IF ~linked(x) \/ disabled(x) = {} THEN {} ELSE {found(x)}
    BY DEF Ipv6Findings
  <2>2. found(x).rule = rule
    BY DEF Finding
  <2> HIDE DEF linked, disabled, found
  <2> QED
    BY <2>1, <2>2 DEF Finds
<1>3. disabled(e) \subseteq disabled(w)
  BY <1>1, SameFacts DEF FactsLeft
<1>4. linked(e) => linked(w)
  <2>1. pods(e) # {} => pods(w) # {}
    BY <1>1, PartOfTheSources
  <2>2. ASSUME NEW v \in errors(e), v.node \in disabled(e) PROVE v \in errors(w) /\ v.node \in disabled(w)
    <3>1. v.node \in disabled(w) /\ v.node # "none"
      BY <1>1, <1>3, <2>2
    <3>2. Placed(w, v) \in Events(w)
      BY CategorizedIsInTheWorld DEF UnitStates
    <3>3. Placed(w, v) = v
      BY <1>1, <3>1, PlacedIsItself
    <3> QED
      BY <3>1, <3>2, <3>3
  <2> QED
    BY <2>1, <2>2
<1>5. ASSUME Complete(e, rule), e.dropped = {}
      PROVE  disabled(e) = disabled(w) /\ (linked(w) => linked(e))
  <2>1. NoneLost(e, Hosted) /\ \A source \in TextSources : WholeSource(e, source)
    BY <1>5, CompleteOfTexts DEF TextRules
  <2>2. NoneLost(e, Api("pods"))
    BY <1>5, DeclaredIsNotLost DEF Declares, CorrelationRequirements
  <2>6. NoneLost(e, Silent("ipv6"))
    BY <1>5, DeclaredIsNotLost DEF Declares, Undeclared
  <2>3. disabled(e) = disabled(w)
    BY <1>1, <2>1, <2>6, AllHosts, SameFacts, NotSilent DEF FactsKept
  <2>4. pods(e) = pods(w)
    BY <1>1, <2>2, AllOfTheSource
  <2>5. ASSUME NEW u \in errors(w), u.node \in disabled(w) PROVE u \in errors(e)
    <3>1. Sourced(u) /\ "address_family" \in u.categories
      BY <1>1, EventsAreSourced
    <3>2. u.source \in TextSources
      BY <3>1, SourceOfCategory DEF StateCategories, ContainerStates, UnitStates
    <3>3. PICK v \in Events(e) : Placed(w, v) = u
      BY <1>5, <2>1, <3>2, EventOfTheEvidence DEF TextSources
    <3>4. v = u
      BY <1>1, <2>2, <3>3, PlacedIsItself
    <3> QED
      BY <3>1, <3>3, <3>4
  <2> QED
    BY <2>3, <2>4, <2>5
<1> HIDE DEF rule, disabled, linked
<1> QED
  BY <1>2, <1>3, <1>4, <1>5 DEF Follow

---------------------------------------------------------------------------

(* Two events of an episode.                                               *)
Paired(spec, x, y) ==
  /\ x # y /\ x.when = y.when /\ x.when # "none"
  /\ CorrelationScope(x, spec.id) = CorrelationScope(y, spec.id)
  /\ CorrelationScope(x, spec.id) # "none"
  /\ x.categories \cap spec.left # {} /\ y.categories \cap spec.right # {}

(* A correlation finds something when there is an episode.                 *)
LEMMA CorrelationsFind ==
  ASSUME NEW events, NEW rule
  PROVE  Finds(CorrelationFindings(events), rule) <=>
           \E spec \in CorrelationSpecs : CorrelationRules[spec.id] = rule /\ \E x,
               y \in events : Paired(spec, x, y)
<1> DEFINE of(spec, scope) == {x \in events : /\ CorrelationScope(x, spec.id) = scope /\ x.when # "none"
                                              /\ x.categories \cap (spec.left \cup spec.right) # {}}
           found(spec, scope) == Finding(CorrelationRules[spec.id], {Part(scope, "scope")},
                                         {v.ref : v \in of(spec, scope)}, {v.when : v \in of(spec, scope)})
<1>1. \A f : f \in CorrelationFindings(events) <=>
               \E spec \in CorrelationSpecs : \E scope \in Episodes(events, spec) : f = found(spec, scope)
  <2>1. CorrelationFindings(events) =
          UNION {{found(spec, scope) : scope \in Episodes(events, spec)} : spec \in CorrelationSpecs}
    BY DEF CorrelationFindings
  <2> HIDE DEF found, of
  <2> QED
    BY <2>1
<1>2. \A spec, scope : found(spec, scope).rule = CorrelationRules[spec.id]
  BY DEF Finding
<1>3. \A spec : Episodes(events, spec) # {} <=> \E x, y \in events : Paired(spec, x, y)
  BY DEF Episodes, Paired
<1> HIDE DEF found, of
<1> QED
  BY <1>1, <1>2, <1>3 DEF Finds

(* The sources of the events of an episode are whole if its rule is        *)
(* complete.                                                               *)
LEMMA CorrelationsAreWhole ==
  ASSUME NEW e, NEW spec \in CorrelationSpecs, Complete(e, CorrelationRules[spec.id]), NEW v, Sourced(v),
         v.when # "none", CorrelationScope(v, spec.id) # "none",
             v.categories \cap (spec.left \cup spec.right) # {}
  PROVE  /\ WholeSource(e, v.source) /\ v.source # "systemd_state"
         /\ spec.id = "probe_network_failure" \/ v.source \notin PlacedByPods \/ NoneLost(e, Api("pods"))
<1>1. PICK c \in v.categories : c \in spec.left \cup spec.right
  OBVIOUS
<1>2. v.source # "systemd_state"
  BY DEF Sourced
<1>3. CASE spec.id = "node_runtime_failure"
  <2>1. /\ spec.left \cup spec.right = {"node_not_ready", "kubelet_inactive", "runtime_unavailable"}
        /\ CorrelationRules[spec.id] = "correlation.node_runtime_failure"
    BY <1>3 DEF CorrelationSpecs, CorrelationRules
  <2>2. WholeSource(e, "journal")
    BY <2>1, CompleteOfJournals DEF JournalRules
  <2>3. NoneLost(e, Api("nodes"))
    BY <2>1, DeclaredIsNotLost DEF Declares, CorrelationRequirements
  <2>4. v.source \in {"journal", "kubernetes_condition"}
    BY <1>1, <2>1, SourceOfCategory DEF Conditions
  <2> QED
    BY <1>2, <2>2, <2>3, <2>4 DEF WholeSource, PlacedByPods
<1>4. CASE spec.id = "cgroup_service_failure"
  <2>1. /\ spec.left \cup spec.right = {"cgroup_access_denied", "kubelet_inactive", "runtime_unavailable"}
        /\ CorrelationRules[spec.id] = "cgroup.service_failure"
    BY <1>4 DEF CorrelationSpecs, CorrelationRules
  <2>2. WholeSource(e, "journal")
    BY <2>1, CompleteOfJournals DEF JournalRules
  <2>3. "cgroup_access_denied" \in JournalCategories \ UnitStates
    BY DEF JournalCategories, NodeContextCategories, UnitStates
  <2>4. v.source = "journal"
    BY <1>1, <2>1, <2>3, SourceOfCategory
  <2> QED
    BY <1>2, <2>2, <2>4 DEF PlacedByPods
<1>5. CASE spec.id = "probe_network_failure"
  <2>1. /\ spec.left \cup spec.right =
             {"probe_failure", "address_family", "no_route", "connection_refused", "dns_error", "timeout"}
        /\ CorrelationRules[spec.id] = "correlation.probe_network_failure"
    BY <1>5 DEF CorrelationSpecs, CorrelationRules
  <2>2. NoneLost(e, Api("events")) /\ NoneLost(e, Api("logs"))
    BY <2>1, DeclaredIsNotLost DEF Declares, ApiRequirements
  <2>3. NoneLost(e, Hosted) /\ NoneLost(e, HostPodLogs)
    BY <2>1, DeclaredIsNotLost DEF Declares, Undeclared
  <2>5. NoneLost(e, Silent("pod_logs")) /\ NoneLost(e, Silent("logs"))
    BY <2>1, CompleteOfTails
  <2>4. v.source \in TextSources \ {"journal"}
    <3>1. v.source \in TextSources
      BY <1>1, <2>1, SourceOfCategory DEF StateCategories, ContainerStates, UnitStates
    <3>2. v.pod # "none"
      BY <1>5 DEF CorrelationScope
    <3> QED
      BY <3>1, <3>2 DEF Sourced
  <2> QED
    BY <1>2, <1>5, <2>2, <2>3, <2>4, <2>5 DEF WholeSource, TextSources
<1>6. CASE CorrelationRules[spec.id] \in PlacedRules
  <2>1. (\A source \in TextSources : WholeSource(e, source)) /\ NoneLost(e, Api("pods"))
    BY <1>6, CompleteOfTexts
  <2>2. CASE c \in Conditions
    <3>1. v.source = "kubernetes_condition"
      BY <2>2, SourceOfCategory
    <3>2. CorrelationRules[spec.id] \in {"correlation.node_cni_failure", "correlation.memory_oom_failure",
                                         "correlation.storage_failure"}
      BY <1>1, <1>6, <2>2 DEF CorrelationSpecs, CorrelationRules, PlacedRules, Conditions
    <3>3. NoneLost(e, Api("nodes"))
      BY <3>2, DeclaredIsNotLost DEF Declares, CorrelationRequirements
    <3> QED
      BY <1>2, <2>1, <3>1, <3>3 DEF WholeSource
  <2>3. CASE c = "oom_kill"
    <3>1. v.source \in TextSources \cup {"kubernetes_container_state"}
      BY <2>3, SourceOfCategory DEF ContainerStates
    <3> QED
      BY <1>2, <2>1, <3>1 DEF WholeSource
  <2>4. CASE c \notin Conditions \cup {"oom_kill"}
    <3>1. c \notin StateCategories \cup ContainerStates \cup UnitStates
      BY <1>1, <1>6, <2>4
         DEF CorrelationSpecs, CorrelationRules, PlacedRules, Conditions, StateCategories, ContainerStates,
             UnitStates
    <3> QED
      BY <1>2, <2>1, <3>1, SourceOfCategory
  <2> QED
    BY <2>2, <2>3, <2>4
<1> QED
  BY <1>3, <1>4, <1>5, <1>6 DEF CorrelationSpecs, CorrelationRules, PlacedRules

LEMMA CorrelationsFollow ==
  ASSUME NEW e, NEW w, Loaded(e, w)
  PROVE  Follow(e, CorrelationFindings(Events(e)), CorrelationFindings(Events(w)))
<1>1. IsWorld(w) /\ LeftOf(e, w)
  BY DEF Loaded
<1>2. \A spec, x : CorrelationScope(x, spec.id) = IF spec.id = "probe_network_failure" THEN x.pod ELSE x.node
  BY DEF CorrelationScope
<1>3. ASSUME NEW spec, NEW x \in Events(e), NEW y \in Events(e), Paired(spec, x, y)
      PROVE  /\ Placed(w, x) \in Events(w) /\ Placed(w, y) \in Events(w)
             /\ Paired(spec, Placed(w, x), Placed(w, y))
  <2>1. x # y /\ x.when = y.when /\ x.when # "none" /\ y.when # "none"
    BY <1>3 DEF Paired
  <2>2. (\E c : c \in x.categories) /\ (\E c : c \in y.categories)
    BY <1>3 DEF Paired
  <2>3. Placed(w, x) \in Events(w) /\ Placed(w, y) \in Events(w)
    BY <2>1, <2>2, CategorizedIsInTheWorld
  <2>4. Placed(w, x) # Placed(w, y)
    BY <2>1, PlacedApart
  <2>5. CorrelationScope(Placed(w, x), spec.id) = CorrelationScope(x, spec.id)
        /\ CorrelationScope(Placed(w, y), spec.id) = CorrelationScope(y, spec.id)
    <3>1. CASE spec.id = "probe_network_failure"
      BY <1>2, <3>1, PlacedFields
    <3>2. CASE spec.id # "probe_network_failure"
      <4>1. x.node # "none" /\ y.node # "none"
        BY <1>2, <1>3, <3>2 DEF Paired
      <4>2. Placed(w, x) = x /\ Placed(w, y) = y
        BY <1>1, <4>1, PlacedIsItself
      <4> QED
        BY <4>2
    <3> QED
      BY <3>1, <3>2
  <2> QED
    BY <1>3, <2>3, <2>4, <2>5, PlacedFields DEF Paired
<1>4. ASSUME NEW spec \in CorrelationSpecs, Complete(e, CorrelationRules[spec.id]), e.dropped = {},
             NEW x \in Events(w), NEW y \in Events(w), Paired(spec, x, y)
      PROVE  \E u, v \in Events(e) : Paired(spec, u, v)
  <2>1. ASSUME NEW z \in Events(w), z.when # "none", CorrelationScope(z, spec.id) # "none",
               z.categories \cap (spec.left \cup spec.right) # {}
        PROVE  \E v \in Events(e) : Placed(w, v) = z
            /\ CorrelationScope(v, spec.id) = CorrelationScope(z, spec.id)
    <3>1. Sourced(z)
      BY <1>1, EventsAreSourced
    <3>2. /\ WholeSource(e, z.source) /\ z.source # "systemd_state"
          /\ spec.id = "probe_network_failure" \/ z.source \notin PlacedByPods \/ NoneLost(e, Api("pods"))
      BY <1>4, <2>1, <3>1, CorrelationsAreWhole
    <3>3. PICK v \in Events(e) : Placed(w, v) = z
      BY <1>4, <3>2, EventOfTheEvidence
    <3>4. v.source = z.source /\ v.pod = z.pod
      BY <3>3, PlacedFields
    <3>5. spec.id # "probe_network_failure" => v = z
      BY <1>1, <3>2, <3>3, <3>4, PlacedIsItself
    <3> QED
      BY <1>2, <3>3, <3>4, <3>5
  <2>2. PICK u \in Events(e) : Placed(w, u) = x /\ CorrelationScope(u, spec.id) = CorrelationScope(x, spec.id)
    BY <1>4, <2>1 DEF Paired
  <2>3. PICK v \in Events(e) : Placed(w, v) = y /\ CorrelationScope(v, spec.id) = CorrelationScope(y, spec.id)
    BY <1>4, <2>1 DEF Paired
  <2>4. /\ u.when = x.when /\ v.when = y.when /\ u.categories = x.categories /\ v.categories = y.categories
        /\ u # v
    BY <1>4, <2>2, <2>3, PlacedFields DEF Paired
  <2> QED
    BY <1>4, <2>2, <2>3, <2>4 DEF Paired
<1>5. ASSUME NEW rule, Finds(CorrelationFindings(Events(e)), rule)
        PROVE Finds(CorrelationFindings(Events(w)), rule)
  BY <1>3, <1>5, CorrelationsFind
<1>6. ASSUME NEW rule, Finds(CorrelationFindings(Events(w)), rule), Complete(e, rule), e.dropped = {}
      PROVE  Finds(CorrelationFindings(Events(e)), rule)
  <2>1. PICK spec \in CorrelationSpecs :
          CorrelationRules[spec.id] = rule /\ \E x, y \in Events(w) : Paired(spec, x, y)
    BY <1>6, CorrelationsFind
  <2>2. \E u, v \in Events(e) : Paired(spec, u, v)
    BY <1>4, <1>6, <2>1
  <2> QED
    BY <2>1, <2>2, CorrelationsFind
<1> QED
  BY <1>5, <1>6 DEF Follow

---------------------------------------------------------------------------

(* evaluate_rules, of any evidence that is left of any world: what it      *)
(* finds it would find in the world too, eight rules and those about the   *)
(* collection excepted; and what it would find there it finds, if all that *)
(* the rule reads is there and the limits dropped nothing.                 *)
THEOREM RulesFollow ==
  ASSUME NEW e, NEW w, Loaded(e, w)
  PROVE  Follow(e, EvaluateRules(e), EvaluateRules(w))
<1> DEFINE found(x) == NodeFindings(x) \cup ClusterFindings(x) \cup EventRuleFindings(Events(x))
                         \cup Ipv6Findings(x, Events(x)) \cup CorednsFindings(Events(x))
                         \cup AuthenticationConfigFindings(x, Events(x)) \cup CorrelationFindings(Events(x))
<1>1. Follow(e, found(e), found(w))
  <2>1. Follow(e, NodeFindings(e), NodeFindings(w)) /\ Follow(e, ClusterFindings(e), ClusterFindings(w))
    BY NodeRulesAgree, ClusterRulesAgree, AgreeFollows
  <2> QED
    BY <2>1, EventRulesFollow, Ipv6Follows, CorednsFollows, AuthenticationFollows, CorrelationsFollow,
        FollowTogether
<1>2. e.options.cgroup = w.options.cgroup
  BY DEF Loaded, LeftOf
<1>3. \A x : EvaluateRules(x) = IF x.options.cgroup THEN found(x)
        ELSE {f \in found(x) : f.rule \notin CgroupRuleIds}
  BY DEF EvaluateRules
<1>4. \A x, rule : Finds(EvaluateRules(x), rule) <=>
                     Finds(found(x), rule) /\ (x.options.cgroup \/ rule \notin CgroupRuleIds)
  <2> HIDE DEF found
  <2> QED
    BY <1>3 DEF Finds
<1> HIDE DEF found
<1> QED
  BY <1>1, <1>2, <1>4 DEF Follow

---------------------------------------------------------------------------

(* The rules of the findings are the rules that find something.            *)
LEMMA RulesAreFound ==
  /\ \A rule : rule \in TrueOfTheWorld <=> Finds(EvaluateRules(world), rule)
  /\ EvidenceInv /\ pc = "written" =>
       /\ Loaded(evidence, world)
       /\ \A rule : rule \in MatchedRules <=> Finds(EvaluateRules(evidence), rule)
<1>1. \A rule : rule \in TrueOfTheWorld <=> Finds(EvaluateRules(world), rule)
  BY DEF TrueOfTheWorld, Matched, Finds
<1>2. ASSUME EvidenceInv, pc = "written"
      PROVE  \A rule : rule \in MatchedRules <=> Finds(EvaluateRules(evidence), rule)
  <2>1. findings = {Annotated(f, evidence.options) : f \in EvaluateRules(evidence)}
    BY <1>2 DEF EvidenceInv
  <2>2. \A f : Annotated(f, evidence.options).finding = f
    BY DEF Annotated
  <2> QED
    BY <2>1, <2>2 DEF MatchedRules, Finds
<1>3. ASSUME EvidenceInv, pc = "written" PROVE Loaded(evidence, world)
  <2>1. Hosts(evidence) = {h \in Hosts(world) : evidence.results[h] = "collected"} /\ LeftOf(evidence, world)
        /\ world \in Worlds
    BY <1>3 DEF EvidenceInv
  <2> QED
    BY <2>1, WorldsAssumption DEF Loaded
<1> QED
  BY <1>1, <1>2, <1>3

(* What was not collected is never reported as a problem: any number of    *)
(* losses, in any world, leave no finding that the whole evidence would    *)
(* not have, but those about the collection and of ArguedFromAbsence.      *)
THEOREM FindingsSurvive == Spec => []FindingsSurviveCompletion
<1>1. ASSUME EvidenceInv PROVE FindingsSurviveCompletion
  BY <1>1, RulesAreFound, RulesFollow DEF FindingsSurviveCompletion, Follow, Excepted
<1> QED
  BY <1>1, EvidenceInvariant, PTL

(* "not_matched" in the ledger is conclusive: if nothing that a rule reads *)
(* and does not declare was lost, the whole evidence has no finding of it  *)
(* either, for any world and any number of losses.                         *)
THEOREM NotMatchedConclusive == Spec => []NotMatchedIsConclusive
<1>1. ASSUME EvidenceInv, LedgerIsBacked PROVE NotMatchedIsConclusive
  <2> SUFFICES ASSUME pc = "written", evidence.dropped = {}, NEW rule \in RuleCatalog \ CollectorRules,
                      ledger[rule] = "not_matched", \A q \in UndeclaredOf(rule) : NoneLost(evidence, q),
                      rule \in TrueOfTheWorld
               PROVE  FALSE
    BY DEF NotMatchedIsConclusive
  <2>1. Complete(evidence, rule) /\ rule \notin MatchedRules
    BY <1>1 DEF LedgerIsBacked, Complete
  <2> QED
    BY <1>1, <2>1, RulesAreFound, RulesFollow DEF Follow
<1> QED
  BY <1>1, EvidenceInvariant, LedgerBacked, PTL

---------------------------------------------------------------------------

(* The rules that put episodes together.                                   *)
EpisodeRules ==
  {"cgroup.service_failure", "correlation.node_runtime_failure", "correlation.node_cni_failure",
   "correlation.probe_network_failure", "correlation.storage_failure", "correlation.memory_oom_failure",
   "correlation.certificate_api_failure", "correlation.conntrack_network_failure"}

DnsRule == "dns.coredns_errors"
AuthenticationRule == "controlplane.authentication_config_read_error"

InRow(row, v) == v.categories \cap row.categories # {} /\ v.source \in row.sources
InEpisode(spec, scope, v) ==
  CorrelationScope(v, spec.id) = scope /\ v.when # "none"
      /\ v.categories \cap (spec.left \cup spec.right) # {}

(* The events that the finding of a rule about some objects is made of.    *)
Tells(rule, affected, v) ==
  \/ \E row \in TimedRows : row.rule = rule /\ InRow(row, v)
  \/ rule = DnsRule /\ v.categories \cap DnsErrorCategories # {} /\ v.component = "coredns"
  \/ rule = AuthenticationRule /\ "authentication_config_read_error" \in v.categories
  \/ \E spec \in CorrelationSpecs : \E scope :
       CorrelationRules[spec.id] = rule /\ affected = {Part(scope, "scope")} /\ InEpisode(spec, scope, v)

(* A finding with the references of the events that tell it.               *)
MadeOfEvents(f, events) ==
  /\ f.rule \in EventRuleIds
  /\ f.rule \in EpisodeRules => \E scope : f.affected = {Part(scope, "scope")}
  /\ f.evidence = Kept({v.ref : v \in {x \in events : Tells(f.rule, f.affected, x)}})

LEMMA EventFindingIs ==
  ASSUME NEW rule, NEW events, NEW f \in EventFinding(rule, events)
  PROVE  f.rule = rule /\ f.evidence = Kept({v.ref : v \in events})
<1>1. f = Finding(rule, {Target(v) : v \in events}, {v.ref : v \in events}, {v.when : v \in events})
  BY DEF EventFinding
<1> QED
  BY <1>1 DEF Finding

(* No two entries of the tables have the same rule.                        *)
LEMMA RulesAreDistinct ==
  /\ \A r, s \in TimedRows : r.rule = s.rule => r = s
  /\ \A row \in TimedRows : row.rule \in EventRuleIds \ (EpisodeRules \cup {DnsRule, AuthenticationRule})
  /\ \A spec \in CorrelationSpecs : CorrelationRules[spec.id] \in EpisodeRules
  /\ \A r, s \in CorrelationSpecs : CorrelationRules[r.id] = CorrelationRules[s.id] => r = s
  /\ EpisodeRules \cup {DnsRule, AuthenticationRule} \subseteq EventRuleIds
  /\ DnsRule \notin EpisodeRules /\ AuthenticationRule \notin EpisodeRules /\ DnsRule # AuthenticationRule
<1>1. \A r, s \in TimedRows : r.rule = s.rule => r = s
  BY DEF TimedRows, KernelRules, StateRules, SignatureRules, TailRules
<1>2. \A row \in TimedRows : row.rule \in EventRuleIds \ (EpisodeRules \cup {DnsRule, AuthenticationRule})
  BY DEF TimedRows, KernelRules, StateRules, SignatureRules, TailRules, EventRuleIds, EpisodeRules, DnsRule,
         AuthenticationRule
<1>3. \A spec \in CorrelationSpecs : CorrelationRules[spec.id] \in EpisodeRules
  BY DEF CorrelationSpecs, CorrelationRules, EpisodeRules
<1>4. \A r, s \in CorrelationSpecs : CorrelationRules[r.id] = CorrelationRules[s.id] => r = s
  BY DEF CorrelationSpecs, CorrelationRules
<1>5. /\ EpisodeRules \cup {DnsRule, AuthenticationRule} \subseteq EventRuleIds
      /\ DnsRule \notin EpisodeRules /\ AuthenticationRule \notin EpisodeRules /\ DnsRule # AuthenticationRule
  BY DEF EventRuleIds, EpisodeRules, DnsRule, AuthenticationRule
<1> QED
  BY <1>1, <1>2, <1>3, <1>4, <1>5

(* Every finding about events is such a finding.                           *)
LEMMA EventRulesMade ==
  ASSUME NEW events, NEW f \in EventRuleFindings(events), f \notin ProbeFindings(events)
  PROVE  MadeOfEvents(f, events)
<1>1. PICK row \in TimedRows : f \in EventFinding(row.rule, Having(events, row.categories, row.sources))
  <2> DEFINE kernel(r) == [rule |-> r.rule, categories |-> r.categories, sources |-> AnySource]
  <2>1. \/ \E row \in StateRules \cup SignatureRules \cup TailRules :
             f \in EventFinding(row.rule, Having(events, row.categories, row.sources))
        \/ \E r \in KernelRules : f \in EventFinding(r.rule, Having(events, r.categories, AnySource))
    <3> DEFINE A == UNION {EventFinding(row.rule, Having(events, row.categories, row.sources))
                           : row \in StateRules \cup SignatureRules \cup TailRules}
               B == UNION {EventFinding(r.rule, Having(events, r.categories, AnySource)) : r \in KernelRules}
    <3>1. EventRuleFindings(events) = A \cup B \cup ProbeFindings(events)
      BY DEF EventRuleFindings
    <3> QED
      BY <3>1
  <2>2. \A r \in KernelRules : kernel(r) \in TimedRows
    BY DEF TimedRows
  <2>3. StateRules \cup SignatureRules \cup TailRules \subseteq TimedRows
    BY DEF TimedRows
  <2> QED
    BY <2>1, <2>2, <2>3
<1>2. f.rule = row.rule /\ f.evidence = Kept({v.ref : v \in Having(events, row.categories, row.sources)})
  BY <1>1, EventFindingIs
<1>3. \A v : Tells(row.rule, f.affected, v) <=> InRow(row, v)
  BY RulesAreDistinct DEF Tells
<1>4. Having(events, row.categories, row.sources) = {x \in events : Tells(row.rule, f.affected, x)}
  BY <1>3 DEF Having, InRow
<1> QED
  BY <1>2, <1>4, RulesAreDistinct DEF MadeOfEvents

LEMMA CorednsMade ==
  ASSUME NEW events, NEW f \in CorednsFindings(events)
  PROVE  MadeOfEvents(f, events)
<1> DEFINE errors == {v \in events : v.categories \cap DnsErrorCategories # {} /\ v.component = "coredns"}
<1>1. f.rule = DnsRule /\ f.evidence = Kept({v.ref : v \in errors})
  BY EventFindingIs DEF CorednsFindings, DnsRule
<1>2. errors = {x \in events : Tells(DnsRule, f.affected, x)}
  BY RulesAreDistinct DEF Tells
<1> QED
  BY <1>1, <1>2, RulesAreDistinct DEF MadeOfEvents

LEMMA AuthenticationMade ==
  ASSUME NEW x, NEW events, NEW f \in AuthenticationConfigFindings(x, events)
  PROVE  MadeOfEvents(f, events)
<1> DEFINE errors == {v \in events : "authentication_config_read_error" \in v.categories}
<1>1. f.rule = AuthenticationRule /\ f.evidence = Kept({v.ref : v \in errors})
  BY EventFindingIs DEF AuthenticationConfigFindings, AuthenticationRule
<1>2. errors = {v \in events : Tells(AuthenticationRule, f.affected, v)}
  BY RulesAreDistinct DEF Tells
<1> QED
  BY <1>1, <1>2, RulesAreDistinct DEF MadeOfEvents

LEMMA CorrelationsMade ==
  ASSUME NEW events, NEW f \in CorrelationFindings(events)
  PROVE  MadeOfEvents(f, events)
<1> DEFINE of(spec, scope) == {x \in events : /\ CorrelationScope(x, spec.id) = scope /\ x.when # "none"
                                              /\ x.categories \cap (spec.left \cup spec.right) # {}}
           found(spec, scope) == Finding(CorrelationRules[spec.id], {Part(scope, "scope")},
                                         {v.ref : v \in of(spec, scope)}, {v.when : v \in of(spec, scope)})
<1>1. PICK spec \in CorrelationSpecs : \E scope : f = found(spec, scope)
  BY DEF CorrelationFindings
<1>2. PICK scope : f = found(spec, scope)
  BY <1>1
<1>3. /\ f.rule = CorrelationRules[spec.id] /\ f.affected = {Part(scope, "scope")}
      /\ f.evidence = Kept({v.ref : v \in of(spec, scope)})
  BY <1>2 DEF Finding
<1>4. \A other : {Part(other, "scope")} = {Part(scope, "scope")} => other = scope
  <2>1. \A other : Part(other, "scope").object = other
    BY DEF Part
  <2> QED
    BY <2>1
<1>5. \A v : Tells(f.rule, f.affected, v) <=> InEpisode(spec, scope, v)
  BY <1>3, <1>4, RulesAreDistinct DEF Tells
<1>6. of(spec, scope) = {x \in events : Tells(f.rule, f.affected, x)}
  BY <1>5 DEF InEpisode
<1> QED
  BY <1>3, <1>6, RulesAreDistinct DEF MadeOfEvents

---------------------------------------------------------------------------

(* All other findings are of a state, and have no time; nor has the one    *)
(* about probes, although it is made of events.                            *)
LEMMA ProbesAreTimeless == ASSUME NEW events PROVE Timeless(ProbeFindings(events))
<1>1. \A f \in ProbeFindings(events) :
        \E affected, refs : f = Finding("kubernetes.probe_failures", affected, refs, {})
  BY DEF ProbeFindings
<1> QED
  BY <1>1 DEF Timeless, Finding, Latest, EventRuleIds

LEMMA Ipv6IsTimeless == ASSUME NEW x, NEW events PROVE Timeless(Ipv6Findings(x, events))
<1>1. \A f \in Ipv6Findings(x, events) : \E affected,
        refs : f = Finding("network.ipv6_disabled", affected, refs, {})
  BY DEF Ipv6Findings
<1> QED
  BY <1>1 DEF Timeless, Finding, Latest, EventRuleIds

(* What has a time, or is of a rule about events, is made of events.       *)
LEMMA MadeOrTimeless ==
  ASSUME NEW e, NEW w, Loaded(e, w), NEW x \in {e, w}, NEW f \in EvaluateRules(x),
         f.ended # "none" \/ f.rule \in EventRuleIds
  PROVE  MadeOfEvents(f, Events(x))
<1>1. Timeless(NodeFindings(x)) /\ Timeless(ClusterFindings(x))
  BY NodeRulesAgree, ClusterRulesAgree DEF Agree
<1>2. /\ f \notin NodeFindings(x) /\ f \notin ClusterFindings(x) /\ f \notin Ipv6Findings(x, Events(x))
      /\ f \notin ProbeFindings(Events(x))
  BY <1>1, Ipv6IsTimeless, ProbesAreTimeless DEF Timeless
<1>3. f \in NodeFindings(x) \cup ClusterFindings(x) \cup EventRuleFindings(Events(x))
             \cup Ipv6Findings(x, Events(x)) \cup CorednsFindings(Events(x))
             \cup AuthenticationConfigFindings(x, Events(x)) \cup CorrelationFindings(Events(x))
  BY DEF EvaluateRules
<1> QED
  BY <1>2, <1>3, EventRulesMade, CorednsMade, AuthenticationMade, CorrelationsMade

(* Of two findings of a rule that share an object, the same events tell.   *)
LEMMA SameTells ==
  ASSUME NEW f, NEW events1, MadeOfEvents(f, events1), NEW g, NEW events2, MadeOfEvents(g, events2),
         f.rule = g.rule, f.affected \cap g.affected # {}, NEW v, Tells(f.rule, f.affected, v)
  PROVE  Tells(g.rule, g.affected, v)
<1>1. CASE f.rule \in EpisodeRules
  <2>1. PICK scope1, scope2 : f.affected = {Part(scope1, "scope")} /\ g.affected = {Part(scope2, "scope")}
    BY <1>1 DEF MadeOfEvents
  <2>2. f.affected = g.affected
    BY <2>1
  <2> QED
    BY <2>2
<1>2. CASE f.rule \notin EpisodeRules
  BY <1>2, RulesAreDistinct DEF Tells
<1> QED
  BY <1>1, <1>2

(* What systemctl says is in no finding about events.                      *)
LEMMA NoUnitTells ==
  ASSUME NEW x, NEW v \in Events(x), NEW rule, NEW affected, Tells(rule, affected, v)
  PROVE  v.source # "systemd_state"
<1> SUFFICES ASSUME v.source = "systemd_state" PROVE FALSE
  OBVIOUS
<1>1. v.categories \subseteq UnitStates /\ v.when = "none"
  BY UnitEvents
<1>2. \A row \in TimedRows : row.categories \cap UnitStates = {}
  BY DEF TimedRows, KernelRules, StateRules, SignatureRules, TailRules, UnitStates
<1>3. DnsErrorCategories \cap UnitStates = {} /\ "authentication_config_read_error" \notin UnitStates
  BY DEF DnsErrorCategories, UnitStates
<1> QED
  BY <1>1, <1>2, <1>3 DEF Tells, InRow, InEpisode

(* The references of the events of each source.                            *)
LineClasses == {"commands", "pod_logs", "events", "logs"}

(* The class of a reference tells the source of its event.                 *)
LEMMA ReferenceOfSource ==
  ASSUME NEW x, NEW v \in Events(x)
  PROVE  /\ v.source \in TextSources => \E number : v.ref = Reference(v.ref[1], number)
              /\ v.ref[1] \in LineClasses
         /\ v.source = "kubernetes_condition" => v.ref = Reference("nodes", 1)
         /\ v.source \in {"kubernetes_pod_state", "kubernetes_container_state"} => v.ref
              = Reference("pods", 1)
         /\ v.source = "systemd_state" => v.ref = Reference("facts", 1)
         /\ v.source \in TextSources \cup {"kubernetes_condition", "kubernetes_pod_state",
                                           "kubernetes_container_state", "systemd_state"}
<1>1. v \in RawEvents(x)
  BY EventsAreRaw
<1>2. CASE v \in JournalEvents(x)
  BY <1>2, EventsOfTheSources DEF JournalEvent, Event, Reference, TextSources, LineClasses
<1>3. CASE v \in NodePodLogEvents(x)
  BY <1>3, EventsOfTheSources DEF PodLogEvent, Event, Reference, TextSources, LineClasses
<1>4. CASE v \in KubernetesEvents(x)
  BY <1>4, EventsOfTheSources DEF ClusterEvent, Event, Reference, TextSources, LineClasses
<1>5. CASE v \in KubernetesLogEvents(x)
  BY <1>5, EventsOfTheSources DEF LogEvent, Event, Reference, TextSources, LineClasses
<1>6. CASE v \in NodeConditionEvents(x)
  BY <1>6, EventsOfTheSources DEF ConditionEvent, Event, TextSources
<1>7. CASE v \in PodStateEvents(x)
  BY <1>7, PodStateEventsAre DEF TextSources
<1>8. CASE v \in ServiceStateEvents(x)
  BY <1>8, ServiceEventsAre DEF TextSources
<1> QED
  BY <1>1, <1>2, <1>3, <1>4, <1>5, <1>6, <1>7, <1>8 DEF RawEvents

(* A state of now that was collected is among the events of the evidence.  *)
LEMMA StateIsCollected ==
  ASSUME NEW e, NEW w, Loaded(e, w), e.dropped = {}, SourceCollected(e, "pods"), SourceCollected(e, "nodes"),
         NEW u \in Events(w), u.ref[1] \in {"nodes", "pods", "facts"}, u.source # "systemd_state"
  PROVE  u \in Events(e) /\ IsCurrent(u.ref)
<1>1. u.source \in {"kubernetes_condition", "kubernetes_pod_state", "kubernetes_container_state"}
  BY ReferenceOfSource DEF LineClasses
<1>2. NoneLost(e, Api("pods")) /\ NoneLost(e, Api("nodes"))
  <2>1. \A id : Answers(e, id) = {e.kube[s] : s \in {id} \cap DOMAIN e.kube}
                                   \cup {l \in {e.logs} : id = "logs" /\ l.status # "absent"}
    BY DEF Answers
  <2>2. (\A a \in Answers(e, "pods") : Collected(a)) /\ (\A a \in Answers(e, "nodes") : Collected(a))
    BY <2>1 DEF SourceCollected
  <2> QED
    BY <2>2 DEF NoneLost, Api
<1>3. WholeSource(e, u.source)
  BY <1>1, <1>2 DEF WholeSource
<1>4. PICK v \in Events(e) : Placed(w, v) = u
  BY <1>3, EventOfTheEvidence
<1>5. v.source = u.source
  BY <1>4, PlacedFields
<1>6. Placed(w, v) = v
  BY <1>1, <1>5, PlacedIsItself DEF Loaded, PlacedByPods
<1>7. u.ref \in {Reference("nodes", 1), Reference("pods", 1)}
  BY <1>1, ReferenceOfSource
<1> QED
  BY <1>4, <1>6, <1>7 DEF IsCurrent, Reference

---------------------------------------------------------------------------

(* There are finitely many references.                                     *)
LEMMA FiniteImage ==
  ASSUME NEW S, IsFiniteSet(S), NEW f
  PROVE  IsFiniteSet({f[x] : x \in S})
<1> DEFINE T == {f[x] : x \in S}
           g == [x \in S |-> f[x]]
<1>1. g \in [S -> T] /\ \A y \in T : \E x \in S : g[x] = y
  OBVIOUS
<1> HIDE DEF g
<1>2. g \in Surjection(S, T)
  BY <1>1 DEF Surjection
<1>3. IsFiniteSet(T)
  BY <1>2, FS_Surjection
<1> QED
  BY <1>3

LEMMA FiniteFamily ==
  ASSUME NEW S, IsFiniteSet(S), NEW f, \A x \in S : IsFiniteSet(f[x])
  PROVE  IsFiniteSet(UNION {f[x] : x \in S})
<1>1. IsFiniteSet({f[x] : x \in S})
  BY FiniteImage
<1> QED
  BY <1>1, FS_UNION

LEMMA FewAreFinite ==
  /\ \A a : IsFiniteSet({a})
  /\ \A a, b : IsFiniteSet({a, b})
  /\ \A a, b, c : IsFiniteSet({a, b, c})
<1>1. \A a : IsFiniteSet({a})
  BY FS_Singleton
<1>2. ASSUME NEW a, NEW b PROVE IsFiniteSet({a, b})
  <2>1. IsFiniteSet({a} \cup {b})
    BY <1>1, FS_AddElement
  <2> QED
    BY <2>1
<1>3. ASSUME NEW a, NEW b, NEW c PROVE IsFiniteSet({a, b, c})
  <2>1. IsFiniteSet({a, b} \cup {c})
    BY <1>2, FS_AddElement
  <2> QED
    BY <2>1
<1> QED
  BY <1>1, <1>2, <1>3

(* The lines of the texts of a world, of which there are finitely many.    *)
LinesOfHost(w, h) == (UNION {Command(w, h, id).items : id \in JournalIds}) \cup w.snaps[h].podLogs.items
LinesOf(w) == (UNION {LinesOfHost(w, h) : h \in Hosts(w)}) \cup Items(w, "events") \cup w.logs.items

LEMMA LinesAreFinite ==
  ASSUME NEW w, IsWorld(w)
  PROVE  IsFiniteSet(LinesOf(w)) /\ \A l \in LinesOf(w) : l.number \in Nat
<1>1. IsFiniteSet(JournalIds)
  <2>1. IsFiniteSet({"journal_services_current", "journal_services_previous"})
    BY FewAreFinite
  <2>2. IsFiniteSet({"journal_kernel_current", "journal_kernel_previous"})
    BY FewAreFinite
  <2>3. IsFiniteSet({"journal_services_current", "journal_services_previous"}
                      \cup {"journal_kernel_current", "journal_kernel_previous"})
    BY <2>1, <2>2, FS_Union
  <2> QED
    BY <2>3 DEF JournalIds
<1>2. ASSUME NEW h \in Hosts(w) PROVE IsFiniteSet(LinesOfHost(w, h)) /\ AreLines(LinesOfHost(w, h))
  <2>1. IsSnapshot(w.snaps[h])
    BY DEF IsWorld
  <2> DEFINE journals == [id \in JournalIds |-> Command(w, h, id).items]
  <2>2. \A id \in JournalIds : IsFiniteSet(journals[id]) /\ AreLines(journals[id])
    BY <2>1, FS_EmptySet DEF IsSnapshot, Command, AreLines
  <2>3. IsFiniteSet(UNION {journals[id] : id \in JournalIds})
          /\ AreLines(UNION {journals[id] : id \in JournalIds})
    <3> HIDE DEF journals
    <3> QED
      BY <1>1, <2>2, FiniteFamily DEF AreLines
  <2>4. UNION {journals[id] : id \in JournalIds} = UNION {Command(w, h, id).items : id \in JournalIds}
    OBVIOUS
  <2>5. IsFiniteSet(w.snaps[h].podLogs.items) /\ AreLines(w.snaps[h].podLogs.items)
    BY <2>1 DEF IsSnapshot
  <2> HIDE DEF journals
  <2>6. IsFiniteSet(LinesOfHost(w, h))
    BY <2>3, <2>4, <2>5, FS_Union DEF LinesOfHost
  <2> QED
    BY <2>3, <2>4, <2>5, <2>6 DEF LinesOfHost, AreLines
<1> DEFINE hosted == [h \in Hosts(w) |-> LinesOfHost(w, h)]
<1>3. IsFiniteSet(UNION {hosted[h] : h \in Hosts(w)}) /\ AreLines(UNION {hosted[h] : h \in Hosts(w)})
  <2>1. \A h \in Hosts(w) : IsFiniteSet(hosted[h]) /\ AreLines(hosted[h])
    BY <1>2
  <2> HIDE DEF hosted
  <2> QED
    BY <2>1, FiniteFamily DEF IsWorld, AreLines
<1>4. UNION {hosted[h] : h \in Hosts(w)} = UNION {LinesOfHost(w, h) : h \in Hosts(w)}
  OBVIOUS
<1>5. IsFiniteSet(Items(w, "events")) /\ AreLines(Items(w, "events")) /\ IsFiniteSet(w.logs.items)
        /\ AreLines(w.logs.items)
  BY FS_EmptySet DEF IsWorld, Items
<1> HIDE DEF hosted
<1>6. IsFiniteSet(LinesOf(w))
  BY <1>3, <1>4, <1>5, FS_Union DEF LinesOf
<1> QED
  BY <1>3, <1>4, <1>5, <1>6 DEF LinesOf, AreLines

(* References of events are classes of the list of evidence with a number. *)
EventClasses == LineClasses \cup {"nodes", "pods", "facts"}

LEMMA ReferencesOfTheWorld ==
  ASSUME NEW w, IsWorld(w), NEW v \in Events(w)
  PROVE  v.ref \in EventClasses \X ({l.number : l \in LinesOf(w)} \cup {1})
<1> DEFINE numbers == {l.number : l \in LinesOf(w)}
<1>1. v \in RawEvents(w)
  BY EventsAreRaw
<1>2. CASE v \in JournalEvents(w)
  <2>1. PICK h \in Hosts(w), id \in JournalIds : \E l \in Command(w, h, id).items : v = JournalEvent(h, l)
    BY <1>2, EventsOfTheSources
  <2>2. PICK l \in Command(w, h, id).items : v = JournalEvent(h, l)
    BY <2>1
  <2>3. l \in LinesOf(w)
    BY <2>2 DEF LinesOf, LinesOfHost
  <2>4. v.ref = <<"commands", l.number>>
    BY <2>2 DEF JournalEvent, Event, Reference
  <2> QED
    BY <2>3, <2>4 DEF EventClasses, LineClasses
<1>3. CASE v \in NodePodLogEvents(w)
  <2>1. PICK h \in Hosts(w) : \E l \in w.snaps[h].podLogs.items : v = PodLogEvent(h, l)
    BY <1>3, EventsOfTheSources
  <2>2. PICK l \in w.snaps[h].podLogs.items : v = PodLogEvent(h, l)
    BY <2>1
  <2>3. l \in LinesOf(w)
    BY <2>2 DEF LinesOf, LinesOfHost
  <2>4. v.ref = <<"pod_logs", l.number>>
    BY <2>2 DEF PodLogEvent, Event, Reference
  <2> QED
    BY <2>3, <2>4 DEF EventClasses, LineClasses
<1>4. CASE v \in KubernetesEvents(w)
  <2>1. PICK l \in Items(w, "events") : v = ClusterEvent(NodeOf(w, l.pod), l)
    BY <1>4, EventsOfTheSources
  <2>2. l \in LinesOf(w) /\ v.ref = <<"events", l.number>>
    BY <2>1 DEF LinesOf, ClusterEvent, Event, Reference
  <2> QED
    BY <2>2 DEF EventClasses, LineClasses
<1>5. CASE v \in KubernetesLogEvents(w)
  <2>1. PICK l \in w.logs.items : v = LogEvent(NodeOf(w, l.pod), l)
    BY <1>5, EventsOfTheSources
  <2>2. l \in LinesOf(w) /\ v.ref = <<"logs", l.number>>
    BY <2>1 DEF LinesOf, LogEvent, Event, Reference
  <2> QED
    BY <2>2 DEF EventClasses, LineClasses
<1>6. CASE v \in NodeConditionEvents(w) \/ v \in PodStateEvents(w) \/ v \in ServiceStateEvents(w)
  <2>1. v.ref \in {<<"nodes", 1>>, <<"pods", 1>>, <<"facts", 1>>}
    <3>1. v \in NodeConditionEvents(w) => v.ref = <<"nodes", 1>>
      BY EventsOfTheSources DEF ConditionEvent, Event, Reference
    <3>2. v \in PodStateEvents(w) => v.ref = <<"pods", 1>>
      BY PodStateEventsAre DEF Reference
    <3>3. v \in ServiceStateEvents(w) => v.ref = <<"facts", 1>>
      BY ServiceEventsAre DEF Reference
    <3> QED
      BY <1>6, <3>1, <3>2, <3>3
  <2> QED
    BY <2>1 DEF EventClasses
<1> QED
  BY <1>1, <1>2, <1>3, <1>4, <1>5, <1>6 DEF RawEvents

LEMMA ReferencesAreFinite ==
  ASSUME NEW e, NEW w, Loaded(e, w), NEW events \in SUBSET Events(e),
      \A v \in events : v.source # "systemd_state"
  PROVE  IsFiniteSet({v.ref : v \in events}) /\ {v.ref : v \in events} \subseteq EventClasses \X Nat
<1> DEFINE numbers == {l.number : l \in LinesOf(w)}
<1>1. IsFiniteSet(numbers) /\ numbers \subseteq Nat
  <2> DEFINE number == [l \in LinesOf(w) |-> l.number]
  <2>1. IsFiniteSet({number[l] : l \in LinesOf(w)})
    <3>1. IsFiniteSet(LinesOf(w))
      BY LinesAreFinite DEF Loaded
    <3> HIDE DEF number
    <3> QED
      BY <3>1, FiniteImage
  <2>2. {number[l] : l \in LinesOf(w)} = numbers
    OBVIOUS
  <2> QED
    BY <2>1, <2>2, LinesAreFinite DEF Loaded
<1>2. IsFiniteSet(numbers \cup {1}) /\ numbers \cup {1} \subseteq Nat
  BY <1>1, FS_AddElement
<1>3. IsFiniteSet(EventClasses)
  <2>1. IsFiniteSet({"commands", "pod_logs"}) /\ IsFiniteSet({"events", "logs"})
          /\ IsFiniteSet({"nodes", "pods", "facts"})
    BY FewAreFinite
  <2>2. IsFiniteSet({"commands", "pod_logs"} \cup {"events", "logs"})
    BY <2>1, FS_Union
  <2>3. LineClasses = {"commands", "pod_logs"} \cup {"events", "logs"}
    BY DEF LineClasses
  <2>4. IsFiniteSet(LineClasses)
    BY <2>2, <2>3
  <2> QED
    BY <2>1, <2>4, FS_Union DEF EventClasses
<1> HIDE DEF numbers
<1>4. IsFiniteSet(EventClasses \X (numbers \cup {1}))
  BY <1>2, <1>3, FS_Product
<1>5. {v.ref : v \in events} \subseteq EventClasses \X (numbers \cup {1})
  <2> SUFFICES ASSUME NEW v \in events PROVE v.ref \in EventClasses \X (numbers \cup {1})
    OBVIOUS
  <2>1. Placed(w, v) \in Events(w) /\ IsWorld(w)
    BY EventOfTheWorld DEF Loaded
  <2> QED
    BY <2>1, ReferencesOfTheWorld, PlacedFields DEF numbers
<1> QED
  BY <1>2, <1>4, <1>5, FS_Subset

---------------------------------------------------------------------------

(* The list of evidence is sorted.                                         *)
LEMMA PrecedesIsOrder ==
  ASSUME NEW r \in EventClasses \X Nat, NEW s \in EventClasses \X Nat, NEW t \in EventClasses \X Nat
  PROVE  ~Precedes(r, r) /\ (Precedes(r, s) /\ Precedes(s, t) => Precedes(r, t))
<1>1. \A class \in EventClasses : Place(class) \in Nat
  <2> SUFFICES ASSUME NEW class \in EventClasses PROVE Place(class) \in Nat
    OBVIOUS
  <2>1. EvidencePlaces =
          <<"collection", "logs", "events", "nodes", "pods", "snapshot", "commands", "facts", "pod_logs",
              "normalized">>
    BY DEF EvidencePlaces
  <2>2. DOMAIN EvidencePlaces = 1..10
    BY <2>1
  <2>3. \E i \in 1..10 : EvidencePlaces[i] = class
    <3>1. /\ EvidencePlaces[2] = "logs" /\ EvidencePlaces[3] = "events" /\ EvidencePlaces[4] = "nodes"
          /\ EvidencePlaces[5] = "pods" /\ EvidencePlaces[7] = "commands" /\ EvidencePlaces[8] = "facts"
          /\ EvidencePlaces[9] = "pod_logs"
      BY <2>1
    <3>2. class \in {"logs", "events", "nodes", "pods", "commands", "facts", "pod_logs"}
      BY DEF EventClasses, LineClasses
    <3>3. 2 \in 1..10 /\ 3 \in 1..10 /\ 4 \in 1..10 /\ 5 \in 1..10 /\ 7 \in 1..10 /\ 8 \in 1..10
            /\ 9 \in 1..10
      OBVIOUS
    <3> QED
      BY <3>1, <3>2, <3>3
  <2>4. Place(class) \in 1..10
    BY <2>2, <2>3 DEF Place
  <2> QED
    BY <2>4
<1>2. Place(r[1]) \in Nat /\ Place(s[1]) \in Nat /\ Place(t[1]) \in Nat /\ r[2] \in Nat /\ s[2] \in Nat
        /\ t[2] \in Nat
  BY <1>1
<1> QED
  BY <1>2 DEF Precedes

LEMMA LeastNatural == ASSUME NEW S \in SUBSET Nat, S # {} PROVE \E m \in S : \A n \in S : m <= n
<1> DEFINE less == {p \in Nat \X Nat : p[1] < p[2]}
<1>1. IsWellFoundedOn(less, Nat)
  BY NatLessThanWellFounded, Zenon DEF OpToRel
<1> HIDE DEF less
<1>2. PICK m \in S : \A n \in S : <<n, m>> \notin less
  BY <1>1, WFMin
<1>3. ASSUME NEW n \in S PROVE m <= n
  <2>1. n \in Nat /\ m \in Nat /\ ~(n < m)
    BY <1>2 DEF less
  <2> QED
    BY <2>1
<1> QED
  BY <1>3

(* A finding that keeps fewer references than it may keeps them all.       *)
LEMMA AllAreKept ==
  ASSUME NEW refs, IsFiniteSet(refs), refs \subseteq EventClasses \X Nat,
      Cardinality(Kept(refs)) < MaxEvidence
  PROVE  Kept(refs) = refs
<1> DEFINE before(r) == {s \in refs : Precedes(s, r)}
           cut == {r \in refs : r \notin Kept(refs)}
           rank == [r \in refs |-> Cardinality(before(r))]
<1>1. \A r \in refs : IsFiniteSet(before(r)) /\ Cardinality(before(r)) \in Nat
  BY FS_Subset, FS_CardinalityType
<1>2. IsFiniteSet(Kept(refs)) /\ Cardinality(Kept(refs)) \in Nat
  BY FS_Subset, FS_CardinalityType DEF Kept
<1>3. SUFFICES ASSUME cut # {} PROVE FALSE
  BY DEF Kept
<1>4. PICK m \in cut : \A r \in cut : Cardinality(before(m)) <= Cardinality(before(r))
  <2> DEFINE ranks == {rank[r] : r \in cut}
  <2>1. ranks \in SUBSET Nat /\ ranks # {}
    BY <1>1, <1>3
  <2>2. PICK n \in ranks : \A k \in ranks : n <= k
    <3> HIDE DEF ranks
    <3> QED
      BY <2>1, LeastNatural
  <2>3. PICK m \in cut : n = rank[m]
    BY DEF ranks
  <2> QED
    BY <2>2, <2>3
<1>5. before(m) \subseteq Kept(refs)
  <2> SUFFICES ASSUME NEW s \in before(m), s \in cut PROVE FALSE
    OBVIOUS
  <2>1. before(s) \subseteq before(m) /\ s \notin before(s)
    BY PrecedesIsOrder
  <2>2. Cardinality(before(s)) <= Cardinality(before(m)) /\ Cardinality(before(s)) # Cardinality(before(m))
    BY <1>1, <2>1, FS_Subset
  <2>3. Cardinality(before(m)) <= Cardinality(before(s))
    BY <1>4
  <2>4. Cardinality(before(s)) \in Nat /\ Cardinality(before(m)) \in Nat
    BY <1>1
  <2> QED
    BY <2>2, <2>3, <2>4
<1>6. Cardinality(before(m)) <= Cardinality(Kept(refs))
  BY <1>2, <1>5, FS_Subset
<1>7. Cardinality(before(m)) < MaxEvidence
  BY <1>1, <1>2, <1>6, EvidenceAssumption
<1>8. m \in Kept(refs)
  BY <1>7 DEF Kept
<1> QED
  BY <1>8

---------------------------------------------------------------------------

(* ActivityStatus hides a problem as resolved only when it is over: a state *)
(* of now, of the same problem and object, would be among the references   *)
(* of the finding, for all worlds, losses and limits of references.        *)
THEOREM ResolvedOver == Spec => []ResolvedIsOver
<1>1. ASSUME EvidenceInv PROVE ResolvedIsOver
  <2> SUFFICES ASSUME pc = "written", evidence.dropped = {}, SourceCollected(evidence, "pods"),
                      SourceCollected(evidence, "nodes"), NEW a \in findings, a.status = "resolved",
                      Cardinality(a.finding.evidence) < MaxEvidence, NEW f \in EvaluateRules(world),
                      f.rule = a.finding.rule, f.affected \cap a.finding.affected # {},
                      NEW ref \in f.evidence, ref[1] \in {"nodes", "pods", "facts"}
               PROVE  FALSE
    BY DEF ResolvedIsOver
  <2> DEFINE g == a.finding
             told == {v \in Events(evidence) : Tells(g.rule, g.affected, v)}
  <2>1. Loaded(evidence, world)
    BY <1>1, RulesAreFound
  <2>2. g \in EvaluateRules(evidence) /\ g.ended = "old" /\ \A r \in g.evidence : ~IsCurrent(r)
    <3>1. PICK h \in EvaluateRules(evidence) : a = Annotated(h, evidence.options)
      BY <1>1 DEF EvidenceInv
    <3>2. a.finding = h /\ a.status = ActivityStatus(h, evidence.options)
      BY <3>1 DEF Annotated
    <3> QED
      BY <3>2 DEF ActivityStatus
  <2>3. MadeOfEvents(g, Events(evidence)) /\ MadeOfEvents(f, Events(world))
    <3>1. MadeOfEvents(g, Events(evidence))
      BY <2>1, <2>2, MadeOrTimeless
    <3>2. f.rule \in EventRuleIds
      BY <3>1 DEF MadeOfEvents
    <3> QED
      BY <2>1, <3>1, <3>2, MadeOrTimeless
  <2>4. PICK u \in Events(world) : Tells(f.rule, f.affected, u) /\ u.ref = ref
    BY <2>3 DEF MadeOfEvents, Kept
  <2>5. u \in Events(evidence) /\ IsCurrent(ref)
    BY <2>1, <2>4, NoUnitTells, StateIsCollected
  <2>6. u \in told
    BY <2>3, <2>4, <2>5, SameTells
  <2>7. g.evidence = {v.ref : v \in told}
    <3>1. g.evidence = Kept({v.ref : v \in told})
      BY <2>3 DEF MadeOfEvents
    <3>2. IsFiniteSet({v.ref : v \in told}) /\ {v.ref : v \in told} \subseteq EventClasses \X Nat
      <4>1. \A v \in told : v.source # "systemd_state"
        BY NoUnitTells
      <4> QED
        BY <2>1, <4>1, ReferencesAreFinite
    <3> HIDE DEF told
    <3> QED
      BY <3>1, <3>2, AllAreKept
  <2> QED
    BY <2>2, <2>4, <2>5, <2>6, <2>7
<1> QED
  BY <1>1, EvidenceInvariant, PTL
=============================================================================
