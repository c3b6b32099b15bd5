------------------------------- MODULE Causal -------------------------------
(***************************************************************************)
(* The analysis of causes (causal.py): what a finding says of now, what it *)
(* may explain, over a graph of the Kubernetes objects whose size is       *)
(* bounded.                                                                *)
(***************************************************************************)
EXTENDS EventRules, SequencesExt

CONSTANTS
  MaxGraphNodes,   \* 5000
  MaxGraphEdges    \* 10000

---------------------------------------------------------------------------
\* The role and the state of a finding.

Consequences ==
  {"kubernetes.container_exit_nonzero", "kubernetes.init_container_failed", "kubernetes.job_failed",
   "kubernetes.failed_scheduling", "kubernetes.daemonset_misscheduled", "kubernetes.deployment_rollout_failed",
   "kubernetes.statefulset_rollout_stalled", "controlplane.apiservice_unavailable",
   \* the prefixes kubernetes.pod_, workload_, service_ and probe_
   "kubernetes.pod_waiting", "kubernetes.pod_evicted", "kubernetes.pod_restart_storm", "kubernetes.pod_crash_loop",
   "kubernetes.pod_oom_killed", "kubernetes.workload_degraded", "kubernetes.service_no_endpoints",
   "kubernetes.service_no_ready_endpoints", "kubernetes.service_port_unresolved", "kubernetes.probe_failures"}

AboutCollection ==
  {"collector.node_gap", "collector.evidence_gap", "collector.normalization_truncated", "collector.boot_changed",
   "collector.etcd_evidence_gap"}

\* Mutant: a Pod is not taken for a state.
IsCurrentWithoutPods(ref) == ref[1] \in {"collection", "nodes", "facts"}

\* The evidence of a state that is there, not of a line of a log.
IsCurrent(ref) == ref[1] \in {"collection", "nodes", "pods", "facts"}

\* In an analysis of an incident only what ended before it is over; otherwise
\* what ended long before the collection did.
ActivityStatus(finding, options) ==
  IF \E ref \in finding.evidence : IsCurrent(ref) THEN "active"
  ELSE IF finding.ended = "old" /\ ~options.incident THEN "resolved"
  ELSE "unknown"

Annotated(finding, options) ==
  [finding |-> finding, status |-> ActivityStatus(finding, options),
   consequence |-> finding.rule \in Consequences]

---------------------------------------------------------------------------
\* The graph. An object is <<kind, name>>.

\* _add_kubernetes_topology asks for the nodes of the graph in this order.
Each(items, AskedOf(_)) == FoldSet(LAMBDA item, asked : asked \o AskedOf(item), <<>>, items)

Unless(name, objects) == IF name = "none" THEN <<>> ELSE objects

Asked(e) ==
  LET slice(s) == <<<<"slice", s.name>>>> \o Each(s.endpoints, LAMBDA x : <<<<"pod", x.pod>>>>)
                    \o <<<<"service", s.service>>>>
  IN   Each(Items(e, "nodes"), LAMBDA n : <<<<"node", n.name>>>>)
    \o Each(Items(e, "workloads"), LAMBDA w : <<<<"workload", w.name>>>>)
    \o Each(Items(e, "workloads"), LAMBDA w : Unless(w.owner, <<<<"workload", w.owner>>>>))
    \o Each(Items(e, "pods"), LAMBDA p : <<<<"pod", p.name>>>> \o Unless(p.node, <<<<"node", p.node>>>>)
                                           \o Unless(p.owner, <<<<"workload", p.owner>>>>))
    \o Each(Items(e, "services"), LAMBDA s : <<<<"service", s.name>>>>)
    \o Each(Items(e, "endpoint_slices"), slice)
    \o Each(Items(e, "pvc"), LAMBDA c : <<<<"pvc", c.name>>>>)
    \o Each(Items(e, "pods"), LAMBDA p : Unless(p.claim, <<<<"pvc", p.claim>>>>))
    \o Each(Items(e, "pv"), LAMBDA v : <<<<"pv", v.name>>>> \o Unless(v.driver, <<<<"csi", v.driver>>>>))
    \o Each(Items(e, "pvc"), LAMBDA c : Unless(c.volume, <<<<"pv", c.volume>>>>))
    \o Each(Items(e, "volume_attachments"),
            LAMBDA a : <<<<"attachment", a.name>>, <<"pv", a.pv>>, <<"node", a.node>>>>)

\* These come last.
Components == {<<"component", c>> : c \in {"etcd", "kube-apiserver", "container-runtime", "cilium", "dns"}}

Objects(e) == LET asked == Asked(e) IN {asked[i] : i \in DOMAIN asked} \cup Components

\* _GraphBuilder.node: there is room for the first MaxGraphNodes different ones.
GraphNodes(e) ==
  LET asked == Asked(e) \o SetToSeq(Components)
  IN {asked[i] : i \in {k \in DOMAIN asked : Cardinality({asked[j] : j \in 1..(k - 1)}) < MaxGraphNodes}}

\* What the topology links, whatever the size of the graph.
Links(e) ==
  LET nodes == {<<"node", n.name>> : n \in Items(e, "nodes")} \cup
               {<<"node", p.node>> : p \in {x \in Items(e, "pods") : x.node # "none"}}
               \cup {<<"node", a.node>> : a \in Items(e, "volume_attachments")}
      toNode == {"kube-apiserver", "container-runtime", "cilium"}
      pods == Items(e, "pods")
      slices == Items(e, "endpoint_slices")
  IN   { <<<<"workload", w.name>>, <<"workload", w.owner>>>> : w \in {x \in Items(e, "workloads") : x.owner # "none"} }
  \cup { <<<<"node", p.node>>, <<"pod", p.name>>>> : p \in {x \in pods : x.node # "none"} }
  \cup { <<<<"pod", p.name>>, <<"workload", p.owner>>>> : p \in {x \in pods : x.owner # "none"} }
  \cup (UNION { { <<<<"pod", x.pod>>, <<"slice", s.name>>>> : x \in s.endpoints } : s \in slices })
  \cup { <<<<"slice", s.name>>, <<"service", s.service>>>> : s \in slices }
  \cup { <<<<"pvc", p.claim>>, <<"pod", p.name>>>> : p \in {x \in pods : x.claim # "none"} }
  \cup { <<<<"csi", v.driver>>, <<"pv", v.name>>>> : v \in {x \in Items(e, "pv") : x.driver # "none"} }
  \cup { <<<<"pv", c.volume>>, <<"pvc", c.name>>>> : c \in {x \in Items(e, "pvc") : x.volume # "none"} }
  \cup (UNION { { <<<<"pv", a.pv>>, <<"attachment", a.name>>>>, <<<<"attachment", a.name>>, <<"node", a.node>>>> }
                : a \in Items(e, "volume_attachments") })
  \cup {<<<<"component", "etcd">>, <<"component", "kube-apiserver">>>>}
  \cup {<<<<"component", c>>, n>> : c \in toNode, n \in nodes}
  \cup {<<<<"component", "dns">>, <<"service", s.name>>>> : s \in {x \in Items(e, "services") : x.dns > 0}}

\* Mutant: edges lead both ways.
GraphEdgesBothWays(links, nodes) ==
  {l \in links \cup {<<k[2], k[1]>> : k \in links} : l[1] \in nodes /\ l[2] \in nodes}

\* _GraphBuilder.edge: both its ends must be in the graph. Which ones a full graph
\* leaves out is the order of the lists.
GraphEdges(links, nodes) ==
  LET edges == {l \in links : l[1] \in nodes /\ l[2] \in nodes}
  IN IF Cardinality(edges) <= MaxGraphEdges THEN edges
     ELSE edges \ CHOOSE left \in SUBSET edges : Cardinality(edges \ left) = MaxGraphEdges

\* object_targets: the objects that a finding names. What the graph had no room
\* for is there as None, a Node of the first list only is left out.
NoObject == <<"None", "None">>

OnlyListed(e, name) ==
  /\ name \in Names(Items(e, "nodes"))
  /\ \A p \in Items(e, "pods") \cup Items(e, "volume_attachments") : p.node # name

Standing(e, objects, nodes, finding) ==
  {IF o \in nodes THEN o ELSE NoObject :
     o \in {x \in objects : /\ x[1] # "component" /\ Whole(x[2]) \in finding.affected
                            /\ x[1] = "node" /\ OnlyListed(e, x[2]) => x \in nodes}}

ComponentOf(rule) ==
  CASE rule \in {"etcd.unhealthy", "etcd.alarm_active", "etcd.topology_inconsistent", "etcd.raft_apply_lag",
                 "etcd.database_near_quota", "etcd.fragmentation_high", "etcd.member_version_drift"} -> {"etcd"}
    [] rule \in {"controlplane.api_readyz_failed", "controlplane.authentication_config_read_error",
                 "controlplane.apiservice_unavailable", "controlplane.node_lease_stale",
                 "controlplane.static_pod_unhealthy"} -> {"kube-apiserver"}
    [] rule \in {"runtime.cri_not_ready", "runtime.cri_network_not_ready"} -> {"container-runtime"}
    [] rule \in {"cilium.unhealthy", "cilium.endpoint_unhealthy", "cilium.node_ipam_error",
                 "cilium.policy_import_failed", "cilium.kube_proxy_replacement_disabled",
                 "cilium.service_frontend_missing", "network.cni_unavailable"} -> {"cilium"}
    [] rule \in {"dns.kube_dns_unavailable", "dns.cluster_dns_mismatch", "dns.nameserver_limit_exceeded",
                 "dns.coredns_errors", "dns.coredns_config_empty"} -> {"dns"}
    [] OTHER -> {}

\* A part of an object is written with the object, which is the name of none.
FindingTargets(e, objects, nodes, finding) ==
  LET named == Standing(e, objects, nodes, finding)
  IN IF named # {} THEN named
     ELSE {IF <<"component", c>> \in nodes THEN <<"component", c>> ELSE NoObject : c \in ComponentOf(finding.rule)}

Beyond(edges, found) == found \cup {l[2] : l \in {x \in edges : x[1] \in found}}

\* Within six steps.
Reachable(edges, starts) ==
  LET more(found) == Beyond(edges, found) IN more(more(more(more(more(more(starts))))))

\* Not a cause that began after the consequence was over.
TemporallyCompatible(cause, consequence) == ~(cause.started = "recent" /\ consequence.ended = "old")

---------------------------------------------------------------------------
\* build_causal_analysis. Sorting targets raises when None is among others. Every
\* finding is an object of the graph too, after those of the topology. The ranks
\* of the hypotheses are left out.

CausalAnalysis(e, annotated) ==
  LET objects == Objects(e)
      nodes == GraphNodes(e)
      edges == GraphEdges(Links(e), nodes)
      targets == [a \in annotated |-> FindingTargets(e, objects, nodes, a.finding)]
      reach == [a \in annotated |-> Reachable(edges, targets[a])]
      causes == {a \in annotated : ~a.consequence /\ a.finding.rule \notin AboutCollection}
      explains(c, q) ==
        /\ targets[q] # {} /\ reach[c] \cap targets[q] # {}
        /\ TemporallyCompatible(c.finding, q.finding)
      ranked == {a \in causes : e.options.incident \/ a.status # "resolved"}
  IN [raised |-> \E a \in annotated : NoObject \in targets[a] /\ targets[a] # {NoObject},
      truncated |-> Cardinality(objects) + Cardinality(annotated) > MaxGraphNodes,
      hypotheses |-> { [cause |-> c.finding, status |-> c.status,
                        downstream |-> {q.finding : q \in {x \in annotated : x.consequence /\ explains(c, x)}}]
                       : c \in ranked }]
=============================================================================
