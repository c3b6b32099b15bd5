----------------------------- MODULE EventRules -----------------------------
(***************************************************************************)
(* The rules of rules.py that look at the normalized events and at their   *)
(* correlations, and evaluate_rules, which puts all the rules together.    *)
(***************************************************************************)
EXTENDS ClusterRules

\* What an event is about, in the order of what it knows.
Target(v) ==
  IF v.pod # "none" THEN Whole(v.pod) ELSE IF v.node # "none" THEN Whole(v.node) ELSE Whole(v.component)

EventFinding(rule, events) ==
  {Finding(rule, {Target(v) : v \in s}, {v.ref : v \in s}, {v.when : v \in s}) : s \in {events} \ {{}}}

AnySource ==
  {"journal", "cri_log", "kubernetes_event", "kubernetes_condition", "kubernetes_pod_state",
   "kubernetes_container_state", "kubernetes_pod_log", "systemd_state"}

Having(events, categories, sources) == {v \in events : v.categories \cap categories # {} /\ v.source \in sources}

---------------------------------------------------------------------------
\* The rules that are made of categories and of where they may be found.

KernelRules ==
  { [rule |-> "node.kernel_oops", categories |-> {"npd_kernel_oops"}],
    [rule |-> "node.task_hung", categories |-> {"npd_task_hung"}],
    [rule |-> "node.filesystem_error", categories |-> {"npd_ext4_error", "npd_xfs_shutdown"}],
    [rule |-> "node.filesystem_warning", categories |-> {"npd_ext4_warning"}],
    [rule |-> "node.io_error", categories |-> {"npd_io_error"}],
    [rule |-> "node.unregister_netdevice", categories |-> {"npd_unregister_netdevice"}],
    [rule |-> "node.hardware_error", 
      categories |-> {"npd_memory_read_error", "npd_hardware_corrected", "npd_hardware_recoverable", "npd_hardware_fatal"}] }

StateRules ==
  { [rule |-> "kubernetes.node_not_ready", categories |-> {"node_not_ready"}, sources |-> AnySource],
    [rule |-> "kubernetes.node_pressure", categories |-> {"memory_pressure", "disk_pressure", "pid_pressure"},
     sources |-> AnySource],
    [rule |-> "kubernetes.network_unavailable", categories |-> {"network_unavailable"}, sources |-> AnySource],
    [rule |-> "kubernetes.pod_crash_loop", categories |-> {"crash_loop"},
     sources |-> {"kubernetes_container_state", "kubernetes_event"}],
    [rule |-> "kubernetes.image_pull_failure", categories |-> {"image_pull"}, sources |-> AnySource],
    [rule |-> "kubernetes.pod_oom_killed", categories |-> {"oom_kill"}, sources |-> {"kubernetes_container_state"}],
    [rule |-> "kubernetes.failed_scheduling", categories |-> {"failed_scheduling"}, sources |-> AnySource] }

SignatureRules ==
  { [rule |-> "network.cni_unavailable", categories |-> {"cni_unavailable"}, sources |-> AnySource],
    [rule |-> "cilium.unhealthy", categories |-> {"cilium_unhealthy"}, sources |-> AnySource],
    [rule |-> "node.oom_detected", categories |-> {"oom_kill"},
     sources |-> {"journal", "cri_log", "kubernetes_pod_log"}],
    [rule |-> "node.conntrack_full", categories |-> {"conntrack_full"}, sources |-> AnySource] }

TailRules ==
  { [rule |-> "storage.volume_operation_failure", categories |-> {"volume_error"}, sources |-> AnySource],
    [rule |-> "security_agent.ptrace_alert", categories |-> {"ptrace_security_alert"}, sources |-> {"journal"}] }

\* The one of these rules whose finding is not given the times of its events.
ProbeFindings(events) ==
  {Finding("kubernetes.probe_failures", {Target(v) : v \in s}, {v.ref : v \in s}, {})
   : s \in {Having(events, {"probe_failure"}, AnySource)} \ {{}}}

EventRuleFindings(events) ==
  (UNION { EventFinding(r.rule, Having(events, r.categories, r.sources)) : r \in StateRules \cup SignatureRules \cup TailRules })
  \cup (UNION { EventFinding(r.rule, Having(events, r.categories, AnySource)) : r \in KernelRules })
  \cup ProbeFindings(events)

---------------------------------------------------------------------------
\* The rules that put events beside the state.

\* IPv6 is off on a host, and there are IPv6 Pods somewhere, or an error of that
\* kind on such a host.
Ipv6Findings(e, events) ==
  LET disabled == {h \in Hosts(e) : Facts(e, h).ipv6Disabled}
      pods == {p \in Items(e, "pods") : p.ipv6}
      errors == {v \in events : "address_family" \in v.categories}
      linked == pods # {} \/ \E v \in errors : v.node \in disabled
  IN IF ~linked \/ disabled = {} THEN {}
     ELSE {Finding("network.ipv6_disabled", Named({[name |-> h] : h \in disabled}),
                   {Reference("facts", 1)} \cup {Reference("pods", 0) : p \in pods} \cup {v.ref : v \in errors}, {})}

CorednsFindings(events) ==
  EventFinding("dns.coredns_errors",
               {v \in events : v.categories \cap DnsErrorCategories # {} /\ v.component = "coredns"})

\* The file is there now on a host, /readyz says so, and every API server Pod is
\* ready: what the log repeats is over.
CurrentlyHealthy(e) ==
  LET servers == {p \in Items(e, "pods") : p.app = "kube-apiserver"}
  IN /\ \E h \in Hosts(e) : Facts(e, h).authFile
     /\ SourceCollected(e, "api_readyz")
     /\ Items(e, "api_readyz") # {} /\ \A c \in Items(e, "api_readyz") : ~c.failed
     /\ SourceCollected(e, "pods") /\ servers # {} /\ \A p \in servers : Ready(p)

AuthenticationConfigFindings(e, events) ==
  LET errors == {v \in events : "authentication_config_read_error" \in v.categories}
  IN IF Several(errors) /\ ~CurrentlyHealthy(e)
     THEN EventFinding("controlplane.authentication_config_read_error", errors) ELSE {}

CorrelationRules ==
  [ node_runtime_failure |-> "correlation.node_runtime_failure", node_cni_failure |-> "correlation.node_cni_failure",
    probe_network_failure |-> "correlation.probe_network_failure", storage_failure |-> "correlation.storage_failure",
    memory_oom_failure |-> "correlation.memory_oom_failure", cgroup_service_failure |-> "cgroup.service_failure",
    certificate_api_failure |-> "correlation.certificate_api_failure",
    conntrack_network_failure |-> "correlation.conntrack_network_failure" ]

\* One finding per episode, about its scope, which is written "node:" or "pod:"
\* and a name, and so is the name of no object.
CorrelationFindings(events) ==
  LET of(spec, scope) == {x \in events : /\ CorrelationScope(x, spec.id) = scope /\ x.when # "none"
                                         /\ x.categories \cap (spec.left \cup spec.right) # {}}
  IN UNION { { Finding(CorrelationRules[spec.id], {Part(scope, "scope")},
                       {v.ref : v \in of(spec, scope)}, {v.when : v \in of(spec, scope)})
               : scope \in Episodes(events, spec) } : spec \in CorrelationSpecs }

---------------------------------------------------------------------------

CgroupRuleIds ==
  {"cgroup.controllers_missing", "cgroup.driver_mismatch", "cgroup.service_failure", "security_agent.cgroup_denial"}

EvaluateRules(e) ==
  LET events == Events(e)
      findings == NodeFindings(e) \cup ClusterFindings(e) \cup EventRuleFindings(events)
                    \cup Ipv6Findings(e, events) \cup CorednsFindings(events)
                    \cup AuthenticationConfigFindings(e, events) \cup CorrelationFindings(events)
  IN IF e.options.cgroup THEN findings ELSE {f \in findings : f.rule \notin CgroupRuleIds}

Matched(findings) == {f.rule : f \in findings}
=============================================================================
