------------------------------- MODULE Ledger -------------------------------
(***************************************************************************)
(* Coverage and the ledger of the rules (report.py). The coverage has a    *)
(* row for every host, every command and group of Pod logs of a loaded     *)
(* snapshot, every Kubernetes source, every log and every Prometheus       *)
(* source. Each rule declares the rows it needs; the ledger says of every  *)
(* rule of the catalog whether it matched, did not match, cannot be told   *)
(* or does not apply.                                                      *)
(***************************************************************************)
EXTENDS NodeRules

Row(kind, id, host, status) == [kind |-> kind, id |-> id, host |-> host, status |-> status]

\* Mutant: the hosts whose snapshot was loaded.
HostRowsOfLoaded(e) == { Row("node", "none", h, "collected") : h \in Hosts(e) }

HostRows(e) == { Row("node", "none", h, e.results[h]) : h \in DOMAIN e.results }
CommandRows(e) ==
  UNION { { Row("command", id, h, e.snaps[h].commands[id].status) : id \in DOMAIN e.snaps[h].commands } : h \in Hosts(e) }
PodLogRows(e) == { Row("pod_logs", "none", h, e.snaps[h].podLogs.status) : h \in Hosts(e) }
SourceRows(e) == { Row("kubernetes", id, "none", e.kube[id].status) : id \in DOMAIN e.kube }
\* None in a cluster that was not asked.
LogRows(e) == { Row("kubernetes", "logs", "none", s) : s \in {e.logs.status} \ {"absent"} }
ClusterRows(e) == { Row("cluster", "kubernetes", "none", e.kubeStatus), Row("cluster", "prometheus", "none", e.promStatus) }
MetricRows(e) == { Row("prometheus", id, "none", e.prom[id].status) : id \in DOMAIN e.prom }

Coverage(e) ==
  HostRows(e) \cup CommandRows(e) \cup PodLogRows(e) \cup SourceRows(e) \cup LogRows(e)
    \cup ClusterRows(e) \cup MetricRows(e)

Hosted == [kind |-> "node", id |-> "none"]
Ran(command) == [kind |-> "command", id |-> command]
HostPodLogs == [kind |-> "pod_logs", id |-> "none"]
Api(source) == [kind |-> "kubernetes", id |-> source]

---------------------------------------------------------------------------
\* What each rule declares.

NodeRequirements ==
  { [rules |-> {"certificate.expiring", "certificate.kubelet_rotation_broken", "cgroup.controllers_missing",
                "dns.nameserver_limit_exceeded", "inventory.mixed_kernel", "node.kubelet_inactive",
                "node.low_root_disk", "node.runtime_inactive", "node.swap_active", "time.not_synchronized"},
     of |-> {Hosted}],
    [rules |-> {"node.low_inodes"}, of |-> {Hosted, Ran("df_inodes")}],
    [rules |-> {"node.low_runtime_disk"}, of |-> {Hosted, Ran("df_blocks")}],
    [rules |-> {"cgroup.driver_mismatch", "runtime.cri_network_not_ready", "runtime.cri_not_ready"},
     of |-> {Hosted, Ran("runtime_crictl_info")}],
    [rules |-> {"node.conntrack_full", "node.filesystem_error", "node.filesystem_warning", "node.hardware_error",
                "node.io_error", "node.kernel_oops", "node.task_hung", "node.unregister_netdevice",
                "security_agent.ptrace_alert"},
     of |-> {Hosted, Ran("journal_kernel_current")}],
    [rules |-> {"node.oom_detected"},
     of |-> {Hosted, Ran("journal_kernel_current"), HostPodLogs, Api("pods"), Api("logs")}],
    [rules |-> {"security_agent.cgroup_denial"},
     of |-> {Hosted, Ran("installed_packages"), Ran("journal_services_current")}],
    [rules |-> {"cgroup.service_failure"}, of |-> {Hosted, Ran("journal_services_current")}] }

ApiRequirements ==
  { [rules |-> {"inventory.node_set_mismatch"}, of |-> {Hosted, Api("nodes")}],
    [rules |-> {"inventory.mixed_apiserver_versions", "kubernetes.container_exit_nonzero",
                "kubernetes.init_container_failed", "kubernetes.pod_evicted", "kubernetes.pod_oom_killed",
                "kubernetes.pod_restart_storm", "kubernetes.pod_waiting", "controlplane.static_pod_unhealthy"},
     of |-> {Api("pods")}],
    [rules |-> {"inventory.unsupported_version_skew"}, of |-> {Api("nodes"), Api("pods")}],
    [rules |-> {"kubernetes.network_unavailable", "kubernetes.node_not_ready", "kubernetes.node_pressure"},
     of |-> {Api("nodes")}],
    [rules |-> {"kubernetes.image_pull_failure", "kubernetes.pod_crash_loop"}, of |-> {Api("pods"), Api("events")}],
    [rules |-> {"kubernetes.failed_scheduling", "storage.volume_operation_failure"}, of |-> {Api("events")}],
    [rules |-> {"kubernetes.probe_failures", "correlation.probe_network_failure"},
     of |-> {Api("events"), Api("logs")}],
    [rules |-> {"kubernetes.daemonset_misscheduled", "kubernetes.deployment_rollout_failed", "kubernetes.job_failed",
                "kubernetes.statefulset_rollout_stalled", "kubernetes.workload_degraded"}, of |-> {Api("workloads")}],
    [rules |-> {"kubernetes.service_no_endpoints", "kubernetes.service_no_ready_endpoints",
                "kubernetes.service_port_unresolved"}, of |-> {Api("services"), Api("endpoint_slices")}],
    [rules |-> {"dns.kube_dns_unavailable"}, of |-> {Api("services"), Api("endpoint_slices"), Api("pods")}],
    [rules |-> {"dns.cluster_dns_mismatch", "cilium.service_frontend_missing"}, of |-> {Hosted, Api("services")}],
    [rules |-> {"dns.coredns_config_empty"}, of |-> {Api("coredns_config")}],
    [rules |-> {"dns.coredns_errors"}, of |-> {Api("logs")}] }

ControlPlaneRequirements ==
  { [rules |-> {"pdb.disruption_blocked", "pdb.insufficient_healthy"}, of |-> {Api("pdb")}],
    [rules |-> {"controlplane.api_readyz_failed"}, of |-> {Api("api_readyz")}],
    [rules |-> {"controlplane.authentication_config_read_error"},
     of |-> {Hosted, Ran("journal_services_current"), HostPodLogs, Api("logs")}],
    [rules |-> {"controlplane.apiservice_unavailable"}, of |-> {Api("api_services")}],
    [rules |-> {"controlplane.node_lease_stale"}, of |-> {Api("nodes"), Api("leases")}],
    [rules |-> {"storage.pvc_pending"}, of |-> {Api("pvc")}],
    [rules |-> {"storage.pv_failed"}, of |-> {Api("pv")}],
    [rules |-> {"storage.storage_class_missing"}, of |-> {Api("pvc"), Api("storage_classes")}],
    [rules |-> {"storage.volume_attachment_failed"}, of |-> {Api("volume_attachments")}],
    [rules |-> {"storage.csi_driver_registration_gap"}, of |-> {Api("pv"), Api("csi_drivers"), Api("csi_nodes")}],
    [rules |-> {"cilium.endpoint_unhealthy"}, of |-> {Api("cilium_endpoints")}],
    [rules |-> {"cilium.node_ipam_error"}, of |-> {Api("cilium_nodes")}],
    [rules |-> {"cilium.policy_import_failed"},
     of |-> {Api("cilium_network_policies"), Api("cilium_clusterwide_network_policies")}],
    [rules |-> {"cilium.kube_proxy_replacement_disabled"}, of |-> {Api("cilium_config"), Api("pods")}] }

CorrelationRequirements ==
  { [rules |-> {"cilium.unhealthy"}, of |-> {Hosted, HostPodLogs, Api("pods"), Api("logs")}],
    [rules |-> {"network.ipv6_disabled"}, of |-> {Hosted, Api("pods")}],
    [rules |-> {"network.cni_unavailable"},
     of |-> {Hosted, Ran("journal_services_current"), HostPodLogs, Api("events"), Api("logs")}],
    [rules |-> {"correlation.node_runtime_failure"}, of |-> {Hosted, Ran("journal_services_current"), Api("nodes")}],
    [rules |-> {"correlation.node_cni_failure"},
     of |-> {Hosted, Ran("journal_services_current"), HostPodLogs, Api("nodes"), Api("events"), Api("logs")}],
    [rules |-> {"correlation.memory_oom_failure"},
     of |-> {Hosted, Ran("journal_kernel_current"), HostPodLogs, Api("nodes"), Api("pods"), Api("logs")}],
    [rules |-> {"correlation.certificate_api_failure"},
     of |-> {Hosted, Ran("journal_services_current"), Api("events"), Api("logs")}],
    [rules |-> {"correlation.conntrack_network_failure"},
     of |-> {Hosted, Ran("journal_kernel_current"), Api("events"), Api("logs")}],
    [rules |-> {"correlation.storage_failure"},
     of |-> {Hosted, Ran("journal_kernel_current"), HostPodLogs, Api("nodes"), Api("events"), Api("logs")}] }

EtcdRules ==
  {"etcd.unhealthy", "etcd.alarm_active", "etcd.topology_inconsistent", "etcd.raft_apply_lag",
   "etcd.database_near_quota", "etcd.fragmentation_high", "etcd.member_version_drift"}
PrometheusRules == {"prometheus.alert_firing", "prometheus.config_reload_failed", "prometheus.corruption_detected"}
CollectorRules ==
  {"collector.node_gap", "collector.evidence_gap", "collector.normalization_truncated", "collector.boot_changed",
   "collector.etcd_evidence_gap"}
CgroupPrefixed ==
  {"cgroup.controllers_missing", "cgroup.driver_mismatch", "cgroup.service_failure", "security_agent.cgroup_denial"}

Requirements ==
  NodeRequirements \cup ApiRequirements \cup ControlPlaneRequirements \cup CorrelationRequirements
    \cup {[rules |-> EtcdRules, of |-> {Hosted}],
          [rules |-> PrometheusRules, of |-> {[kind |-> "cluster", id |-> "prometheus"]}]}

RequirementsOf(rule) == UNION {r.of : r \in {x \in Requirements : rule \in x.rules}}

\* Every rule but those about the collection itself declares something.
RuleCatalog == (UNION {r.rules : r \in Requirements}) \cup CollectorRules

---------------------------------------------------------------------------
\* The ledger.

RowsOf(coverage, requirement) == {r \in coverage : r.kind = requirement.kind /\ r.id = requirement.id}

\* Mutant: one whole row is enough, a lost host among others is not seen.
RequirementGapsOfAll(coverage, requirement) ==
  IF \E r \in RowsOf(coverage, requirement) : r.status = "collected" THEN {}
  ELSE {Row(requirement.kind, requirement.id, "none", "missing")}

\* Why a requirement is not met. A source of a cluster that could not be asked
\* has no row of its own.
RequirementGaps(coverage, requirement) ==
  LET rows == RowsOf(coverage, requirement)
      parents == {r \in RowsOf(coverage, [kind |-> "cluster", id |-> "kubernetes"]) :
                    requirement.kind = "kubernetes" /\ r.status \notin {"collected", "partial"}}
  IN IF rows # {} THEN {r \in rows : r.status # "collected"}
     ELSE IF parents # {} THEN parents
     ELSE {Row(requirement.kind, requirement.id, "none", "missing")}

Missing(coverage, rule) == UNION {RequirementGaps(coverage, q) : q \in RequirementsOf(rule)}

NotApplicable(coverage, options, rule) ==
  LET statusOf(id) == {r.status : r \in RowsOf(coverage, [kind |-> "cluster", id |-> id])}
  IN \/ rule \in CgroupPrefixed /\ ~options.cgroup
     \/ rule \in EtcdRules /\ ~options.etcd
     \/ rule \in PrometheusRules /\ statusOf("prometheus") \subseteq {"none", "not_configured", "disabled"}
     \/ /\ rule \notin CgroupPrefixed \cup PrometheusRules \cup CollectorRules
        /\ statusOf("kubernetes") = {"disabled"}
        /\ \E q \in RequirementsOf(rule) : q.kind = "kubernetes"

\* _rule_ledger. A rule that matched is matched, whatever is missing.
LedgerStatus(matched, coverage, options, rule) ==
  CASE rule \in matched -> "matched"
    [] rule \notin matched /\ NotApplicable(coverage, options, rule) -> "not_applicable"
    [] rule \notin matched /\ ~NotApplicable(coverage, options, rule) /\ Missing(coverage, rule) # {} -> "unknown"
    [] OTHER -> "not_matched"

RuleLedger(matched, coverage, options) ==
  [rule \in RuleCatalog |-> LedgerStatus(matched, coverage, options, rule)]
=============================================================================
