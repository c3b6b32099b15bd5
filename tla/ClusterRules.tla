---------------------------- MODULE ClusterRules ----------------------------
(***************************************************************************)
(* The rules of rules.py that look at the objects of the Kubernetes API,   *)
(* alone or against the snapshots, and at Prometheus. Those that conclude  *)
(* from what is absent ask first whether its source was collected.         *)
(***************************************************************************)
EXTENDS NodeRules

Named(items) == {Whole(i.name) : i \in items}
Names(items) == {i.name : i \in items}

---------------------------------------------------------------------------
\* Pods. A container is one word: "ok", the reason it waits for, "OOMKilled",
\* or "exit" for a non-zero exit code.

IgnoredWaiting == {"PodInitializing", "ContainerCreating", "CrashLoopBackOff", "ErrImagePull", "ImagePullBackOff"}
Waits(state) == state \notin {"ok", "OOMKilled", "exit"} \cup IgnoredWaiting

PodFindings(e) ==
  LET containers(pods, which) == {Part(p.name, which) : p \in pods}
      pods == Items(e, "pods")
  IN   Found("kubernetes.pod_waiting", containers({p \in pods : Waits(p.main)}, "main"))
  \cup Found("kubernetes.init_container_failed",
             containers({p \in pods : Waits(p.init) \/ p.init = "exit"}, "init"))
  \cup Found("kubernetes.container_exit_nonzero",
             containers({p \in pods : p.main = "exit" /\ p.phase = "Failed"}, "main"))
  \cup Found("kubernetes.pod_evicted", Named({p \in pods : p.phase = "Failed" /\ p.evicted}))
  \cup Found("kubernetes.pod_restart_storm", containers({p \in pods : p.restarts >= 5 /\ p.ended = "recent"}, "main"))

FailedConditions == {"ReplicaFailure", "Failed"}

WorkloadFindings(e) ==
  LET failed(kind, conditions) == {w \in Items(e, "workloads") : w.kind = kind /\ w.condition \in conditions}
  IN   Found("kubernetes.deployment_rollout_failed",
             Named(failed("Deployment", {"ProgressDeadlineExceeded", "ReplicaFailure"})))
  \cup Found("kubernetes.daemonset_misscheduled",
             Named({w \in Items(e, "workloads") : w.kind = "DaemonSet" /\ w.misscheduled > 0}))
  \cup Found("kubernetes.statefulset_rollout_stalled", Named(failed("StatefulSet", FailedConditions)))
  \cup Found("kubernetes.job_failed", Named(failed("Job", {"Failed"})))

\* Named namespace/kind/name, which is no object of the graph.
DegradedFindings(e) ==
  LET degraded(w) == CASE w.kind \in {"Deployment", "DaemonSet"} -> w.ready < w.desired
                       [] w.kind = "StatefulSet" -> w.condition \in FailedConditions
                       [] w.kind = "Job" -> w.condition = "Failed"
  IN Found("kubernetes.workload_degraded", {Part(w.name, w.kind) : w \in {x \in Items(e, "workloads") : degraded(x)}})

PdbFindings(e) ==
  LET pdb == IF SourceCollected(e, "pdb") THEN {p \in Items(e, "pdb") : p.expected > 0} ELSE {}
  IN   Found("pdb.insufficient_healthy", Named({p \in pdb : p.current < p.desired}))
  \cup Found("pdb.disruption_blocked", Named({p \in pdb : p.allowed = 0}))

---------------------------------------------------------------------------
\* Services and DNS. "dns" is the place of a Service's name in the list of DNS
\* names, 0 for any other Service.

Ready(pod) == pod.phase = "Running" /\ pod.ready
SlicesOf(e, service) == {s \in Items(e, "endpoint_slices") : s.service = service.name}
EndpointsOf(e, service) == UNION {s.endpoints : s \in SlicesOf(e, service)}
HasReadyEndpoint(e, service) == \E x \in EndpointsOf(e, service) : x.ready
HasClusterIP(service) == service.type # "ExternalName" /\ service.clusterIP # "None"

\* A port of a Service: its name and number, or 0 for a named target. A port of
\* a slice has number 0 when it is not resolved.
Unresolved(e, service, port) ==
  LET matching == {q \in UNION {s.ports : s \in SlicesOf(e, service)} : q.name = port.name}
  IN \/ \A q \in matching : q.number = 0
     \/ port.number # 0 /\ \A q \in matching : q.number # port.number

ServiceFindings(e) ==
  LET seen == SourceCollected(e, "services") /\ SourceCollected(e, "endpoint_slices")
      selecting == IF seen THEN {s \in Items(e, "services") : s.type # "ExternalName" /\ s.selector} ELSE {}
      sliced == {s \in selecting : SlicesOf(e, s) # {}}
      serving == {s \in sliced : HasReadyEndpoint(e, s)}
  IN   Found("kubernetes.service_no_endpoints", Named(selecting \ sliced))
  \cup Found("kubernetes.service_no_ready_endpoints", Named(sliced \ serving))
  \cup Found("kubernetes.service_port_unresolved",
             UNION {{Part(s.name, port.name) : port \in {p \in s.ports : Unresolved(e, s, p)}} : s \in serving})

DnsFindings(e) ==
  LET seen == SourceCollected(e, "services") /\ SourceCollected(e, "endpoint_slices")
      backends == {s \in Items(e, "services") : s.dns > 0 /\ HasClusterIP(s)}
      \* the one whose name comes first in the list
      backend == {s \in backends : \A t \in backends : s.dns <= t.dns}
      coredns == {p \in Items(e, "pods") : p.app = "coredns"}
      local == {p \in Items(e, "pods") : p.app = "node-local-dns"}
      problem ==
        \/ backend = {}
        \/ \E s \in backend : ~HasReadyEndpoint(e, s)
        \/ /\ SourceCollected(e, "pods")
           /\ \/ ~\E p \in coredns : Ready(p)
              \/ local # {} /\ ~\E p \in local : Ready(p)
      mismatched(h) == Facts(e, h).clusterDNS # {} /\ \E s \in backend : s.clusterIP \notin Facts(e, h).clusterDNS
  IN IF ~seen THEN {}
     ELSE Found("dns.cluster_dns_mismatch", {Whole(h) : h \in {x \in Hosts(e) : mismatched(x)}})
          \cup Found("dns.kube_dns_unavailable",
                     IF ~problem THEN {} ELSE IF backend = {} THEN {Whole("cluster-dns")} ELSE Named(backend))

DnsConfigs == {"coredns_config", "node_local_dns_config"}

\* The frontends cilium must have on each host: the ClusterIP ports of the
\* Services. The debug list is tried first; one with an entry that has no
\* frontend proves nothing.
CiliumDocument(e, h) ==
  LET known == {c \in {"cilium_debug_services", "cilium_services"} : Collected(Command(e, h, c))}
  IN IF "cilium_debug_services" \in known THEN Command(e, h, "cilium_debug_services").items
     ELSE IF known # {} THEN Command(e, h, "cilium_services").items ELSE {"invalid"}

CiliumFindings(e) ==
  LET expected == {s \in Items(e, "services") : HasClusterIP(s) /\ s.ports # {}}
      missing(h) == {s \in expected : s.clusterIP \notin CiliumDocument(e, h)}
      withoutProxy == \A p \in Items(e, "pods") : p.app # "kube-proxy"
  IN   Found("dns.coredns_config_empty",
             UNION {Named({c \in Items(e, id) : ~c.corefile}) : id \in {s \in DnsConfigs : SourceCollected(e, s)}})
  \cup Found("cilium.kube_proxy_replacement_disabled",
             IF SourceCollected(e, "pods") /\ SourceCollected(e, "cilium_config") /\ withoutProxy
             THEN {Whole("cluster") : c \in {x \in Items(e, "cilium_config") : ~x.replacement}} ELSE {})
  \cup Found("cilium.service_frontend_missing",
             {Whole(h) : h \in {x \in Hosts(e) : "invalid" \notin CiliumDocument(e, x) /\ missing(x) # {}}})

---------------------------------------------------------------------------
\* Control plane.

ControlComponents == {"kube-apiserver", "kube-controller-manager", "kube-scheduler", "etcd"}

\* A lease is stale when it is behind the newest one; one without a Node does not
\* count as missing.
StaleLeases(e) ==
  LET leases == Items(e, "leases")
  IN {n \in Items(e, "nodes") :
        \/ ~\E l \in leases : l.name = n.name
        \/ \E l, m \in leases : l.name = n.name /\ m.renewed - l.renewed > 120}

ControlPlaneFindings(e) ==
       Found("controlplane.api_readyz_failed",
             {Whole("kube-apiserver") : c \in {x \in Items(e, "api_readyz") : x.failed}})
  \cup Found("controlplane.apiservice_unavailable",
             IF SourceCollected(e, "api_services") THEN Named({s \in Items(e, "api_services") : ~s.available}) ELSE {})
  \cup Found("controlplane.node_lease_stale",
             IF SourceCollected(e, "nodes") /\ SourceCollected(e, "leases") THEN Named(StaleLeases(e)) ELSE {})
  \cup Found("controlplane.static_pod_unhealthy",
             IF SourceCollected(e, "pods")
             THEN Named({p \in Items(e, "pods") : p.app \in ControlComponents /\ ~Ready(p)}) ELSE {})

\* kubelet against the API servers, by minor version; the images of the API
\* server Pods tell theirs.
VersionFindings(e) ==
  LET api == {p.version : p \in {x \in Items(e, "pods") : x.app = "kube-apiserver"}}
      oldest == CHOOSE v \in api : \A w \in api : v <= w
      newest == CHOOSE v \in api : \A w \in api : w <= v
      allowedOlder(v) == IF v < 25 THEN 2 ELSE 3
      unsupported(v) == v > oldest \/ newest - v > allowedOlder(v)
  IN IF api = {} THEN {}
     ELSE Found("inventory.mixed_apiserver_versions",
                IF newest # oldest THEN {Whole("kube-apiserver")} ELSE {})
          \cup Found("inventory.unsupported_version_skew",
                     (IF newest - oldest > 1 THEN {Part("kube-apiserver", "skew")} ELSE {})
                     \cup {Part(n.name, "kubelet") : n \in {x \in Items(e, "nodes") : unsupported(x.version)}})

---------------------------------------------------------------------------
\* Storage and the objects of Cilium.

StorageFindings(e) ==
  LET read(id) == IF SourceCollected(e, id) THEN Items(e, id) ELSE {}
      failed == {a \in read("volume_attachments") : ~a.attached /\ a.error}
      drivers == {v \in read("pv") : v.driver # "none"}
      \* the CSINode of the host of a failed attachment lacks the driver
      absent(a) == \E v \in drivers, n \in read("csi_nodes") :
                     v.name = a.pv /\ n.name = a.node /\ v.driver \notin n.drivers
  IN   Found("storage.pvc_pending", Named({c \in read("pvc") : c.phase = "Pending"}))
  \cup Found("storage.storage_class_missing",
             IF SourceCollected(e, "storage_classes")
             THEN {Part(c.name, "class") : c \in {x \in read("pvc") :
                     x.class # "none" /\ x.class \notin Names(Items(e, "storage_classes"))}} ELSE {})
  \cup Found("storage.pv_failed", Named({v \in read("pv") : v.phase = "Failed"}))
  \cup Found("storage.volume_attachment_failed", Named(failed))
  \cup Found("storage.csi_driver_registration_gap",
             IF SourceCollected(e, "pv") /\ SourceCollected(e, "csi_drivers")
             THEN {Part(v.name, "driver") : v \in {x \in drivers : x.driver \notin Names(Items(e, "csi_drivers"))}}
                  \cup {Part(a.pv, "driver") : a \in {x \in failed : absent(x)}} ELSE {})

CiliumObjectFindings(e) ==
  LET read(id) == IF SourceCollected(e, id) THEN Items(e, id) ELSE {}
  IN   Found("cilium.endpoint_unhealthy", Named({x \in read("cilium_endpoints") : ~x.healthy}))
  \cup Found("cilium.node_ipam_error", Named({x \in read("cilium_nodes") : x.error}))
  \cup Found("cilium.policy_import_failed",
             Named({x \in read("cilium_network_policies") \cup read("cilium_clusterwide_network_policies") : x.failed}))

PrometheusFindings(e) ==
  LET read(id) == IF id \in DOMAIN e.prom /\ Collected(e.prom[id]) THEN e.prom[id].items ELSE {}
  IN   Found("prometheus.alert_firing", {Whole(a.target) : a \in {x \in read("alerts") : x.state = "firing"}})
  \cup Found("prometheus.config_reload_failed", {Whole("prometheus") : r \in {x \in read("runtimeinfo") : ~x.reloaded}})
  \cup Found("prometheus.corruption_detected",
             {Whole("prometheus") : r \in {x \in read("runtimeinfo") : x.corruption > 0}})

ClusterFindings(e) ==
  PodFindings(e) \cup WorkloadFindings(e) \cup DegradedFindings(e) \cup PdbFindings(e) \cup ServiceFindings(e)
    \cup DnsFindings(e) \cup CiliumFindings(e) \cup ControlPlaneFindings(e) \cup VersionFindings(e) \cup StorageFindings(e)
    \cup CiliumObjectFindings(e) \cup PrometheusFindings(e)
=============================================================================
