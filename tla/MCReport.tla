------------------------------ MODULE MCReport ------------------------------
(* A healthy cluster of two hosts, and clusters with one symptom each. Each  *)
(* rule of the catalog about the cluster matches one of them.                *)
EXTENDS Report

Whole_(items) == [status |-> "collected", items |-> items]
Line(text, component, pod, when, number) ==
  [text |-> text, component |-> component, pod |-> pod, when |-> when, number |-> number]

AppPod ==
  [name |-> "app-1", node |-> "b", app |-> "app", phase |-> "Running", ready |-> TRUE, evicted |-> FALSE,
   init |-> "ok", main |-> "ok", restarts |-> 0, ended |-> "none", version |-> 0, ipv6 |-> FALSE,
   owner |-> "app", claim |-> "data"]
SystemPod(app, version) ==
  [AppPod EXCEPT !.name = app, !.node = "a", !.app = app, !.version = version, !.owner = "none", !.claim = "none"]

Lines == {"journal_services_current", "journal_kernel_current", "journal_services_previous", "journal_kernel_previous",
          "timedatectl", "chrony_tracking", "installed_packages", "df_inodes", "df_blocks"}
Leader == [leader |-> 1, cluster |-> 1, version |-> 5, revision |-> 10, raftLag |-> 0, size |-> 50, inUse |-> 50]
Commands ==
  [id \in Lines \cup {"runtime_crictl_info", "cilium_debug_services", "cilium_services",
                      "etcd_endpoint_health", "etcd_endpoint_status", "etcd_alarm_list"} |->
     Whole_(CASE id = "runtime_crictl_info" -> {[runtimeReady |-> TRUE, networkReady |-> TRUE, driver |-> "systemd"]}
              [] id \in {"cilium_debug_services", "cilium_services"} -> {"10.0.0.1", "10.0.0.2"}
              [] id = "etcd_endpoint_health" -> {[endpoint |-> "etcd-a", healthy |-> TRUE]}
              [] id = "etcd_endpoint_status" -> {Leader}
              [] OTHER -> {})]
Unit(active) == [status |-> "collected", load |-> "loaded", active |-> active]
HostFacts ==
  [services |-> [u \in {"kubelet", "containerd"} |-> Unit("active")],
   kernel |-> 5, bootChanged |-> FALSE, rootFree |-> 50, swap |-> FALSE, failSwapOn |-> TRUE, nameservers |-> 2, etcNameservers |-> 2,
   rotate |-> TRUE, rotation |-> "collected", cgroupMode |-> "v2", controllers |-> {"cpu", "io"},
   kubeletDriver |-> "systemd", driverFlag |-> "none", clusterDNS |-> {"10.0.0.2"}, certificates |-> {},
   etcd |-> [status |-> "collected", quota |-> 100], ipv6Disabled |-> FALSE, authFile |-> TRUE]

NodeObject(name) == [name |-> name, conditions |-> {}, since |-> "recent", version |-> 28]
Service(name, ip, dns) ==
  [name |-> name, type |-> "ClusterIP", selector |-> TRUE, clusterIP |-> ip, dns |-> dns,
   ports |-> {[name |-> "main", number |-> 53]}]
Slice(service, pod, ready) ==
  [name |-> IF service = "web" THEN "web-slice" ELSE "dns-slice", service |-> service, endpoints |-> {[pod |-> pod, ready |-> ready]},
   ports |-> {[name |-> "main", number |-> 53]}]
Claim == [name |-> "data", phase |-> "Bound", class |-> "fast", volume |-> "vol"]
Volume == [name |-> "vol", phase |-> "Bound", driver |-> "disk"]
Attachment == [name |-> "att", attached |-> TRUE, error |-> FALSE, pv |-> "vol", node |-> "b"]
Workload(kind, ready, condition, misscheduled) ==
  [kind |-> kind, name |-> "app", ready |-> ready, desired |-> 1, condition |-> condition,
   misscheduled |-> misscheduled, owner |-> "none"]

Sources ==
  [ pods |-> {AppPod, SystemPod("coredns", 0), SystemPod("kube-apiserver", 28)},
    nodes |-> {NodeObject("a"), NodeObject("b")}, events |-> {},
    services |-> {Service("web", "10.0.0.1", 0), Service("kube-dns", "10.0.0.2", 1)},
    endpoint_slices |-> {Slice("web", "app-1", TRUE), Slice("kube-dns", "coredns", TRUE)},
    workloads |-> {Workload("Deployment", 1, "none", 0)}, pdb |-> {}, pvc |-> {Claim}, pv |-> {Volume},
    volume_attachments |-> {Attachment}, csi_nodes |-> {[name |-> "b", drivers |-> {"disk"}]},
    csi_drivers |-> {[name |-> "disk"]}, storage_classes |-> {[name |-> "fast"]},
    leases |-> {[name |-> h, renewed |-> 1000] : h \in {"a", "b"}},
    cilium_endpoints |-> {}, cilium_nodes |-> {}, cilium_network_policies |-> {},
    cilium_clusterwide_network_policies |-> {}, api_readyz |-> {[failed |-> FALSE]}, api_services |-> {},
    coredns_config |-> {[name |-> "coredns", corefile |-> TRUE]}, node_local_dns_config |-> {},
    cilium_config |-> {[replacement |-> TRUE]} ]

Healthy ==
  [results |-> [h \in {"a", "b"} |-> "collected"],
   snaps |-> [h \in {"a", "b"} |-> [commands |-> Commands, podLogs |-> Whole_({}), facts |-> HostFacts]],
   kubeStatus |-> "collected", kube |-> [id \in DOMAIN Sources |-> Whole_(Sources[id])], logs |-> Whole_({}),
   promStatus |-> "collected",
   prom |-> [alerts |-> Whole_({}), runtimeinfo |-> Whole_({[reloaded |-> TRUE, corruption |-> 0]})],
   options |-> [cgroup |-> TRUE, etcd |-> TRUE, incident |-> FALSE], dropped |-> {}, silent |-> {}]

---------------------------------------------------------------------------
\* One symptom.

OnB(facts) == [Healthy EXCEPT !.snaps["b"].facts = facts]
Ran_(id, items) == [Healthy EXCEPT !.snaps["b"].commands[id].items = items]
Holding(id, items) == [Healthy EXCEPT !.kube[id].items = items]
And(id, item) == Holding(id, Sources[id] \cup {item})
App(pod) == Holding("pods", (Sources.pods \ {AppPod}) \cup {pod})
Announced(text, pod) == Holding("events", {Line({text}, "kubelet", pod, "old", 1)})
Condition(c) == Holding("nodes", {NodeObject("a"), [NodeObject("b") EXCEPT !.conditions = {c}]})
Journal(id, texts, component) == Ran_(id, {Line(texts, component, "none", "recent", 1)})
Kernel(text) == Journal("journal_kernel_current", {text}, "kernel")
Services(text) == Journal("journal_services_current", {text}, "kubelet")
Logged(lines) == [Healthy EXCEPT !.logs.items = lines]

NodeWorlds ==
  { OnB([HostFacts EXCEPT !.bootChanged = TRUE]), OnB([HostFacts EXCEPT !.kernel = 6]),
    OnB([HostFacts EXCEPT !.rootFree = 5]), OnB([HostFacts EXCEPT !.services["kubelet"] = Unit("failed")]),
    OnB([HostFacts EXCEPT !.services["containerd"] = Unit("failed")]),
    OnB([HostFacts EXCEPT !.services = [u \in {"kubelet", "containerd", "crio"} |->
                                          Unit(IF u = "containerd" THEN "inactive" ELSE "active")]]),
    OnB([HostFacts EXCEPT !.swap = TRUE]), OnB([HostFacts EXCEPT !.nameservers = 4]),
    OnB([HostFacts EXCEPT !.rotation = "missing"]), OnB([HostFacts EXCEPT !.controllers = {"cpu"}]),
    OnB([HostFacts EXCEPT !.kubeletDriver = "cgroupfs"]), OnB([HostFacts EXCEPT !.clusterDNS = {"10.9.9.9"}]),
    OnB([HostFacts EXCEPT !.certificates = {[client |-> TRUE, current |-> TRUE, days |-> 3]}]),
    \* what the facts say differs from what is taken where they are lost
    OnB([HostFacts EXCEPT !.swap = TRUE, !.failSwapOn = FALSE]), OnB([HostFacts EXCEPT !.etcNameservers = 4]),
    OnB([HostFacts EXCEPT !.driverFlag = "cgroupfs"]),
    OnB([HostFacts EXCEPT !.kubeletDriver = "none", !.driverFlag = "cgroupfs"]),
    OnB([HostFacts EXCEPT !.certificates = {[client |-> FALSE, current |-> FALSE, days |-> 3]}]),
    [OnB([HostFacts EXCEPT !.etcd = [status |-> "unavailable", quota |-> 0]]) EXCEPT
       !.snaps["b"].commands = Without(@, EtcdCommands)],
    Ran_("df_inodes", {[mount |-> "/", used |-> 97]}), Ran_("df_blocks", {[mount |-> "/var/log", used |-> 93]}),
    Ran_("runtime_crictl_info", {[runtimeReady |-> FALSE, networkReady |-> TRUE, driver |-> "systemd"]}),
    Ran_("runtime_crictl_info", {[runtimeReady |-> TRUE, networkReady |-> FALSE, driver |-> "systemd"]}),
    Ran_("timedatectl", {"unsynchronized"}), Ran_("chrony_tracking", {"unsynchronized"}),
    [Services("cgroup_access_denied") EXCEPT !.snaps["b"].commands["installed_packages"].items = {"kesl"}],
    Ran_("cilium_debug_services", {"10.0.0.1"}), Ran_("cilium_services", {"10.0.0.1"}),
    [Ran_("cilium_services", {"10.0.0.1"}) EXCEPT !.snaps["b"].commands =
       Without(@, {"cilium_debug_services"})],
    [OnB([HostFacts EXCEPT !.ipv6Disabled = TRUE]) EXCEPT !.kube["pods"].items = @ \cup {[AppPod EXCEPT !.ipv6 = TRUE]}],
    [OnB([HostFacts EXCEPT !.ipv6Disabled = TRUE]) EXCEPT
       !.snaps["b"].commands["journal_services_current"].items = {Line({"address_family"}, "kubelet", "none", "recent", 1)}] }
  \cup { Kernel(c) : c \in NpdCategories \cup {"conntrack_full", "ptrace_security_alert", "oom_kill"} }
  \cup { Journal("journal_kernel_previous", {"npd_kernel_oops"}, "kernel"), Services("cni_unavailable"),
         Services("image_pull"), Journal("journal_services_previous", {"dns_servfail"}, "coredns"),
         [Healthy EXCEPT !.snaps["b"].podLogs.items = {Line({"oom_kill"}, "app", "app-1", "old", 1)}] }

EtcdWorlds ==
  { Ran_("etcd_endpoint_health", {[endpoint |-> "etcd-b", healthy |-> FALSE]}), Ran_("etcd_alarm_list", {"NOSPACE"}),
    Ran_("etcd_endpoint_status", {[Leader EXCEPT !.cluster = 2]}), Ran_("etcd_endpoint_status", {[Leader EXCEPT !.raftLag = 5000]}),
    Ran_("etcd_endpoint_status", {[Leader EXCEPT !.size = 90, !.inUse = 90]}),
    Ran_("etcd_endpoint_status", {[Leader EXCEPT !.size = 100, !.inUse = 40]}),
    Ran_("etcd_endpoint_status", {[Leader EXCEPT !.version = 6]}) }

ObjectWorlds ==
  { Condition(c) : c \in {"NotReady", "DiskPressure", "NetworkUnavailable"} }
  \cup { App([AppPod EXCEPT !.main = s]) : s \in {"CreateContainerConfigError", "ImagePullBackOff", "CrashLoopBackOff"} }
  \cup { App([AppPod EXCEPT !.main = "OOMKilled", !.ended = "old"]), App([AppPod EXCEPT !.init = "exit"]),
         App([AppPod EXCEPT !.main = "exit", !.phase = "Failed"]), App([AppPod EXCEPT !.phase = "Failed", !.evicted = TRUE]),
         App([AppPod EXCEPT !.restarts = 9, !.ended = "recent"]),
         And("pods", SystemPod("kube-proxy", 0)),
         And("pods", [SystemPod("cilium", 0) EXCEPT !.phase = "Pending"]),
         And("pods", [SystemPod("kube-scheduler", 0) EXCEPT !.ready = FALSE]),
         And("pods", [SystemPod("kube-apiserver", 27) EXCEPT !.name = "kube-apiserver-b"]),
         Holding("nodes", {NodeObject("a"), [NodeObject("b") EXCEPT !.version = 29]}),
         And("nodes", NodeObject("c")),
         Holding("workloads", {Workload("Deployment", 0, "ProgressDeadlineExceeded", 0)}),
         Holding("workloads", {Workload("DaemonSet", 0, "none", 1)}),
         Holding("workloads", {Workload("StatefulSet", 1, "Failed", 0)}), Holding("workloads", {Workload("Job", 1, "Failed", 0)}),
         And("pdb", [name |-> "p", expected |-> 2, current |-> 0, desired |-> 1, allowed |-> 0]),
         Holding("endpoint_slices", {Slice("kube-dns", "coredns", TRUE)}),
         Holding("endpoint_slices", {Slice("web", "app-1", FALSE), Slice("kube-dns", "coredns", TRUE)}),
         Holding("endpoint_slices", {[Slice("web", "app-1", TRUE) EXCEPT !.ports = {}], Slice("kube-dns", "coredns", TRUE)}),
         Holding("endpoint_slices", {Slice("web", "app-1", TRUE), Slice("kube-dns", "coredns", FALSE)}),
         And("pods", [SystemPod("node-local-dns", 0) EXCEPT !.ready = FALSE]) }

ApiWorlds ==
  { Holding("pvc", {[Claim EXCEPT !.phase = "Pending"]}), Holding("pvc", {[Claim EXCEPT !.class = "gone"]}),
    Holding("pv", {[Volume EXCEPT !.phase = "Failed"]}),
    Holding("volume_attachments", {[Attachment EXCEPT !.attached = FALSE, !.error = TRUE]}),
    [Holding("volume_attachments", {[Attachment EXCEPT !.attached = FALSE, !.error = TRUE]}) EXCEPT
       !.kube["csi_nodes"].items = {[name |-> "b", drivers |-> {}]}],
    Holding("csi_drivers", {}), Holding("leases", {[name |-> "a", renewed |-> 1000], [name |-> "b", renewed |-> 1]}),
    And("cilium_endpoints", [name |-> "app-1", healthy |-> FALSE]), And("cilium_nodes", [name |-> "b", error |-> TRUE]),
    And("cilium_network_policies", [name |-> "np", failed |-> TRUE]), Holding("api_readyz", {[failed |-> TRUE]}),
    And("api_services", [name |-> "metrics", available |-> FALSE]), Holding("cilium_config", {[replacement |-> FALSE]}),
    Holding("coredns_config", {[name |-> "coredns", corefile |-> FALSE]}),
    Holding("node_local_dns_config", {[name |-> "nodelocaldns", corefile |-> FALSE]}),
    [Healthy EXCEPT !.prom["alerts"].items = {[target |-> "b", state |-> "firing"]}],
    [Healthy EXCEPT !.prom["runtimeinfo"].items = {[reloaded |-> FALSE, corruption |-> 1]}] }

EventWorlds ==
  { Announced(t, "app-1") : t \in {"image_pull", "crash_loop", "failed_scheduling", "volume_error", "probe_failure"} }
  \cup { Logged({Line({"dns_servfail"}, "coredns", "coredns", "recent", 1)}),
         [Logged({Line({"authentication_config_read_error"}, "kube-apiserver", "kube-apiserver", "old", n) : n \in 1..2})
            EXCEPT !.snaps = [h \in DOMAIN @ |-> [@[h] EXCEPT !.facts.authFile = FALSE]]],
         Logged({Line({"authentication_config_read_error"}, "kube-apiserver", "kube-apiserver", "old", n) : n \in 1..2}),
         \* correlations
         [Condition("NotReady") EXCEPT !.snaps["b"].commands["journal_services_current"].items =
            {Line({"runtime_unavailable"}, "kubelet", "none", "recent", 1)}],
         [Condition("NotReady") EXCEPT !.snaps["b"].commands["journal_services_current"].items =
            {Line({"cni_unavailable"}, "kubelet", "none", "recent", 1)}],
         [Condition("MemoryPressure") EXCEPT !.logs.items = {Line({"oom_kill"}, "app", "app-1", "recent", 1)}],
         [Condition("DiskPressure") EXCEPT !.snaps["b"].commands["journal_kernel_current"].items =
            {Line({"disk_full"}, "kernel", "none", "recent", 1)}],
         [Services("cgroup_access_denied") EXCEPT !.snaps["b"].commands["journal_services_current"].items =
            @ \cup {Line({"runtime_unavailable"}, "kubelet", "none", "recent", 2)}],
         [Services("certificate_error") EXCEPT !.snaps["b"].commands["journal_services_current"].items =
            @ \cup {Line({"api_unreachable"}, "kubelet", "none", "recent", 2)}],
         [Kernel("conntrack_full") EXCEPT !.kube["events"].items =
            {Line({"timeout"}, "kubelet", "app-1", "recent", 1)}],
         \* it happened before, and it is there now
         [Announced("crash_loop", "app-1") EXCEPT
            !.kube["pods"].items = (@ \ {AppPod}) \cup {[AppPod EXCEPT !.main = "CrashLoopBackOff"]}],
         [Announced("probe_failure", "app-1") EXCEPT !.logs.items = {Line({"timeout"}, "app", "app-1", "old", 1)}] }

\* Options, and a cluster and a Prometheus that are not asked.
OptionWorlds ==
  { [w EXCEPT !.options.cgroup = FALSE] : w \in {OnB([HostFacts EXCEPT !.kubeletDriver = "cgroupfs"]),
         Journal("journal_services_current", {"cgroup_access_denied", "runtime_unavailable"}, "kubelet")} }
  \cup { [Healthy EXCEPT !.options.etcd = FALSE,
            !.snaps = [h \in DOMAIN @ |-> [@[h] EXCEPT !.facts.etcd.status = "disabled",
               !.commands = Without(@, EtcdCommands)]]],
         [Healthy EXCEPT !.kubeStatus = "disabled", !.kube = Without(@, DOMAIN @), !.logs = [status |-> "absent", items |-> {}],
            !.promStatus = "not_configured", !.prom = Without(@, DOMAIN @)],
         [Announced("image_pull", "app-1") EXCEPT !.options.incident = TRUE],
         [Kernel("npd_io_error") EXCEPT !.kube["pods"].items = (@ \ {AppPod}) \cup {[AppPod EXCEPT !.main = "CrashLoopBackOff"]},
            !.snaps["b"].facts.swap = TRUE] }

\* More objects than the graph has room for.
Crowd == {"pod-1", "pod-2", "pod-3", "pod-4", "pod-5", "pod-6", "pod-7", "pod-8", "pod-9", "pod-10", "pod-11",
          "pod-12", "pod-13", "pod-14", "pod-15", "pod-16", "pod-17", "pod-18", "pod-19", "pod-20", "pod-21"}
FullWorlds ==
  { Holding("pods", {[AppPod EXCEPT !.name = n, !.phase = "Failed", !.evicted = TRUE] : n \in Crowd}),
    Holding("services", Sources.services \cup {Service(n, "10.0.0.1", 0) : n \in Crowd}) }

MCWorlds == {Healthy} \cup FullWorlds \cup NodeWorlds \cup EtcdWorlds \cup ObjectWorlds \cup ApiWorlds \cup EventWorlds \cup OptionWorlds
MCOptionalSources ==
  {"coredns_config", "node_local_dns_config", "cilium_config", "cilium_endpoints", "cilium_nodes",
   "cilium_network_policies", "cilium_clusterwide_network_policies"}

\* Nothing is found in the healthy cluster, and every rule but those about the
\* collection somewhere.
ASSUME EvaluateRules(Healthy) = {}
ASSUME RuleCatalog \ CollectorRules \subseteq UNION {Matched(EvaluateRules(w)) : w \in MCWorlds}
=============================================================================
