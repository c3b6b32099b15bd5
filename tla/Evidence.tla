------------------------------ MODULE Evidence ------------------------------
(***************************************************************************)
(* What a collection hands to build_report, and the events normalize.py    *)
(* makes of it.                                                            *)
(*                                                                         *)
(* An evidence e is a record:                                              *)
(*   results  [host -> status of its item in collection.json]              *)
(*   snaps    [host -> snapshot], of the hosts whose bundle was loaded;    *)
(*            a snapshot is [commands, podLogs, facts]                     *)
(*   kubeStatus, kube   [source id -> answer], or no source at all         *)
(*   logs     answer of the system Pods' logs                              *)
(*   promStatus, prom   [source id -> answer]                              *)
(*   options  [cgroup, etcd, incident]                                     *)
(*   dropped  events that the limits of the normalization dropped          *)
(*   silent   what was lost although nothing in the collection says so: no *)
(*            code reads it, the properties of Report do                   *)
(* A command, a source or a group of logs is an answer                     *)
(* [status, items]: the objects, lines or fields it has, as a set.         *)
(***************************************************************************)
EXTENDS Naturals, FiniteSets, Sequences

Collected(answer) == answer.status = "collected"

\* _command: an unknown command is an empty dict.
Command(e, host, id) ==
  IF id \in DOMAIN e.snaps[host].commands THEN e.snaps[host].commands[id]
  ELSE [status |-> "missing", items |-> {}]

Items(e, id) == IF id \in DOMAIN e.kube THEN e.kube[id].items ELSE {}
\* Mutant: what came of a source is taken for all of it.
SourceTrusted(e, id) == id \in DOMAIN e.kube

SourceCollected(e, id) == id \in DOMAIN e.kube /\ Collected(e.kube[id])

\* _json_command: the fields of a document that came whole, nothing otherwise.
JsonCommand(e, host, id) ==
  IF Collected(Command(e, host, id)) THEN Command(e, host, id).items ELSE {}

---------------------------------------------------------------------------
\* Classification.

NpdCategories ==
  {"npd_task_hung", "npd_unregister_netdevice", "npd_kernel_oops", "npd_ext4_error", "npd_ext4_warning",
   "npd_io_error", "npd_xfs_shutdown", "npd_memory_read_error", "npd_hardware_corrected",
   "npd_hardware_recoverable", "npd_hardware_fatal"}
NodeContextCategories ==
  NpdCategories \cup {"cgroup_access_denied", "conntrack_full", "runtime_unavailable", "api_unreachable"}
DnsErrorCategories == {"dns_servfail", "dns_forward_loop", "dns_upstream_failure"}

\* The categories whose signature a message has, less those that mean nothing
\* where it was found.
Classify(categories, source, component) ==
  LET nodeContext == source \in {"journal", "systemd_state", "kubernetes_condition"}
      kernelContext == source = "journal" /\ component = "kernel"
      kept == { c \in categories :
                  /\ c \in NodeContextCategories => nodeContext
                  /\ c \in NpdCategories \cup {"ptrace_security_alert"} => kernelContext
                  /\ c = "cni_unavailable" =>
                       \/ nodeContext
                       \/ source \in {"kubernetes_event", "kubernetes_container_state"}
                       \/ component = "cilium"
                  /\ c \in DnsErrorCategories => component = "coredns"
                  /\ c = "authentication_config_read_error" => component = "kube-apiserver" }
  IN kept \ (IF "cgroup_access_denied" \in kept THEN {"read_only_fs"} ELSE {})

ReasonCategories(reason) ==
  CASE reason \in {"ErrImagePull", "ImagePullBackOff"} -> {"image_pull"}
    [] reason = "OOMKilled" -> {"oom_kill"}
    [] reason = "CrashLoopBackOff" -> {"crash_loop"}
    [] reason = "CreateContainerConfigError" -> {"container_config_error"}
    [] OTHER -> {}

\* Conditions, phases and units that are down have no signature: no text has
\* these categories.
StateCategories ==
  {"node_not_ready", "disk_pressure", "memory_pressure", "pid_pressure", "network_unavailable",
   "pod_pending", "pod_failed", "cilium_unhealthy", "kubelet_inactive"}

---------------------------------------------------------------------------
\* Events. A line of a log is [text, component, when]: the signatures it
\* matches, who wrote it, and "recent", "old" or "none", for no time of its own.
\* "ref" is where the evidence is: a name of the list of evidence, its place in
\* the sorted list, and a number.

Reference(class, number) == <<class, number>>
EvidencePlaces ==
  <<"collection", "logs", "events", "nodes", "pods", "snapshot", "commands", "facts", "pod_logs", "normalized">>
Place(class) == CHOOSE i \in DOMAIN EvidencePlaces : EvidencePlaces[i] = class

Event(source, categories, node, pod, component, when, ref) ==
  [source |-> source, categories |-> categories, node |-> node, pod |-> pod,
   component |-> component, when |-> when, ref |-> ref]

NodeOf(e, pod) ==
  IF \E p \in Items(e, "pods") : p.name = pod
  THEN (CHOOSE p \in Items(e, "pods") : p.name = pod).node ELSE "none"

JournalIds ==
  {"journal_services_current", "journal_services_previous", "journal_kernel_current", "journal_kernel_previous"}

JournalEvents(e) ==
  LET of(h, id) == { Event("journal", Classify(l.text, "journal", l.component), h, "none", l.component, l.when,
                           Reference("commands", l.number)) : l \in Command(e, h, id).items }
  IN UNION {UNION {of(h, id) : id \in JournalIds} : h \in DOMAIN e.snaps}

NodePodLogEvents(e) ==
  UNION { { Event("cri_log", Classify(l.text, "cri_log", l.component), h, l.pod, l.component, l.when,
                  Reference("pod_logs", l.number)) : l \in e.snaps[h].podLogs.items } : h \in DOMAIN e.snaps }

KubernetesEvents(e) ==
  { Event("kubernetes_event", Classify(l.text, "kubernetes_event", l.component),
          NodeOf(e, l.pod), l.pod, l.component, l.when, Reference("events", l.number)) : l \in Items(e, "events") }

ConditionCategories(condition) ==
  CASE condition = "NotReady" -> {"node_not_ready"}
    [] condition = "DiskPressure" -> {"disk_pressure"}
    [] condition = "MemoryPressure" -> {"memory_pressure"}
    [] condition = "PIDPressure" -> {"pid_pressure"}
    [] condition = "NetworkUnavailable" -> {"network_unavailable"}

NodeConditionEvents(e) ==
  UNION { { Event("kubernetes_condition", ConditionCategories(c), n.name, "none", "kubelet", n.since, Reference("nodes", 1))
            : c \in n.conditions } : n \in Items(e, "nodes") }

\* The phase has no time of its own; a state of a container has one when it has
\* ended.
PodStateEvents(e) ==
  UNION { LET cilium == IF p.app = "cilium" THEN {"cilium_unhealthy"} ELSE {}
              phase == IF p.phase \notin {"Pending", "Failed"} THEN {}
                       ELSE { Event("kubernetes_pod_state",
                                    {IF p.phase = "Pending" THEN "pod_pending" ELSE "pod_failed"} \cup cilium,
                                    p.node, p.name, "none", "none", Reference("pods", 1)) }
              states == { Event("kubernetes_container_state", ReasonCategories(s) \cup cilium, p.node, p.name,
                                p.app, IF s = "OOMKilled" THEN p.ended ELSE "none", Reference("pods", 1))
                          : s \in {r \in {p.init, p.main} : ReasonCategories(r) # {}} }
          IN phase \cup states : p \in Items(e, "pods") }

KubernetesLogEvents(e) ==
  { Event("kubernetes_pod_log", Classify(l.text, "kubernetes_pod_log", l.component),
          NodeOf(e, l.pod), l.pod, l.component, l.when, Reference("logs", l.number)) : l \in e.logs.items }

RuntimeUnits == {"containerd", "containerd-deckhouse", "crio"}
ActiveStates == {"active", "activating"}
LoadedRuntimes(services) ==
  {u \in RuntimeUnits \cap DOMAIN services : services[u].status = "collected" /\ services[u].load = "loaded"}
RuntimeActive(services) == \E u \in LoadedRuntimes(services) : services[u].active \in ActiveStates

ServiceStateEvents(e) ==
  UNION { LET services == e.snaps[h].facts.services
              down(u) == services[u].status = "collected" /\ services[u].active \notin ActiveStates
              kubelet == {u \in {"kubelet"} \cap DOMAIN services : down(u) /\ services[u].load = "loaded"}
              runtime == {u \in LoadedRuntimes(services) : down(u) /\ ~RuntimeActive(services)}
          IN { Event("systemd_state", {IF u = "kubelet" THEN "kubelet_inactive" ELSE "runtime_unavailable"},
                     h, "none", u, "none", Reference("facts", 1)) : u \in kubelet \cup runtime }
          : h \in DOMAIN e.snaps }

\* normalize_evidence: the categorized events that the limits left. Those with a
\* cgroup denial are suppressed as a whole when cgroups are not wanted.
Events(e) ==
  {v \in JournalEvents(e) \cup NodePodLogEvents(e) \cup KubernetesEvents(e) \cup NodeConditionEvents(e)
         \cup PodStateEvents(e) \cup KubernetesLogEvents(e) \cup ServiceStateEvents(e) :
     v.categories # {} /\ (e.options.cgroup \/ "cgroup_access_denied" \notin v.categories)}
  \ e.dropped

---------------------------------------------------------------------------
\* Correlation: both groups of a specification within one window and scope. Two
\* times of the same name are within a window, two of different names are not.

CorrelationSpecs ==
  { [id |-> "node_runtime_failure", left |-> {"node_not_ready"}, right |-> {"kubelet_inactive", "runtime_unavailable"}],
    [id |-> "node_cni_failure", left |-> {"node_not_ready", "pod_sandbox_failure"},
     right |-> {"cni_unavailable", "network_unavailable"}],
    [id |-> "probe_network_failure", left |-> {"probe_failure"},
     right |-> {"address_family", "no_route", "connection_refused", "dns_error", "timeout"}],
    [id |-> "memory_oom_failure", left |-> {"memory_pressure"}, right |-> {"oom_kill"}],
    [id |-> "storage_failure", left |-> {"disk_pressure"}, right |-> {"disk_full", "read_only_fs"}],
    [id |-> "cgroup_service_failure", left |-> {"cgroup_access_denied"},
     right |-> {"kubelet_inactive", "runtime_unavailable"}],
    [id |-> "certificate_api_failure", left |-> {"certificate_error"}, right |-> {"api_unreachable", "clock_error"}],
    [id |-> "conntrack_network_failure", left |-> {"conntrack_full"},
     right |-> {"no_route", "connection_refused", "timeout", "probe_failure"}] }

CorrelationScope(event, id) == IF id = "probe_network_failure" THEN event.pod ELSE event.node

\* The scopes in which the specification has an episode among the events.
Episodes(events, spec) ==
  {CorrelationScope(v, spec.id) :
     v \in {x \in events : \E y \in events :
              /\ x # y /\ x.when = y.when /\ x.when # "none"
              /\ CorrelationScope(x, spec.id) = CorrelationScope(y, spec.id)
              /\ CorrelationScope(x, spec.id) # "none"
              /\ x.categories \cap spec.left # {} /\ y.categories \cap spec.right # {} }}
=============================================================================
