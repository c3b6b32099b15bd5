----------------------------- MODULE NodeRules -----------------------------
(***************************************************************************)
(* The rules of rules.py that look at the collection itself and at the     *)
(* snapshots of the hosts. A rule is a set of findings: empty, or the one  *)
(* it makes.                                                               *)
(***************************************************************************)
EXTENDS Evidence

CONSTANTS
  OptionalSources,  \* Kubernetes sources with "required": false
  MaxEvidence       \* references kept by a finding (100)

ASSUME EvidenceAssumption == MaxEvidence \in Nat

\* What a finding is about: an object, or a part of one, a container or a port.
Whole(name) == [object |-> name, part |-> "none"]
Part(name, part) == [object |-> name, part |-> part]

\* A finding keeps the first references of the sorted list.
Precedes(r, s) == Place(r[1]) < Place(s[1]) \/ (Place(r[1]) = Place(s[1]) /\ r[2] < s[2])
Kept(refs) == {r \in refs : Cardinality({s \in refs : Precedes(s, r)}) < MaxEvidence}

\* The times are those the evidence has of its own.
Earliest(times) == IF "old" \in times THEN "old" ELSE IF "recent" \in times THEN "recent" ELSE "none"
Latest(times) == IF "recent" \in times THEN "recent" ELSE IF "old" \in times THEN "old" ELSE "none"

Finding(rule, affected, refs, times) ==
  [rule |-> rule, affected |-> affected, evidence |-> Kept(refs),
   started |-> Earliest(times), ended |-> Latest(times)]

\* The finding of a rule about objects, made when there are any: with evidence
\* of a state that is there, or with a reference to a snapshot as a whole.
FoundIn(class, rule, affected) ==
  {Finding(rule, a, {Reference(class, 1)}, {}) : a \in {affected} \ {{}}}
Found(rule, affected) == FoundIn("facts", rule, affected)

\* More than one of them.
Several(S) == \E x, y \in S : x # y

Hosts(e) == DOMAIN e.snaps
Facts(e, h) == e.snaps[h].facts

---------------------------------------------------------------------------
\* The collection.

RequiredCommands == {"journal_services_current", "journal_kernel_current"}

\* What is short, and where that is written.
EvidenceGaps(e) ==
       (UNION { {<<Whole(h), Reference("commands", 0)>> : c \in {x \in RequiredCommands : ~Collected(Command(e, h, x))}}
                : h \in Hosts(e) })
  \cup { <<Whole(h), Reference("pod_logs", 0)>> :
           h \in {x \in Hosts(e) : e.snaps[x].podLogs.status \notin {"collected", "unsupported"}} }
  \cup { <<Whole("kubernetes"), Reference(IF s = "events" THEN s ELSE "facts", 0)>> :
           s \in {x \in (DOMAIN e.kube) \ OptionalSources : ~Collected(e.kube[x])} }
  \cup { <<Whole("kubernetes"), Reference("logs", 0)>> :
           s \in {e.logs.status} \ {"collected", "disabled", "absent"} }

NodeNames(e) == {n.name : n \in Items(e, "nodes")}

CollectionFindings(e) ==
       Found("collector.node_gap", {Whole(h) : h \in {x \in DOMAIN e.results : e.results[x] # "collected"}})
  \cup { Finding("collector.evidence_gap", {g[1] : g \in gaps}, {g[2] : g \in gaps}, {})
         : gaps \in {EvidenceGaps(e)} \ {{}} }
  \cup { Finding("collector.normalization_truncated", {Whole("cluster")}, {Reference("normalized", 1)}, {})
         : d \in {e.dropped} \ {{}} }
  \cup Found("collector.boot_changed", {Whole(h) : h \in {x \in Hosts(e) : Facts(e, x).bootChanged}})

\* The names are those match_node_identities has made equal.
InventoryFindings(e) ==
       Found("inventory.node_set_mismatch",
             IF SourceCollected(e, "nodes")
             THEN {Whole(n) : n \in (NodeNames(e) \ Hosts(e)) \cup (Hosts(e) \ NodeNames(e))} ELSE {})
  \cup Found("inventory.mixed_kernel",
             IF Several({Facts(e, h).kernel : h \in Hosts(e)}) THEN {Whole(h) : h \in Hosts(e)} ELSE {})

---------------------------------------------------------------------------
\* A host.

\* df_inodes and df_blocks: mount points with their use in percent.
Full(e, h, id, percent) == {m \in Command(e, h, id).items : m.used >= percent}

HostFindings(e) ==
  LET services(h) == Facts(e, h).services
  IN   Found("node.low_root_disk", {Whole(h) : h \in {x \in Hosts(e) : Facts(e, x).rootFree < 10}})
  \cup Found("node.low_inodes", {Whole(h) : h \in {x \in Hosts(e) : Full(e, x, "df_inodes", 95) # {}}})
  \cup Found("node.kubelet_inactive", {Whole(h) : h \in {x \in Hosts(e) :
         /\ "kubelet" \in DOMAIN services(x)
         /\ services(x)["kubelet"].status = "collected" /\ services(x)["kubelet"].load = "loaded"
         /\ services(x)["kubelet"].active \notin ActiveStates}})
  \cup Found("node.runtime_inactive", {Whole(h) : h \in {x \in Hosts(e) :
         LoadedRuntimes(services(x)) # {} /\ ~RuntimeActive(services(x))}})

\* A mount that holds one of the directories, other than the root.
RuntimeDiskPaths ==
  {"/var", "/var/lib", "/var/lib/kubelet", "/var/lib/containerd", "/var/lib/containers", "/var/log"}

\* A document of crictl, and facts of the host.
RuntimeFindings(e) ==
  LET about(P(_)) == {Whole(h) : h \in {x \in Hosts(e) : P(x)}}
      crictl(h) == JsonCommand(e, h, "runtime_crictl_info")
  IN   FoundIn("snapshot", "runtime.cri_not_ready", about(LAMBDA h : \E i \in crictl(h) : ~i.runtimeReady))
  \cup FoundIn("snapshot", "runtime.cri_network_not_ready", about(LAMBDA h : \E i \in crictl(h) : ~i.networkReady))
  \cup FoundIn("snapshot", "node.swap_active", about(LAMBDA h : Facts(e, h).swap /\ Facts(e, h).failSwapOn))
  \cup FoundIn("snapshot", "dns.nameserver_limit_exceeded", about(LAMBDA h : Facts(e, h).nameservers > 3))
  \cup Found("node.low_runtime_disk",
             about(LAMBDA h : \E m \in Full(e, h, "df_blocks", 90) : m.mount \in RuntimeDiskPaths))
  \cup Found("certificate.kubelet_rotation_broken",
             about(LAMBDA h : Facts(e, h).rotate /\ Facts(e, h).rotation \notin {"collected", "none"}))

\* The kubelet's driver is the one of its configuration, or the flag of its unit
\* where the configuration has none.
KubeletDriver(facts) == IF facts.kubeletDriver # "none" THEN facts.kubeletDriver ELSE facts.driverFlag

\* That of the runtime is in a document that must be whole to be read at all.
CgroupFindings(e) ==
  LET denials(h) == {l \in Command(e, h, "journal_services_current").items
                           \cup Command(e, h, "journal_services_previous").items : "cgroup_access_denied" \in l.text}
      linked == {h \in Hosts(e) : denials(h) # {} /\ "kesl" \in Command(e, h, "installed_packages").items}
  IN   Found("cgroup.controllers_missing", {Whole(h) : h \in {x \in Hosts(e) :
         Facts(e, x).cgroupMode = "v2" /\ ~({"cpu", "io"} \subseteq Facts(e, x).controllers)}})
  \cup Found("cgroup.driver_mismatch", {Whole(h) : h \in {x \in Hosts(e) :
         \E i \in JsonCommand(e, x, "runtime_crictl_info") :
           KubeletDriver(Facts(e, x)) \notin {"none", i.driver} /\ i.driver # "none"}})
  \cup { Finding("security_agent.cgroup_denial", a, {Reference("commands", 0)}, {})
         : a \in {{Whole(h) : h \in linked}} \ {{}} }

\* Client certificates other than the current target of the rotation are old
\* ones left on disk.
Expiring(facts) == \E c \in facts.certificates : (c.client => c.current) /\ c.days <= 30

TimeFindings(e) ==
       Found("time.not_synchronized", {Whole(h) : h \in {x \in Hosts(e) :
         "unsynchronized" \in Command(e, x, "timedatectl").items \cup Command(e, x, "chrony_tracking").items}})
  \cup Found("certificate.expiring", {Whole(h) : h \in {x \in Hosts(e) : Expiring(Facts(e, x))}})

---------------------------------------------------------------------------
\* etcd: a record of endpoint status is [leader, cluster, version, revision,
\* raftLag, size, inUse], sizes in MiB.

EtcdFindings(e) ==
  LET read(id) == UNION {JsonCommand(e, h, id) : h \in Hosts(e)}
      status == read("etcd_endpoint_status")
      leaders == {r.leader : r \in status}
      etcd(affected) == {Whole("etcd") : x \in affected}
      revisions == {r.revision : r \in status}
  IN   Found("collector.etcd_evidence_gap",
             {Whole(h) : h \in {x \in Hosts(e) : Facts(e, x).etcd.status \in {"partial", "unavailable", "unsupported"}}})
  \cup Found("etcd.unhealthy", {Whole(r.endpoint) : r \in {x \in read("etcd_endpoint_health") : ~x.healthy}})
  \cup Found("etcd.alarm_active", {Whole(a) : a \in read("etcd_alarm_list")})
  \cup Found("etcd.topology_inconsistent",
             IF 0 \in leaders \/ Several(leaders \ {0}) \/ Several({r.cluster : r \in status})
             THEN {Whole("etcd")} ELSE {})
  \cup Found("etcd.raft_apply_lag",
             etcd({r \in status : r.raftLag > 1000}) \cup etcd({p \in revisions \X revisions : p[1] - p[2] > 1000}))
  \cup Found("etcd.database_near_quota", etcd({h \in Hosts(e) : Facts(e, h).etcd.quota > 0 /\
             \E r \in JsonCommand(e, h, "etcd_endpoint_status") : 10 * r.size >= 8 * Facts(e, h).etcd.quota}))
  \cup Found("etcd.fragmentation_high", etcd({r \in status : r.size >= 100 /\ 2 * r.inUse < r.size}))
  \cup Found("etcd.member_version_drift",
             IF Several({r.version : r \in status}) THEN {Whole("etcd")} ELSE {})

NodeFindings(e) ==
  CollectionFindings(e) \cup InventoryFindings(e) \cup HostFindings(e) \cup RuntimeFindings(e)
    \cup CgroupFindings(e) \cup TimeFindings(e) \cup EtcdFindings(e)
=============================================================================
