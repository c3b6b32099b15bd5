----------------------------- MODULE Comparison -----------------------------
(***************************************************************************)
(* Baseline profiles and their comparison: a baseline is made from one     *)
(* collection of a cluster, then the cluster drifts, and a later           *)
(* collection is compared with it (build_profile, compare_profiles).       *)
(*                                                                         *)
(* The profile has four kinds of sources, which differ in when they count  *)
(* as collected: the required "kubernetes/nodes", the optional             *)
(* "kubernetes/cilium_config", one required "node/<alias>" for each host,  *)
(* and "report/findings", which build_profile calls collected always.  The *)
(* findings are those of every active rule, also of rules that read what   *)
(* is no source of the profile; what was not collected is not found.       *)
(***************************************************************************)
EXTENDS NodeIdentity

CONSTANTS
  Aliases,      \* inventory hosts
  HostNames,    \* normalized names each host answers with: [Aliases -> SUBSET Names]
  HostName,     \* the hostname among them: [Aliases -> Names]
  NodeNames,    \* normalized names of each Kubernetes Node: a function on Node names
  Versions,     \* configurations a host can have
  Outside,      \* required Kubernetes sources that are no source of the profile (pdb, pvc, api_services)
  Unwatched     \* evidence whose loss is no finding: Prometheus, an optional source, a command of a host

ASSUME ComparisonAssumption ==
  /\ HostNames \in [Aliases -> SUBSET Names]
  /\ HostName \in [Aliases -> Names]
  /\ DOMAIN NodeNames \subseteq Names
  /\ NodeNames \in [DOMAIN NodeNames -> SUBSET Names]
  /\ Outside \cap Unwatched = {}
  /\ {"nodes", "cilium_config", "evidence_gap", "node_gap"} \cap (Outside \cup Unwatched) = {}

VARIABLES
  stage,      \* "cluster", "approved", "collected", "compared"
  config,     \* configuration of each host
  problems,   \* what is wrong in the cluster, each problem named after the evidence its rule reads
  baseline,   \* profile of the approved baseline
  was,        \* history: configuration of the hosts when the baseline was made
  current,    \* profile of the current collection
  changes,    \* what compare_profiles reports
  verdict     \* its status

vars == <<stage, config, problems, baseline, was, current, changes, verdict>>

Alias(h) == <<"node", h>>
KubernetesNodes == <<"kubernetes", "nodes">>
CiliumConfig == <<"kubernetes", "cilium_config">>
Findings == <<"report", "findings">>
SourceIds == {Alias(h) : h \in Aliases} \cup {KubernetesNodes, CiliumConfig, Findings}

Required(id) == id # CiliumConfig

\* What kubectl and Prometheus are asked for, and what a rule can find a problem in.
Evidence == {"nodes", "cilium_config"} \cup Outside \cup Unwatched
Problems == {"nodes"} \cup Outside \cup Unwatched
RequiredEvidence == {"nodes"} \cup Outside

Source(status, objects) == [status |-> status, objects |-> objects]
Missing == Source("missing", <<>>)

-----------------------------------------------------------------------------
(* build_profile *)

\* The inventory side of match_node_identities: only the hosts collected.
Collected(hosts) == [h \in hosts |-> HostNames[h]]

\* The Kubernetes side: empty when the nodes source was not collected.
Listed(read) == IF "nodes" \in read THEN NodeNames ELSE <<>>

NodeKey(hosts, read, h) == IdentityOr(Collected(hosts), Listed(read), h, HostName[h])

\* The object of one host, under the name the host is identified by.
NodeSource(hosts, read, h) ==
  IF h \in hosts
  THEN Source("collected", [k \in {NodeKey(hosts, read, h)} |-> config[h]])
  ELSE Missing

\* Mutant of Found: nobody asks which required sources are there.
FoundWithoutGaps(hosts, read) ==
  (problems \cap read) \cup (IF hosts # Aliases THEN {"node_gap"} ELSE {})

\* The active rules: a rule finds its problem in what was collected; a required source or a host that was not
\* collected is a finding of its own.
Found(hosts, read) ==
  (problems \cap read)
    \cup (IF RequiredEvidence \subseteq read THEN {} ELSE {"evidence_gap"})
    \cup (IF hosts # Aliases THEN {"node_gap"} ELSE {})

\* Kubernetes Nodes and the Cilium configuration are unchanging objects here.
Profile(hosts, read) ==
  [ id \in SourceIds |->
      IF id = KubernetesNodes
      THEN IF "nodes" \in read THEN Source("collected", [n \in DOMAIN NodeNames |-> n]) ELSE Missing
      ELSE IF id = CiliumConfig
      THEN IF "cilium_config" \in read THEN Source("collected", [n \in {"cilium"} |-> "config"]) ELSE Missing
      ELSE IF id = Findings
      THEN Source("collected", [k \in Found(hosts, read) |-> "active"])
      ELSE NodeSource(hosts, read, id[2]) ]

-----------------------------------------------------------------------------
(* compare_profiles *)

\* Mutant of Change: the source is named after the object.
ChangeUnqualified(category, id, key) == [category |-> category, source |-> <<id[1], key>>, key |-> key]

Change(category, id, key) == [category |-> category, source |-> id, key |-> key]

Verifiable(before, after, id) ==
  before[id].status = "collected" /\ after[id].status = "collected"

\* Mutant of Ignored: nobody misses a source that was never there.
IgnoredWhenMissing(before, after, id) ==
  before[id].status # "collected" /\ after[id].status # "collected"

\* Nobody misses an optional source that was never there.
Ignored(before, after, id) ==
  /\ ~Required(id)
  /\ before[id].status # "collected" /\ after[id].status # "collected"

\* Mutant of SourceChanges: objects are compared by key only.
KeyChanges(before, after, id) ==
  LET old == before[id].objects
      new == after[id].objects
  IN  IF Ignored(before, after, id) THEN {}
      ELSE IF ~Verifiable(before, after, id)
      THEN {Change("unverifiable", id, "source")}
      ELSE {Change(IF id = Findings THEN "new_problem" ELSE "added", id, k) :
              k \in DOMAIN new \ DOMAIN old}
           \cup {Change(IF id = Findings THEN "resolved" ELSE "removed", id, k) :
              k \in DOMAIN old \ DOMAIN new}

\* The changes of one source; findings have categories of their own.
SourceChanges(before, after, id) ==
  LET old == before[id].objects
      new == after[id].objects
  IN  IF Ignored(before, after, id) THEN {}
      ELSE IF ~Verifiable(before, after, id)
      THEN {Change("unverifiable", id, "source")}
      ELSE {Change(IF id = Findings THEN "new_problem" ELSE "added", id, k) :
              k \in DOMAIN new \ DOMAIN old}
           \cup {Change(IF id = Findings THEN "resolved" ELSE "removed", id, k) :
              k \in DOMAIN old \ DOMAIN new}
           \cup {Change("changed", id, k) :
              k \in {x \in DOMAIN old \cap DOMAIN new : old[x] # new[x]}}

AllChanges(before, after) == UNION {SourceChanges(before, after, id) : id \in SourceIds}

Status(found) ==
  IF \E c \in found : c.category = "unverifiable" THEN "incomplete"
  ELSE IF found # {} THEN "changes_detected"
  ELSE "no_changes"

-----------------------------------------------------------------------------
NoProfile == [id \in SourceIds |-> Missing]

Init ==
  /\ stage = "cluster"
  /\ config \in [Aliases -> Versions]
  /\ problems \in SUBSET Problems
  /\ baseline = NoProfile
  /\ was = config
  /\ current = NoProfile
  /\ changes = {}
  /\ verdict = "none"

\* A collection is made into a candidate and approved; gaps are no obstacle
\* when the override is given.
ApproveBaseline(hosts, read) ==
  /\ stage = "cluster"
  /\ baseline' = Profile(hosts, read)
  /\ was' = config
  /\ stage' = "approved"
  /\ UNCHANGED <<config, problems, current, changes, verdict>>

\* The cluster changes between the two collections.
Drift ==
  /\ stage = "approved"
  /\ \/ \E h \in Aliases, v \in Versions :
          config[h] # v /\ config' = [config EXCEPT ![h] = v] /\ UNCHANGED problems
     \/ \E p \in Problems :
          problems' = (IF p \in problems THEN problems \ {p} ELSE problems \cup {p}) /\ UNCHANGED config
  /\ UNCHANGED <<stage, baseline, was, current, changes, verdict>>

CollectCurrent(hosts, read) ==
  /\ stage = "approved"
  /\ current' = Profile(hosts, read)
  /\ stage' = "collected"
  /\ UNCHANGED <<config, problems, baseline, was, changes, verdict>>

Compare ==
  /\ stage = "collected"
  /\ changes' = AllChanges(baseline, current)
  /\ verdict' = Status(AllChanges(baseline, current))
  /\ stage' = "compared"
  /\ UNCHANGED <<config, problems, baseline, was, current>>

Next ==
  \/ \E hosts \in SUBSET Aliases, read \in SUBSET Evidence :
       ApproveBaseline(hosts, read) \/ CollectCurrent(hosts, read)
  \/ Drift
  \/ Compare

Spec == Init /\ [][Next]_vars
-----------------------------------------------------------------------------
(* Properties. *)

SeenInBoth(h) == Verifiable(baseline, current, Alias(h))

\* The shape of the comparison.
TypeOK ==
  /\ stage \in {"cluster", "approved", "collected", "compared"}
  /\ config \in [Aliases -> Versions]
  /\ was \in [Aliases -> Versions]
  /\ problems \subseteq Problems
  /\ DOMAIN baseline = SourceIds /\ DOMAIN current = SourceIds
  /\ \A c \in changes : c.source \in SourceIds
  /\ verdict \in {"none", "incomplete", "changes_detected", "no_changes"}

\* A changed configuration of a host seen both times never goes unreported,
\* whatever name the host was identified by (baseline.py:436, 750-771).
DriftIsReported ==
  stage = "compared" =>
    \A h \in Aliases :
      SeenInBoth(h) /\ config[h] # was[h] => \E c \in changes : c.source = Alias(h)

\* "no_changes" is said of a cluster that was seen whole both times and is as it
\* was (baseline.py:775-780).
NoChangesIsExact ==
  verdict = "no_changes" =>
    /\ \A h \in Aliases : SeenInBoth(h) /\ config[h] = was[h]
    /\ Verifiable(baseline, current, KubernetesNodes)

GapIsFound == "evidence_gap" \in DOMAIN current[Findings].objects

\* The changes of the findings that are resolved although the problem is there.
FalselyResolved == {c \in changes : c.category = "resolved" /\ c.key \in problems}

\* A problem that is still there is called resolved only where its evidence was
\* not collected.  If that is a source of the profile, the comparison calls
\* itself incomplete; if it is another required source, the gap is among the
\* current findings, and new unless the baseline had a gap already.  Of a loss
\* that is no finding nothing is said (baseline.py:461-482, 527, 732-780,
\* rules.py:1615-1656).
FalseResolutionIsFlagged ==
  \A c \in FalselyResolved :
    /\ c.key = "nodes" => verdict = "incomplete"
    /\ c.key \in RequiredEvidence => GapIsFound
    /\ c.key \in RequiredEvidence =>
         \/ "evidence_gap" \in DOMAIN baseline[Findings].objects
         \/ Change("new_problem", Findings, "evidence_gap") \in changes

\* "An unavailable current source never produces false removed objects": no host
\* ever leaves this cluster, so against a baseline that was collected whole
\* nothing is ever removed.
NoFalseRemoval ==
  (\A id \in SourceIds : baseline[id].status = "collected") =>
    \A c \in changes : c.category # "removed"
-----------------------------------------------------------------------------
(* The inductive invariant behind the properties of the comparison. *)

\* The one object of a collected host holds the configuration it had.
HoldsConfig(profile, configuration) ==
  \A h \in Aliases :
    profile[Alias(h)].status = "collected" =>
      \E key \in Names :
        /\ DOMAIN profile[Alias(h)].objects = {key}
        /\ profile[Alias(h)].objects[key] = configuration[h]

ComparedRight ==
  changes = AllChanges(baseline, current) /\ verdict = Status(changes)

IInv ==
  /\ TypeOK
  /\ stage # "cluster" => HoldsConfig(baseline, was)
  /\ stage \in {"collected", "compared"} => HoldsConfig(current, config)
  /\ IF stage = "compared" THEN ComparedRight ELSE changes = {} /\ verdict = "none"
=============================================================================
