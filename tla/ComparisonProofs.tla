-------------------------- MODULE ComparisonProofs --------------------------
(***************************************************************************)
(* What match_node_identities and compare_profiles guarantee for any       *)
(* names, any inventory and any cluster.                                   *)
(***************************************************************************)
EXTENDS Comparison, TLAPS

\* No alias is taken for two Nodes and no two aliases for one Node: identities
\* never merge the evidence of two hosts.
THEOREM IdentitiesAreOneToOne ==
  ASSUME NEW inventory, NEW kubernetes,
         NEW p \in Matches(inventory, kubernetes), NEW q \in Matches(inventory, kubernetes)
  PROVE  p[1] = q[1] <=> p[2] = q[2]
<1>1. /\ p \in (DOMAIN inventory) \X (DOMAIN kubernetes)
      /\ q \in (DOMAIN inventory) \X (DOMAIN kubernetes)
      /\ Claims(inventory, kubernetes, p[1], p[2])
      /\ Claims(inventory, kubernetes, q[1], q[2])
      /\ \A alias \in (DOMAIN inventory) \ {p[1]} : ~Claims(inventory, kubernetes, alias, p[2])
  BY DEF Matches
<1>2. ASSUME p[1] = q[1] PROVE p[2] = q[2]
  <2>1. {p[2]} = {q[2]}
    BY <1>1, <1>2 DEF Claims
  <2> QED
    BY <2>1
<1>3. ASSUME p[2] = q[2] PROVE p[1] = q[1]
  BY <1>1, <1>3
<1> QED
  BY <1>2, <1>3

\* An identity is one of the names given, whatever the cluster lists.
LEMMA IdentityIsAName ==
  ASSUME NEW inventory, NEW kubernetes, NEW alias, NEW default
  PROVE  IdentityOr(inventory, kubernetes, alias, default) \in DOMAIN kubernetes \cup {default}
<1> DEFINE Matched(node) == <<alias, node>> \in Matches(inventory, kubernetes)
<1>1. CASE \E node \in DOMAIN kubernetes : Matched(node)
  <2>1. (CHOOSE node \in DOMAIN kubernetes : Matched(node)) \in DOMAIN kubernetes
    BY <1>1
  <2> QED
    BY <1>1, <2>1 DEF IdentityOr
<1>2. CASE ~ \E node \in DOMAIN kubernetes : Matched(node)
  BY <1>2 DEF IdentityOr
<1> QED
  BY <1>1, <1>2

\* build_profile gives every collected host one object with its configuration,
\* and a source to each identifier.
LEMMA ProfileHoldsConfig ==
  ASSUME NEW hosts \in SUBSET Aliases, NEW read \in SUBSET Evidence
  PROVE  /\ DOMAIN Profile(hosts, read) = SourceIds
         /\ HoldsConfig(Profile(hosts, read), config)
<1> DEFINE P == Profile(hosts, read)
<1>1. DOMAIN P = SourceIds
  BY DEF Profile
<1>2. ASSUME NEW h \in Aliases, P[Alias(h)].status = "collected"
      PROVE  \E key \in Names :
               /\ DOMAIN P[Alias(h)].objects = {key}
               /\ P[Alias(h)].objects[key] = config[h]
  <2>1. Alias(h) \in SourceIds /\ Alias(h) \notin {KubernetesNodes, CiliumConfig, Findings}
    BY DEF SourceIds, Alias, KubernetesNodes, CiliumConfig, Findings
  <2>2. P[Alias(h)] = NodeSource(hosts, read, h)
    BY <2>1 DEF Profile, Alias
  <2>3. h \in hosts
    BY <1>2, <2>2 DEF NodeSource, Missing, Source
  <2>4. P[Alias(h)].objects = [k \in {NodeKey(hosts, read, h)} |-> config[h]]
    BY <2>2, <2>3 DEF NodeSource, Source
  <2>5. NodeKey(hosts, read, h) \in Names
    <3>1. NodeKey(hosts, read, h) \in DOMAIN Listed(read) \cup {HostName[h]}
      BY IdentityIsAName DEF NodeKey
    <3>2. DOMAIN Listed(read) \subseteq DOMAIN NodeNames
      BY DEF Listed
    <3> QED
      BY <3>1, <3>2, ComparisonAssumption
  <2> QED
    BY <2>4, <2>5
<1> QED
  BY <1>1, <1>2 DEF HoldsConfig

\* Every change names a source of the profile.
LEMMA ChangesNameSources ==
  ASSUME NEW before, NEW after, NEW c \in AllChanges(before, after)
  PROVE  c.source \in SourceIds
<1>1. PICK id \in SourceIds : c \in SourceChanges(before, after, id)
  BY DEF AllChanges
<1>2. c.source = id
  BY <1>1 DEF SourceChanges, Change
<1> QED
  BY <1>2

\* A profile that does not change, of hosts whose configuration does not change,
\* holds it still.
LEMMA BaselineStays ==
  ASSUME HoldsConfig(baseline, was), UNCHANGED <<baseline, was>>
  PROVE  HoldsConfig(baseline, was)'
BY DEF HoldsConfig

LEMMA CurrentStays ==
  ASSUME HoldsConfig(current, config), UNCHANGED <<current, config>>
  PROVE  HoldsConfig(current, config)'
BY DEF HoldsConfig

LEMMA ReportStays ==
  ASSUME ComparedRight, UNCHANGED <<baseline, current, changes, verdict>>
  PROVE  ComparedRight'
BY DEF ComparedRight, AllChanges, SourceChanges, Ignored, Verifiable, Status

\* The profiles hold the configurations of their time and the reported changes
\* are those between the two.
THEOREM ComparisonInvariant == Spec => []IInv
<1>1. Init => IInv
  BY DEF Init, IInv, TypeOK, NoProfile
<1>2. IInv /\ [Next]_vars => IInv'
  <2> SUFFICES ASSUME IInv, [Next]_vars PROVE IInv'
    OBVIOUS
  <2>1. CASE UNCHANGED vars
    <3>1. TypeOK'
      BY <2>1 DEF vars, IInv, TypeOK
    <3>2. stage' # "cluster" => HoldsConfig(baseline, was)'
      BY <2>1, BaselineStays DEF vars, IInv
    <3>3. stage' \in {"collected", "compared"} => HoldsConfig(current, config)'
      BY <2>1, CurrentStays DEF vars, IInv
    <3>4. IF stage' = "compared" THEN ComparedRight' ELSE changes' = {} /\ verdict' = "none"
      BY <2>1, ReportStays DEF vars, IInv
    <3> QED
      BY <3>1, <3>2, <3>3, <3>4 DEF IInv
  <2>2. ASSUME NEW hosts \in SUBSET Aliases, NEW read \in SUBSET Evidence,
               ApproveBaseline(hosts, read)
        PROVE  IInv'
    <3>1. /\ DOMAIN baseline' = SourceIds
          /\ HoldsConfig(baseline', was')
      BY <2>2, ProfileHoldsConfig DEF ApproveBaseline
    <3>2. HoldsConfig(baseline, was)'
      BY <3>1 DEF HoldsConfig
    <3>3. TypeOK'
      BY <2>2, <3>1 DEF ApproveBaseline, IInv, TypeOK
    <3>4. stage' = "approved" /\ changes' = {} /\ verdict' = "none"
      BY <2>2 DEF ApproveBaseline, IInv
    <3> QED
      BY <3>2, <3>3, <3>4 DEF IInv
  <2>3. ASSUME NEW hosts \in SUBSET Aliases, NEW read \in SUBSET Evidence,
               CollectCurrent(hosts, read)
        PROVE  IInv'
    <3>1. /\ DOMAIN current' = SourceIds
          /\ HoldsConfig(current', config')
      BY <2>3, ProfileHoldsConfig DEF CollectCurrent
    <3>2. HoldsConfig(current, config)'
      BY <3>1 DEF HoldsConfig
    <3>3. HoldsConfig(baseline, was)'
      BY <2>3, BaselineStays DEF CollectCurrent, IInv
    <3>4. TypeOK'
      BY <2>3, <3>1 DEF CollectCurrent, IInv, TypeOK
    <3>5. stage' = "collected" /\ changes' = {} /\ verdict' = "none"
      BY <2>3 DEF CollectCurrent, IInv
    <3> QED
      BY <3>2, <3>3, <3>4, <3>5 DEF IInv
  <2>4. CASE Drift
    <3>1. /\ stage = "approved" /\ stage' = "approved"
          /\ UNCHANGED <<baseline, was, current, changes, verdict>>
      BY <2>4 DEF Drift
    <3>2. config' \in [Aliases -> Versions] /\ problems' \subseteq Problems
      BY <2>4 DEF Drift, IInv, TypeOK
    <3>3. TypeOK'
      BY <3>1, <3>2 DEF IInv, TypeOK
    <3>4. HoldsConfig(baseline, was)'
      BY <3>1, BaselineStays DEF IInv
    <3>5. changes' = {} /\ verdict' = "none"
      BY <3>1 DEF IInv
    <3> QED
      BY <3>1, <3>3, <3>4, <3>5 DEF IInv
  <2>5. CASE Compare
    <3>1. /\ changes' = AllChanges(baseline, current)
          /\ verdict' = Status(changes')
          /\ stage' = "compared"
          /\ UNCHANGED <<config, problems, baseline, was, current>>
      BY <2>5 DEF Compare
    <3>2. verdict' \in {"incomplete", "changes_detected", "no_changes"}
      BY <3>1 DEF Status
    <3>3. \A c \in changes' : c.source \in SourceIds
      BY <3>1, ChangesNameSources
    <3>4. TypeOK'
      BY <3>1, <3>2, <3>3 DEF IInv, TypeOK
    <3>5. ComparedRight'
      BY <3>1 DEF ComparedRight, AllChanges, SourceChanges, Verifiable, Ignored, Status
    <3>6. HoldsConfig(baseline, was)' /\ HoldsConfig(current, config)'
      BY <2>5, <3>1, BaselineStays, CurrentStays DEF Compare, IInv
    <3> QED
      BY <3>1, <3>4, <3>5, <3>6 DEF IInv
  <2> QED
    BY <2>1, <2>2, <2>3, <2>4, <2>5 DEF Next
<1> QED
  BY <1>1, <1>2, PTL DEF Spec

\* The state of the comparison keeps its shape.
THEOREM ComparisonTypeOK == Spec => []TypeOK
BY ComparisonInvariant, PTL DEF IInv

\* Two one-object sources with different configurations differ: the object has
\* changed, or it is another one.
LEMMA DifferentConfigIsChange ==
  ASSUME NEW before, NEW after, NEW h \in Aliases, Verifiable(before, after, Alias(h)),
         NEW k1, DOMAIN before[Alias(h)].objects = {k1},
         NEW k2, DOMAIN after[Alias(h)].objects = {k2},
         before[Alias(h)].objects[k1] # after[Alias(h)].objects[k2]
  PROVE  \E c \in AllChanges(before, after) : c.source = Alias(h)
<1> DEFINE id == Alias(h)
           added == Change("added", id, k2)
           changed == Change("changed", id, k1)
<1>1. id \in SourceIds /\ id # Findings
  BY DEF SourceIds, Alias, Findings
<1>2. added.source = id /\ changed.source = id
  BY DEF Change
<1>3. ~Ignored(before, after, id)
  BY DEF Ignored, Verifiable
<1>4. CASE k1 = k2
  <2>1. /\ k1 \in DOMAIN before[id].objects \cap DOMAIN after[id].objects
        /\ before[id].objects[k1] # after[id].objects[k1]
    BY <1>4
  <2>2. changed \in SourceChanges(before, after, id)
    BY <1>3, <2>1 DEF SourceChanges
  <2> QED
    BY <1>1, <1>2, <2>2 DEF AllChanges
<1>5. CASE k1 # k2
  <2>1. k2 \in DOMAIN after[id].objects \ DOMAIN before[id].objects
    BY <1>5
  <2>2. added \in SourceChanges(before, after, id)
    BY <1>1, <1>3, <2>1 DEF SourceChanges
  <2> QED
    BY <1>1, <1>2, <2>2 DEF AllChanges
<1> QED
  BY <1>4, <1>5

\* What follows for a finished comparison from the invariant.
LEMMA ComparedDrift ==
  ASSUME IInv, stage = "compared", NEW h \in Aliases, SeenInBoth(h), config[h] # was[h]
  PROVE  \E c \in changes : c.source = Alias(h)
<1>1. /\ HoldsConfig(baseline, was) /\ HoldsConfig(current, config)
      /\ changes = AllChanges(baseline, current)
  BY DEF IInv, ComparedRight
<1>2. Verifiable(baseline, current, Alias(h))
  BY DEF SeenInBoth
<1>3. PICK k1 \in Names : /\ DOMAIN baseline[Alias(h)].objects = {k1}
                         /\ baseline[Alias(h)].objects[k1] = was[h]
  BY <1>1, <1>2 DEF HoldsConfig, Verifiable
<1>4. PICK k2 \in Names : /\ DOMAIN current[Alias(h)].objects = {k2}
                         /\ current[Alias(h)].objects[k2] = config[h]
  BY <1>1, <1>2 DEF HoldsConfig, Verifiable
<1>5. \E c \in AllChanges(baseline, current) : c.source = Alias(h)
  BY <1>2, <1>3, <1>4, DifferentConfigIsChange
<1> QED
  BY <1>1, <1>5

\* The changed configuration of a host seen both times is always reported.
THEOREM DriftReported == Spec => []DriftIsReported
<1>1. IInv => DriftIsReported
  BY ComparedDrift DEF DriftIsReported
<1> QED
  BY <1>1, ComparisonInvariant, PTL

\* A comparison without changes has seen everything, and everything is as it was.
THEOREM NoChangesExact == Spec => []NoChangesIsExact
<1>1. ASSUME IInv, verdict = "no_changes"
      PROVE  /\ \A h \in Aliases : SeenInBoth(h) /\ config[h] = was[h]
             /\ Verifiable(baseline, current, KubernetesNodes)
  <2>1. stage = "compared" /\ changes = AllChanges(baseline, current)
    BY <1>1 DEF IInv, ComparedRight
  <2>2. changes = {}
    BY <1>1, <2>1 DEF IInv, ComparedRight, Status
  <2>3. ASSUME NEW id \in SourceIds, Required(id) PROVE Verifiable(baseline, current, id)
    <3> SUFFICES ASSUME ~Verifiable(baseline, current, id) PROVE FALSE
      OBVIOUS
    <3>1. SourceChanges(baseline, current, id) = {Change("unverifiable", id, "source")}
      BY <2>3 DEF SourceChanges, Ignored
    <3> QED
      BY <2>1, <2>2, <3>1 DEF AllChanges
  <2>4. ASSUME NEW h \in Aliases PROVE SeenInBoth(h)
    <3>1. Alias(h) \in SourceIds /\ Required(Alias(h))
      BY DEF SourceIds, Required, Alias, CiliumConfig
    <3> QED
      BY <2>3, <3>1 DEF SeenInBoth
  <2>5. KubernetesNodes \in SourceIds /\ Required(KubernetesNodes)
    BY DEF SourceIds, Required, KubernetesNodes, CiliumConfig
  <2> QED
    BY <1>1, <2>1, <2>2, <2>3, <2>4, <2>5, ComparedDrift
<1>2. IInv => NoChangesIsExact
  BY <1>1 DEF NoChangesIsExact
<1> QED
  BY <1>2, ComparisonInvariant, PTL

-----------------------------------------------------------------------------
(* Resolved problems *)

\* build_profile has every problem whose evidence was collected, and the gap when a
\* required source was not.
LEMMA ProfileFindings ==
  ASSUME NEW hosts, NEW read
  PROVE  LET P == Profile(hosts, read)
         IN  /\ DOMAIN P[Findings].objects = Found(hosts, read)
             /\ P[KubernetesNodes].status = "collected" => "nodes" \in read
<1> DEFINE P == Profile(hosts, read)
<1>1. /\ Findings \in SourceIds /\ KubernetesNodes \in SourceIds
      /\ Findings # KubernetesNodes /\ Findings # CiliumConfig
  BY DEF SourceIds, Findings, KubernetesNodes, CiliumConfig
<1>2. P[Findings] = Source("collected", [k \in Found(hosts, read) |-> "active"])
  BY <1>1 DEF Profile
<1>3. P[KubernetesNodes] = IF "nodes" \in read THEN Source("collected", [n \in DOMAIN NodeNames |-> n]) ELSE Missing
  BY <1>1 DEF Profile
<1> HIDE DEF P
<1>4. P[KubernetesNodes].status = "collected" => "nodes" \in read BY <1>3 DEF Source, Missing
<1>5. DOMAIN P[Findings].objects = Found(hosts, read) BY <1>2 DEF Source
<1> QED BY <1>4, <1>5 DEF P

\* The current findings have every problem that is there and was looked for, and
\* the gap when a required problem was not looked for: problems come and go
\* before the current collection only.
ProblemsAreShown ==
  stage \in {"collected", "compared"} =>
    \E read \in SUBSET Evidence :
      /\ problems \cap read \subseteq DOMAIN current[Findings].objects
      /\ current[KubernetesNodes].status = "collected" => "nodes" \in read
      /\ RequiredEvidence \subseteq read \/ GapIsFound

LEMMA ProblemsStep == ProblemsAreShown /\ [Next]_vars => ProblemsAreShown'
<1> SUFFICES ASSUME ProblemsAreShown, [Next]_vars PROVE ProblemsAreShown'
  OBVIOUS
<1>1. ASSUME NEW hosts \in SUBSET Aliases, NEW read \in SUBSET Evidence,
             ApproveBaseline(hosts, read)
      PROVE  ProblemsAreShown'
  BY <1>1 DEF ApproveBaseline, ProblemsAreShown
<1>2. ASSUME NEW hosts \in SUBSET Aliases, NEW read \in SUBSET Evidence,
             CollectCurrent(hosts, read)
      PROVE  ProblemsAreShown'
  <2>1. /\ problems' = problems
        /\ DOMAIN current'[Findings].objects = Found(hosts, read)
        /\ current'[KubernetesNodes].status = "collected" => "nodes" \in read
    BY <1>2, ProfileFindings DEF CollectCurrent
  <2>2. problems' \cap read \subseteq DOMAIN current'[Findings].objects
    BY <2>1 DEF Found
  <2>3. RequiredEvidence \subseteq read \/ "evidence_gap" \in DOMAIN current'[Findings].objects
    BY <2>1 DEF Found
  <2> QED BY <2>1, <2>2, <2>3 DEF ProblemsAreShown, GapIsFound
<1>3. CASE Drift BY <1>3 DEF Drift, ProblemsAreShown
<1>4. CASE Compare BY <1>4 DEF Compare, ProblemsAreShown, GapIsFound
<1>5. CASE UNCHANGED vars BY <1>5 DEF vars, ProblemsAreShown, GapIsFound
<1> QED BY <1>1, <1>2, <1>3, <1>4, <1>5 DEF Next

\* What is new among the findings is reported as a new problem.
LEMMA NewFindingIsReported ==
  ASSUME NEW before, NEW after, Verifiable(before, after, Findings),
         NEW k \in DOMAIN after[Findings].objects \ DOMAIN before[Findings].objects
  PROVE  Change("new_problem", Findings, k) \in AllChanges(before, after)
<1>1. Findings \in SourceIds /\ ~Ignored(before, after, Findings)
  BY DEF SourceIds, Findings, Ignored, Verifiable
<1>2. Change("new_problem", Findings, k) \in SourceChanges(before, after, Findings)
  BY <1>1 DEF SourceChanges
<1> QED BY <1>1, <1>2 DEF AllChanges

\* A problem that is still there is called resolved only where its evidence was
\* not collected, and then the comparison calls itself incomplete or the gap is
\* found, for any set of sources in and outside the profile
\* (baseline.py:461-482, 527, 732-780, rules.py:1615-1656).
THEOREM FalseResolutionFlagged == Spec => []FalseResolutionIsFlagged
<1>1. Init => ProblemsAreShown BY DEF Init, ProblemsAreShown
<1>2. ASSUME IInv, ProblemsAreShown, NEW c \in FalselyResolved
      PROVE  /\ c.key = "nodes" => verdict = "incomplete"
             /\ c.key \in RequiredEvidence => GapIsFound
             /\ c.key \in RequiredEvidence =>
                  \/ "evidence_gap" \in DOMAIN baseline[Findings].objects
                  \/ Change("new_problem", Findings, "evidence_gap") \in changes
  <2>1. c \in changes /\ c.category = "resolved" /\ c.key \in problems
    BY DEF FalselyResolved
  <2>2. stage = "compared" /\ changes = AllChanges(baseline, current) /\ verdict = Status(changes)
    BY <1>2, <2>1 DEF IInv, ComparedRight
  <2>3. PICK id \in SourceIds : c \in SourceChanges(baseline, current, id)
    BY <2>1, <2>2 DEF AllChanges
  <2>4. id = Findings /\ Verifiable(baseline, current, id) /\ c.key \notin DOMAIN current[id].objects
    BY <2>1, <2>3 DEF SourceChanges, Change
  <2>5. PICK read \in SUBSET Evidence :
          /\ problems \cap read \subseteq DOMAIN current[Findings].objects
          /\ current[KubernetesNodes].status = "collected" => "nodes" \in read
          /\ RequiredEvidence \subseteq read \/ GapIsFound
    BY <1>2, <2>2 DEF ProblemsAreShown
  <2>6. c.key \notin read
    BY <2>1, <2>4, <2>5
  <2>7. ASSUME c.key = "nodes" PROVE verdict = "incomplete"
    <3>1. ~Verifiable(baseline, current, KubernetesNodes)
      BY <2>5, <2>6, <2>7 DEF Verifiable
    <3>2. KubernetesNodes \in SourceIds /\ ~Ignored(baseline, current, KubernetesNodes)
      BY DEF SourceIds, KubernetesNodes, CiliumConfig, Ignored, Required
    <3>3. Change("unverifiable", KubernetesNodes, "source") \in changes
      BY <2>2, <3>1, <3>2 DEF AllChanges, SourceChanges
    <3> QED BY <2>2, <3>3 DEF Status, Change
  <2>8. c.key \in RequiredEvidence => GapIsFound
    BY <2>5, <2>6
  <2>9. ASSUME GapIsFound, "evidence_gap" \notin DOMAIN baseline[Findings].objects
        PROVE  Change("new_problem", Findings, "evidence_gap") \in changes
    BY <2>2, <2>4, <2>9, NewFindingIsReported DEF GapIsFound
  <2> QED BY <2>7, <2>8, <2>9
<1>3. IInv /\ ProblemsAreShown => FalseResolutionIsFlagged
  BY <1>2 DEF FalseResolutionIsFlagged
<1> QED BY <1>1, <1>3, ProblemsStep, ComparisonInvariant, PTL DEF Spec
=============================================================================
