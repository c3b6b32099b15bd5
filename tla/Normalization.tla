---------------------------- MODULE Normalization ----------------------------
(***************************************************************************)
(* normalize_evidence: the records of a collection, one after another, are *)
(* filtered, counted by fingerprint or kept as events (_append); the       *)
(* events are deduplicated, limited fairly over their buckets and searched *)
(* for episodes of correlated categories.                                  *)
(*                                                                         *)
(* A record is a member of Kinds: what classify_message, the insight       *)
(* catalogue and the parsers of the sources make of it.  The id of an      *)
(* event is its place in the stream, which is its order in every list of   *)
(* events, so those are sets here; in the code the id is a digest of the   *)
(* place where the evidence lies.                                          *)
(***************************************************************************)
EXTENDS Fingerprints, Sequences, SequencesExt, FiniteSetsExt

CONSTANTS
  Kinds,           \* the records there can be
  IncidentStart, IncidentEnd,  \* the incident window
  Groups,          \* the groups of categories of one CORRELATION_SPEC
  Window,          \* CORRELATION_WINDOW_SECONDS
  Limits,          \* values of MAX_NORMALIZATION_CANDIDATES and MAX_NORMALIZED_EVENTS, with a bound on
                   \* the stream
  EpisodeLimit     \* events shown for an episode (20)

ASSUME KindsAssumption ==
  \A kind \in Kinds :
    kind.key \in Keys /\ kind.weight \in Nat \ {0} /\ kind.node \in Nodes /\ kind.time \in Int

ASSUME LimitsAssumption ==
  Limits \subseteq [candidates : Nat, output : Nat, records : Nat] /\ Window \in Nat

Sources == {kind.source : kind \in Kinds}
Relevant == UNION Groups

VARIABLES
  limits,    \* the limits in force
  stage,     \* "append", "suppress", "deduplicate", "limit", "correlate", "done"
  stream,    \* history: the records so far
  events,    \* candidates, then those left
  dropped,   \* dropped_by_source
  truncated, \* stats["truncated"]
  buckets,   \* events of each bucket still waiting for their turn
  active,    \* buckets in the order of their turns
  retained,  \* events that go into the output
  episodes   \* episodes found

limitVars == <<buckets, active, retained>>
vars == <<limits, stage, stream, events, dropped, truncated, limitVars, episodes, fingerprintVars>>

-----------------------------------------------------------------------------
(* _append *)

Outside(kind) == ~kind.inferred /\ (kind.time < IncidentStart \/ kind.time > IncidentEnd)

\* Fingerprints are counted for messages the catalogue knows and for those nobody can classify.  Conditions of
\* Nodes and states of Pods come with a table of their own that is thrown away.
WorthCounting(kind) == kind.counted /\ (kind.insight \/ kind.categories = {})

\* A smoke test of a DNS component, or a record outside the incident.
Filtered(kind) == Outside(kind) \/ kind.smoke

NewEvent(kind) == [id |-> Len(stream) + 1, kind |-> kind, count |-> kind.weight]

Drop(source) == dropped' = [dropped EXCEPT ![source] = @ + 1]

Reads(kind) ==
  /\ stage = "append" /\ Len(stream) < limits.records
  /\ stream' = Append(stream, kind)
  /\ UNCHANGED <<limits, stage, limitVars, episodes>>

FilterByTime(kind) ==
  /\ Reads(kind) /\ Outside(kind)
  /\ Drop(kind.source)
  /\ UNCHANGED <<events, truncated, fingerprintVars>>

SuppressSmokeTest(kind) ==
  /\ Reads(kind) /\ ~Outside(kind) /\ kind.smoke
  /\ UNCHANGED <<events, dropped, truncated, fingerprintVars>>

Counts(kind) ==
  IF WorthCounting(kind) THEN Observe(kind.key, kind.weight, kind.node) ELSE UNCHANGED fingerprintVars

CountOnly(kind) ==
  /\ Reads(kind) /\ ~Filtered(kind) /\ kind.categories = {}
  /\ Counts(kind)
  /\ UNCHANGED <<events, dropped, truncated>>

AppendEvent(kind) ==
  /\ Reads(kind) /\ ~Filtered(kind) /\ kind.categories # {}
  /\ Cardinality(events) < limits.candidates
  /\ Counts(kind)
  /\ events' = events \cup {NewEvent(kind)}
  /\ UNCHANGED <<dropped, truncated>>

DropCandidate(kind) ==
  /\ Reads(kind) /\ ~Filtered(kind) /\ kind.categories # {}
  /\ Cardinality(events) >= limits.candidates
  /\ Counts(kind)
  /\ Drop(kind.source)
  /\ truncated' = TRUE
  /\ UNCHANGED events

EndOfStream ==
  /\ stage = "append"
  /\ stage' = "suppress"
  /\ UNCHANGED <<limits, stream, events, dropped, truncated, limitVars, episodes, fingerprintVars>>

-----------------------------------------------------------------------------
(* Suppression and deduplication *)

\* How many events are of a source.
Count(S, source) == Cardinality({e \in S : e.kind.source = source})

DropAll(gone) == dropped' = [s \in Sources |-> dropped[s] + Count(gone, s)]

\* With collect_cgroup off, whatever has the cgroup category goes.
Suppress ==
  /\ stage = "suppress"
  /\ \/ UNCHANGED <<events, dropped>>
     \/ LET gone == {e \in events : "cgroup" \in e.kind.categories}
        IN  events' = events \ gone /\ DropAll(gone)
  /\ stage' = "deduplicate"
  /\ UNCHANGED <<limits, stream, truncated, limitVars, episodes, fingerprintVars>>

Same(a, b) ==
  /\ a.source = b.source /\ a.scope = b.scope /\ a.node = b.node
  /\ a.time = b.time /\ a.categories = b.categories /\ a.key = b.key

Duplicates(e) == {f \in events : Same(f.kind, e.kind)}

Firsts == {e \in events : \A f \in Duplicates(e) : e.id <= f.id}

\* The first of equal events takes over the occurrences of the others.
Merged(e) == [e EXCEPT !.count = MapThenSumSet(LAMBDA f : f.count, Duplicates(e))]

\* Mutant of Deduplicate: the duplicates are not counted as dropped.
DeduplicateQuietly ==
  /\ stage = "deduplicate"
  /\ events' = {Merged(e) : e \in Firsts}
  /\ stage' = "limit"
  /\ UNCHANGED <<limits, stream, dropped, truncated, limitVars, episodes, fingerprintVars>>

Deduplicate ==
  /\ stage = "deduplicate"
  /\ events' = {Merged(e) : e \in Firsts}
  /\ DropAll(events \ Firsts)
  /\ stage' = "limit"
  /\ UNCHANGED <<limits, stream, truncated, limitVars, episodes, fingerprintVars>>

-----------------------------------------------------------------------------
(* _fair_limit_events *)

Bucket(event) == <<event.kind.source, event.kind.scope, event.kind.categories>>

Buckets == {Bucket(e) : e \in events}

InBucket(bucket, S) == {e \in S : Bucket(e) = bucket}

WithinLimit ==
  /\ stage = "limit" /\ active = <<>> /\ retained = {}
  /\ Cardinality(events) <= limits.output
  /\ retained' = events
  /\ stage' = "correlate"
  /\ UNCHANGED <<limits, stream, events, dropped, truncated, buckets, active, episodes, fingerprintVars>>

\* sorted(buckets) is any order that depends on nothing else.
StartTurns ==
  /\ stage = "limit" /\ active = <<>> /\ retained = {}
  /\ Cardinality(events) > limits.output
  /\ buckets' = [b \in Buckets |-> InBucket(b, events)]
  /\ active' = SetToSeq(Buckets)
  /\ UNCHANGED <<limits, stage, stream, events, dropped, truncated, retained, episodes, fingerprintVars>>

\* The event of a bucket whose turn it is.
Oldest(bucket) == CHOOSE e \in buckets[bucket] : \A f \in buckets[bucket] : e.id <= f.id

\* Mutant of TakeTurn: a bucket keeps its turn until it is empty.
TakeAllTurns ==
  /\ stage = "limit" /\ active # <<>> /\ Cardinality(retained) < limits.output
  /\ LET bucket == Head(active)
         left == buckets[bucket] \ {Oldest(bucket)}
     IN  /\ retained' = retained \cup {Oldest(bucket)}
         /\ buckets' = [buckets EXCEPT ![bucket] = left]
         /\ active' = IF left # {} THEN active ELSE Tail(active)
  /\ UNCHANGED <<limits, stage, stream, events, dropped, truncated, episodes, fingerprintVars>>

TakeTurn ==
  /\ stage = "limit" /\ active # <<>> /\ Cardinality(retained) < limits.output
  /\ LET bucket == Head(active)
         left == buckets[bucket] \ {Oldest(bucket)}
     IN  /\ retained' = retained \cup {Oldest(bucket)}
         /\ buckets' = [buckets EXCEPT ![bucket] = left]
         /\ active' = IF left # {} THEN Append(Tail(active), bucket) ELSE Tail(active)
  /\ UNCHANGED <<limits, stage, stream, events, dropped, truncated, episodes, fingerprintVars>>

LimitReached ==
  /\ stage = "limit" /\ active # <<>> /\ Cardinality(retained) >= limits.output
  /\ DropAll(events \ retained)
  /\ truncated' = TRUE
  /\ stage' = "correlate"
  /\ UNCHANGED <<limits, stream, events, limitVars, episodes, fingerprintVars>>

-----------------------------------------------------------------------------
(* correlate_events, for one specification *)

Sooner(a, b) == a.kind.time < b.kind.time \/ (a.kind.time = b.kind.time /\ a.id < b.id)

\* The events of a scope that can take part, in the order of time: before the
\* n-th come n - 1 sooner ones.
Scoped(scope) ==
  {e \in retained : ~e.kind.inferred /\ e.kind.scope = scope /\ e.kind.categories \cap Relevant # {}}

Candidates(scope) ==
  LET S == Scoped(scope)
  IN  [n \in 1 .. Cardinality(S) |-> CHOOSE e \in S : Cardinality({f \in S : Sooner(f, e)}) = n - 1]

\* The window that ends with an event starts with the first one near enough.
Left(c, start, right) == Min({i \in start .. right : c[right].kind.time - c[i].kind.time <= Window})

\* Every group has a category among some events.
Complete(c, places) == \A g \in Groups : \E i \in places : c[i].kind.categories \cap g # {}

\* Mutant of Matches: a group seen since the start counts even when its event has left the window.
MatchesSinceStart(c, start) ==
  {right \in start .. Len(c) : Left(c, start, right) < right /\ Complete(c, start .. right)}

Matches(c, start) ==
  {right \in start .. Len(c) : Left(c, start, right) < right /\ Complete(c, Left(c, start, right) .. right)}

EpisodeAt(scope, c, start) ==
  LET right == Min(Matches(c, start))
      match == SubSeq(c, Left(c, start, right), right)
      shown == SubSeq(match, 1, EpisodeLimit)
  IN  [ scope |-> scope, match |-> ToSet(match), start |-> Head(shown).kind.time,
        end |-> Last(shown).kind.time, categories |-> UNION {e.kind.categories : e \in ToSet(shown)} ]

\* The search goes on after the end of a match.
EpisodesOf(scope) ==
  LET c == Candidates(scope)
      from[start \in 1 .. Len(c) + 1] ==
        IF Matches(c, start) = {} THEN {}
        ELSE {EpisodeAt(scope, c, start)} \cup from[Min(Matches(c, start)) + 1]
  IN  from[1]

Scopes == {kind.scope : kind \in Kinds} \ {"cluster"}

Correlate ==
  /\ stage = "correlate"
  /\ episodes' = UNION {EpisodesOf(scope) : scope \in Scopes}
  /\ stage' = "done"
  /\ UNCHANGED <<limits, stream, events, dropped, truncated, limitVars, fingerprintVars>>

-----------------------------------------------------------------------------
Init ==
  /\ limits \in Limits
  /\ stage = "append"
  /\ stream = <<>> /\ events = {}
  /\ dropped = [s \in Sources |-> 0]
  /\ truncated = FALSE
  /\ buckets = <<>> /\ active = <<>> /\ retained = {}
  /\ episodes = {}
  /\ InitTable

Next ==
  \/ \E kind \in Kinds :
       \/ FilterByTime(kind) \/ SuppressSmokeTest(kind) \/ CountOnly(kind)
       \/ AppendEvent(kind) \/ DropCandidate(kind)
  \/ EndOfStream \/ Suppress \/ Deduplicate
  \/ WithinLimit \/ StartTurns \/ TakeTurn \/ LimitReached
  \/ Correlate

Spec == Init /\ [][Next]_vars

-----------------------------------------------------------------------------
(* Properties *)

\* No record gets lost on its way through the stages: each record of a source is
\* an event of the output, counted in dropped_by_source, a smoke test, or
\* counted by its fingerprint alone; and records are only left out by a limit
\* with truncated set (normalize.py:405-477, 881-937, 977-987).
EveryRecordIsAccounted ==
  stage = "done" =>
    /\ \A s \in Sources :
         Cardinality({i \in DOMAIN stream : stream[i].source = s}) =
           Count(retained, s) + dropped[s]
           + Cardinality({i \in DOMAIN stream :
               /\ stream[i].source = s /\ ~Outside(stream[i])
               /\ stream[i].smoke \/ stream[i].categories = {}})
    /\ ~truncated => retained = events

\* No bucket is starved: a bucket that loses an event to the output limit has
\* at most one event less in the output than any other, and the output is full
\* (normalize.py:917-937).
FairShare ==
  stage = "done" /\ Cardinality(retained) < Cardinality(events) =>
    /\ Cardinality(retained) = limits.output
    /\ \A b, other \in Buckets :
         InBucket(b, retained) # InBucket(b, events) =>
           Cardinality(InBucket(other, retained)) <= Cardinality(InBucket(b, retained)) + 1

\* Whatever the order, ties and gaps of the events: events of one scope that complete every group within the
\* window meet an episode, and an episode completes every group within the
\* window, sharing no event with another (normalize.py:843-878).
EpisodesMissNothing ==
  stage = "done" =>
    /\ \A scope \in Scopes :
         LET c == Candidates(scope)
         IN  \A i, j \in DOMAIN c :
               /\ i < j /\ c[j].kind.time - c[i].kind.time <= Window /\ Complete(c, i .. j)
               => \E e \in episodes : \E n \in i .. j : c[n] \in e.match
    /\ \A e \in episodes :
         /\ \A a, b \in e.match : a.kind.time - b.kind.time <= Window
         /\ \A g \in Groups : \E a \in e.match : a.kind.categories \cap g # {}
         /\ \A f \in episodes : e # f => e.match \cap f.match = {}
=============================================================================
