------------------------ MODULE KubernetesCollection ------------------------
(***************************************************************************)
(* KubectlCollector.collect: the sources of the Kubernetes API are read by *)
(* a pool of threads, one kubectl each, then the logs of selected Pods one *)
(* after another within one budget of bytes, and snapshot_status says what *)
(* came of it.                                                             *)
(*                                                                         *)
(* The API server answers in full, in part or not at all, as it likes; an  *)
(* outcome of a kubectl call is one of those Runner can return.            *)
(***************************************************************************)
EXTENDS ProcessOutcome, FiniteSets, FiniteSetsExt, Sequences, SequencesExt

CONSTANTS
  Required, Optional,  \* ids of the plain sources
  Texts,               \* those whose answer is text, not JSON (api_readyz)
  Candidates,          \* number of well-known objects of each configuration source
  Readers,             \* threads of the pool
  Layouts,             \* Pods of the selected namespaces by priority; a Pod is a sequence of
                       \* containers, which have been restarted or not
  MaxPods, MaxLogBytes,
  CallBytes,           \* cap of one log (512 KiB)
  LogShapes            \* what a log can have since `--since-time`: the bytes of its last log_tail_lines
                       \* lines (`--tail`) and of the lines before them

ASSUME KubernetesAssumption ==
  /\ "pods" \in Required \ Texts
  /\ Candidates \in [DOMAIN Candidates -> Nat \ {0}]
  /\ Readers \in Nat \ {0} /\ MaxPods \in Nat /\ MaxLogBytes \in Nat /\ CallBytes \in Nat \ {0}
  /\ Layouts \subseteq Seq(Seq(BOOLEAN))
  /\ LogShapes \subseteq [tail : Nat, older : Nat]

Configs == DOMAIN Candidates
Ids == Required \cup Optional \cup Configs

VARIABLES
  stage,     \* "sources", "logs", "done"
  sources,   \* status of each source; "pending" and "running" before its future is done
  attempts,  \* candidates tried for each configuration source
  whole,     \* history: sources whose data is all the API has
  pods,      \* the Pods selected, highest priority first
  at,        \* the log to read next
  entries,   \* logs read
  consumed,  \* bytes of the budget used
  limited,   \* a log was left out
  logs       \* status of the logs

sourceVars == <<sources, attempts, whole>>
logVars == <<pods, at, entries, consumed, limited, logs>>
kubernetesVars == <<stage, sourceVars, logVars>>

-----------------------------------------------------------------------------
(* Sources *)

\* kubectl is killed by SIGTERM: it does not exit with 0 after a timeout cut it short.
Cut(r) == r.returncode # "zero" \/ r.truncated

\* _json_source and _text_source.  A projector that fails on what it gets makes the source malformed; one that
\* raises anything else fails it in collect.
SourceStatus(r, wellFormed) ==
  IF r.timedOut THEN "timeout"
  ELSE IF r.truncated THEN "truncated"
  ELSE IF r.returncode = "none" THEN "unsupported"
  ELSE IF r.returncode # "zero" THEN "failed"
  ELSE IF wellFormed THEN "collected" ELSE "malformed"

\* Any text will do for the text projector.
WellFormed(id) == IF id \in Texts THEN {TRUE} ELSE BOOLEAN

Running == {id \in Ids : sources[id] = "running"}

Submit(id) ==
  /\ stage = "sources"
  /\ sources[id] = "pending"
  /\ Cardinality(Running) < Readers
  /\ sources' = [sources EXCEPT ![id] = "running"]
  /\ UNCHANGED <<stage, attempts, whole, logVars>>

\* kubectl returns; a configuration source goes on to its next candidate until one is collected.
Answer(id) ==
  /\ sources[id] = "running"
  /\ \E r \in Outcomes, wellFormed \in WellFormed(id) :
       LET status == SourceStatus(r, wellFormed)
           last == id \notin Configs \/ attempts[id] + 1 = Candidates[id]
       IN  /\ sources' = [sources EXCEPT ![id] =
                            IF status = "collected" \/ last THEN status ELSE "running"]
           /\ attempts' = IF id \in Configs THEN [attempts EXCEPT ![id] = @ + 1] ELSE attempts
           /\ whole' = IF ~Cut(r) /\ wellFormed THEN whole \cup {id} ELSE whole
  /\ UNCHANGED <<stage, logVars>>

\* A projector raises what _json_source does not catch.
ProjectorRaises(id) ==
  /\ sources[id] = "running" /\ id \notin Texts
  /\ sources' = [sources EXCEPT ![id] = "failed"]
  /\ UNCHANGED <<stage, attempts, whole, logVars>>

Returned == \A id \in Ids : sources[id] \notin {"pending", "running"}

-----------------------------------------------------------------------------
(* Logs: _collect_logs *)

\* Whose logs are read: at most MaxPods Pods.
Selected == SubSeq(pods, 1, MaxPods)

FirstOf(pod) == [pod |-> pod, container |-> 1, previous |-> FALSE]
NextContainer == [at EXCEPT !.container = @ + 1, !.previous = FALSE]

PodsLeft == at.pod <= Len(pods) /\ at.pod <= MaxPods
ContainersLeft == PodsLeft /\ at.container <= Len(pods[at.pod])
Restarted(call) == pods[call.pod][call.container]

\* The logs that exist: the current one of every container and the previous one of a restarted one.
Logs ==
  { call \in [pod : 1 .. Len(pods), container : UNION {DOMAIN pods[i] : i \in DOMAIN pods}, previous : BOOLEAN] :
      call.container \in DOMAIN pods[call.pod] /\ (call.previous => Restarted(call)) }

\* The order in which they are read.
Before(a, b) ==
  \/ a.pod < b.pod
  \/ a.pod = b.pod /\ a.container < b.container
  \/ a.pod = b.pod /\ a.container = b.container /\ ~a.previous /\ b.previous

StartLogs ==
  /\ stage = "sources" /\ Returned
  /\ \/ \* kubernetes.collect_system_logs is false
        /\ logs' = "disabled" /\ stage' = "done"
        /\ UNCHANGED <<pods, limited>>
     \/ /\ sources["pods"] # "collected"
        /\ logs' = "source_unavailable" /\ stage' = "done"
        /\ UNCHANGED <<pods, limited>>
     \/ /\ sources["pods"] = "collected"
        /\ \E layout \in Layouts : pods' = layout /\ limited' = (Len(layout) > MaxPods)
        /\ stage' = "logs"
        /\ UNCHANGED logs
  /\ UNCHANGED <<sourceVars, at, entries, consumed>>

\* Mutant of LogLimit: every log gets its full cap.
CallBytesOnly == CallBytes

\* The bytes one call may return.
LogLimit == Min({MaxLogBytes - consumed, CallBytes})

\* Mutant of EntryStatus: a log cut at the limit is as good as any.
EntryOfCode(r) == IF r.returncode = "zero" THEN "collected" ELSE "failed"

\* A timeout is not looked at here: what it cut short has another return code.
EntryStatus(r) == IF r.returncode = "zero" /\ ~r.truncated THEN "collected" ELSE "failed"

\* What kubectl can return for a request of a size: everything and 0, or a part of it and anything else; beyond
\* the limit run_process keeps the first bytes and says truncated.
LogResults(size, limit) ==
  IF size > limit
  THEN {[r |-> r, kept |-> limit] : r \in {o \in Outcomes : o.truncated}}
  ELSE UNION { { [r |-> r, kept |-> kept] : kept \in IF Cut(r) THEN 0 .. size ELSE {size} } :
                 r \in {o \in Outcomes : ~o.truncated} }

\* kubectl is asked for the tail alone and exits with 0 whatever is older.  An entry remembers how much of the
\* log was older than the tail, and how much of the log it lacks.
ReadLog ==
  /\ stage = "logs" /\ ContainersLeft
  /\ consumed < MaxLogBytes
  /\ at.previous => Restarted(at)
  /\ \E log \in LogShapes :
       \E result \in LogResults(log.tail, LogLimit) :
         /\ consumed' = consumed + result.kept
         /\ entries' = Append(entries, [ call |-> at, status |-> EntryStatus(result.r), older |-> log.older,
                                         lacks |-> log.older + log.tail - result.kept ])
  /\ at' = IF at.previous THEN NextContainer ELSE [at EXCEPT !.previous = TRUE]
  /\ UNCHANGED <<stage, sourceVars, pods, limited, logs>>

\* A container that was never restarted has no previous log.
SkipPrevious ==
  /\ stage = "logs" /\ ContainersLeft
  /\ at.previous /\ ~Restarted(at)
  /\ at' = NextContainer
  /\ UNCHANGED <<stage, sourceVars, pods, entries, consumed, limited, logs>>

\* The budget is used up: the inner loop ends, or the loop over the containers.
OutOfBudget ==
  /\ stage = "logs" /\ ContainersLeft
  /\ consumed >= MaxLogBytes
  /\ at.previous => Restarted(at)
  /\ at' = IF at.previous THEN NextContainer ELSE FirstOf(at.pod + 1)
  /\ limited' = TRUE
  /\ UNCHANGED <<stage, sourceVars, pods, entries, consumed, logs>>

NextPod ==
  /\ stage = "logs" /\ PodsLeft /\ ~ContainersLeft
  /\ at' = FirstOf(at.pod + 1)
  /\ UNCHANGED <<stage, sourceVars, pods, entries, consumed, limited, logs>>

LogsEnd ==
  /\ stage = "logs" /\ ~PodsLeft
  /\ logs' = IF limited \/ consumed >= MaxLogBytes THEN "truncated"
             ELSE IF \E i \in DOMAIN entries : entries[i].status # "collected" THEN "partial"
             ELSE "collected"
  /\ stage' = "done"
  /\ UNCHANGED <<sourceVars, pods, at, entries, consumed, limited>>

-----------------------------------------------------------------------------
KubernetesInit ==
  /\ stage = "sources"
  /\ sources = [id \in Ids |-> "pending"]
  /\ attempts = [id \in Configs |-> 0]
  /\ whole = {}
  /\ pods = <<>> /\ at = FirstOf(1)
  /\ entries = <<>> /\ consumed = 0 /\ limited = FALSE
  /\ logs = "none"

KubernetesNext ==
  \/ \E id \in Ids : Submit(id) \/ Answer(id) \/ ProjectorRaises(id)
  \/ StartLogs \/ ReadLog \/ SkipPrevious \/ OutOfBudget \/ NextPod \/ LogsEnd

KubernetesSpec == KubernetesInit /\ [][KubernetesNext]_kubernetesVars

\* snapshot_status, where logsRequired is kubernetes.collect_system_logs.
SnapshotStatus(logsRequired) ==
  IF (\A id \in Required : sources[id] = "collected") /\ (logsRequired => logs = "collected")
  THEN "collected"
  ELSE IF \E id \in Required : sources[id] = "collected" THEN "partial" ELSE "unreachable"

-----------------------------------------------------------------------------
(* Properties *)

\* All that was asked for of a log came.
LacksOlderOnly(entry) == entry.lacks = entry.older

KubernetesTypeOK ==
  /\ stage \in {"sources", "logs", "done"}
  /\ attempts \in [Configs -> Nat] /\ \A id \in Configs : attempts[id] <= Candidates[id]
  /\ whole \subseteq Ids
  /\ \A i \in DOMAIN entries : entries[i].call \in Logs
  /\ logs \in {"none", "disabled", "source_unavailable", "truncated", "partial", "collected"}

\* A source called collected holds all the API had, from the first candidate
\* that answered; and a snapshot called collected holds every required source
\* and, when logs are wanted, of every log of every Pod of the namespaces its
\* last log_tail_lines lines since `--since-time`, to the last byte: an entry
\* lacks what is older than that and nothing else, whatever the order of the
\* answers, the sizes and the failures (kubernetes.py:115-128, 873-899,
\* 1041-1111).
CollectedIsWhole ==
  /\ \A id \in Ids : sources[id] = "collected" => id \in whole
  /\ stage = "done" /\ SnapshotStatus(logs # "disabled") = "collected" =>
       /\ Required \subseteq whole
       /\ logs # "disabled" =>
            \A call \in Logs : \E i \in DOMAIN entries : entries[i].call = call /\ LacksOlderOnly(entries[i])

\* The logs never take more than their budget, and the budget is spent on the
\* Pods of the highest priority: what is left out comes after what was read
\* (kubernetes.py:483-502, 1045-1089).
BudgetGoesToTheFirst ==
  /\ consumed <= MaxLogBytes
  /\ \A i \in DOMAIN entries : \A call \in Logs :
       Before(call, entries[i].call) => \E j \in 1 .. (i - 1) : entries[j].call = call
=============================================================================
