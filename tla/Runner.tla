------------------------------- MODULE Runner -------------------------------
(***************************************************************************)
(* kdiag.runner.run_process: the loop that runs one command in a session   *)
(* of its own, reads both of its pipes up to a limit, and terminates the   *)
(* process group at the deadline or when a limit is exceeded.              *)
(*                                                                         *)
(* Three parties interleave: the runner, the command (the group's leader)  *)
(* with the processes it forks, and the clock.  Bytes are counted, not     *)
(* represented: a buffer is always a prefix of what was written.           *)
(***************************************************************************)
EXTENDS Integers, FiniteSets, ProcessOutcome

CONSTANTS
  Leader,          \* the process Popen starts, leader of the new session
  Descendants,     \* processes it may fork
  MaxStdoutBytes,  \* max_stdout_bytes
  MaxStderrBytes,  \* max_stderr_bytes
  ChunkSize,       \* the 65536 of os.read
  PipeSize,        \* the kernel's pipe capacity
  MaxWritten       \* bound: bytes the command writes to each stream

ASSUME RunnerAssumption ==
  /\ Leader \notin Descendants
  /\ MaxStdoutBytes \in Nat
  /\ MaxStderrBytes \in Nat
  /\ ChunkSize \in Nat \ {0}
  /\ PipeSize \in Nat \ {0}
  /\ MaxWritten \in Nat

VARIABLES
  pc,          \* where run_process is
  back,        \* where _terminate_process_group returns to
  alive,       \* the processes that have been started and have not ended
  unborn,      \* the descendants not forked yet
  group,       \* the processes of the leader's process group
  holds,       \* the write ends each process has open
  termed,      \* the processes SIGTERM has been sent to
  returncode,  \* how the leader ended
  reaped,      \* the leader has been waited for: its pid may be reused
  expired,     \* the clock has passed the deadline
  pipe,        \* bytes in each pipe
  written,     \* history: bytes written to each stream
  buffer,      \* bytes kept of each stream
  registered,  \* streams still registered with the selector
  pending,     \* events of this round still to be handled
  timedOut,
  truncated

osVars   == <<alive, unborn, group, holds, termed, returncode>>
dataVars == <<pipe, written, buffer>>
vars == <<pc, back, osVars, reaped, expired, dataVars, registered, pending,
          timedOut, truncated>>

Streams == {"stdout", "stderr"}
Procs   == {Leader} \cup Descendants

Limit(s) == IF s = "stdout" THEN MaxStdoutBytes ELSE MaxStderrBytes

AtLeastZero(n) == IF n > 0 THEN n ELSE 0
Smaller(m, n)  == IF m < n THEN m ELSE n

\* Mutant of Chunk: every read is taken for a full one.
FullChunk(s) == ChunkSize

\* What one os.read returns ...
Chunk(s) == Smaller(pipe[s], ChunkSize)

\* Mutant of Available: one byte short.
AvailableShort(s) == AtLeastZero(Limit(s) - buffer[s] - 1)

\* ... and the room left below the limit.
Available(s) == AtLeastZero(Limit(s) - buffer[s])

\* No process holds the write end: a read of an empty pipe returns b"".
Eof(s) == \A p \in Procs : s \notin holds[p]

\* process.poll() has an answer.
LeaderDead == Leader \notin alive

Result == [returncode |-> returncode, timedOut |-> timedOut, truncated |-> truncated]

-----------------------------------------------------------------------------
Init ==
  /\ pc = "popen"
  /\ back = "select"
  /\ alive = {}
  /\ unborn = Descendants
  /\ group = {}
  /\ holds = [p \in Procs |-> {}]
  /\ termed = {}
  /\ returncode = "none"
  /\ reaped = FALSE
  /\ expired = FALSE
  /\ pipe = [s \in Streams |-> 0]
  /\ written = [s \in Streams |-> 0]
  /\ buffer = [s \in Streams |-> 0]
  /\ registered = {}
  /\ pending = {}
  /\ timedOut = FALSE
  /\ truncated = FALSE

-----------------------------------------------------------------------------
(* The runner. *)

\* Popen succeeds; both pipes are made non-blocking and registered.
Spawn ==
  /\ pc = "popen"
  /\ alive' = {Leader}
  /\ group' = {Leader}
  /\ holds' = [holds EXCEPT ![Leader] = Streams]
  /\ registered' = Streams
  /\ pc' = "check"
  /\ UNCHANGED <<back, unborn, termed, returncode, reaped, expired, dataVars,
                 pending, timedOut, truncated>>

\* Mutant of SpawnFails: the clock is looked at all the same.
SpawnFailsLate ==
  /\ pc = "popen"
  /\ pc' = "done"
  /\ timedOut' = expired
  /\ UNCHANGED <<back, osVars, reaped, expired, dataVars, registered, pending, truncated>>

\* Popen raises: the result has no return code.
SpawnFails ==
  /\ pc = "popen"
  /\ pc' = "done"
  /\ UNCHANGED <<back, osVars, reaped, expired, dataVars, registered, pending,
                 timedOut, truncated>>

\* Head of the loop: the deadline is compared with the clock.
CheckDeadline ==
  /\ pc = "check"
  /\ \/ /\ expired
        /\ timedOut' = TRUE
        /\ back' = "select"
        /\ pc' = "term_poll"
     \/ /\ ~expired
        /\ pc' = "select"
        /\ UNCHANGED <<back, timedOut>>
  /\ UNCHANGED <<osVars, reaped, expired, dataVars, registered, pending, truncated>>

\* selector.select: the streams with data or at end of file, none after 0.2 s.
Select ==
  /\ pc = "select"
  /\ pending' = {s \in registered : pipe[s] > 0 \/ Eof(s)}
  /\ pc' = IF pending' = {} THEN "poll" ELSE "read"
  /\ UNCHANGED <<back, osVars, reaped, expired, dataVars, registered, timedOut, truncated>>

\* Nothing was ready: when the leader has ended, every stream is tried.
PollLeader ==
  /\ pc = "poll"
  /\ pending' = IF LeaderDead THEN registered ELSE {}
  /\ reaped' = LeaderDead
  /\ pc' = "read"
  /\ UNCHANGED <<back, osVars, expired, dataVars, registered, timedOut, truncated>>

\* Mutant of ReadNothing: a pipe that is empty for now is taken for a closed one.
ReadNothingCloses(s) ==
  /\ pc = "read"
  /\ s \in pending
  /\ pipe[s] = 0
  /\ pending' = pending \ {s}
  /\ registered' = registered \ {s}
  /\ UNCHANGED <<pc, back, osVars, reaped, expired, dataVars, timedOut, truncated>>

\* os.read raises BlockingIOError, or returns b"" and the stream is unregistered.
ReadNothing(s) ==
  /\ pc = "read"
  /\ s \in pending
  /\ pipe[s] = 0
  /\ pending' = pending \ {s}
  /\ registered' = IF Eof(s) THEN registered \ {s} ELSE registered
  /\ UNCHANGED <<pc, back, osVars, reaped, expired, dataVars, timedOut, truncated>>

\* os.read returns a chunk; what exceeds the limit is dropped and ends the group.
ReadChunk(s) ==
  /\ pc = "read"
  /\ s \in pending
  /\ pipe[s] > 0
  /\ pending' = pending \ {s}
  /\ pipe' = [pipe EXCEPT ![s] = @ - Chunk(s)]
  /\ buffer' = [buffer EXCEPT ![s] = @ + Smaller(Chunk(s), Available(s))]
  /\ \/ /\ Chunk(s) > Available(s)
        /\ truncated' = TRUE
        /\ back' = "read"
        /\ pc' = "term_poll"
     \/ /\ Chunk(s) <= Available(s)
        /\ UNCHANGED <<truncated, back, pc>>
  /\ UNCHANGED <<osVars, reaped, expired, written, registered, timedOut>>

\* End of a round: the loop goes on while a stream is registered.
RoundEnds ==
  /\ pc = "read"
  /\ pending = {}
  /\ reaped' = (reaped \/ ((timedOut \/ truncated) /\ LeaderDead))
  /\ pc' = IF registered = {} THEN "wait" ELSE "check"
  /\ UNCHANGED <<back, osVars, expired, dataVars, registered, pending, timedOut, truncated>>

\* process.wait(timeout=1) returns the code.
WaitReturns ==
  /\ pc \in {"wait", "wait_forever"}
  /\ LeaderDead
  /\ reaped' = TRUE
  /\ pc' = "done"
  /\ UNCHANGED <<back, osVars, expired, dataVars, registered, pending, timedOut, truncated>>

\* Mutant of WaitTimesOut: nobody waits for a process that does not end in time.
WaitGivesUp ==
  /\ pc = "wait"
  /\ ~LeaderDead
  /\ pc' = "done"
  /\ UNCHANGED <<back, osVars, reaped, expired, dataVars, registered, pending, timedOut, truncated>>

\* process.wait(timeout=1) raises TimeoutExpired.
WaitTimesOut ==
  /\ pc = "wait"
  /\ ~LeaderDead
  /\ back' = "wait_forever"
  /\ pc' = "term_poll"
  /\ UNCHANGED <<osVars, reaped, expired, dataVars, registered, pending, timedOut, truncated>>

-----------------------------------------------------------------------------
(* _terminate_process_group *)

\* Mutant of TerminatePoll: the group is signalled without asking.
TerminateBlindly ==
  /\ pc = "term_poll"
  /\ pc' = "sigterm"
  /\ UNCHANGED <<back, osVars, reaped, expired, dataVars, registered, pending, timedOut, truncated>>

\* Nothing is signalled when the leader has already been reaped.
TerminatePoll ==
  /\ pc = "term_poll"
  /\ reaped' = LeaderDead
  /\ pc' = IF LeaderDead THEN back ELSE "sigterm"
  /\ UNCHANGED <<back, osVars, expired, dataVars, registered, pending, timedOut, truncated>>

SendTerm ==
  /\ pc = "sigterm"
  /\ termed' = termed \cup (alive \cap group)
  /\ pc' = "grace"
  /\ UNCHANGED <<back, alive, unborn, group, holds, returncode, reaped, expired,
                 dataVars, registered, pending, timedOut, truncated>>

\* Mutant of GraceEnds: SIGTERM is all there is.
GraceWithoutKill ==
  /\ pc = "grace"
  /\ reaped' = LeaderDead
  /\ pc' = back
  /\ UNCHANGED <<back, osVars, expired, dataVars, registered, pending, timedOut, truncated>>

\* Up to 0.5 s are given to the leader, and to the leader only.
GraceEnds ==
  /\ pc = "grace"
  /\ reaped' = LeaderDead
  /\ pc' = IF LeaderDead THEN back ELSE "sigkill"
  /\ UNCHANGED <<back, osVars, expired, dataVars, registered, pending, timedOut, truncated>>

SendKill ==
  /\ pc = "sigkill"
  /\ alive' = alive \ group
  /\ holds' = [p \in Procs |-> IF p \in group THEN {} ELSE holds[p]]
  /\ returncode' = IF LeaderDead THEN returncode ELSE "signal"
  /\ pc' = back
  /\ UNCHANGED <<back, unborn, group, termed, reaped, expired, dataVars,
                 registered, pending, timedOut, truncated>>

RunnerStep ==
  \/ Spawn \/ SpawnFails
  \/ CheckDeadline \/ Select \/ PollLeader \/ RoundEnds
  \/ \E s \in Streams : ReadNothing(s) \/ ReadChunk(s)
  \/ WaitReturns \/ WaitTimesOut
  \/ TerminatePoll \/ SendTerm \/ GraceEnds \/ SendKill

-----------------------------------------------------------------------------
(* The command, and the clock. *)

runnerVars == <<pc, back, reaped, registered, pending, buffer, timedOut, truncated>>

\* A process writes a byte; it blocks on a full pipe.
Write(p, s) ==
  /\ p \in alive
  /\ s \in holds[p]
  /\ pipe[s] < PipeSize
  /\ written[s] < MaxWritten
  /\ pipe' = [pipe EXCEPT ![s] = @ + 1]
  /\ written' = [written EXCEPT ![s] = @ + 1]
  /\ UNCHANGED <<runnerVars, osVars, expired>>

Close(p, s) ==
  /\ p \in alive
  /\ s \in holds[p]
  /\ holds' = [holds EXCEPT ![p] = @ \ {s}]
  /\ UNCHANGED <<runnerVars, alive, unborn, group, termed, returncode, expired,
                 pipe, written>>

\* The leader forks d, which inherits its pipes and may leave the group (setsid).
Fork(d, leaves) ==
  /\ Leader \in alive
  /\ d \in unborn
  /\ unborn' = unborn \ {d}
  /\ alive' = alive \cup {d}
  /\ group' = IF leaves THEN group ELSE group \cup {d}
  /\ holds' = [holds EXCEPT ![d] = holds[Leader]]
  /\ UNCHANGED <<runnerVars, termed, returncode, expired, pipe, written>>

\* A process ends: of its own accord, or of a SIGTERM it does not ignore.
Exit(p, code) ==
  /\ p \in alive
  /\ code = "signal" => p \in termed
  /\ alive' = alive \ {p}
  /\ holds' = [holds EXCEPT ![p] = {}]
  /\ returncode' = IF p = Leader THEN code ELSE returncode
  /\ UNCHANGED <<runnerVars, unborn, group, termed, expired, pipe, written>>

DeadlinePasses ==
  /\ ~expired
  /\ expired' = TRUE
  /\ UNCHANGED <<runnerVars, osVars, pipe, written>>

CommandStep ==
  \/ \E p \in Procs, s \in Streams : Write(p, s) \/ Close(p, s)
  \/ \E d \in Descendants, leaves \in BOOLEAN : Fork(d, leaves)
  \/ \E p \in Procs, code \in ReturnCodes \ {"none"} : Exit(p, code)

Next == RunnerStep \/ CommandStep \/ DeadlinePasses

Spec == Init /\ [][Next]_vars

\* The runner's thread is scheduled and time passes; the command owes nothing.
FairSpec == Spec /\ WF_vars(RunnerStep) /\ WF_vars(DeadlinePasses)
-----------------------------------------------------------------------------
(* Properties. *)

\* The shape of the runner's state.
TypeOK ==
  /\ pc \in {"popen", "check", "select", "poll", "read", "wait", "wait_forever",
             "term_poll", "sigterm", "grace", "sigkill", "done"}
  /\ back \in {"select", "read", "wait_forever"}
  /\ alive \subseteq Procs
  /\ unborn \subseteq Descendants
  /\ group \subseteq Procs
  /\ holds \in [Procs -> SUBSET Streams]
  /\ termed \subseteq Procs
  /\ returncode \in ReturnCodes
  /\ reaped \in BOOLEAN
  /\ expired \in BOOLEAN
  /\ pipe \in [Streams -> Nat]
  /\ written \in [Streams -> Nat]
  /\ buffer \in [Streams -> Nat]
  /\ registered \subseteq Streams
  /\ pending \subseteq Streams
  /\ timedOut \in BOOLEAN
  /\ truncated \in BOOLEAN

\* A result whose status is "collected" holds every byte the command wrote to
\* either stream, and no process can still write more (lines 123-148: a stream
\* leaves the selector only at end of file).
CollectedIsComplete ==
  pc = "done" /\ Status(Result) = "collected" =>
    \A s \in Streams : buffer[s] = written[s] /\ Eof(s)

\* What has been read is kept up to the limit exactly: a byte is dropped only
\* when the buffer is full, and then the result says truncated (lines 141-146).
DropsOnlyAtLimit ==
  \A s \in Streams :
    /\ buffer[s] <= Limit(s)
    /\ buffer[s] + pipe[s] < written[s] => truncated /\ buffer[s] = Limit(s)

\* killpg is called only while the leader has not been waited for: its process
\* group id cannot belong to somebody else (the poll of lines 72 and 81).
SignalsOwnGroup == pc \in {"sigterm", "sigkill"} => ~reaped

\* run_process leaves no zombie: when it returns a code, the leader has ended
\* and was waited for; it returns none only when nothing was started.
NoZombie ==
  pc = "done" =>
    IF returncode = "none" THEN alive = {} /\ ~reaped ELSE reaped /\ LeaderDead

\* Every result is one the callers' modules take from ProcessOutcome.
ResultIsOutcome == pc = "done" => Result \in Outcomes

\* The deadline bounds a call as soon as, from some point on, no descendant
\* holds a pipe: then run_process returns (lines 123-148).  For a command that
\* forks nothing, as ssh and scp here, that is every call.
ReturnsOnceReleased ==
  <>[](expired /\ \A d \in Descendants : holds[d] = {}) => <>(pc = "done")

-----------------------------------------------------------------------------
(* The inductive invariant behind the safety properties. *)

\* Only run_process unregisters a stream, at end of file: nothing is left in
\* its pipe and nobody can write to it again.
UnregisteredIsDrained == \A s \in Streams : s \notin registered => pipe[s] = 0 /\ Eof(s)

BytesAccountedFor ==
  \A s \in Streams :
    /\ buffer[s] <= Limit(s)
    /\ buffer[s] + pipe[s] <= written[s]
    /\ buffer[s] + pipe[s] < written[s] => truncated /\ buffer[s] = Limit(s)

\* Before and past the loop, also inside the termination the wait asks for.
OutsideLoop ==
  \/ pc \in {"popen", "wait", "wait_forever", "done"}
  \/ pc \in {"term_poll", "sigterm", "grace", "sigkill"} /\ back = "wait_forever"

RegisteredOnlyInLoop == OutsideLoop => registered = {}

\* Before Popen, and after it failed, there is nothing to wait for.
NothingStarted == alive = {} /\ returncode = "none" /\ ~reaped /\ ~timedOut /\ ~truncated

LeaderState ==
  /\ pc = "popen" => NothingStarted
  /\ pc \notin {"popen", "done"} => (LeaderDead <=> returncode # "none") /\ Leader \in group
  /\ pc = "done" => NothingStarted \/ (returncode # "none" /\ reaped)
  /\ reaped => LeaderDead
  /\ SignalsOwnGroup

IInv ==
  /\ TypeOK
  /\ UnregisteredIsDrained
  /\ BytesAccountedFor
  /\ RegisteredOnlyInLoop
  /\ LeaderState
=============================================================================
