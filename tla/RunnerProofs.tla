---------------------------- MODULE RunnerProofs ----------------------------
(***************************************************************************)
(* The safety of run_process for every set of descendants, every limit and *)
(* every pipe and chunk size.                                              *)
(***************************************************************************)
EXTENDS Runner, TLAPS

\* What one read takes from the pipe, keeps and drops (lines 141-145).
LEMMA ChunkKept ==
  ASSUME TypeOK, NEW s \in Streams, pipe[s] > 0, buffer[s] <= Limit(s),
         NEW kept, kept = Smaller(Chunk(s), Available(s))
  PROVE  /\ Chunk(s) \in Nat /\ Chunk(s) <= pipe[s]
         /\ kept \in Nat /\ kept <= Chunk(s)
         /\ buffer[s] + kept <= Limit(s)
         /\ Chunk(s) > Available(s) => buffer[s] + kept = Limit(s)
         /\ Chunk(s) <= Available(s) => kept = Chunk(s)
<1>1. pipe[s] \in Nat /\ buffer[s] \in Nat /\ Limit(s) \in Nat /\ ChunkSize \in Nat \ {0}
  BY RunnerAssumption DEF TypeOK, Limit
<1>2. QED BY <1>1 DEF Chunk, Available, Smaller, AtLeastZero

\* The type invariant is preserved by every step.
LEMMA TypeStep == TypeOK /\ [Next]_vars => TypeOK'
<1> SUFFICES ASSUME TypeOK, [Next]_vars PROVE TypeOK'
  OBVIOUS
<1> USE RunnerAssumption
<1>1. CASE Spawn BY <1>1 DEF Spawn, TypeOK, Procs, Streams, dataVars
<1>2. CASE SpawnFails BY <1>2 DEF SpawnFails, TypeOK, osVars, dataVars
<1>3. CASE CheckDeadline BY <1>3 DEF CheckDeadline, TypeOK, osVars, dataVars
<1>4. CASE Select BY <1>4 DEF Select, TypeOK, osVars, dataVars
<1>5. CASE PollLeader BY <1>5 DEF PollLeader, TypeOK, osVars, dataVars, LeaderDead
<1>6. CASE RoundEnds BY <1>6 DEF RoundEnds, TypeOK, osVars, dataVars, LeaderDead
<1>7. ASSUME NEW s \in Streams, ReadNothing(s) PROVE TypeOK'
  BY <1>7 DEF ReadNothing, TypeOK, osVars, dataVars
<1>8. ASSUME NEW s \in Streams, ReadChunk(s) PROVE TypeOK'
  <2>1. Limit(s) - buffer[s] \in Int /\ pipe[s] \in Nat /\ buffer[s] \in Nat
    BY DEF TypeOK, Limit
  <2>2. Chunk(s) \in Nat /\ Chunk(s) <= pipe[s] /\ Smaller(Chunk(s), Available(s)) \in Nat
    BY <2>1 DEF Chunk, Available, Smaller, AtLeastZero
  <2>3. pipe' \in [Streams -> Nat] /\ buffer' \in [Streams -> Nat]
    BY <1>8, <2>1, <2>2 DEF ReadChunk, TypeOK
  <2>4. QED BY <1>8, <2>3 DEF ReadChunk, TypeOK, osVars
<1>9. CASE WaitReturns BY <1>9 DEF WaitReturns, TypeOK, osVars, dataVars
<1>10. CASE WaitTimesOut BY <1>10 DEF WaitTimesOut, TypeOK, osVars, dataVars
<1>11. CASE TerminatePoll BY <1>11 DEF TerminatePoll, TypeOK, osVars, dataVars, LeaderDead
<1>12. CASE SendTerm BY <1>12 DEF SendTerm, TypeOK, dataVars
<1>13. CASE GraceEnds BY <1>13 DEF GraceEnds, TypeOK, osVars, dataVars, LeaderDead
<1>14. CASE SendKill BY <1>14 DEF SendKill, TypeOK, dataVars, LeaderDead, ReturnCodes
<1>15. ASSUME NEW p \in Procs, NEW s \in Streams, Write(p, s) PROVE TypeOK'
  BY <1>15 DEF Write, TypeOK, osVars, runnerVars, Streams
<1>16. ASSUME NEW p \in Procs, NEW s \in Streams, Close(p, s) PROVE TypeOK'
  BY <1>16 DEF Close, TypeOK, runnerVars
<1>17. ASSUME NEW d \in Descendants, NEW leaves \in BOOLEAN, Fork(d, leaves) PROVE TypeOK'
  BY <1>17 DEF Fork, TypeOK, runnerVars, Procs
<1>18. ASSUME NEW p \in Procs, NEW code \in ReturnCodes \ {"none"}, Exit(p, code)
       PROVE TypeOK'
  BY <1>18 DEF Exit, TypeOK, runnerVars
<1>19. CASE DeadlinePasses BY <1>19 DEF DeadlinePasses, TypeOK, osVars, runnerVars
<1>20. CASE UNCHANGED vars BY <1>20 DEF vars, TypeOK, osVars, dataVars
<1>21. QED
  BY <1>1, <1>2, <1>3, <1>4, <1>5, <1>6, <1>7, <1>8, <1>9, <1>10, <1>11, <1>12,
     <1>13, <1>14, <1>15, <1>16, <1>17, <1>18, <1>19, <1>20
     DEF Next, RunnerStep, CommandStep

\* Only a read and a write move bytes; the flags are never taken back.
LEMMA DataFrame ==
  ASSUME Next,
         \A s \in Streams : ~ReadChunk(s),
         \A p \in Procs, s \in Streams : ~Write(p, s)
  PROVE  UNCHANGED <<pipe, buffer, written>> /\ (truncated' = truncated)
BY DEF Next, RunnerStep, CommandStep, Spawn, SpawnFails, CheckDeadline, Select, PollLeader,
       RoundEnds, ReadNothing, WaitReturns, WaitTimesOut, TerminatePoll, SendTerm, GraceEnds,
       SendKill, Close, Fork, Exit, DeadlinePasses, osVars, dataVars, runnerVars

\* Every byte is in the buffer, in the pipe or dropped at the limit.
LEMMA AccountingStep == TypeOK /\ BytesAccountedFor /\ [Next]_vars => BytesAccountedFor'
<1> SUFFICES ASSUME TypeOK, BytesAccountedFor, [Next]_vars,
                    NEW r \in Streams
             PROVE  /\ buffer'[r] <= Limit(r)
                    /\ buffer'[r] + pipe'[r] <= written'[r]
                    /\ buffer'[r] + pipe'[r] < written'[r] =>
                         truncated' /\ buffer'[r] = Limit(r)
  BY DEF BytesAccountedFor
<1>0. /\ buffer[r] \in Nat /\ pipe[r] \in Nat /\ written[r] \in Nat /\ Limit(r) \in Nat
      /\ buffer[r] <= Limit(r)
      /\ buffer[r] + pipe[r] <= written[r]
      /\ buffer[r] + pipe[r] < written[r] => truncated /\ buffer[r] = Limit(r)
  BY RunnerAssumption DEF TypeOK, BytesAccountedFor, Limit
<1>1. ASSUME NEW s \in Streams, ReadChunk(s)
      PROVE  /\ buffer'[r] <= Limit(r)
             /\ buffer'[r] + pipe'[r] <= written'[r]
             /\ buffer'[r] + pipe'[r] < written'[r] => truncated' /\ buffer'[r] = Limit(r)
  <2> DEFINE kept == Smaller(Chunk(s), Available(s))
  <2>1. CASE r = s
    <3>1. /\ Chunk(r) \in Nat /\ Chunk(r) <= pipe[r]
          /\ kept \in Nat /\ kept <= Chunk(r)
          /\ buffer[r] + kept <= Limit(r)
          /\ Chunk(r) > Available(r) => buffer[r] + kept = Limit(r)
          /\ Chunk(r) <= Available(r) => kept = Chunk(r)
      BY <1>0, <1>1, <2>1, ChunkKept DEF ReadChunk
    <3>2. /\ pipe'[r] = pipe[r] - Chunk(r)
          /\ buffer'[r] = buffer[r] + kept
          /\ written'[r] = written[r]
      BY <1>1, <2>1 DEF ReadChunk, TypeOK
    <3>3. \/ Chunk(r) > Available(r) /\ truncated'
          \/ Chunk(r) <= Available(r) /\ (truncated' = truncated)
      BY <1>1, <2>1 DEF ReadChunk
    <3> HIDE DEF kept
    <3>4. CASE Chunk(r) > Available(r) /\ truncated'
      BY <1>0, <3>1, <3>2, <3>4
    <3>5. CASE Chunk(r) <= Available(r) /\ (truncated' = truncated)
      <4>1. kept = Chunk(r)
        BY <3>1, <3>5
      <4>2. buffer'[r] + pipe'[r] = buffer[r] + pipe[r]
        BY <1>0, <3>1, <3>2, <4>1
      <4>3. CASE buffer[r] + pipe[r] < written[r]
        BY <1>0, <3>1, <3>2, <3>5, <4>2, <4>3
      <4>4. CASE ~(buffer[r] + pipe[r] < written[r])
        BY <1>0, <3>1, <3>2, <4>2, <4>4
      <4>5. QED BY <4>3, <4>4
    <3>6. QED BY <3>3, <3>4, <3>5
  <2>2. CASE r # s
    <3>1. pipe'[r] = pipe[r] /\ buffer'[r] = buffer[r] /\ written'[r] = written[r]
      BY <1>1, <2>2 DEF ReadChunk, TypeOK
    <3>2. truncated => truncated'
      BY <1>1 DEF ReadChunk
    <3>3. QED BY <1>0, <3>1, <3>2
  <2>3. QED BY <2>1, <2>2
<1>2. ASSUME NEW p \in Procs, NEW s \in Streams, Write(p, s)
      PROVE  /\ buffer'[r] <= Limit(r)
             /\ buffer'[r] + pipe'[r] <= written'[r]
             /\ buffer'[r] + pipe'[r] < written'[r] => truncated' /\ buffer'[r] = Limit(r)
  <2>1. buffer'[r] = buffer[r] /\ (truncated' = truncated)
    BY <1>2 DEF Write, runnerVars
  <2>2. CASE r = s
    <3>1. pipe'[r] = pipe[r] + 1 /\ written'[r] = written[r] + 1
      BY <1>2, <2>2 DEF Write, TypeOK
    <3>2. QED BY <1>0, <2>1, <3>1
  <2>3. CASE r # s
    <3>1. pipe'[r] = pipe[r] /\ written'[r] = written[r]
      BY <1>2, <2>3 DEF Write, TypeOK
    <3>2. QED BY <1>0, <2>1, <3>1
  <2>4. QED BY <2>2, <2>3
<1>3. CASE UNCHANGED <<pipe, buffer, written>> /\ (truncated' = truncated)
  BY <1>0, <1>3
<1>4. QED BY <1>1, <1>2, <1>3, DataFrame DEF vars, dataVars

\* A stream leaves the selector drained, and nobody gets to write to it again.
LEMMA DrainedStep == TypeOK /\ UnregisteredIsDrained /\ [Next]_vars => UnregisteredIsDrained'
<1> SUFFICES ASSUME TypeOK, UnregisteredIsDrained, [Next]_vars,
                    NEW r \in Streams, r \notin registered'
             PROVE  pipe'[r] = 0 /\ Eof(r)'
  BY DEF UnregisteredIsDrained
<1>0. r \notin registered => pipe[r] = 0 /\ Eof(r)
  BY DEF UnregisteredIsDrained
<1>1. CASE Spawn BY <1>1 DEF Spawn
<1>2. ASSUME NEW s \in Streams, ReadNothing(s) PROVE pipe'[r] = 0 /\ Eof(r)'
  BY <1>0, <1>2 DEF ReadNothing, Eof, osVars, dataVars
<1>3. ASSUME NEW s \in Streams, ReadChunk(s) PROVE pipe'[r] = 0 /\ Eof(r)'
  <2>1. registered' = registered /\ holds' = holds /\ pipe[s] > 0
    BY <1>3 DEF ReadChunk, osVars
  <2>2. r # s
    BY <1>0, <2>1
  <2>3. pipe'[r] = pipe[r]
    BY <1>3, <2>2 DEF ReadChunk, TypeOK
  <2>4. QED BY <1>0, <2>1, <2>3 DEF Eof
<1>4. CASE SendKill
  BY <1>0, <1>4 DEF SendKill, Eof, dataVars
<1>5. ASSUME NEW p \in Procs, NEW s \in Streams, Write(p, s) PROVE pipe'[r] = 0 /\ Eof(r)'
  <2>1. registered' = registered /\ holds' = holds /\ s \in holds[p]
    BY <1>5 DEF Write, osVars, runnerVars
  <2>2. r # s
    BY <1>0, <2>1 DEF Eof
  <2>3. pipe'[r] = pipe[r]
    BY <1>5, <2>2 DEF Write, TypeOK
  <2>4. QED BY <1>0, <2>1, <2>3 DEF Eof
<1>6. ASSUME NEW p \in Procs, NEW s \in Streams, Close(p, s) PROVE pipe'[r] = 0 /\ Eof(r)'
  BY <1>0, <1>6 DEF Close, Eof, runnerVars, TypeOK
<1>7. ASSUME NEW d \in Descendants, NEW leaves \in BOOLEAN, Fork(d, leaves)
      PROVE  pipe'[r] = 0 /\ Eof(r)'
  BY <1>0, <1>7 DEF Fork, Eof, runnerVars, TypeOK, Procs
<1>8. ASSUME NEW p \in Procs, NEW code \in ReturnCodes \ {"none"}, Exit(p, code)
      PROVE  pipe'[r] = 0 /\ Eof(r)'
  BY <1>0, <1>8 DEF Exit, Eof, runnerVars, TypeOK
<1>9. CASE UNCHANGED <<registered, pipe, holds>>
  BY <1>0, <1>9 DEF Eof
<1>10. \/ Spawn \/ SendKill \/ UNCHANGED <<registered, pipe, holds>>
       \/ \E s \in Streams : ReadNothing(s) \/ ReadChunk(s)
       \/ \E p \in Procs, s \in Streams : Write(p, s) \/ Close(p, s)
       \/ \E d \in Descendants, leaves \in BOOLEAN : Fork(d, leaves)
       \/ \E p \in Procs, code \in ReturnCodes \ {"none"} : Exit(p, code)
  BY DEF Next, RunnerStep, CommandStep, SpawnFails, CheckDeadline, Select, PollLeader,
         RoundEnds, WaitReturns, WaitTimesOut, TerminatePoll, SendTerm, GraceEnds,
         DeadlinePasses, vars, osVars, dataVars, runnerVars
<1>11. QED
  BY <1>1, <1>2, <1>3, <1>4, <1>5, <1>6, <1>7, <1>8, <1>9, <1>10
\* The loop is left only when no stream is registered, and none comes back.
LEMMA LoopStep == TypeOK /\ RegisteredOnlyInLoop /\ [Next]_vars => RegisteredOnlyInLoop'
<1> SUFFICES ASSUME TypeOK, RegisteredOnlyInLoop, [Next]_vars, OutsideLoop' PROVE registered' = {}
  BY DEF RegisteredOnlyInLoop
<1>0. OutsideLoop => registered = {}
  BY DEF RegisteredOnlyInLoop
<1>1. CASE RunnerStep
  <2>1. CASE Spawn BY <2>1 DEF Spawn, OutsideLoop
  <2>2. CASE SpawnFails BY <1>0, <2>2 DEF SpawnFails, OutsideLoop
  <2>3. CASE CheckDeadline BY <2>3 DEF CheckDeadline, OutsideLoop
  <2>4. CASE Select BY <2>4 DEF Select, OutsideLoop
  <2>5. CASE PollLeader BY <2>5 DEF PollLeader, OutsideLoop
  <2>6. CASE RoundEnds BY <2>6 DEF RoundEnds, OutsideLoop
  <2>7. ASSUME NEW s \in Streams, ReadNothing(s) PROVE registered' = {}
    BY <2>7 DEF ReadNothing, OutsideLoop
  <2>8. ASSUME NEW s \in Streams, ReadChunk(s) PROVE registered' = {}
    BY <2>8 DEF ReadChunk, OutsideLoop
  <2>9. CASE WaitReturns BY <1>0, <2>9 DEF WaitReturns, OutsideLoop
  <2>10. CASE WaitTimesOut BY <1>0, <2>10 DEF WaitTimesOut, OutsideLoop
  <2>11. CASE TerminatePoll BY <1>0, <2>11 DEF TerminatePoll, OutsideLoop, TypeOK
  <2>12. CASE SendTerm BY <1>0, <2>12 DEF SendTerm, OutsideLoop
  <2>13. CASE GraceEnds BY <1>0, <2>13 DEF GraceEnds, OutsideLoop, TypeOK
  <2>14. CASE SendKill BY <1>0, <2>14 DEF SendKill, OutsideLoop, TypeOK
  <2>15. QED BY <1>1, <2>1, <2>2, <2>3, <2>4, <2>5, <2>6, <2>7, <2>8, <2>9, <2>10,
                <2>11, <2>12, <2>13, <2>14 DEF RunnerStep
<1>2. CASE CommandStep \/ DeadlinePasses \/ UNCHANGED vars
  <2>1. UNCHANGED <<pc, back, registered>>
    BY <1>2 DEF CommandStep, Write, Close, Fork, Exit, DeadlinePasses, runnerVars, vars
  <2>2. QED BY <1>0, <2>1 DEF OutsideLoop
<1>3. QED BY <1>1, <1>2 DEF Next

\* The runner knows whether the leader has ended, and signals it only before.
LEMMA LeaderStep == TypeOK /\ LeaderState /\ [Next]_vars => LeaderState'
<1> SUFFICES ASSUME TypeOK, LeaderState, [Next]_vars PROVE LeaderState'
  OBVIOUS
<1> USE RunnerAssumption DEF LeaderState, NothingStarted, LeaderDead, SignalsOwnGroup
<1>1. CASE RunnerStep
  <2>1. CASE Spawn BY <2>1 DEF Spawn
  <2>2. CASE SpawnFails BY <2>2 DEF SpawnFails, osVars
  <2>3. CASE CheckDeadline BY <2>3 DEF CheckDeadline, osVars
  <2>4. CASE Select BY <2>4 DEF Select, osVars
  <2>5. CASE PollLeader BY <2>5 DEF PollLeader, osVars
  <2>6. CASE RoundEnds BY <2>6 DEF RoundEnds, osVars
  <2>7. ASSUME NEW s \in Streams, ReadNothing(s) PROVE LeaderState'
    BY <2>7 DEF ReadNothing, osVars
  <2>8. ASSUME NEW s \in Streams, ReadChunk(s) PROVE LeaderState'
    BY <2>8 DEF ReadChunk, osVars
  <2>9. CASE WaitReturns BY <2>9 DEF WaitReturns, osVars
  <2>10. CASE WaitTimesOut BY <2>10 DEF WaitTimesOut, osVars
  <2>11. CASE TerminatePoll BY <2>11 DEF TerminatePoll, TypeOK, osVars
  <2>12. CASE SendTerm BY <2>12 DEF SendTerm
  <2>13. CASE GraceEnds BY <2>13 DEF GraceEnds, TypeOK, osVars
  <2>14. CASE SendKill BY <2>14 DEF SendKill, TypeOK, ReturnCodes, ExitCodes
  <2>15. QED BY <1>1, <2>1, <2>2, <2>3, <2>4, <2>5, <2>6, <2>7, <2>8, <2>9, <2>10,
                <2>11, <2>12, <2>13, <2>14 DEF RunnerStep
<1>2. CASE CommandStep
  <2>1. ASSUME NEW p \in Procs, NEW s \in Streams, Write(p, s) \/ Close(p, s)
        PROVE  LeaderState'
    BY <2>1 DEF Write, Close, runnerVars, osVars
  <2>2. ASSUME NEW d \in Descendants, NEW leaves \in BOOLEAN, Fork(d, leaves)
        PROVE  LeaderState'
    BY <2>2 DEF Fork, runnerVars
  <2>3. ASSUME NEW p \in Procs, NEW code \in ReturnCodes \ {"none"}, Exit(p, code)
        PROVE  LeaderState'
    BY <2>3 DEF Exit, runnerVars
  <2>4. QED BY <1>2, <2>1, <2>2, <2>3 DEF CommandStep
<1>3. CASE DeadlinePasses \/ UNCHANGED vars
  BY <1>3 DEF DeadlinePasses, vars, runnerVars, osVars
<1>4. QED BY <1>1, <1>2, <1>3 DEF Next

\* Every reachable state satisfies the inductive invariant.
THEOREM RunnerInvariant == Spec => []IInv
<1>1. Init => IInv
  <2> SUFFICES ASSUME Init PROVE IInv
    OBVIOUS
  <2>1. TypeOK
    BY DEF Init, TypeOK, ReturnCodes
  <2>2. UnregisteredIsDrained
    BY DEF Init, UnregisteredIsDrained, Eof
  <2>3. BytesAccountedFor
    BY RunnerAssumption DEF Init, BytesAccountedFor, Limit
  <2>4. RegisteredOnlyInLoop /\ LeaderState
    BY DEF Init, RegisteredOnlyInLoop, LeaderState, NothingStarted, SignalsOwnGroup
  <2>5. QED BY <2>1, <2>2, <2>3, <2>4 DEF IInv
<1>2. IInv /\ [Next]_vars => IInv'
  BY TypeStep, AccountingStep, DrainedStep, LoopStep, LeaderStep DEF IInv
<1>3. QED BY <1>1, <1>2, PTL DEF Spec

\* The state of run_process keeps its type (lines 88-172).
THEOREM RunnerTypeOK == Spec => []TypeOK
<1>1. IInv => TypeOK
  BY DEF IInv
<1>2. QED BY <1>1, RunnerInvariant, PTL

\* "collected" means complete: a result with that status holds every byte the
\* command wrote, and no process can write more (lines 123-148).
THEOREM CollectedComplete == Spec => []CollectedIsComplete
<1>1. IInv => CollectedIsComplete
  <2> SUFFICES ASSUME IInv, pc = "done", Status(Result) = "collected", NEW s \in Streams
               PROVE  buffer[s] = written[s] /\ Eof(s)
    BY DEF CollectedIsComplete
  <2>1. ~truncated
    BY DEF Status, Result
  <2>2. pipe[s] = 0 /\ Eof(s)
    BY DEF IInv, RegisteredOnlyInLoop, OutsideLoop, UnregisteredIsDrained
  <2>3. buffer[s] \in Nat /\ written[s] \in Nat
    BY DEF IInv, TypeOK
  <2>4. QED BY <2>1, <2>2, <2>3 DEF IInv, BytesAccountedFor
<1>2. QED BY <1>1, RunnerInvariant, PTL

\* Output is dropped only beyond the limit, and then reported (lines 141-146).
THEOREM DropsReported == Spec => []DropsOnlyAtLimit
<1>1. IInv => DropsOnlyAtLimit
  BY DEF IInv, BytesAccountedFor, DropsOnlyAtLimit
<1>2. QED BY <1>1, RunnerInvariant, PTL

\* killpg never reaches a process group whose leader was reaped (lines 71-85).
THEOREM SignalsStayInGroup == Spec => []SignalsOwnGroup
<1>1. IInv => SignalsOwnGroup
  BY DEF IInv, LeaderState
<1>2. QED BY <1>1, RunnerInvariant, PTL

\* Whatever run_process returns or raises, the command it started has been
\* waited for (lines 94-112 and 150-160).
THEOREM ReturnsReaped == Spec => []NoZombie
<1>1. IInv => NoZombie
  BY DEF IInv, LeaderState, NothingStarted, NoZombie
<1>2. QED BY <1>1, RunnerInvariant, PTL

\* The result is one of Outcomes, which is all the collectors assume of a
\* command (lines 150-172).
THEOREM ReturnsOutcome == Spec => []ResultIsOutcome
<1>1. IInv => ResultIsOutcome
  BY DEF IInv, LeaderState, NothingStarted, NoZombie, ResultIsOutcome, Result, Outcomes, TypeOK
<1>2. QED BY <1>1, RunnerInvariant, PTL
=============================================================================
