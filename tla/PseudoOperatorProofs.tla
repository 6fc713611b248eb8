------------------------ MODULE PseudoOperatorProofs ------------------------
(***************************************************************************)
(* The session loop for any backends, caps and resets.                     *)
(***************************************************************************)
EXTENDS PseudoOperator, TLAPS

TypeInv == TypeOK /\ BelowCap

\* The type invariant: iterations and failures stay within their caps.
THEOREM TypeCorrect == Spec => []TypeInv
<1>1. Init => TypeInv
  <2> SUFFICES ASSUME Init PROVE TypeInv
    OBVIOUS
  <2> USE SizeAssumption DEF Init
  <2>1. /\ pc \in PC
        /\ lock \in {"free", "held", "stale"}
        /\ rc \in Outcome
        /\ why \in {"pause", "reset", "delay", "poll"}
    BY DEF PC, Outcome
  <2>2. /\ stopFlag \in BOOLEAN /\ stopSig \in BOOLEAN /\ pauseFlag \in BOOLEAN
        /\ anchored \in BOOLEAN /\ fallback \in BOOLEAN
        /\ installed \in SUBSET {"claude", "codex"}
        /\ spawned \in SUBSET Backend
    OBVIOUS
  <2>3. /\ iteration \in 0..MaxIterations /\ failures \in 0..MaxFailures
        /\ cur \in Backend
        /\ sched \in 0..MaxDelay
        /\ nap \in 0..(MaxReset + Buffer + MaxDelay + 1)
        /\ late \in Nat /\ failRun \in Nat /\ globalHold \in 0..MaxReset
    BY DEF Backend
  <2>4. cool \in [Backend -> 0..MaxReset]
    BY DEF Backend
  <2>5. BelowCap
    BY DEF BelowCap
  <2> QED
    BY <2>1, <2>2, <2>3, <2>4, <2>5 DEF TypeInv, TypeOK
<1>2. TypeInv /\ [Next]_vars => TypeInv'
  <2> SUFFICES ASSUME TypeInv, [Next]_vars PROVE TypeInv'
    OBVIOUS
  <2> USE SizeAssumption
      DEF TypeInv, TypeOK, BelowCap, PC, Outcome, Backend, flags, control,
          history
  <2>1. CASE Launch
    <3>1. cool' \in [Backend -> 0..MaxReset]
      BY <2>1 DEF Launch
    <3>2. /\ iteration' \in 0..MaxIterations /\ failures' \in 0..MaxFailures
          /\ late' \in Nat /\ failRun' \in Nat /\ globalHold' \in 0..MaxReset
      BY <2>1 DEF Launch
    <3>3. BelowCap'
      BY <2>1 DEF Launch
    <3> QED
      BY <2>1, <3>1, <3>2, <3>3 DEF Launch
  <2>2. CASE ClearFlags
    <3>1. sched' \in 0..MaxDelay
      BY <2>2 DEF ClearFlags
    <3> QED
      BY <2>2, <3>1 DEF ClearFlags
  <2>3. CASE Anchor
    BY <2>3 DEF Anchor
  <2>4. CASE SeedCooldowns
    BY <2>4 DEF SeedCooldowns
  <2>5. CASE LeaveLoop
    BY <2>5 DEF LeaveLoop, CapReached
  <2>6. CASE IdlePaused
    BY <2>6 DEF IdlePaused, Sleep, Paused
  <2>7. CASE BeginIteration
    <3>1. iteration' \in 0..MaxIterations
      BY <2>7 DEF BeginIteration, CapReached, NextIteration
    <3> QED
      BY <2>7, <3>1 DEF BeginIteration
  <2>8. CASE BudgetGuard
    BY <2>8 DEF BudgetGuard, Extended
  <2>9. CASE SelectBackend
    BY <2>9 DEF SelectBackend
  <2>10. CASE NoCli
    BY <2>10 DEF NoCli
  <2>11. CASE AllCooling
    BY <2>11 DEF AllCooling
  <2>12. CASE SleepUntilReset
    BY <2>12 DEF SleepUntilReset, Sleep, ResetNap
  <2>13. CASE NoResetAhead
    BY <2>13 DEF NoResetAhead
  <2>14. CASE Spawn
    BY <2>14 DEF Spawn
  <2>15. CASE Raises
    BY <2>15 DEF Raises
  <2>16. CASE SessionEnds
    <3>1. rc' \in Outcome
      BY <2>16 DEF SessionEnds
    <3>2. sched' \in 0..MaxDelay
      <4>1. sched' = sched \/ sched' \in 1..MaxDelay
        BY <2>16 DEF SessionEnds
      <4> QED
        BY <4>1
    <3>3. failRun' \in Nat
      <4>1. \/ failRun' = 0 \/ failRun' = failRun + 1 \/ failRun' = failRun
        BY <2>16 DEF SessionEnds
      <4> QED
        BY <4>1
    <3> QED
      BY <2>16, <3>1, <3>2, <3>3 DEF SessionEnds
  <2>17. CASE StopAfterSession
    BY <2>17 DEF StopAfterSession
  <2>18. CASE SessionOk
    BY <2>18 DEF SessionOk, NotStopped
  <2>19. CASE SessionFailed
    BY <2>19 DEF SessionFailed, NotStopped
  <2>20. CASE SessionLimited
    BY <2>20 DEF SessionLimited, Limited, NotStopped
  <2>21. CASE Fallback
    BY <2>21 DEF Fallback, Below
  <2>22. CASE LadderEnds
    BY <2>22 DEF LadderEnds, Below
  <2>23. CASE DelaySleep
    BY <2>23 DEF DelaySleep, Sleep, Delays
  <2>24. CASE Wake
    BY <2>24 DEF Wake
  <2>25. CASE EndSession
    BY <2>25 DEF EndSession
  <2>26. CASE ReleaseLock
    BY <2>26 DEF ReleaseLock
  <2>27. CASE Crash
    BY <2>27 DEF Crash
  <2>28. CASE Operator
    <3>1. /\ stopFlag' \in BOOLEAN /\ stopSig' \in BOOLEAN
          /\ pauseFlag' \in BOOLEAN
      BY <2>28, Zenon DEF Operator
    <3> QED
      BY <2>28, <3>1 DEF Operator
  <2>29. CASE Tick
    BY <2>29 DEF Tick, Less
  <2>30. CASE UNCHANGED vars
    BY <2>30 DEF vars
  <2> QED
    BY <2>1, <2>2, <2>3, <2>4, <2>5, <2>6, <2>7, <2>8, <2>9, <2>10, <2>11,
       <2>12, <2>13, <2>14, <2>15, <2>16, <2>17, <2>18, <2>19, <2>20, <2>21,
       <2>22, <2>23, <2>24, <2>25, <2>26, <2>27, <2>28, <2>29, <2>30 DEF
       Next, Loop
<1> QED
  BY <1>1, <1>2, PTL DEF Spec

\* Every variable has its type.
THEOREM LoopTypeCorrect == Spec => []TypeOK
<1>1. TypeInv => TypeOK
  BY DEF TypeInv
<1> QED
  BY <1>1, TypeCorrect, PTL

-----------------------------------------------------------------------------
\* What the loop keeps: which backends may run, where the ladder stands, what
\* a stop request allows, when a schedule is left, and who has the lock.
LoopInv == HoldInv /\ LadderInv /\ StopInv /\ ScheduleInv /\ LockInv

\* LoopInv is inductive.
THEOREM LoopInvariant == Spec => []LoopInv
<1>1. Init => LoopInv
  BY SizeAssumption
     DEF Init, LoopInv, HoldInv, LadderInv, StopInv, ScheduleInv, LockInv,
         Backend
<1>2. TypeInv /\ LoopInv /\ [Next]_vars => LoopInv'
  <2> SUFFICES ASSUME TypeInv, LoopInv, [Next]_vars PROVE LoopInv'
    OBVIOUS
  <2> USE SizeAssumption
      DEF TypeInv, TypeOK, PC, Outcome, Backend, flags, control, history,
          StopRequested, LoopInv, HoldInv, LadderInv, StopInv, ScheduleInv, LockInv
  <2>1. CASE Launch
    BY <2>1 DEF Launch
  <2>2. CASE ClearFlags
    BY <2>2 DEF ClearFlags
  <2>3. CASE Anchor
    BY <2>3 DEF Anchor
  <2>4. CASE SeedCooldowns
    BY <2>4 DEF SeedCooldowns
  <2>5. CASE LeaveLoop
    BY <2>5 DEF LeaveLoop, CapReached
  <2>6. CASE IdlePaused
    BY <2>6 DEF IdlePaused, Sleep, Paused
  <2>7. CASE BeginIteration
    BY <2>7 DEF BeginIteration, Paused
  <2>8. CASE BudgetGuard
    BY <2>8 DEF BudgetGuard, Extended
  <2>9. CASE SelectBackend
    BY <2>9 DEF SelectBackend, Available
  <2>10. CASE NoCli
    BY <2>10 DEF NoCli
  <2>11. CASE AllCooling
    BY <2>11 DEF AllCooling
  <2>12. CASE SleepUntilReset
    BY <2>12 DEF SleepUntilReset, Sleep, ResetNap
  <2>13. CASE NoResetAhead
    BY <2>13 DEF NoResetAhead
  <2>14. CASE Spawn
    BY <2>14 DEF Spawn
  <2>15. CASE Raises
    BY <2>15 DEF Raises
  <2>16. CASE SessionEnds
    BY <2>16 DEF SessionEnds
  <2>17. CASE StopAfterSession
    BY <2>17 DEF StopAfterSession
  <2>18. CASE SessionOk
    BY <2>18 DEF SessionOk, NotStopped
  <2>19. CASE SessionFailed
    BY <2>19 DEF SessionFailed, NotStopped
  <2>20. CASE SessionLimited
    BY <2>20 DEF SessionLimited, Limited, NotStopped
  <2>21. CASE Fallback
    BY <2>21 DEF Fallback, Below, Available
  <2>22. CASE LadderEnds
    BY <2>22 DEF LadderEnds
  <2>23. CASE DelaySleep
    BY <2>23 DEF DelaySleep, Sleep, Delays
  <2>24. CASE Wake
    BY <2>24 DEF Wake
  <2>25. CASE EndSession
    BY <2>25 DEF EndSession
  <2>26. CASE ReleaseLock
    BY <2>26 DEF ReleaseLock
  <2>27. CASE Crash
    BY <2>27 DEF Crash
  <2>28. CASE Operator
    BY <2>28 DEF Operator
  <2>29. CASE Tick
    BY <2>29 DEF Tick, Less
  <2>30. CASE UNCHANGED vars
    BY <2>30 DEF vars
  <2> QED
    BY <2>1, <2>2, <2>3, <2>4, <2>5, <2>6, <2>7, <2>8, <2>9, <2>10, <2>11,
       <2>12, <2>13, <2>14, <2>15, <2>16, <2>17, <2>18, <2>19, <2>20, <2>21,
       <2>22, <2>23, <2>24, <2>25, <2>26, <2>27, <2>28, <2>29, <2>30 DEF
       Next, Loop
<1> QED
  BY <1>1, <1>2, TypeCorrect, PTL DEF Spec

-----------------------------------------------------------------------------
\* A global claude limit keeps every claude backend from running until it is
\* over.
THEOREM GlobalLimitKept == Spec => []NoClaudeUnderGlobalLimit
<1>1. TypeInv /\ LoopInv => NoClaudeUnderGlobalLimit
  BY SizeAssumption
     DEF TypeInv, TypeOK, LoopInv, HoldInv, NoClaudeUnderGlobalLimit, Backend
<1> QED
  BY <1>1, TypeCorrect, LoopInvariant, PTL

\* At most one session starts after a stop request, whichever way it came.
THEOREM StopHonoured == Spec => []OneSessionAfterStop
<1>1. LoopInv => OneSessionAfterStop
  BY DEF LoopInv, StopInv, OneSessionAfterStop
<1> QED
  BY <1>1, LoopInvariant, PTL

\* A delay that a session asked for is used up by the sleep it was meant for:
\* no later session sleeps on it.
THEOREM ScheduleConsumed == Spec => []ScheduleUsedUp
<1>1. LoopInv => ScheduleUsedUp
  BY DEF LoopInv, ScheduleInv, ScheduleUsedUp
<1> QED
  BY <1>1, LoopInvariant, PTL

\* A loop that let go of its lock ended its CL session first.
THEOREM FreeLockEnded == Spec => []FreeLockMeansEnded
<1>1. LoopInv => FreeLockMeansEnded
  BY DEF LoopInv, LockInv, FreeLockMeansEnded
<1> QED
  BY <1>1, LoopInvariant, PTL

\* No backend runs twice in an iteration.
THEOREM LadderRunsOnce == Spec => SpawnedOnce
<1>1. TypeInv /\ LoopInv /\ [Next]_vars
        => [pc = "spawn" /\ pc' = "session" => cur \notin spawned]_vars
  BY SizeAssumption DEF TypeInv, TypeOK, Backend, LoopInv, LadderInv
<1> QED
  BY <1>1, TypeCorrect, LoopInvariant, PTL DEF Spec, SpawnedOnce

-----------------------------------------------------------------------------
\* Only the clock and, for its family, a global claude limit shorten a
\* cooldown.
THEOREM CooldownsKept == Spec => CooldownKept
<1> DEFINE Kept == \A b \in Backend :
                     \/ cool'[b] >= cool[b]
                     \/ pc' = pc /\ cool'[b] = cool[b] - 1
                     \/ pc = "idle"
                     \/ pc = "ended" /\ rc = "global" /\ cur \in Claude
                          /\ b \in Claude \ {cur}
<1>1. TypeInv /\ LoopInv /\ [Next]_vars => [Kept]_vars
  <2> SUFFICES ASSUME TypeInv, LoopInv, Next PROVE Kept
    BY DEF vars
  <2>1. ASSUME UNCHANGED cool PROVE Kept
    <3>1. \A b \in Backend : cool[b] \in Nat
      BY SizeAssumption DEF TypeInv, TypeOK
    <3> QED
      BY <2>1, <3>1
  <2>2. CASE Launch
    BY <2>2 DEF Launch
  <2>3. CASE SeedCooldowns
    BY <2>3, SizeAssumption
       DEF SeedCooldowns, LoopInv, HoldInv, TypeInv, TypeOK, Backend
  <2>4. CASE BudgetGuard
    BY <2>4, SizeAssumption DEF BudgetGuard, Extended, TypeInv, TypeOK, Backend
  <2>5. CASE SessionLimited
    BY <2>5, SizeAssumption
       DEF SessionLimited, Limited, LoopInv, HoldInv, TypeInv, TypeOK, Backend
  <2>6. CASE Tick
    BY <2>6, SizeAssumption DEF Tick, Less, TypeInv, TypeOK, Backend
  <2>7. CASE ClearFlags \/ Anchor \/ LeaveLoop \/ IdlePaused
             \/ BeginIteration \/ SelectBackend \/ NoCli \/ AllCooling
             \/ SleepUntilReset \/ NoResetAhead \/ Spawn \/ Raises
             \/ SessionEnds \/ StopAfterSession \/ SessionOk
             \/ SessionFailed \/ Fallback \/ LadderEnds \/ DelaySleep
             \/ Wake \/ EndSession \/ ReleaseLock \/ Crash \/ Operator
    BY <2>1, <2>7 DEF ClearFlags, Anchor, LeaveLoop, IdlePaused,
       BeginIteration, SelectBackend, NoCli, AllCooling, SleepUntilReset,
       NoResetAhead, Spawn, Raises, SessionEnds, StopAfterSession,
       SessionOk, SessionFailed, Fallback, LadderEnds, DelaySleep, Wake,
       EndSession, ReleaseLock, Crash, Operator
  <2> QED
    BY <2>2, <2>3, <2>4, <2>5, <2>6, <2>7 DEF Next, Loop
<1> QED
  BY <1>1, TypeCorrect, LoopInvariant, PTL DEF Spec, CooldownKept

-----------------------------------------------------------------------------
\* Asleep for a reset, the loop has some backend that is due no later than it
\* wakes.
WaitsForABackend ==
    pc = "sleep" /\ why = "reset" => \E b \in Backend : cool[b] <= nap

\* The clock takes as much from the sleep as from the cooldown it waits for,
\* and nothing else touches a cooldown in the meantime.
LEMMA WaitsHolds == Spec => []WaitsForABackend
<1>1. Init => WaitsForABackend
  BY DEF Init, WaitsForABackend
<1>2. TypeInv /\ WaitsForABackend /\ [Next]_vars => WaitsForABackend'
  <2> SUFFICES ASSUME TypeInv, WaitsForABackend, [Next]_vars
               PROVE  WaitsForABackend'
    OBVIOUS
  <2>1. \A b \in Backend : cool[b] \in Nat
    BY SizeAssumption DEF TypeInv, TypeOK
  <2>2. nap \in Nat
    BY SizeAssumption DEF TypeInv, TypeOK
  <2>3. CASE SleepUntilReset
    <3>1. PICK b \in Backend : Sleep(ResetNap(b), "reset")
      BY <2>3 DEF SleepUntilReset
    <3>2. cool'[b] <= nap'
      BY <2>1, <2>3, <3>1, SizeAssumption DEF SleepUntilReset, Sleep, ResetNap
    <3> QED
      BY <3>2 DEF WaitsForABackend
  <2>4. CASE Tick
    <3> SUFFICES ASSUME pc = "sleep", why = "reset"
                 PROVE  \E b \in Backend : cool'[b] <= nap'
      BY <2>4 DEF Tick, WaitsForABackend
    <3>1. PICK b \in Backend : cool[b] <= nap
      BY DEF WaitsForABackend
    <3>2. cool'[b] <= nap'
      BY <2>1, <2>2, <2>4, <3>1 DEF Tick, Less
    <3> QED
      BY <3>2
  <2>5. CASE Operator \/ UNCHANGED vars
    BY <2>5 DEF Operator, control, vars, WaitsForABackend
  <2>6. CASE IdlePaused \/ DelaySleep
    BY <2>6 DEF IdlePaused, DelaySleep, Sleep, WaitsForABackend
  <2>7. CASE Launch \/ ClearFlags \/ Anchor \/ SeedCooldowns \/ LeaveLoop
             \/ BeginIteration \/ BudgetGuard \/ SelectBackend \/ NoCli
             \/ AllCooling \/ NoResetAhead \/ Spawn \/ Raises
             \/ SessionEnds \/ StopAfterSession \/ SessionOk
             \/ SessionFailed \/ SessionLimited \/ Fallback \/ LadderEnds
             \/ Wake \/ EndSession \/ ReleaseLock \/ Crash
    <3>1. pc' # "sleep"
      BY <2>7 DEF Launch, ClearFlags, Anchor, SeedCooldowns, LeaveLoop,
         BeginIteration, BudgetGuard, SelectBackend, NoCli, AllCooling,
         NoResetAhead, Spawn, Raises, SessionEnds, StopAfterSession,
         SessionOk, SessionFailed, SessionLimited, Fallback, LadderEnds,
         Wake, EndSession, ReleaseLock, Crash
    <3> QED
      BY <3>1 DEF WaitsForABackend
  <2> QED
    BY <2>3, <2>4, <2>5, <2>6, <2>7 DEF Next, Loop
<1> QED
  BY <1>1, <1>2, TypeCorrect, PTL DEF Spec

\* Who sleeps for a reset to the end finds a backend to run, whatever the
\* resets and the buffer are, if every CLI is installed.
THEOREM ResetSleepEnough == Spec => ResetSleepSuffices
<1> DEFINE Found == pc = "sleep" /\ why = "reset" /\ nap = 0 /\ pc' = "top"
                      /\ installed = {"claude", "codex"}
                      => \E b \in Backend : Available(b)
<1>1. TypeInv /\ WaitsForABackend => Found
  <2> SUFFICES ASSUME TypeInv, WaitsForABackend, pc = "sleep", why = "reset",
                      nap = 0, installed = {"claude", "codex"}
               PROVE  \E b \in Backend : Available(b)
    OBVIOUS
  <2>1. PICK b \in Backend : cool[b] <= 0
    BY DEF WaitsForABackend
  <2>2. cool[b] = 0
    BY <2>1, SizeAssumption DEF TypeInv, TypeOK
  <2> QED
    BY <2>2 DEF Available, CliOf
<1>2. TypeInv /\ WaitsForABackend /\ [Next]_vars => [Found]_vars
  BY <1>1
<1> HIDE DEF Found
<1>3. Spec => [][Found]_vars
  BY <1>2, TypeCorrect, WaitsHolds, PTL DEF Spec
<1> QED
  BY <1>3, PTL DEF Found, ResetSleepSuffices

=============================================================================
