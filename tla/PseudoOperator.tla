--------------------------- MODULE PseudoOperator ---------------------------
(***************************************************************************)
(* The session loop of one repository: PseudoOperatorEngine.run, its       *)
(* backend ladder, its hooks and its stop and pause flags                  *)
(* (pseudo_operator/engine.py, sessions.py, limits.py; cli/loop.py for the *)
(* operator's commands).  The lock that keeps a second loop out is module  *)
(* LoopLock; here it is free, held, or left behind by a crash.             *)
(*                                                                         *)
(* Times are what is left until an instant, so that a Tick brings every    *)
(* instant nearer and no clock grows: a cooldown of 0 is over, which is    *)
(* how None and a reset in the past both read in the code.                 *)
(***************************************************************************)
EXTENDS Naturals

CONSTANTS
    N,              \* number of backends; 1..N is their order of priority
    Claude,         \* the backends that the claude CLI runs, the rest codex
    MaxIterations,  \* max_iterations
    MaxFailures,    \* max_consecutive_failures
    MaxReset,       \* bound: the farthest reset a limit or a hook names
    Buffer,         \* RATE_LIMIT_BUFFER
    DefaultDelay,   \* default_delay_seconds
    MaxDelay        \* bound: the longest delay a session schedules

Backend == 1..N
Codex == Backend \ Claude

ASSUME SizeAssumption ==
    /\ N \in Nat \ {0}
    /\ Claude \subseteq 1..N
    /\ MaxIterations \in Nat \ {0}
    /\ MaxFailures \in Nat \ {0}
    /\ MaxReset \in Nat
    /\ Buffer \in Nat
    /\ MaxDelay \in Nat
    /\ DefaultDelay \in 1..MaxDelay

VARIABLES
    pc,         \* where run() is
    lock,       \* "free", "held" by this launch, "stale" after a crash
    stopFlag,   \* the stop flag file
    stopSig,    \* _stop, set by SIGTERM or SIGINT
    pauseFlag,  \* the pause flag file
    anchored,   \* a CL session was started and its end not yet asked for
    installed,  \* the CLIs found on PATH
    iteration,
    failures,   \* consecutive_failures
    cool,       \* time left of each backend's cooldown
    cur,        \* the backend picked last
    fallback,   \* run() is in the inner fallback loop
    rc,         \* how the last session ended
    sched,      \* the delay in the schedule file, 0 if there is none
    nap,        \* time left to sleep
    why,        \* what the loop sleeps for
    spawned,    \* history: the backends run in this iteration
    late,       \* history: sessions spawned after a stop request
    failRun,    \* history: failed sessions since the last good one
    globalHold  \* history: time left of the last global claude limit

control == <<pc, lock, iteration, failures, cur, fallback, rc, nap, why>>
flags == <<stopFlag, stopSig, pauseFlag>>
history == <<spawned, late, failRun, globalHold>>
vars == <<pc, lock, stopFlag, stopSig, pauseFlag, anchored, installed,
          iteration, failures, cool, cur, fallback, rc, sched, nap, why,
          spawned, late, failRun, globalHold>>

PC == {"idle", "clear", "anchor", "seed", "top", "guard", "select", "spawn",
       "session", "ended", "ladder", "cooling", "exhausted", "delay", "sleep",
       "finally", "release"}

\* How a session ends, for the loop: well, badly, or badly with a log in which
\* a reset time can be read, of one backend or of the claude account.
Outcome == {"ok", "failed", "limited", "global"}

TypeOK ==
    /\ pc \in PC
    /\ lock \in {"free", "held", "stale"}
    /\ stopFlag \in BOOLEAN /\ stopSig \in BOOLEAN /\ pauseFlag \in BOOLEAN
    /\ anchored \in BOOLEAN /\ fallback \in BOOLEAN
    /\ installed \in SUBSET {"claude", "codex"}
    /\ iteration \in 0..MaxIterations
    /\ failures \in 0..MaxFailures
    /\ cool \in [Backend -> 0..MaxReset]
    /\ cur \in Backend
    /\ rc \in Outcome
    /\ sched \in 0..MaxDelay
    /\ nap \in 0..(MaxReset + Buffer + MaxDelay + 1)
    /\ why \in {"pause", "reset", "delay", "poll"}
    /\ spawned \in SUBSET Backend
    /\ late \in Nat
    /\ failRun \in Nat
    /\ globalHold \in 0..MaxReset

StopRequested == stopSig \/ stopFlag
CliOf(b) == IF b \in Claude THEN "claude" ELSE "codex"

\* _backend_available.
Available(b) == CliOf(b) \in installed /\ cool[b] = 0

-----------------------------------------------------------------------------
(* The launch. *)

Init ==
    /\ pc = "idle" /\ lock = "free"
    /\ stopFlag \in BOOLEAN /\ stopSig = FALSE /\ pauseFlag \in BOOLEAN
    /\ anchored = FALSE
    /\ installed \in SUBSET {"claude", "codex"}
    /\ iteration = 0 /\ failures = 0
    /\ cool = [b \in Backend |-> 0]
    /\ cur = 1 /\ fallback = FALSE /\ rc = "ok"
    /\ sched = 0 /\ nap = 0 /\ why = "delay"
    /\ spawned = {} /\ late = 0 /\ failRun = 0 /\ globalHold = 0

\* A new process: acquire_lock succeeds, on a free lock or on the stale one
\* of a crashed launch.  The cooldowns of the last launch are gone with it.
Launch ==
    /\ pc = "idle"
    /\ pc' = "clear" /\ lock' = "held"
    /\ stopSig' = FALSE
    /\ iteration' = 0 /\ failures' = 0
    /\ cool' = [b \in Backend |-> 0]
    /\ fallback' = FALSE /\ anchored' = FALSE
    /\ spawned' = {} /\ late' = 0 /\ failRun' = 0 /\ globalHold' = 0
    /\ UNCHANGED <<stopFlag, pauseFlag, installed, cur, rc, sched, nap, why>>

\* Mutant: a schedule of an earlier launch stays.
ClearStopFlag ==
    /\ pc = "clear"
    /\ stopFlag' = FALSE
    /\ pc' = "anchor"
    /\ UNCHANGED <<lock, stopSig, pauseFlag, anchored, installed, iteration,
                   failures, cool, cur, fallback, rc, sched, nap, why, history>>

\* The flags and the schedule of an earlier launch are dropped; a stop flag
\* written since acquire_lock goes with them.
ClearFlags ==
    /\ pc = "clear"
    /\ stopFlag' = FALSE
    /\ sched' = 0
    /\ pc' = "anchor"
    /\ UNCHANGED <<lock, stopSig, pauseFlag, anchored, installed, iteration,
                   failures, cool, cur, fallback, rc, nap, why, history>>

\* _anchor_via_cl: `cl session start` may fail, the loop runs unanchored then.
Anchor ==
    /\ pc = "anchor"
    /\ anchored' \in BOOLEAN
    /\ pc' = "seed"
    /\ UNCHANGED <<lock, flags, installed, iteration, failures, cool, cur,
                   fallback, rc, sched, nap, why, history>>

\* _seed_cooldowns: the hook may name a future reset for any backend.
SeedCooldowns ==
    /\ pc = "seed"
    /\ cool' \in [Backend -> 0..MaxReset]
    /\ pc' = "top"
    /\ UNCHANGED <<lock, flags, anchored, installed, iteration, failures, cur,
                   fallback, rc, sched, nap, why, history>>

-----------------------------------------------------------------------------
(* The top of the loop. *)

Sleep(time, reason) == pc' = "sleep" /\ nap' = time /\ why' = reason

CapMissed == iteration > MaxIterations                           \* mutant
CapReached == iteration >= MaxIterations

\* The while condition, and the break at the iteration cap.
LeaveLoop ==
    /\ pc = "top"
    /\ StopRequested \/ (~pauseFlag /\ CapReached)
    /\ pc' = "finally"
    /\ UNCHANGED <<lock, flags, anchored, installed, iteration, failures, cool,
                   cur, fallback, rc, sched, nap, why, history>>

PausedAnyway == pauseFlag                                        \* mutant
Paused == ~StopRequested /\ pauseFlag

IdlePaused ==
    /\ pc = "top"
    /\ Paused
    /\ Sleep(1, "pause")
    /\ UNCHANGED <<lock, flags, anchored, installed, iteration, failures, cool,
                   cur, fallback, rc, sched, history>>

SameIteration == iteration                                       \* mutant
NextIteration == iteration + 1

\* The pre_iteration hook runs before pc reaches "select".
BeginIteration ==
    /\ pc = "top"
    /\ ~StopRequested /\ ~pauseFlag
    /\ ~CapReached
    /\ iteration' = NextIteration
    /\ pc' = "guard"
    /\ fallback' = FALSE
    /\ spawned' = {}
    /\ UNCHANGED <<lock, flags, anchored, installed, failures, cool, cur, rc,
                   sched, nap, why, late, failRun, globalHold>>

Replaced(horizon) == horizon                                     \* mutant
Extended(horizon) ==
    [b \in Backend |-> IF horizon[b] > cool[b] THEN horizon[b] ELSE cool[b]]

\* _budget_guard only adds to a cooldown.
BudgetGuard ==
    /\ pc = "guard"
    /\ \E horizon \in [Backend -> 0..MaxReset] : cool' = Extended(horizon)
    /\ pc' = "select"
    /\ UNCHANGED <<lock, flags, anchored, installed, iteration, failures, cur,
                   fallback, rc, sched, nap, why, history>>

\* _select_backend: the first available backend in order of priority.
SelectBackend ==
    /\ pc = "select"
    /\ \E b \in Backend :
          /\ Available(b)
          /\ \A c \in Backend : c < b => ~Available(c)
          /\ cur' = b
    /\ pc' = "spawn"
    /\ UNCHANGED <<lock, flags, anchored, installed, iteration, failures, cool,
                   fallback, rc, sched, nap, why, history>>

\* SystemExit: no CLI of a configured backend is on PATH.
NoCli ==
    /\ pc = "select"
    /\ \A b \in Backend : CliOf(b) \notin installed
    /\ pc' = "finally"
    /\ UNCHANGED <<lock, flags, anchored, installed, iteration, failures, cool,
                   cur, fallback, rc, sched, nap, why, history>>

AllCooling ==
    /\ pc = "select"
    /\ \A b \in Backend : ~Available(b)
    /\ \E b \in Backend : CliOf(b) \in installed
    /\ pc' = "cooling"
    /\ UNCHANGED <<lock, flags, anchored, installed, iteration, failures, cool,
                   cur, fallback, rc, sched, nap, why, history>>

BufferOnly(b) == Buffer                                          \* mutant
ResetNap(b) == cool[b] + Buffer

\* _sleep_until_backend_reset: until the nearest reset of any backend, its
\* CLI installed or not, and a buffer.  The schedule is dropped.
SleepUntilReset ==
    /\ pc \in {"cooling", "exhausted"}
    /\ \E b \in Backend :
          /\ cool[b] > 0
          /\ \A c \in Backend : cool[c] > 0 => cool[b] <= cool[c]
          /\ Sleep(ResetNap(b), "reset")
    /\ sched' = 0
    /\ UNCHANGED <<lock, flags, anchored, installed, iteration, failures, cool,
                   cur, fallback, rc, history>>

\* No reset is ahead: the last one passed since the backends were looked at.
\* At the top of an iteration the loop ends for that; after the ladder it goes
\* on to the delay.
NoResetAhead ==
    /\ pc \in {"cooling", "exhausted"}
    /\ \A b \in Backend : cool[b] = 0
    /\ pc' = IF pc = "cooling" THEN "finally" ELSE "delay"
    /\ UNCHANGED <<lock, flags, anchored, installed, iteration, failures, cool,
                   cur, fallback, rc, sched, nap, why, history>>

-----------------------------------------------------------------------------
(* One session. *)

\* run_session up to Popen: the environment, the prompt, a hydrate.
Spawn ==
    /\ pc = "spawn"
    /\ pc' = "session"
    /\ spawned' = spawned \cup {cur}
    /\ late' = late + (IF StopRequested THEN 1 ELSE 0)
    /\ UNCHANGED <<lock, flags, anchored, installed, iteration, failures, cool,
                   cur, fallback, rc, sched, nap, why, failRun, globalHold>>

\* The prompt file or the CLI is gone by now, or a hook printed JSON that is no
\* object of aware times: the exception leaves the loop.
Raises ==
    /\ pc \in {"seed", "guard", "spawn"}
    /\ pc' = "finally"
    /\ UNCHANGED <<lock, flags, anchored, installed, iteration, failures, cool,
                   cur, fallback, rc, sched, nap, why, history>>

\* The session exits, or is killed at its wall timeout (rc -1); its log shows
\* a limit or not.  It may have written the schedule.  The capture and the
\* session_end hook run before pc leaves "ended".
SessionEnds ==
    /\ pc = "session"
    /\ pc' = "ended"
    /\ rc' \in Outcome
    /\ sched' \in {sched} \cup 1..MaxDelay
    /\ failRun' = IF rc' = "ok" THEN 0
                  ELSE IF rc' = "failed" /\ failRun <= MaxFailures
                       THEN failRun + 1 ELSE failRun
    /\ UNCHANGED <<lock, flags, anchored, installed, iteration, failures, cool,
                   cur, fallback, nap, why, spawned, late, globalHold>>

\* The check after a session: break, from the fallback loop to the delay,
\* which the flag cuts short.
StopAfterSession ==
    /\ pc = "ended"
    /\ StopRequested
    /\ pc' = IF fallback THEN "delay" ELSE "finally"
    /\ UNCHANGED <<lock, flags, anchored, installed, iteration, failures, cool,
                   cur, fallback, rc, sched, nap, why, history>>

Unchecked == TRUE                                                \* mutant
NotStopped == ~StopRequested

SessionOk ==
    /\ pc = "ended" /\ rc = "ok"
    /\ NotStopped
    /\ failures' = IF fallback THEN failures ELSE 0
    /\ pc' = "delay"
    /\ UNCHANGED <<lock, flags, anchored, installed, iteration, cool, cur,
                   fallback, rc, sched, nap, why, history>>

\* Only the failure of an iteration's first session counts.
SessionFailed ==
    /\ pc = "ended" /\ rc = "failed"
    /\ NotStopped
    /\ failures' = IF fallback THEN failures ELSE failures + 1
    /\ pc' = IF ~fallback /\ failures + 1 >= MaxFailures
                THEN "finally" ELSE "delay"
    /\ UNCHANGED <<lock, flags, anchored, installed, iteration, cool, cur,
                   fallback, rc, sched, nap, why, history>>

OnlyCur == {cur}                                                 \* mutant
Limited == IF rc = "global" /\ cur \in Claude THEN Claude ELSE {cur}

\* _handle_backend_limit: the reset the log names replaces the cooldown; a
\* global claude limit replaces that of every claude backend.  The
\* on_cooldown hook runs before pc leaves "ladder".
SessionLimited ==
    /\ pc = "ended" /\ rc \in {"limited", "global"}
    /\ NotStopped
    /\ \E reset \in 0..MaxReset :
         /\ cool' = [b \in Backend |->
                        IF b \in Limited THEN reset ELSE cool[b]]
         /\ globalHold' = IF rc = "global" /\ cur \in Claude
                            THEN reset ELSE globalHold
    /\ pc' = "ladder"
    /\ UNCHANGED <<lock, flags, anchored, installed, iteration, failures, cur,
                   fallback, rc, sched, nap, why, spawned, late, failRun>>

AnyBackend == Backend                                            \* mutant
Below == {b \in Backend : b > cur}

\* _next_runnable_fallback: the next available backend below the last one.
Fallback ==
    /\ pc = "ladder"
    /\ \E b \in Below :
          /\ Available(b)
          /\ \A c \in Below : c < b => ~Available(c)
          /\ cur' = b
    /\ fallback' = TRUE
    /\ pc' = "spawn"
    /\ UNCHANGED <<lock, flags, anchored, installed, iteration, failures, cool,
                   rc, sched, nap, why, history>>

LadderEnds ==
    /\ pc = "ladder"
    /\ \A b \in Below : ~Available(b)
    /\ pc' = "exhausted"
    /\ UNCHANGED <<lock, flags, anchored, installed, iteration, failures, cool,
                   cur, fallback, rc, sched, nap, why, history>>

-----------------------------------------------------------------------------
(* Sleeping, and the end of the launch. *)

\* get_delay: what the schedule says, or the policy for a state or a phase.
Delays == IF sched > 0 THEN {sched} ELSE 1..MaxDelay

\* The schedule is used up.  Under the phase_status policy a long delay polls
\* the run's status.
DelaySleep ==
    /\ pc = "delay"
    /\ \E delay \in Delays :
          Sleep(delay, IF delay > DefaultDelay THEN "poll" ELSE "delay")
    /\ sched' = 0
    /\ UNCHANGED <<lock, flags, anchored, installed, iteration, failures, cool,
                   cur, fallback, rc, history>>

\* interruptible_sleep returns: time is up, a stop is requested, or the run
\* it polls is over.
Wake ==
    /\ pc = "sleep"
    /\ nap = 0 \/ StopRequested \/ why = "poll"
    /\ nap' = 0
    /\ pc' = "top"
    /\ UNCHANGED <<lock, flags, anchored, installed, iteration, failures, cool,
                   cur, fallback, rc, sched, why, history>>

\* Mutant: the lock is released before the session is ended.
ReleaseFirst ==
    /\ pc = "finally"
    /\ lock' = "free"
    /\ pc' = "release"
    /\ UNCHANGED <<anchored, flags, installed, iteration, failures, cool, cur,
                   fallback, rc, sched, nap, why, history>>

\* finally: _end_cl_session, then release_lock.
EndSession ==
    /\ pc = "finally"
    /\ anchored' = FALSE
    /\ pc' = "release"
    /\ UNCHANGED <<lock, flags, installed, iteration, failures, cool, cur,
                   fallback, rc, sched, nap, why, history>>

ReleaseLock ==
    /\ pc = "release"
    /\ lock' = "free"
    /\ pc' = "idle"
    /\ UNCHANGED <<flags, anchored, installed, iteration, failures, cool, cur,
                   fallback, rc, sched, nap, why, history>>

-----------------------------------------------------------------------------
(* The world around the loop. *)

\* SIGKILL or a power cut.
Crash ==
    /\ pc # "idle"
    /\ lock' = "stale"
    /\ pc' = "idle" /\ nap' = 0
    /\ UNCHANGED <<flags, anchored, installed, iteration, failures, cool, cur,
                   fallback, rc, sched, why, history>>

\* `cl loop stop`, `pause` and `resume`, and a signal to the process.
Operator ==
    /\ \/ stopFlag' = TRUE /\ UNCHANGED <<stopSig, pauseFlag>>
       \/ pc # "idle" /\ stopSig' = TRUE /\ UNCHANGED <<stopFlag, pauseFlag>>
       \/ pauseFlag' = ~pauseFlag /\ UNCHANGED <<stopFlag, stopSig>>
    /\ UNCHANGED <<control, anchored, installed, cool, sched, history>>

Less(t) == IF t > 0 THEN t - 1 ELSE 0

Tick ==
    /\ pc # "idle"
    /\ cool' = [b \in Backend |-> Less(cool[b])]
    /\ nap' = Less(nap)
    /\ globalHold' = Less(globalHold)
    /\ UNCHANGED <<pc, lock, flags, anchored, installed, iteration, failures,
                   cur, fallback, rc, sched, why, spawned, late, failRun>>

Loop ==
    \/ ClearFlags \/ Anchor \/ SeedCooldowns
    \/ LeaveLoop \/ IdlePaused \/ BeginIteration
    \/ BudgetGuard \/ SelectBackend \/ NoCli \/ AllCooling
    \/ SleepUntilReset \/ NoResetAhead
    \/ Spawn \/ Raises \/ SessionEnds \/ StopAfterSession
    \/ SessionOk \/ SessionFailed \/ SessionLimited
    \/ Fallback \/ LadderEnds
    \/ DelaySleep \/ Wake \/ EndSession \/ ReleaseLock

Next == Launch \/ Loop \/ Crash \/ Operator \/ Tick

Spec == Init /\ [][Next]_vars

\* The process runs on, every session ends (its wall timeout kills it), every
\* hook and `cl` call has a timeout, and time passes.  Nobody has to launch a
\* loop, stop it, pause it, resume it or kill it.
FairSpec == Spec /\ WF_vars(Loop) /\ WF_vars(Tick)

-----------------------------------------------------------------------------
(* What must hold. *)

\* Within an iteration the ladder runs each backend once at the most, though
\* a limit whose reset is already past leaves its backend available.
SpawnedOnce ==
    [][ pc = "spawn" /\ pc' = "session" => cur \notin spawned ]_vars

\* While a global claude limit lasts no session of any claude backend runs,
\* whichever backend met it and whatever the hooks and the other limits do.
NoClaudeUnderGlobalLimit ==
    globalHold > 0 /\ pc \in {"spawn", "session", "ended"} => cur \notin Claude

\* A cooldown once set runs off by the clock.  Neither the budget guard nor a
\* backend's own limit shortens one; a global claude limit may, for the other
\* claude backends, whose longer reset it replaces.
CooldownKept ==
    [][ \A b \in Backend :
          \/ cool'[b] >= cool[b]
          \/ pc' = pc /\ cool'[b] = cool[b] - 1
          \/ pc = "idle"
          \/ pc = "ended" /\ rc = "global" /\ cur \in Claude
               /\ b \in Claude \ {cur} ]_vars

\* After a stop request one more session at the most is spawned: the one that
\* is being prepared, or the fallback of a session whose limit is being
\* handled.
OneSessionAfterStop == late <= 1

\* A sleep for a reset that nobody cuts short ends with a backend to run, so
\* that it costs one iteration and not several.  All CLIs must be installed:
\* the loop also waits for backends whose CLI is not.
ResetSleepSuffices ==
    [][ pc = "sleep" /\ why = "reset" /\ nap = 0 /\ pc' = "top"
          /\ installed = {"claude", "codex"}
          => \E b \in Backend : Available(b) ]_vars

\* A schedule serves one sleep: none is left when the next iteration begins,
\* by whatever way the last one ended.
ScheduleUsedUp == pc \in {"top", "guard", "select"} => sched = 0

\* Who finds the lock free finds the CL session of the last launch ended.
\* (The session of a launch that crashed stays open: no launch ends it.)
FreeLockMeansEnded == lock = "free" => ~anchored

\* A stop request that survives the start of the loop ends it, also when it
\* is paused, asleep or on the ladder.
StopEndsLoop ==
    (StopRequested /\ pc \notin {"idle", "clear"}) ~> (pc = "idle")

\* A launch that is not paused for good comes to its end: sessions, ladders
\* and reset sleeps all use up the iteration cap.
LaunchEnds == <>[]~pauseFlag => ((pc # "idle") ~> (pc = "idle"))

\* "ENFORCED iteration + consecutive-failure caps (config, never unlimited)":
\* no more than max_consecutive_failures sessions in a row fail for another
\* reason than a limit.  The failures of fallback sessions are not counted.
FailureCap == failRun <= MaxFailures

(* Inductive invariants behind them, for the proofs. *)

\* The loop goes on only below the failure cap.
BelowCap == pc \notin {"idle", "finally", "release"} => failures < MaxFailures

\* From its choice to the handling of its end the backend that runs is not
\* cooling, and no claude backend comes off cooldown under a global limit.
HoldInv ==
    /\ pc \in {"spawn", "session", "ended"} => cool[cur] = 0
    /\ pc \in {"clear", "anchor", "seed"}
          => globalHold = 0 /\ \A b \in Backend : cool[b] = 0
    /\ \A b \in Claude : globalHold <= cool[b]

\* The ladder only descends: what has run in the iteration is above the
\* backend about to run.
LadderInv ==
    /\ pc \in {"guard", "select"} => spawned = {}
    /\ pc = "spawn" => \A b \in spawned : b < cur
    /\ pc \in {"session", "ended", "ladder"} => \A b \in spawned : b <= cur

\* A session spawned late is on its way out of the loop.
StopInv ==
    /\ late \in {0, 1}
    /\ late = 1 =>
         /\ StopRequested
         /\ pc \in {"session", "ended", "delay", "sleep", "top", "finally",
                    "release", "idle"}

ScheduleInv ==
    pc \in {"anchor", "seed", "top", "guard", "select", "cooling", "sleep"}
        => sched = 0

LockInv ==
    /\ pc # "idle" => lock = "held"
    /\ pc = "release" => ~anchored
    /\ lock = "free" => ~anchored

=============================================================================
