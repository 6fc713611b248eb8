------------------------------ MODULE LoopLock ------------------------------
(***************************************************************************)
(* The lock file that keeps one PseudoOperator loop per repository:        *)
(* acquire_lock, _lock_holder_is_live and release_lock of                  *)
(* pseudo_operator/engine.py.                                              *)
(*                                                                         *)
(* A launch is one run of `cl loop run`.  It creates the lock file at most *)
(* once, because after a successful O_EXCL open it never opens again, so   *)
(* the launch that created a file also names that file (its inode): a late *)
(* write goes to the launch's own file even after the name was unlinked.   *)
(* Every system call is a step of its own.                                 *)
(***************************************************************************)
EXTENDS Naturals

CONSTANTS
    Launch,     \* the launches of the loop, on any host
    Host,       \* the hosts that share the repository
    HostOf,     \* the host of each launch
    NoFile      \* there is no lock file

ASSUME HostAssumption == HostOf \in [Launch -> Host]
ASSUME NoFileAssumption == NoFile \notin Launch

MaxAttempts == 3    \* for _ in range(3)

VARIABLES
    file,       \* the launch whose file bears the lock's name, or NoFile
    written,    \* the launches whose payload (pid, hostname) is in their file
    pc,         \* where each launch is
    seen,       \* the holder a launch read from the file
    tries,      \* how many attempts of the loop a launch has used up
    overlap     \* history: two launches were inside acquire_lock at once

vars == <<file, written, pc, seen, tries, overlap>>

PC == {"idle", "open", "read", "judge", "unlink", "created",
       "holding", "refused", "done", "dead"}

TypeOK ==
    /\ file \in Launch \cup {NoFile}
    /\ written \in SUBSET Launch
    /\ pc \in [Launch -> PC]
    /\ seen \in [Launch -> Launch \cup {NoFile}]
    /\ tries \in [Launch -> 0..MaxAttempts]
    /\ overlap \in BOOLEAN

\* Inside acquire_lock.
Acquiring(p) == pc[p] \in {"open", "read", "judge", "unlink", "created"}

\* A process with that pid exists on its host.
Alive(p) == Acquiring(p) \/ pc[p] = "holding"

-----------------------------------------------------------------------------
Init ==
    /\ file = NoFile
    /\ written = {}
    /\ pc = [p \in Launch |-> "idle"]
    /\ seen = [p \in Launch |-> NoFile]
    /\ tries = [p \in Launch |-> 0]
    /\ overlap = FALSE

\* run() calls acquire_lock.
Start(p) ==
    /\ pc[p] = "idle"
    /\ pc' = [pc EXCEPT ![p] = "open"]
    /\ overlap' = (overlap \/ \E q \in Launch : Acquiring(q))
    /\ UNCHANGED <<file, written, seen, tries>>

\* os.open(lock, O_CREAT | O_EXCL) makes an empty file.
Create(p) ==
    /\ pc[p] = "open"
    /\ file = NoFile
    /\ file' = p
    /\ pc' = [pc EXCEPT ![p] = "created"]
    /\ UNCHANGED <<written, seen, tries, overlap>>

\* ... or raises FileExistsError.
Exists(p) ==
    /\ pc[p] = "open"
    /\ file # NoFile
    /\ pc' = [pc EXCEPT ![p] = "read"]
    /\ UNCHANGED <<file, written, seen, tries, overlap>>

\* The payload goes into the file of this launch, whatever bears the name.
WritePayload(p) ==
    /\ pc[p] = "created"
    /\ written' = written \cup {p}
    /\ pc' = [pc EXCEPT ![p] = "holding"]
    /\ UNCHANGED <<file, seen, tries, overlap>>

ReadPayload(p) ==
    /\ pc[p] = "read"
    /\ file \in written
    /\ seen' = [seen EXCEPT ![p] = file]
    /\ pc' = [pc EXCEPT ![p] = "judge"]
    /\ UNCHANGED <<file, written, tries, overlap>>

\* An empty file is a JSONDecodeError and a vanished one an OSError: both
\* count as malformed.
ReadMalformed(p) ==
    /\ pc[p] = "read"
    /\ file \notin written
    /\ pc' = [pc EXCEPT ![p] = "unlink"]
    /\ UNCHANGED <<file, written, seen, tries, overlap>>

\* Mutant: an abort cleans up like the end of the loop does.
JudgeHeldReleases(p) ==
    /\ pc[p] = "judge"
    /\ file' = NoFile
    /\ pc' = [pc EXCEPT ![p] = "refused"]
    /\ UNCHANGED <<written, seen, tries, overlap>>

\* The holder is on another host, or os.kill(pid, 0) finds a process: the
\* holder's, or one that was given the pid of a dead holder.
JudgeHeld(p) ==
    /\ pc[p] = "judge"
    /\ pc' = [pc EXCEPT ![p] = "refused"]
    /\ UNCHANGED <<file, written, seen, tries, overlap>>

\* Mutant: a holder on another host counts as dead.
DeadOrElsewhere(p) == HostOf[seen[p]] # HostOf[p] \/ ~Alive(seen[p])
DeadHere(p) == HostOf[seen[p]] = HostOf[p] /\ ~Alive(seen[p])

JudgeStale(p) ==
    /\ pc[p] = "judge"
    /\ DeadHere(p)
    /\ pc' = [pc EXCEPT ![p] = "unlink"]
    /\ UNCHANGED <<file, written, seen, tries, overlap>>

TwoTaken(p) == tries[p] + 2                                      \* mutant
Taken(p) == tries[p] + 1

\* Mutant: the reclaim leaves the file where it is.
ReclaimNothing(p) ==
    /\ pc[p] = "unlink"
    /\ tries' = [tries EXCEPT ![p] = Taken(p)]
    /\ pc' = [pc EXCEPT ![p] =
                 IF Taken(p) < MaxAttempts THEN "open" ELSE "refused"]
    /\ UNCHANGED <<file, written, seen, overlap>>

\* unlink(missing_ok=True) takes away whatever bears the name by now.
Reclaim(p) ==
    /\ pc[p] = "unlink"
    /\ file' = NoFile
    /\ tries' = [tries EXCEPT ![p] = Taken(p)]
    /\ pc' = [pc EXCEPT ![p] =
                 IF Taken(p) < MaxAttempts THEN "open" ELSE "refused"]
    /\ UNCHANGED <<written, seen, overlap>>

\* release_lock, in the finally of run(): no look at whose file it is.
Release(p) ==
    /\ pc[p] = "holding"
    /\ file' = NoFile
    /\ pc' = [pc EXCEPT ![p] = "done"]
    /\ UNCHANGED <<written, seen, tries, overlap>>

\* SIGKILL, a power cut, or a failed write of the payload.
Crash(p) ==
    /\ Alive(p)
    /\ pc' = [pc EXCEPT ![p] = "dead"]
    /\ UNCHANGED <<file, written, seen, tries, overlap>>

Step(p) ==
    \/ Create(p) \/ Exists(p) \/ WritePayload(p)
    \/ ReadPayload(p) \/ ReadMalformed(p)
    \/ JudgeHeld(p) \/ JudgeStale(p) \/ Reclaim(p)

Next == \E p \in Launch : Start(p) \/ Step(p) \/ Release(p) \/ Crash(p)

Spec == Init /\ [][Next]_vars

-----------------------------------------------------------------------------
\* Two launches never run the loop at once: what the module doc of engine.py
\* promises of its lock ("atomic O_CREAT|O_EXCL lock with hostname-aware stale
\* reclaim").  The reclaim breaks it: a launch that judged a lock stale, or
\* read it empty before its owner wrote the payload, unlinks by name.
MutualExclusion ==
    \A p, q \in Launch : pc[p] = "holding" /\ pc[q] = "holding" => p = q

\* What the lock does guarantee: as long as no two launches were inside
\* acquire_lock at once, at most one runs the loop, through crashes, stale
\* locks, reused pids and locks of other hosts.
SerialMutualExclusion == ~overlap => MutualExclusion

\* Two reclaims in one acquire_lock are a sign of contention: a launch that
\* is alone in it gets the file right after its first reclaim, and never
\* aborts with "Could not acquire lock after retries".
SingleReclaim == ~overlap => \A p \in Launch : tries[p] <= 1

\* Without contention the file of a live launch loses the lock's name by that
\* launch's own release_lock and in no other way: neither a reclaim nor the
\* release of another launch takes it, though neither looks whose it is.
LiveLockKept ==
    [][ ~overlap' =>
          \A q \in Launch :
             file = q /\ Alive(q) /\ pc'[q] # "done" => file' = q ]_vars

\* A launch that may yet reclaim has an attempt left: what makes TypeOK, the
\* bound on the attempts, inductive.
AttemptLeft ==
    \A p \in Launch :
        pc[p] \in {"idle", "open", "read", "judge", "unlink"}
            => tries[p] < MaxAttempts

\* The inductive invariant behind the three.  A launch has a file once it has
\* created it; only one launch at a time is in acquire_lock; a launch that
\* created the file still has it; a judgement is
\* about the holder there is; nobody holds when a reclaim is decided on; and
\* the attempt after a reclaim finds no file.
SerialInv ==
    /\ \A p \in Launch : pc[p] = "holding" => p \in written
    /\ \A p \in Launch :
          pc[p] \in {"idle", "open", "read", "judge", "unlink"} => file # p
    /\ ~overlap =>
         /\ \A p, q \in Launch : Acquiring(p) /\ Acquiring(q) => p = q
         /\ \A p \in Launch : pc[p] \in {"created", "holding"} => file = p
         /\ \A p, q \in Launch :
               pc[p] = "judge" /\ pc[q] = "holding" => seen[p] = q
         /\ \A p, q \in Launch : pc[p] = "unlink" => pc[q] # "holding"
         /\ \A p \in Launch :
               /\ tries[p] <= 1
               /\ pc[p] \in {"idle", "read", "judge", "unlink"} => tries[p] = 0
               /\ pc[p] = "open" /\ tries[p] = 1 => file = NoFile

-----------------------------------------------------------------------------
\* What a launcher sees of a launch.
Outcome == [p \in Launch |->
    IF pc[p] = "holding" THEN "running"
    ELSE IF pc[p] \in {"refused", "done", "dead"} THEN "over" ELSE "waiting"]

Mutex == INSTANCE LoopMutex WITH outcome <- Outcome, contended <- overlap

\* The lock file, with its steps, crashes and reclaims, is such a mutex.
ImplementsMutex == Mutex!MutexSpec

=============================================================================
