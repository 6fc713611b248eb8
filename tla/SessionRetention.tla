-------------------------- MODULE SessionRetention --------------------------
(***************************************************************************)
(* The session directories of one anchor: .context/sessions/<sid> and      *)
(* .context/archived/<sid>, and the commands that make, fill, move and     *)
(* delete them: `cl session start` with its two-stage garbage collection,  *)
(* capture, `cl session end`, `cl session prune` and the prune of          *)
(* consolidation (session/retention.py, cli/session.py, lifecycle.py,      *)
(* context_engine/prune.py).  None of them takes a lock.                   *)
(*                                                                         *)
(* A directory is <<s, n>>: n = 0 is sessions/s, n = 1 is archived/s and   *)
(* n > 1 is archived/s.n.  Dates are kept as ages in days, up to MaxAge.   *)
(* The date of a session is the one in its id.                             *)
(***************************************************************************)
EXTENDS Naturals

CONSTANTS
    Sid,            \* the sessions that are followed
    Starter,        \* the processes that run `cl session start`
    MoveAfter,      \* MOVE_AFTER_DAYS
    DeleteAfter,    \* DELETE_AFTER_DAYS
    RetainDays,     \* --retain-days of a manual prune
    Slots,          \* bound: the archived directories of one session
    MaxCrashes      \* bound: the sweeps that crash

MaxAge == MoveAfter + DeleteAfter + 1       \* bound: older is as old

ASSUME SizeAssumption ==
    /\ MoveAfter \in Nat /\ DeleteAfter \in Nat
    /\ RetainDays \in 0..(MaxAge - 1)
    /\ Slots \in Nat \ {0}
    /\ MaxCrashes \in Nat

Session(s) == <<s, 0>>
Archived(s) == {<<s, n>> : n \in 1..Slots}
Place == Sid \X (0..Slots)

VARIABLES
    life,       \* where each session is in its life
    idAge,      \* the age of the date in its id
    dir,        \* what is in each place
    due,        \* the last sweep is more than GC_THROTTLE_HOURS ago
    pc,         \* where each `cl session start` is
    protect,    \* its new session and the one in its environment
    todo,       \* the directories its sweep has yet to look at
    src,        \* the session its sweep is moving
    dst,        \* ... and the archived directory it moves it to
    command,    \* the manual prune or the consolidation under way
    plan,       \* the directories it has picked
    crashes,    \* the crashes of sweeps so far
    rough       \* history: a crash left a move unstamped, or sweeps overlapped

sweep == <<pc, protect, todo, src, dst>>
vars == <<life, idAge, dir, due, sweep, command, plan, crashes, rough>>

\* mark is the .gc-moved-at stamp: absent, opened but empty, or a date, whose
\* age is age.  History: held is the time since the directory, or the last one
\* merged into it, came here, and swept that a sweep brought it.
Dir == [mark : {"gone", "none", "torn", "dated"}, age : 0..MaxAge,
        held : 0..(DeleteAfter + 1), swept : BOOLEAN]

Gone == [mark |-> "gone", age |-> 0, held |-> 0, swept |-> FALSE]
Unstamped(bySweep) ==
    [mark |-> "none", age |-> 0, held |-> 0, swept |-> bySweep]

\* A directory once another has moved into it, with its stamp opened, and
\* with today's date in it.
Merged(r, bySweep) == [mark |-> r.mark, age |-> r.age, held |-> 0,
                       swept |-> r.swept \/ bySweep]
Torn(r) == [mark |-> "torn", age |-> r.age, held |-> r.held,
            swept |-> r.swept]
Dated(r) == [mark |-> "dated", age |-> 0, held |-> r.held,
             swept |-> r.swept]

Present(d) == dir[d].mark # "gone"

TypeOK ==
    /\ life \in [Sid -> {"unborn", "live", "ending", "ended"}]
    /\ idAge \in [Sid -> 0..MaxAge]
    /\ dir \in [Place -> Dir]
    /\ due \in BOOLEAN
    /\ pc \in [Starter -> {"idle", "check", "mark", "tier1", "move", "stamp",
                           "date", "tier2"}]
    /\ protect \in [Starter -> SUBSET Sid]
    /\ todo \in [Starter -> SUBSET Place]
    /\ src \in [Starter -> Sid]
    /\ dst \in [Starter -> 1..Slots]
    /\ command \in {"none", "prune", "consolidate"}
    /\ plan \in SUBSET Place
    /\ crashes \in 0..MaxCrashes
    /\ rough \in BOOLEAN

Init ==
    /\ life = [s \in Sid |-> "unborn"]
    /\ idAge = [s \in Sid |-> 0]
    /\ dir = [d \in Place |-> Gone]
    /\ due = TRUE
    /\ pc = [p \in Starter |-> "idle"]
    /\ protect = [p \in Starter |-> {}]
    /\ todo = [p \in Starter |-> {}]
    /\ src \in [Starter -> Sid]
    /\ dst = [p \in Starter |-> 1]
    /\ command = "none" /\ plan = {}
    /\ crashes = 0 /\ rough = FALSE

-----------------------------------------------------------------------------
(* `cl session start`: a new session, then a throttled sweep. *)

\* At most one session of the given kind.
AtMostOne(kind) == {{}} \cup {{s} : s \in {t \in Sid : life[t] = kind}}

\* The new session may be one that is not followed; the process may have been
\* started from within a session.
Start(p) ==
    /\ pc[p] = "idle"
    /\ \E new \in AtMostOne("unborn"), env \in AtMostOne("live") :
          /\ life' = [s \in Sid |-> IF s \in new THEN "live" ELSE life[s]]
          /\ dir' = [d \in Place |-> IF d[1] \in new /\ d[2] = 0
                                        THEN Unstamped(FALSE) ELSE dir[d]]
          /\ protect' = [protect EXCEPT ![p] = new \cup env]
    /\ pc' = [pc EXCEPT ![p] = "check"]
    /\ UNCHANGED <<idAge, due, todo, src, dst, command, plan, crashes, rough>>

\* The process goes on without a sweep, or dies.
Finish(p) ==
    /\ pc' = [pc EXCEPT ![p] = "idle"]
    /\ protect' = [protect EXCEPT ![p] = {}]
    /\ todo' = [todo EXCEPT ![p] = {}]
    /\ dst' = [dst EXCEPT ![p] = 1]

\* maybe_auto_gc reads the last-run stamp ...
Throttled(p) ==
    /\ pc[p] = "check"
    /\ ~due
    /\ Finish(p)
    /\ UNCHANGED <<life, idAge, dir, due, src, command, plan, crashes, rough>>

NotThrottled(p) ==
    /\ pc[p] = "check"
    /\ due
    /\ pc' = [pc EXCEPT ![p] = "mark"]
    /\ UNCHANGED <<life, idAge, dir, due, protect, todo, src, dst, command,
                   plan, crashes, rough>>

Sweeping(p) == pc[p] \in {"tier1", "move", "stamp", "date", "tier2"}

\* ... and writes it before it sweeps; tier 1 then lists sessions/.
MarkRun(p) ==
    /\ pc[p] = "mark"
    /\ due' = FALSE
    /\ todo' = [todo EXCEPT ![p] =
                  {Session(s) : s \in {t \in Sid : Present(Session(t))
                                                   /\ t \notin protect[p]}}]
    /\ pc' = [pc EXCEPT ![p] = "tier1"]
    /\ rough' = (rough \/ \E q \in Starter : Sweeping(q))
    /\ UNCHANGED <<life, idAge, dir, protect, src, dst, command, plan,
                   crashes>>

-----------------------------------------------------------------------------
(* Tier 1 moves the directories of old sessions to archived/. *)

Movable(s) == Present(Session(s)) /\ idAge[s] > MoveAfter

\* The directory is young, or another process took it away.
Keep1(p) ==
    /\ pc[p] = "tier1"
    /\ \E d \in todo[p] :
          /\ ~Movable(d[1])
          /\ todo' = [todo EXCEPT ![p] = @ \ {d}]
    /\ UNCHANGED <<life, idAge, dir, due, pc, protect, src, dst, command,
                   plan, crashes, rough>>

FirstFree(s, n) ==
    /\ ~Present(<<s, n>>)
    /\ \A m \in 1..Slots : m < n => Present(<<s, m>>)

NextIndex(n) == n + 1                                            \* mutant
Index(n) == n

\* The name under archived/: the session's, or the first free suffix.
Choose(p) ==
    /\ pc[p] = "tier1"
    /\ \E d \in todo[p], n \in 1..Slots :
          /\ Movable(d[1])
          /\ FirstFree(d[1], n)
          /\ src' = [src EXCEPT ![p] = d[1]]
          /\ dst' = [dst EXCEPT ![p] = Index(n)]
          /\ todo' = [todo EXCEPT ![p] = @ \ {d}]
    /\ pc' = [pc EXCEPT ![p] = "move"]
    /\ UNCHANGED <<life, idAge, dir, due, protect, command, plan, crashes,
                   rough>>

\* shutil.move of sessions/s to an archived place.  Into a directory that has
\* appeared there since it was chosen, the session is moved as a child.
MoveTo(s, d, bySweep) ==
    dir' = [dir EXCEPT ![Session(s)] = Gone,
                       ![d] = IF Present(d) THEN Merged(dir[d], bySweep)
                                            ELSE Unstamped(bySweep)]

Target(p) == <<src[p], dst[p]>>

Move(p) ==
    /\ pc[p] = "move"
    /\ Present(Session(src[p]))
    /\ MoveTo(src[p], Target(p), TRUE)
    /\ pc' = [pc EXCEPT ![p] = "stamp"]
    /\ UNCHANGED <<life, idAge, due, protect, todo, src, dst, command, plan,
                   crashes, rough>>

\* OSError: the source has vanished.
MoveLost(p) ==
    /\ pc[p] = "move"
    /\ ~Present(Session(src[p]))
    /\ pc' = [pc EXCEPT ![p] = "tier1"]
    /\ UNCHANGED <<life, idAge, dir, due, protect, todo, src, dst, command,
                   plan, crashes, rough>>

\* write_text opens the stamp file, which empties it, ...
StampOpen(p) ==
    /\ pc[p] = "stamp"
    /\ Present(Target(p))
    /\ dir' = [dir EXCEPT ![Target(p)] = Torn(@)]
    /\ pc' = [pc EXCEPT ![p] = "date"]
    /\ UNCHANGED <<life, idAge, due, protect, todo, src, dst, command, plan,
                   crashes, rough>>

\* ... unless the directory was deleted: the exception ends the sweep.
StampFails(p) ==
    /\ pc[p] = "stamp"
    /\ ~Present(Target(p))
    /\ Finish(p)
    /\ UNCHANGED <<life, idAge, dir, due, src, command, plan, crashes, rough>>

\* ... and writes the date of today into it.
StampDate(p) ==
    /\ pc[p] = "date"
    /\ dir' = [dir EXCEPT ![Target(p)] =
                 IF @.mark = "torn" THEN Dated(@) ELSE @]
    /\ pc' = [pc EXCEPT ![p] = "tier1"]
    /\ UNCHANGED <<life, idAge, due, protect, todo, src, dst, command, plan,
                   crashes, rough>>

-----------------------------------------------------------------------------
(* Tier 2 deletes what has been archived for long. *)

\* The session under protection is known by its name, not by its suffixes.
BeginTier2(p) ==
    /\ pc[p] = "tier1"
    /\ todo[p] = {}
    /\ todo' = [todo EXCEPT ![p] =
                  {d \in UNION {Archived(s) : s \in Sid} :
                     Present(d) /\ (d[2] = 1 => d[1] \notin protect[p])}]
    /\ pc' = [pc EXCEPT ![p] = "tier2"]
    /\ UNCHANGED <<life, idAge, dir, due, protect, src, dst, command, plan,
                   crashes, rough>>

\* Mutants: the session's date goes before the stamp; the window of an
\* unstamped directory leaves out MOVE_AFTER_DAYS; it is kept for good.
IdDateFirst(d) == Present(d) /\ idAge[d[1]] > MoveAfter + DeleteAfter
ShortFallback(d) ==
    \/ dir[d].mark = "dated" /\ dir[d].age > DeleteAfter
    \/ dir[d].mark = "none" /\ idAge[d[1]] > DeleteAfter
StampedOnly(d) == dir[d].mark = "dated" /\ dir[d].age > DeleteAfter

\* By its stamp; without one, by the session's date; never by a stamp that
\* cannot be read.
Expired(d) ==
    \/ dir[d].mark = "dated" /\ dir[d].age > DeleteAfter
    \/ dir[d].mark = "none" /\ idAge[d[1]] > MoveAfter + DeleteAfter

Keep2(p) ==
    /\ pc[p] = "tier2"
    /\ \E d \in todo[p] :
          /\ ~Expired(d)
          /\ todo' = [todo EXCEPT ![p] = @ \ {d}]
    /\ UNCHANGED <<life, idAge, dir, due, pc, protect, src, dst, command,
                   plan, crashes, rough>>

Delete(p) ==
    /\ pc[p] = "tier2"
    /\ \E d \in todo[p] :
          /\ Expired(d)
          /\ dir' = [dir EXCEPT ![d] = Gone]
          /\ todo' = [todo EXCEPT ![p] = @ \ {d}]
    /\ UNCHANGED <<life, idAge, due, pc, protect, src, dst, command, plan,
                   crashes, rough>>

EndSweep(p) ==
    /\ pc[p] = "tier2"
    /\ todo[p] = {}
    /\ Finish(p)
    /\ UNCHANGED <<life, idAge, dir, due, src, command, plan, crashes, rough>>

\* The process is killed, or a write of the stamp fails.
Crash(p) ==
    /\ pc[p] # "idle"
    /\ crashes < MaxCrashes
    /\ crashes' = crashes + 1
    /\ rough' = (rough \/ pc[p] \in {"stamp", "date"})
    /\ Finish(p)
    /\ UNCHANGED <<life, idAge, dir, due, src, command, plan>>

-----------------------------------------------------------------------------
(* The life of a session. *)

\* capture, and every other writer, makes the directory again if it is gone.
\* Bound: as long as there is a free name to archive it under.
Capture(s) ==
    /\ life[s] = "live"
    /\ ~Present(Session(s))
    /\ \E d \in Archived(s) : ~Present(d)
    /\ dir' = [dir EXCEPT ![Session(s)] = Unstamped(FALSE)]
    /\ UNCHANGED <<life, idAge, due, sweep, command, plan, crashes, rough>>

\* `cl session end`: with --no-archive, without a directory, or with one under
\* its name in archived/, everything stays where it is.
End(s) ==
    /\ life[s] = "live"
    /\ \/ life' = [life EXCEPT ![s] = "ended"]
       \/ /\ Present(Session(s)) /\ ~Present(<<s, 1>>)
          /\ life' = [life EXCEPT ![s] = "ending"]
    /\ UNCHANGED <<idAge, dir, due, sweep, command, plan, crashes, rough>>

EndMove(s) ==
    /\ life[s] = "ending"
    /\ IF Present(Session(s)) THEN MoveTo(s, <<s, 1>>, FALSE)
                              ELSE UNCHANGED dir
    /\ life' = [life EXCEPT ![s] = "ended"]
    /\ UNCHANGED <<idAge, due, sweep, command, plan, crashes, rough>>

-----------------------------------------------------------------------------
(* The commands that plan and then apply: one at a time. *)

\* The stamp dates a directory, or else its session's id.
DateAge(d) == IF dir[d].mark = "dated" THEN dir[d].age ELSE idAge[d[1]]

\* `cl session prune --apply`, with --include-archived or not, from within a
\* session or not.
PlanPrune ==
    /\ command = "none"
    /\ command' = "prune"
    /\ \E own \in AtMostOne("live"), root \in {0..0, 0..Slots} :
          plan' = {d \in Place : /\ Present(d) /\ d[2] \in root
                                 /\ d[2] <= 1 => d[1] \notin own
                                 /\ DateAge(d) > RetainDays}
    /\ UNCHANGED <<life, idAge, dir, due, sweep, crashes, rough>>

ApplyPrune ==
    /\ command = "prune"
    /\ dir' = [d \in Place |-> IF d \in plan THEN Gone ELSE dir[d]]
    /\ command' = "none" /\ plan' = {}
    /\ UNCHANGED <<life, idAge, due, sweep, crashes, rough>>

\* plan_prune of consolidation: the other sessions without an open capsule,
\* which may be any of them.
PlanConsolidation ==
    /\ command = "none"
    /\ command' = "consolidate"
    /\ \E own \in AtMostOne("live") :
          plan' \in SUBSET {Session(s) : s \in
                              {t \in Sid \ own : Present(Session(t))}}
    /\ UNCHANGED <<life, idAge, dir, due, sweep, crashes, rough>>

\* apply_prune moves them, without a stamp, where the name is free.
ApplyConsolidation ==
    /\ command = "consolidate"
    /\ LET moved == {s \in Sid : /\ Session(s) \in plan
                                 /\ Present(Session(s)) /\ ~Present(<<s, 1>>)}
       IN  dir' = [d \in Place |->
                     IF d[1] \in moved /\ d[2] = 0 THEN Gone
                     ELSE IF d[1] \in moved /\ d[2] = 1 THEN Unstamped(FALSE)
                     ELSE dir[d]]
    /\ command' = "none" /\ plan' = {}
    /\ UNCHANGED <<life, idAge, due, sweep, crashes, rough>>

-----------------------------------------------------------------------------
Older(age, bound) == IF age < bound THEN age + 1 ELSE age

DayOlder(r, archived) ==
    [mark |-> r.mark,
     age |-> IF r.mark = "dated" THEN Older(r.age, MaxAge) ELSE 0,
     held |-> IF archived THEN Older(r.held, DeleteAfter + 1) ELSE 0,
     swept |-> r.swept]

\* A day passes, though not during a sweep, whose date is that of its start,
\* nor between the two steps of an end.
Day ==
    /\ \A p \in Starter : pc[p] = "idle"
    /\ \A s \in Sid : life[s] # "ending"
    /\ idAge' = [s \in Sid |-> IF life[s] = "unborn" THEN 0
                               ELSE Older(idAge[s], MaxAge)]
    /\ dir' = [d \in Place |->
                 IF Present(d) THEN DayOlder(dir[d], d[2] > 0) ELSE Gone]
    /\ due' = TRUE
    /\ UNCHANGED <<life, sweep, command, plan, crashes, rough>>

Sweep(p) ==
    \/ Throttled(p) \/ NotThrottled(p) \/ MarkRun(p)
    \/ Keep1(p) \/ Choose(p) \/ Move(p) \/ MoveLost(p)
    \/ StampOpen(p) \/ StampFails(p) \/ StampDate(p)
    \/ BeginTier2(p) \/ Keep2(p) \/ Delete(p) \/ EndSweep(p)

Commands ==
    \/ PlanPrune \/ ApplyPrune \/ PlanConsolidation \/ ApplyConsolidation

Next ==
    \/ \E p \in Starter : Start(p) \/ Sweep(p) \/ Crash(p)
    \/ \E s \in Sid : Capture(s) \/ End(s) \/ EndMove(s)
    \/ Commands
    \/ Day

Spec == Init /\ [][Next]_vars

\* Sessions keep being started, as the loops do, and days pass; a sweep or
\* an end that has begun goes on.  SF, because the model lets a day pass only
\* between sweeps.
FairSpec ==
    /\ Spec
    /\ \A p \in Starter : WF_vars(Start(p)) /\ WF_vars(Sweep(p))
    /\ \A s \in Sid : WF_vars(EndMove(s))
    /\ SF_vars(Day)

-----------------------------------------------------------------------------
(* What must hold. *)

\* A sweep deletes this archived directory in this step.
SweepDeletes(d) ==
    d[2] > 0 /\ Present(d) /\ dir'[d].mark = "gone" /\ todo' # todo

\* "The moved snapshot stays recoverable" for DELETE_AFTER_DAYS: a sweep
\* deletes no directory sooner after a sweep moved it.  Between the move and
\* its stamp the directory is not yet protected, and the date in the id of a
\* session may be old enough for a second sweep, or for the one after a crash.
SnapshotRecoverable ==
    [][ \A d \in Place :
          SweepDeletes(d) /\ dir[d].swept => dir[d].held > DeleteAfter ]_vars

\* It does stay, whatever captures, ends, prunes and consolidations come in
\* between, as long as sweeps do not overlap and none dies before the stamp.
SnapshotKept ==
    [][ ~rough =>
          \A d \in Place :
            SweepDeletes(d) /\ dir[d].swept => dir[d].held > DeleteAfter ]_vars

\* No race and no crash shortens the two stages together: no sweep deletes
\* anything of a session that began in the last MOVE + DELETE days.
YoungSessionKept ==
    [][ \A d \in Place :
          SweepDeletes(d) => idAge[d[1]] > MoveAfter + DeleteAfter ]_vars

\* "Tier 2 (bounded)": of a session that has ended nothing stays for good,
\* unless a crash has left a stamp that cannot be read.
EndedGone ==
    \A s \in Sid :
      life[s] = "ended" ~>
        \/ \A d \in Archived(s) \cup {Session(s)} : ~Present(d)
        \/ \E d \in Archived(s) : dir[d].mark = "torn"

=============================================================================
