----------------------- MODULE SessionRetentionProofs -----------------------
(***************************************************************************)
(* Proofs about the session directories, for every set of sessions and of  *)
(* starting processes and for all windows.                                 *)
(***************************************************************************)
EXTENDS SessionRetention, TLAPS

\* What a directory and its stamp look like after each of the steps.
LEMMA DirFacts ==
    /\ Gone \in Dir
    /\ \A b \in BOOLEAN : Unstamped(b) \in Dir
    /\ \A r \in Dir : Torn(r) \in Dir /\ Dated(r) \in Dir
    /\ \A r \in Dir, b \in BOOLEAN :
         Merged(r, b) \in Dir /\ DayOlder(r, b) \in Dir
<1> USE SizeAssumption DEF MaxAge, Dir
<1>1. Gone \in Dir
  BY DEF Gone
<1>2. ASSUME NEW b \in BOOLEAN PROVE Unstamped(b) \in Dir
  BY DEF Unstamped
<1>3. ASSUME NEW r \in Dir PROVE Torn(r) \in Dir /\ Dated(r) \in Dir
  BY DEF Torn, Dated
<1>4. ASSUME NEW r \in Dir, NEW b \in BOOLEAN PROVE Merged(r, b) \in Dir
  BY DEF Merged
<1>5. ASSUME NEW r \in Dir, NEW b \in BOOLEAN PROVE DayOlder(r, b) \in Dir
  BY DEF DayOlder, Older
<1> QED
  BY <1>1, <1>2, <1>3, <1>4, <1>5

\* Every name of a session's directories is a place.
LEMMA PlaceFacts ==
    ASSUME NEW s \in Sid
    PROVE  /\ Session(s) \in Place
           /\ Archived(s) \subseteq Place
           /\ \A n \in 1..Slots : <<s, n>> \in Place /\ <<s, n>> # Session(s)
BY SizeAssumption DEF Session, Archived, Place

\* The move of a session leaves only well-formed directories.
LEMMA MoveToDir ==
    ASSUME NEW s \in Sid, NEW n \in 1..Slots, NEW b \in BOOLEAN,
           dir \in [Place -> Dir], MoveTo(s, <<s, n>>, b)
    PROVE  dir' \in [Place -> Dir]
<1> DEFINE new == IF Present(<<s, n>>) THEN Merged(dir[<<s, n>>], b)
                                      ELSE Unstamped(b)
<1>1. new \in Dir
  BY PlaceFacts, DirFacts
<1>2. dir' = [dir EXCEPT ![Session(s)] = Gone, ![<<s, n>>] = new]
  BY DEF MoveTo
<1> HIDE DEF new
<1> QED
  BY <1>1, <1>2, DirFacts

LEMMA TypeInit == Init => TypeOK
<1> SUFFICES ASSUME Init PROVE TypeOK
  OBVIOUS
<1>1. dir \in [Place -> Dir]
  BY DirFacts DEF Init
<1>2. idAge \in [Sid -> 0..MaxAge] /\ dst \in [Starter -> 1..Slots]
  BY SizeAssumption DEF Init, MaxAge
<1>3. /\ life \in [Sid -> {"unborn", "live", "ending", "ended"}]
      /\ pc \in [Starter -> {"idle", "check", "mark", "tier1", "move",
                             "stamp", "date", "tier2"}]
      /\ protect \in [Starter -> SUBSET Sid]
      /\ todo \in [Starter -> SUBSET Place]
      /\ src \in [Starter -> Sid]
  BY DEF Init
<1>4. /\ due \in BOOLEAN /\ rough \in BOOLEAN
      /\ command \in {"none", "prune", "consolidate"}
      /\ plan \in SUBSET Place
  BY DEF Init
<1>5. crashes \in 0..MaxCrashes
  BY SizeAssumption DEF Init
<1> QED
  BY <1>1, <1>2, <1>3, <1>4, <1>5 DEF TypeOK

LEMMA TypeStep == TypeOK /\ [Next]_vars => TypeOK'
<1> SUFFICES ASSUME TypeOK, [Next]_vars PROVE TypeOK'
  OBVIOUS
<1> USE SizeAssumption DEF TypeOK, MaxAge
<1>1. ASSUME NEW p \in Starter, Start(p) PROVE TypeOK'
  <2>1. dir' \in [Place -> Dir]
    BY <1>1, DirFacts DEF Start
  <2>2. protect' \in [Starter -> SUBSET Sid]
    BY <1>1 DEF Start, AtMostOne
  <2> QED
    BY <1>1, <2>1, <2>2 DEF Start
<1>2. ASSUME NEW p \in Starter, Throttled(p) PROVE TypeOK'
  BY <1>2 DEF Throttled, Finish
<1>3. ASSUME NEW p \in Starter, NotThrottled(p) PROVE TypeOK'
  BY <1>3 DEF NotThrottled
<1>4. ASSUME NEW p \in Starter, MarkRun(p) PROVE TypeOK'
  <2>1. {Session(s) : s \in {t \in Sid : Present(Session(t))
                                          /\ t \notin protect[p]}}
          \in SUBSET Place
    BY PlaceFacts
  <2> QED
    BY <1>4, <2>1 DEF MarkRun
<1>5. ASSUME NEW p \in Starter, Keep1(p) PROVE TypeOK'
  BY <1>5 DEF Keep1
<1>6. ASSUME NEW p \in Starter, Choose(p) PROVE TypeOK'
  BY <1>6 DEF Choose, Index, Place
<1>7. ASSUME NEW p \in Starter, Move(p) PROVE TypeOK'
  <2>1. dir' \in [Place -> Dir]
    BY <1>7, MoveToDir DEF Move, Target
  <2> QED
    BY <1>7, <2>1 DEF Move
<1>8. ASSUME NEW p \in Starter, MoveLost(p) PROVE TypeOK'
  BY <1>8 DEF MoveLost
<1>9. ASSUME NEW p \in Starter, StampOpen(p) PROVE TypeOK'
  <2>1. Target(p) \in Place
    BY PlaceFacts DEF Target
  <2> QED
    BY <1>9, <2>1, DirFacts DEF StampOpen
<1>10. ASSUME NEW p \in Starter, StampFails(p) PROVE TypeOK'
  BY <1>10 DEF StampFails, Finish
<1>11. ASSUME NEW p \in Starter, StampDate(p) PROVE TypeOK'
  <2>1. Target(p) \in Place
    BY PlaceFacts DEF Target
  <2> QED
    BY <1>11, <2>1, DirFacts DEF StampDate
<1>12. ASSUME NEW p \in Starter, BeginTier2(p) PROVE TypeOK'
  <2>1. UNION {Archived(s) : s \in Sid} \subseteq Place
    BY PlaceFacts
  <2> QED
    BY <1>12, <2>1 DEF BeginTier2
<1>13. ASSUME NEW p \in Starter, Keep2(p) PROVE TypeOK'
  BY <1>13 DEF Keep2
<1>14. ASSUME NEW p \in Starter, Delete(p) PROVE TypeOK'
  BY <1>14, DirFacts DEF Delete
<1>15. ASSUME NEW p \in Starter, EndSweep(p) PROVE TypeOK'
  BY <1>15 DEF EndSweep, Finish
<1>16. ASSUME NEW p \in Starter, Crash(p) PROVE TypeOK'
  BY <1>16 DEF Crash, Finish
<1>17. ASSUME NEW s \in Sid, Capture(s) PROVE TypeOK'
  BY <1>17, DirFacts, PlaceFacts DEF Capture, sweep
<1>18. ASSUME NEW s \in Sid, End(s) PROVE TypeOK'
  BY <1>18 DEF End, sweep
<1>19. ASSUME NEW s \in Sid, EndMove(s) PROVE TypeOK'
  <2>1. dir' \in [Place -> Dir]
    <3>1. CASE Present(Session(s))
      <4>1. MoveTo(s, <<s, 1>>, FALSE)
        BY <1>19, <3>1 DEF EndMove
      <4>2. 1 \in 1..Slots
        OBVIOUS
      <4> QED
        BY <4>1, <4>2, MoveToDir
    <3> QED
      BY <1>19, <3>1 DEF EndMove
  <2> QED
    BY <1>19, <2>1 DEF EndMove, sweep
<1>20. CASE PlanPrune
  BY <1>20 DEF PlanPrune, sweep
<1>21. CASE ApplyPrune
  BY <1>21, DirFacts DEF ApplyPrune, sweep
<1>22. CASE PlanConsolidation
  <2>1. PICK own \in AtMostOne("live") :
          plan' \in SUBSET {Session(s) : s \in
                              {t \in Sid \ own : Present(Session(t))}}
    BY <1>22 DEF PlanConsolidation
  <2>2. plan' \in SUBSET Place
    BY <2>1, PlaceFacts
  <2> QED
    BY <1>22, <2>2 DEF PlanConsolidation, sweep
<1>23. CASE ApplyConsolidation
  <2>1. dir' \in [Place -> Dir]
    BY <1>23, DirFacts DEF ApplyConsolidation
  <2> QED
    BY <1>23, <2>1 DEF ApplyConsolidation, sweep
<1>24. CASE Day
  <2>1. dir' \in [Place -> Dir]
    <3>1. ASSUME NEW d \in Place PROVE DayOlder(dir[d], d[2] > 0) \in Dir
      <4>1. (d[2] > 0) \in BOOLEAN
        OBVIOUS
      <4> QED
        BY <4>1, DirFacts
    <3> QED
      BY <1>24, <3>1, DirFacts DEF Day
  <2>2. idAge' \in [Sid -> 0..MaxAge]
    <3>1. \A s \in Sid : Older(idAge[s], MaxAge) \in 0..MaxAge
      BY DEF Older
    <3> QED
      BY <1>24, <3>1 DEF Day
  <2> QED
    BY <1>24, <2>1, <2>2 DEF Day, sweep
<1>25. CASE UNCHANGED vars
  BY <1>25 DEF vars, sweep
<1> QED
  BY <1>1, <1>2, <1>3, <1>4, <1>5, <1>6, <1>7, <1>8, <1>9, <1>10, <1>11,
     <1>12, <1>13, <1>14, <1>15, <1>16, <1>17, <1>18, <1>19, <1>20, <1>21,
     <1>22, <1>23, <1>24, <1>25
     DEF Next, Sweep, Commands

\* The state has its type: no step makes a directory, a stamp or a name that
\* the model has no place for.
THEOREM TypeCorrect == Spec => []TypeOK
BY TypeInit, TypeStep, PTL DEF Spec

-----------------------------------------------------------------------------
(* The two stages of the retention together. *)

\* Only sessions older than MOVE_AFTER_DAYS are moved and stamped, and a
\* session's id stays that much ahead of its stamps as the days go by.
MovesOld ==
    \A p \in Starter :
      pc[p] \in {"move", "stamp", "date"} => idAge[src[p]] > MoveAfter
TornOld == \A d \in Place : dir[d].mark = "torn" => idAge[d[1]] > MoveAfter
DatedOld ==
    \A d \in Place :
      dir[d].mark = "dated" => \/ idAge[d[1]] = MaxAge
                              \/ idAge[d[1]] > MoveAfter + dir[d].age
UnbornNew == \A s \in Sid : life[s] = "unborn" => idAge[s] = 0

AgeInv == TypeOK /\ MovesOld /\ TornOld /\ DatedOld /\ UnbornNew

\* A step that lets no time pass, begins no move and writes no stamp.
LEMMA CalmStep ==
    ASSUME AgeInv, TypeOK', UNCHANGED idAge,
           \A s \in Sid : life'[s] = "unborn" => life[s] = "unborn",
           \A p \in Starter :
             pc'[p] \in {"move", "stamp", "date"} =>
               pc[p] \in {"move", "stamp", "date"} /\ src'[p] = src[p],
           \A d \in Place :
             \/ dir'[d].mark \in {"gone", "none"}
             \/ dir'[d].mark = dir[d].mark /\ dir'[d].age = dir[d].age
    PROVE  AgeInv'
<1>1. MovesOld'
  BY DEF AgeInv, MovesOld
<1>2. TornOld'
  BY DEF AgeInv, TornOld
<1>3. DatedOld'
  BY DEF AgeInv, DatedOld
<1>4. UnbornNew'
  BY DEF AgeInv, UnbornNew
<1> QED
  BY <1>1, <1>2, <1>3, <1>4 DEF AgeInv

\* What the moves and the stamps do to each directory.
LEMMA MoveToMarks ==
    ASSUME NEW s \in Sid, NEW n \in 1..Slots, NEW b \in BOOLEAN,
           dir \in [Place -> Dir], MoveTo(s, <<s, n>>, b), NEW d \in Place
    PROVE  \/ dir'[d].mark \in {"gone", "none"}
           \/ dir'[d].mark = dir[d].mark /\ dir'[d].age = dir[d].age
<1>1. d # <<s, n>> => dir'[d] = Gone \/ dir'[d] = dir[d]
  BY DEF MoveTo
<1>2. d = <<s, n>> => \/ dir'[d] = Merged(dir[d], b)
                      \/ dir'[d] = Unstamped(b)
  BY PlaceFacts DEF MoveTo
<1> QED
  BY <1>1, <1>2 DEF Gone, Merged, Unstamped

LEMMA AgeInvHolds == Spec => []AgeInv
<1>1. Init => AgeInv
  <2> SUFFICES ASSUME Init PROVE MovesOld /\ TornOld /\ DatedOld /\ UnbornNew
    BY TypeInit DEF AgeInv
  <2>1. MovesOld
    BY DEF Init, MovesOld
  <2>2. TornOld /\ DatedOld
    BY DEF Init, Gone, TornOld, DatedOld
  <2>3. UnbornNew
    BY DEF Init, UnbornNew
  <2> QED
    BY <2>1, <2>2, <2>3
<1>2. AgeInv /\ [Next]_vars => AgeInv'
  <2> SUFFICES ASSUME AgeInv, [Next]_vars PROVE AgeInv'
    OBVIOUS
  <2>0. TypeOK /\ TypeOK'
    BY TypeStep DEF AgeInv
  <2> USE <2>0 DEF TypeOK
  <2>1. ASSUME NEW p \in Starter, Start(p) PROVE AgeInv'
    BY <2>1, CalmStep DEF Start, Unstamped
  <2>2. ASSUME NEW p \in Starter,
               \/ Throttled(p) \/ NotThrottled(p) \/ MarkRun(p) \/ Keep1(p)
               \/ MoveLost(p) \/ StampFails(p) \/ BeginTier2(p) \/ Keep2(p)
               \/ EndSweep(p) \/ Crash(p)
        PROVE  AgeInv'
    <3>1. UNCHANGED <<life, idAge, dir, src>>
      BY <2>2 DEF Throttled, NotThrottled, MarkRun, Keep1, MoveLost,
                  StampFails, BeginTier2, Keep2, EndSweep, Crash
    <3>2. \A q \in Starter : pc'[q] \in {"move", "stamp", "date"} =>
                              pc'[q] = pc[q]
      BY <2>2 DEF Throttled, NotThrottled, MarkRun, Keep1, MoveLost,
                  StampFails, BeginTier2, Keep2, EndSweep, Crash, Finish
    <3> QED
      BY <3>1, <3>2, CalmStep
  <2>3. ASSUME NEW p \in Starter, Choose(p) PROVE AgeInv'
    <3>1. MovesOld'
      BY <2>3 DEF Choose, Movable, AgeInv, MovesOld
    <3> QED
      BY <2>3, <3>1 DEF Choose, AgeInv, TornOld, DatedOld, UnbornNew
  <2>4. ASSUME NEW p \in Starter, Move(p) PROVE AgeInv'
    <3>1. \A d \in Place :
            \/ dir'[d].mark \in {"gone", "none"}
            \/ dir'[d].mark = dir[d].mark /\ dir'[d].age = dir[d].age
      BY <2>4, MoveToMarks DEF Move, Target
    <3> QED
      BY <2>4, <3>1, CalmStep DEF Move
  <2>5. ASSUME NEW p \in Starter, StampOpen(p) PROVE AgeInv'
    <3>1. /\ idAge[src[p]] > MoveAfter
          /\ Target(p) \in Place /\ Target(p)[1] = src[p]
      BY <2>5, PlaceFacts DEF StampOpen, AgeInv, MovesOld, Target
    <3>2. \A d \in Place : d # Target(p) => dir'[d] = dir[d]
      BY <2>5 DEF StampOpen
    <3>3. dir'[Target(p)].mark = "torn"
      BY <2>5, <3>1 DEF StampOpen, Torn
    <3>4. TornOld' /\ DatedOld'
      BY <2>5, <3>1, <3>2, <3>3
         DEF StampOpen, AgeInv, TornOld, DatedOld
    <3> QED
      BY <2>5, <3>4 DEF StampOpen, AgeInv, MovesOld, UnbornNew
  <2>6. ASSUME NEW p \in Starter, StampDate(p) PROVE AgeInv'
    <3>1. Target(p) \in Place
      BY PlaceFacts DEF Target
    <3>2. \A d \in Place : d # Target(p) => dir'[d] = dir[d]
      BY <2>6 DEF StampDate
    <3>3. \/ dir'[Target(p)] = dir[Target(p)]
          \/ /\ dir[Target(p)].mark = "torn"
             /\ dir'[Target(p)].mark = "dated" /\ dir'[Target(p)].age = 0
      BY <2>6, <3>1 DEF StampDate, Dated
    <3>4. TornOld' /\ DatedOld'
      BY <2>6, <3>1, <3>2, <3>3, SizeAssumption
         DEF StampDate, AgeInv, TornOld, DatedOld
    <3> QED
      BY <2>6, <3>4 DEF StampDate, AgeInv, MovesOld, UnbornNew
  <2>7. ASSUME NEW p \in Starter, Delete(p) PROVE AgeInv'
    BY <2>7, CalmStep DEF Delete, Gone
  <2>8. ASSUME NEW s \in Sid, Capture(s) PROVE AgeInv'
    BY <2>8, CalmStep DEF Capture, Unstamped, sweep
  <2>9. ASSUME NEW s \in Sid, End(s) PROVE AgeInv'
    BY <2>9, CalmStep DEF End, sweep
  <2>10. ASSUME NEW s \in Sid, EndMove(s) PROVE AgeInv'
    <3>1. \A d \in Place :
            \/ dir'[d].mark \in {"gone", "none"}
            \/ dir'[d].mark = dir[d].mark /\ dir'[d].age = dir[d].age
      <4>1. CASE Present(Session(s))
        <5>1. MoveTo(s, <<s, 1>>, FALSE)
          BY <2>10, <4>1 DEF EndMove
        <5>2. 1 \in 1..Slots
          BY SizeAssumption
        <5> QED
          BY <5>1, <5>2, MoveToMarks
      <4> QED
        BY <2>10, <4>1 DEF EndMove
    <3> QED
      BY <2>10, <3>1, CalmStep DEF EndMove, sweep
  <2>11. CASE PlanPrune \/ PlanConsolidation \/ UNCHANGED vars
    BY <2>11, CalmStep DEF PlanPrune, PlanConsolidation, vars, sweep
  <2>12. CASE ApplyPrune
    BY <2>12, CalmStep DEF ApplyPrune, Gone, sweep
  <2>13. CASE ApplyConsolidation
    <3>1. \A d \in Place : \/ dir'[d] = Gone \/ dir'[d] = Unstamped(FALSE)
                           \/ dir'[d] = dir[d]
      BY <2>13 DEF ApplyConsolidation
    <3> QED
      BY <2>13, <3>1, CalmStep DEF ApplyConsolidation, Gone, Unstamped, sweep
  <2>14. CASE Day
    <3> USE SizeAssumption DEF MaxAge
    <3>1. \A s \in Sid : /\ life[s] = "unborn" => idAge'[s] = 0
                         /\ life[s] # "unborn" =>
                              idAge'[s] = Older(idAge[s], MaxAge)
      BY <2>14 DEF Day
    <3>2. \A d \in Place :
            /\ ~Present(d) => dir'[d] = Gone
            /\ Present(d) => dir'[d] = DayOlder(dir[d], d[2] > 0)
      BY <2>14 DEF Day
    <3>3. ASSUME NEW d \in Place, dir'[d].mark \in {"torn", "dated"}
          PROVE  /\ d[1] \in Sid /\ dir[d] \in Dir
                 /\ dir[d].mark = dir'[d].mark
                 /\ dir[d].mark = "dated" =>
                      dir'[d].age = Older(dir[d].age, MaxAge)
      BY <3>2, <3>3 DEF Place, Gone, DayOlder
    <3>4. \A d \in Place : dir[d].mark = "dated" => dir[d].age \in 0..MaxAge
      BY DEF Dir
    <3>5. ASSUME NEW d \in Place, dir'[d].mark = "torn"
          PROVE  idAge'[d[1]] > MoveAfter
      <4>1. dir[d].mark = "torn" /\ d[1] \in Sid
        BY <3>3, <3>5
      <4>2. idAge[d[1]] > MoveAfter /\ idAge[d[1]] \in 0..MaxAge
        BY <4>1 DEF AgeInv, TornOld
      <4>3. life[d[1]] # "unborn"
        BY <4>1, <4>2 DEF AgeInv, UnbornNew
      <4>4. idAge'[d[1]] = Older(idAge[d[1]], MaxAge)
        BY <3>1, <4>1, <4>3
      <4> QED
        BY <4>2, <4>4 DEF Older
    <3>6. ASSUME NEW d \in Place, dir'[d].mark = "dated"
          PROVE  \/ idAge'[d[1]] = MaxAge
                 \/ idAge'[d[1]] > MoveAfter + dir'[d].age
      <4>1. dir[d].mark = "dated" /\ d[1] \in Sid
        BY <3>3, <3>6
      <4>2. dir[d].age \in 0..MaxAge /\ idAge[d[1]] \in 0..MaxAge
        BY <3>4, <4>1
      <4>3. \/ idAge[d[1]] = MaxAge
            \/ idAge[d[1]] > MoveAfter + dir[d].age
        BY <4>1 DEF AgeInv, DatedOld
      <4>4. life[d[1]] # "unborn"
        BY <4>1, <4>2, <4>3 DEF AgeInv, UnbornNew
      <4>5. /\ idAge'[d[1]] = Older(idAge[d[1]], MaxAge)
            /\ dir'[d].age = Older(dir[d].age, MaxAge)
        BY <3>1, <3>3, <3>6, <4>1, <4>4
      <4> QED
        BY <4>2, <4>3, <4>5 DEF Older
    <3>7. MovesOld'
      BY <2>14 DEF Day, MovesOld, sweep
    <3>8. UnbornNew'
      BY <2>14, <3>1 DEF Day, UnbornNew
    <3> QED
      BY <3>5, <3>6, <3>7, <3>8 DEF AgeInv, TornOld, DatedOld
  <2> QED
    BY <2>1, <2>2, <2>3, <2>4, <2>5, <2>6, <2>7, <2>8, <2>9, <2>10, <2>11,
       <2>12, <2>13, <2>14
       DEF Next, Sweep, Commands
<1> QED
  BY <1>1, <1>2, PTL DEF Spec

\* A step that deletes an archived directory and moves a sweep on is the
\* second tier's, and deletes what is expired.
LEMMA OnlySweepsDelete ==
    ASSUME TypeOK, Next, NEW d \in Place, SweepDeletes(d)
    PROVE  \E p \in Starter, e \in Place :
             pc[p] = "tier2" /\ Expired(e) /\ dir' = [dir EXCEPT ![e] = Gone]
<1>1. dir' # dir /\ todo' # todo
  BY DEF SweepDeletes, Present
<1>2. \E p \in Starter : Delete(p)
  BY <1>1
     DEF Next, Sweep, Commands, Start, Throttled, NotThrottled, MarkRun,
         Keep1, Choose, Move, MoveLost, StampOpen, StampFails, StampDate,
         BeginTier2, Keep2, EndSweep, Crash, Capture, End, EndMove,
         PlanPrune, ApplyPrune, PlanConsolidation, ApplyConsolidation, Day,
         sweep
<1> QED
  BY <1>2 DEF Delete, TypeOK

\* No race of sweeps, ends, captures and prunes, and no crash between a move
\* and its stamp, lets a sweep delete anything of a session younger than
\* MOVE_AFTER_DAYS and DELETE_AFTER_DAYS together.
THEOREM YoungKept == Spec => YoungSessionKept
<1>1. AgeInv /\ [Next]_vars =>
        [\A d \in Place : SweepDeletes(d) =>
                            idAge[d[1]] > MoveAfter + DeleteAfter]_vars
  <2> SUFFICES ASSUME AgeInv, Next, NEW d \in Place, SweepDeletes(d)
               PROVE  idAge[d[1]] > MoveAfter + DeleteAfter
    BY DEF vars, sweep, SweepDeletes
  <2>1. PICK e \in Place : Expired(e) /\ dir' = [dir EXCEPT ![e] = Gone]
    BY OnlySweepsDelete DEF AgeInv
  <2>2. Expired(d)
    BY <2>1 DEF SweepDeletes, Present, AgeInv, TypeOK
  <2>3. d[1] \in Sid /\ (dir[d].mark = "dated" => dir[d].age \in 0..MaxAge)
    BY DEF Place, AgeInv, TypeOK, Dir
  <2> QED
    BY <2>2, <2>3, SizeAssumption
       DEF Expired, AgeInv, TypeOK, DatedOld, MaxAge
<1> QED
  BY <1>1, AgeInvHolds, PTL DEF Spec, YoungSessionKept

-----------------------------------------------------------------------------
(* The second stage alone. *)

\* As long as nothing was rough one sweep runs at a time; a session whose end
\* is going to archive it has its name in archived/ for itself; a sweep moves
\* nothing into what an earlier sweep has moved; and what a sweep has moved is
\* stamped at once, with a date on which it already was there.
OneSweep ==
    ~rough => \A p, q \in Starter : Sweeping(p) /\ Sweeping(q) => p = q
EndingFree ==
    \A s \in Sid :
      life[s] = "ending" /\ Present(Session(s)) => ~Present(<<s, 1>>)
MoveFree ==
    ~rough => \A p \in Starter :
                pc[p] = "move" =>
                  \/ dir[Target(p)].mark = "gone"
                  \/ dir[Target(p)].mark = "none" /\ ~dir[Target(p)].swept
SweptStamped ==
    ~rough => \A d \in Place :
                d[2] > 0 /\ dir[d].swept /\ dir[d].mark = "none" =>
                  \E p \in Starter : pc[p] = "stamp" /\ Target(p) = d
SweptDated ==
    ~rough => \A d \in Place :
                d[2] > 0 /\ dir[d].swept /\ dir[d].mark = "dated" =>
                  dir[d].held >= dir[d].age \/ dir[d].held > DeleteAfter

SweptInv == OneSweep /\ MoveFree /\ SweptStamped /\ SweptDated

\* The name stays free until the session that ends has moved or is gone.
LEMMA EndingStep == TypeOK /\ EndingFree /\ [Next]_vars => EndingFree'
<1> SUFFICES ASSUME TypeOK, EndingFree, [Next]_vars PROVE EndingFree'
  OBVIOUS
<1> USE DEF TypeOK
<1>0. /\ \A s \in Sid : /\ Session(s) \in Place
                        /\ <<s, 1>> \in Place /\ <<s, 1>> # Session(s)
      /\ \A s \in Sid, n \in 1..Slots :
           <<s, n>> \in Place /\ <<s, n>> # Session(s)
  <2>1. 1 \in 1..Slots
    BY SizeAssumption
  <2> QED
    BY <2>1, PlaceFacts
<1>1. ASSUME UNCHANGED dir,
             \A s \in Sid : life'[s] = "ending" => life[s] = "ending"
      PROVE  EndingFree'
  BY <1>1 DEF EndingFree, Present
<1>2. ASSUME NEW p \in Starter, Start(p) PROVE EndingFree'
  <2>1. \A s \in Sid : life'[s] = "ending" =>
          /\ life[s] = "ending"
          /\ dir'[Session(s)] = dir[Session(s)]
          /\ dir'[<<s, 1>>] = dir[<<s, 1>>]
    BY <1>0, <1>2 DEF Start, AtMostOne, Session
  <2> QED
    BY <2>1 DEF EndingFree, Present
<1>3. ASSUME NEW p \in Starter,
             \/ Throttled(p) \/ NotThrottled(p) \/ MarkRun(p) \/ Keep1(p)
             \/ Choose(p) \/ MoveLost(p) \/ StampFails(p) \/ BeginTier2(p)
             \/ Keep2(p) \/ EndSweep(p) \/ Crash(p)
      PROVE  EndingFree'
  <2>1. UNCHANGED <<life, dir>>
    BY <1>3 DEF Throttled, NotThrottled, MarkRun, Keep1, Choose, MoveLost,
                StampFails, BeginTier2, Keep2, EndSweep, Crash
  <2> QED
    BY <1>1, <2>1
<1>4. ASSUME NEW s \in Sid, NEW n \in 1..Slots, NEW b \in BOOLEAN,
             MoveTo(s, <<s, n>>, b),
             \A t \in Sid : life'[t] = "ending" => life[t] = "ending"
      PROVE  EndingFree'
  <2> SUFFICES ASSUME NEW t \in Sid, life[t] = "ending", Present(Session(t))'
               PROVE  ~Present(<<t, 1>>)'
    BY <1>4 DEF EndingFree
  <2>1. dir'[Session(s)].mark = "gone"
    BY <1>0, <1>4 DEF MoveTo, Gone
  <2>2. t # s
    BY <2>1 DEF Present
  <2>3. dir'[Session(t)] = dir[Session(t)] /\ dir'[<<t, 1>>] = dir[<<t, 1>>]
    BY <1>0, <1>4, <2>2 DEF MoveTo, Session
  <2> QED
    BY <2>3 DEF EndingFree, Present
<1>5. ASSUME NEW p \in Starter, Move(p) PROVE EndingFree'
  BY <1>4, <1>5 DEF Move, Target
<1>6. ASSUME \A d \in Place : Present(d)' <=> Present(d), UNCHANGED life
      PROVE  EndingFree'
  BY <1>0, <1>6 DEF EndingFree
<1>7. ASSUME NEW p \in Starter, StampOpen(p) \/ StampDate(p) PROVE EndingFree'
  <2>1. Target(p) \in Place
    BY PlaceFacts DEF Target
  <2>2. \A d \in Place : Present(d)' <=> Present(d)
    BY <1>7, <2>1 DEF StampOpen, StampDate, Present, Torn, Dated
  <2> QED
    BY <1>6, <1>7, <2>2 DEF StampOpen, StampDate
<1>8. ASSUME \A d \in Place : dir'[d] = dir[d] \/ dir'[d] = Gone,
             UNCHANGED life
      PROVE  EndingFree'
  BY <1>0, <1>8 DEF EndingFree, Present, Gone
<1>9. ASSUME NEW p \in Starter, Delete(p) PROVE EndingFree'
  BY <1>8, <1>9 DEF Delete
<1>10. CASE ApplyPrune
  BY <1>8, <1>10 DEF ApplyPrune
<1>11. ASSUME NEW s \in Sid, Capture(s) PROVE EndingFree'
  <2>1. \A t \in Sid : t # s => /\ dir'[Session(t)] = dir[Session(t)]
                                /\ dir'[<<t, 1>>] = dir[<<t, 1>>]
    BY <1>0, <1>11 DEF Capture, Session
  <2> QED
    BY <1>11, <2>1 DEF Capture, EndingFree, Present
<1>12. ASSUME NEW s \in Sid, End(s) PROVE EndingFree'
  BY <1>12 DEF End, EndingFree, Present
<1>13. ASSUME NEW s \in Sid, EndMove(s) PROVE EndingFree'
  <2>1. \A t \in Sid : life'[t] = "ending" => life[t] = "ending"
    BY <1>13 DEF EndMove
  <2>2. CASE Present(Session(s))
    <3>1. MoveTo(s, <<s, 1>>, FALSE)
      BY <1>13, <2>2 DEF EndMove
    <3>2. 1 \in 1..Slots
      BY SizeAssumption
    <3> QED
      BY <1>4, <2>1, <3>1, <3>2
  <2>3. CASE ~Present(Session(s))
    BY <1>1, <1>13, <2>1, <2>3 DEF EndMove
  <2> QED
    BY <2>2, <2>3
<1>14. CASE PlanPrune \/ PlanConsolidation \/ UNCHANGED vars
  BY <1>1, <1>14 DEF PlanPrune, PlanConsolidation, vars
<1>15. CASE ApplyConsolidation
  <2>1. \A s \in Sid :
          \/ dir'[Session(s)] = Gone
          \/ /\ dir'[Session(s)] = dir[Session(s)]
             /\ dir'[<<s, 1>>] = dir[<<s, 1>>]
    BY <1>0, <1>15 DEF ApplyConsolidation, Session
  <2>2. UNCHANGED life
    BY <1>15 DEF ApplyConsolidation
  <2> QED
    BY <2>1, <2>2 DEF EndingFree, Present, Gone
<1>16. CASE Day
  BY <1>16 DEF Day, EndingFree
<1> QED
  BY <1>2, <1>3, <1>5, <1>7, <1>9, <1>10, <1>11, <1>12, <1>13, <1>14, <1>15,
     <1>16
     DEF Next, Sweep, Commands

\* archived/ is where the second number of a place is not 0.
LEMMA ArchivedPlace ==
    \A d \in Place : d[2] \in Nat /\ (d[2] > 0 <=> d[2] # 0)
BY SizeAssumption DEF Place

\* A step that begins no sweep and no move, ends none without its stamp, and
\* puts nothing under archived/ that a sweep has brought.
LEMMA SweptCalm ==
    ASSUME TypeOK, SweptInv,
           ~rough' => ~rough,
           \A p \in Starter :
             /\ Sweeping(p)' => Sweeping(p)
             /\ pc'[p] = "move" => /\ pc[p] = "move"
                                   /\ UNCHANGED <<src[p], dst[p]>>
             /\ pc[p] = "stamp" /\ ~rough' =>
                  \/ pc'[p] = "stamp" /\ UNCHANGED <<src[p], dst[p]>>
                  \/ ~Present(Target(p)),
           \A d \in Place : d[2] > 0 => \/ dir'[d] = dir[d] \/ dir'[d] = Gone
                                        \/ dir'[d] = Unstamped(FALSE)
    PROVE  SweptInv'
<1>1. OneSweep'
  BY DEF SweptInv, OneSweep
<1>2. MoveFree'
  <2> SUFFICES ASSUME ~rough', NEW p \in Starter, pc'[p] = "move"
               PROVE  \/ dir'[Target(p)'].mark = "gone"
                      \/ dir'[Target(p)'].mark = "none" /\ ~dir'[Target(p)'].swept
    BY DEF MoveFree
  <2>1. Target(p)' = Target(p)
    BY DEF Target
  <2>2. Target(p) \in Place /\ Target(p)[2] > 0
    BY DEF TypeOK, Target, Place
  <2>3. \/ dir[Target(p)].mark = "gone"
        \/ dir[Target(p)].mark = "none" /\ ~dir[Target(p)].swept
    BY DEF SweptInv, MoveFree
  <2> QED
    BY <2>1, <2>2, <2>3 DEF Gone, Unstamped
<1>3. SweptStamped'
  <2> SUFFICES ASSUME ~rough', NEW d \in Place, d[2] > 0, dir'[d].swept,
                      dir'[d].mark = "none"
               PROVE  \E p \in Starter : pc'[p] = "stamp" /\ Target(p)' = d
    BY DEF SweptStamped
  <2>1. dir[d].swept /\ dir[d].mark = "none"
    BY DEF Gone, Unstamped
  <2>2. PICK p \in Starter : pc[p] = "stamp" /\ Target(p) = d
    BY <2>1 DEF SweptInv, SweptStamped
  <2>3. Present(Target(p))
    BY <2>1, <2>2 DEF Present
  <2> QED
    BY <2>2, <2>3 DEF Target
<1>4. SweptDated'
  BY DEF SweptInv, SweptDated, Gone, Unstamped
<1> QED
  BY <1>1, <1>2, <1>3, <1>4 DEF SweptInv

\* The steps of a sweep, of the one that is under way.
LEMMA SweptSweepStep ==
    ASSUME TypeOK, SweptInv, NEW p \in Starter, Start(p) \/ Sweep(p) \/ Crash(p)
    PROVE  SweptInv'
<1> USE DEF TypeOK
<1>0. /\ \A q \in Starter : Target(q) \in Place /\ Target(q)[2] > 0
      /\ Session(src[p]) \in Place /\ Session(src[p])[2] = 0
  <2>1. ASSUME NEW q \in Starter
        PROVE  Target(q) \in Place /\ Target(q)[2] > 0
    <3>1. src[q] \in Sid /\ dst[q] \in 1..Slots
      OBVIOUS
    <3> QED
      BY <3>1, SizeAssumption DEF Target, Place
  <2>2. Session(src[p]) \in Place /\ Session(src[p])[2] = 0
    BY PlaceFacts DEF Session
  <2> QED
    BY <2>1, <2>2
<1>1. CASE Start(p)
  <2>1. \A d \in Place : d[2] > 0 => dir'[d] = dir[d]
    BY <1>1, ArchivedPlace DEF Start
  <2> QED
    BY <1>1, <2>1, SweptCalm DEF Start, Sweeping
<1>2. CASE \/ Throttled(p) \/ NotThrottled(p) \/ Keep1(p) \/ MoveLost(p)
           \/ StampFails(p) \/ BeginTier2(p) \/ Keep2(p) \/ EndSweep(p)
  <2>1. UNCHANGED <<dir, rough>>
    BY <1>2 DEF Throttled, NotThrottled, Keep1, MoveLost, StampFails,
                BeginTier2, Keep2, EndSweep
  <2>2. \A q \in Starter :
          /\ Sweeping(q)' => Sweeping(q)
          /\ pc'[q] = "move" => /\ pc[q] = "move"
                                /\ UNCHANGED <<src[q], dst[q]>>
          /\ pc[q] = "stamp" =>
               \/ pc'[q] = "stamp" /\ UNCHANGED <<src[q], dst[q]>>
               \/ ~Present(Target(q))
    BY <1>2 DEF Throttled, NotThrottled, Keep1, MoveLost, StampFails,
                BeginTier2, Keep2, EndSweep, Finish, Sweeping
  <2> QED
    BY <2>1, <2>2, SweptCalm
<1>3. CASE Crash(p)
  <2>1. UNCHANGED dir /\ (~rough' => ~rough)
    BY <1>3 DEF Crash
  <2>2. \A q \in Starter :
          /\ Sweeping(q)' => Sweeping(q)
          /\ pc'[q] = "move" => /\ pc[q] = "move"
                                /\ UNCHANGED <<src[q], dst[q]>>
          /\ pc[q] = "stamp" /\ ~rough' =>
               pc'[q] = "stamp" /\ UNCHANGED <<src[q], dst[q]>>
    BY <1>3 DEF Crash, Finish, Sweeping
  <2> QED
    BY <2>1, <2>2, SweptCalm
<1>4. CASE MarkRun(p)
  <2>1. OneSweep'
    BY <1>4 DEF MarkRun, OneSweep, Sweeping
  <2>2. MoveFree' /\ SweptStamped' /\ SweptDated'
    BY <1>4 DEF MarkRun, SweptInv, MoveFree, SweptStamped, SweptDated, Target
  <2> QED
    BY <2>1, <2>2 DEF SweptInv
<1>5. CASE Choose(p)
  <2>1. OneSweep' /\ SweptDated'
    BY <1>5 DEF Choose, SweptInv, OneSweep, Sweeping, SweptDated
  <2>2. MoveFree'
    <3> SUFFICES ASSUME ~rough, NEW q \in Starter, pc'[q] = "move"
                 PROVE  \/ dir[Target(q)'].mark = "gone"
                        \/ dir[Target(q)'].mark = "none"
                             /\ ~dir[Target(q)'].swept
      BY <1>5 DEF Choose, MoveFree
    <3>1. q = p
      BY <1>5 DEF Choose, SweptInv, OneSweep, Sweeping
    <3>2. PICK d \in todo[p], n \in 1..Slots :
            FirstFree(d[1], n) /\ Target(p)' = <<d[1], n>>
      BY <1>5 DEF Choose, Index, Target
    <3>3. ~Present(<<d[1], n>>)
      BY <3>2 DEF FirstFree
    <3> QED
      BY <3>1, <3>2, <3>3 DEF Present
  <2>3. SweptStamped'
    BY <1>5 DEF Choose, SweptInv, SweptStamped, Target
  <2> QED
    BY <2>1, <2>2, <2>3 DEF SweptInv
<1>6. CASE Move(p)
  <2>1. /\ \A q \in Starter : Target(q)' = Target(q)
        /\ UNCHANGED rough
        /\ pc' = [pc EXCEPT ![p] = "stamp"]
    BY <1>6 DEF Move, Target
  <2>2. /\ \A d \in Place : d[2] > 0 /\ d # Target(p) => dir'[d] = dir[d]
        /\ dir'[Target(p)] = IF Present(Target(p))
                               THEN Merged(dir[Target(p)], TRUE)
                               ELSE Unstamped(TRUE)
    <3>1. Target(p) # Session(src[p])
      BY <1>0
    <3>2. MoveTo(src[p], Target(p), TRUE)
      BY <1>6 DEF Move
    <3>3. \A d \in Place : d[2] > 0 => d # Session(src[p])
      BY <1>0, ArchivedPlace
    <3> QED
      BY <1>0, <3>1, <3>2, <3>3 DEF MoveTo
  <2>3. ~rough => dir'[Target(p)].mark = "none"
    BY <1>6, <2>2 DEF Move, SweptInv, MoveFree, Present, Merged, Unstamped
  <2>4. OneSweep'
    BY <2>1, <1>6 DEF Move, SweptInv, OneSweep, Sweeping
  <2>5. MoveFree'
    <3>1. \A q \in Starter : ~rough => pc'[q] # "move"
      BY <1>6, <2>1 DEF Move, SweptInv, OneSweep, Sweeping
    <3> QED
      BY <2>1, <3>1 DEF MoveFree
  <2>6. SweptStamped'
    <3> SUFFICES ASSUME ~rough, NEW d \in Place, d[2] > 0, dir'[d].swept,
                        dir'[d].mark = "none"
                 PROVE  \E q \in Starter : pc'[q] = "stamp" /\ Target(q) = d
      BY <2>1 DEF SweptStamped
    <3>1. CASE d = Target(p)
      BY <2>1, <3>1
    <3>2. CASE d # Target(p)
      BY <2>1, <2>2, <3>2 DEF SweptInv, SweptStamped
    <3> QED
      BY <3>1, <3>2
  <2>7. SweptDated'
    BY <2>1, <2>2, <2>3 DEF SweptInv, SweptDated
  <2> QED
    BY <2>4, <2>5, <2>6, <2>7 DEF SweptInv
<1>7. CASE StampOpen(p) \/ StampDate(p)
  <2>1. /\ \A q \in Starter : Target(q)' = Target(q)
        /\ UNCHANGED rough
        /\ \/ pc[p] = "stamp" /\ pc' = [pc EXCEPT ![p] = "date"]
           \/ pc[p] = "date" /\ pc' = [pc EXCEPT ![p] = "tier1"]
    BY <1>7 DEF StampOpen, StampDate, Target
  <2>2. /\ \A d \in Place : d # Target(p) => dir'[d] = dir[d]
        /\ \/ dir'[Target(p)] = Torn(dir[Target(p)])
           \/ dir'[Target(p)] = Dated(dir[Target(p)])
           \/ pc[p] = "date" /\ dir'[Target(p)] = dir[Target(p)]
    BY <1>0, <1>7 DEF StampOpen, StampDate
  <2>3. \/ dir'[Target(p)].mark = "torn"
        \/ /\ dir'[Target(p)].mark = "dated" /\ dir'[Target(p)].age = 0
           /\ dir'[Target(p)].held \in Nat
        \/ pc[p] = "date" /\ dir'[Target(p)] = dir[Target(p)]
    BY <1>0, <2>2, SizeAssumption DEF Torn, Dated, Dir
  <2>4. OneSweep'
    BY <2>1 DEF SweptInv, OneSweep, Sweeping
  <2>5. MoveFree'
    <3>1. \A q \in Starter : ~rough => pc'[q] # "move"
      BY <2>1 DEF SweptInv, OneSweep, Sweeping
    <3> QED
      BY <2>1, <3>1 DEF MoveFree
  <2>6. SweptStamped'
    <3> SUFFICES ASSUME ~rough, NEW d \in Place, d[2] > 0, dir'[d].swept,
                        dir'[d].mark = "none"
                 PROVE  \E q \in Starter : pc'[q] = "stamp" /\ Target(q) = d
      BY <2>1 DEF SweptStamped
    <3>1. dir'[d] = dir[d] /\ (d = Target(p) => pc[p] = "date")
      BY <2>2, <2>3
    <3>2. PICK q \in Starter : pc[q] = "stamp" /\ Target(q) = d
      BY <3>1 DEF SweptInv, SweptStamped
    <3>3. q # p
      BY <2>1, <3>1, <3>2
    <3> QED
      BY <2>1, <3>2, <3>3
  <2>7. SweptDated'
    <3>1. \A d \in Place : dir'[d].mark = "dated" =>
            \/ dir'[d] = dir[d]
            \/ dir'[d].age = 0 /\ dir'[d].held \in Nat
      BY <2>2, <2>3
    <3> QED
      BY <2>1, <3>1 DEF SweptInv, SweptDated
  <2> QED
    BY <2>4, <2>5, <2>6, <2>7 DEF SweptInv
<1>8. CASE Delete(p)
  <2>1. \A d \in Place : dir'[d] = dir[d] \/ dir'[d] = Gone
    BY <1>8 DEF Delete
  <2> QED
    BY <1>8, <2>1, SweptCalm DEF Delete, Sweeping
<1> QED
  BY <1>1, <1>2, <1>3, <1>4, <1>5, <1>6, <1>7, <1>8 DEF Sweep

\* Captures, ends, prunes, consolidations and the passing of days: an end
\* merges its session into nothing, and a day ages stamps and stays alike.
LEMMA SweptOtherStep ==
    ASSUME TypeOK, EndingFree, SweptInv,
           \/ \E s \in Sid : Capture(s) \/ End(s) \/ EndMove(s)
           \/ Commands \/ Day \/ UNCHANGED vars
    PROVE  SweptInv'
<1> USE DEF TypeOK
<1>1. ASSUME UNCHANGED <<pc, src, dst, rough>>,
             \A d \in Place : d[2] > 0 => \/ dir'[d] = dir[d]
                                          \/ dir'[d] = Gone
                                          \/ dir'[d] = Unstamped(FALSE)
      PROVE  SweptInv'
  <2>1. \A p \in Starter : Sweeping(p)' => Sweeping(p)
    BY <1>1 DEF Sweeping
  <2> QED
    BY <1>1, <2>1, SweptCalm
<1>2. ASSUME NEW s \in Sid, Capture(s) PROVE SweptInv'
  <2>1. \A d \in Place : d[2] > 0 => dir'[d] = dir[d]
    <3>1. Session(s)[2] = 0
      BY DEF Session
    <3> QED
      BY <1>2, <3>1, ArchivedPlace DEF Capture
  <2> QED
    BY <1>1, <1>2, <2>1 DEF Capture, sweep
<1>3. ASSUME NEW s \in Sid, End(s) PROVE SweptInv'
  BY <1>1, <1>3 DEF End, sweep
<1>4. ASSUME NEW s \in Sid, EndMove(s) PROVE SweptInv'
  <2>1. CASE Present(Session(s))
    <3>1. MoveTo(s, <<s, 1>>, FALSE) /\ ~Present(<<s, 1>>)
      BY <1>4, <2>1 DEF EndMove, EndingFree
    <3>2. \A d \in Place : \/ dir'[d] = dir[d] \/ dir'[d] = Gone
                           \/ dir'[d] = Unstamped(FALSE)
      BY <3>1 DEF MoveTo
    <3> QED
      BY <1>1, <1>4, <3>2 DEF EndMove, sweep
  <2>2. CASE ~Present(Session(s))
    BY <1>1, <1>4, <2>2 DEF EndMove, sweep
  <2> QED
    BY <2>1, <2>2
<1>5. CASE PlanPrune \/ PlanConsolidation \/ UNCHANGED vars
  BY <1>1, <1>5 DEF PlanPrune, PlanConsolidation, vars, sweep
<1>6. CASE ApplyPrune
  BY <1>1, <1>6 DEF ApplyPrune, sweep
<1>7. CASE ApplyConsolidation
  <2>1. \A d \in Place : \/ dir'[d] = dir[d] \/ dir'[d] = Gone
                         \/ dir'[d] = Unstamped(FALSE)
    BY <1>7 DEF ApplyConsolidation
  <2> QED
    BY <1>1, <1>7, <2>1 DEF ApplyConsolidation, sweep
<1>8. CASE Day
  <2>1. /\ \A p \in Starter : pc[p] = "idle"
        /\ UNCHANGED <<pc, src, dst, rough>>
        /\ \A d \in Place : \/ dir'[d] = Gone
                            \/ dir'[d] = DayOlder(dir[d], d[2] > 0)
    BY <1>8 DEF Day, sweep
  <2>2. OneSweep'
    BY <2>1 DEF OneSweep, Sweeping
  <2>3. MoveFree'
    <3>1. \A p \in Starter : pc'[p] # "move"
      BY <2>1
    <3> QED
      BY <3>1 DEF MoveFree
  <2>4. SweptStamped'
    <3> SUFFICES ASSUME ~rough, NEW d \in Place, d[2] > 0, dir'[d].swept,
                        dir'[d].mark = "none"
                 PROVE  FALSE
      BY <2>1 DEF SweptStamped
    <3>1. dir'[d] = DayOlder(dir[d], d[2] > 0)
      BY <2>1 DEF Gone
    <3>2. dir[d].swept /\ dir[d].mark = "none"
      BY <3>1 DEF DayOlder
    <3> QED
      BY <2>1, <3>2 DEF SweptInv, SweptStamped
  <2>5. SweptDated'
    <3> SUFFICES ASSUME ~rough, NEW d \in Place, d[2] > 0, dir'[d].swept,
                        dir'[d].mark = "dated"
                 PROVE  \/ dir'[d].held >= dir'[d].age
                        \/ dir'[d].held > DeleteAfter
      BY <2>1 DEF SweptDated
    <3>1. dir'[d] = DayOlder(dir[d], d[2] > 0)
      BY <2>1 DEF Gone
    <3>2. dir[d].swept /\ dir[d].mark = "dated"
      BY <3>1 DEF DayOlder
    <3>3. /\ dir'[d].age = Older(dir[d].age, MaxAge)
          /\ dir'[d].held = Older(dir[d].held, DeleteAfter + 1)
      BY <3>1, <3>2 DEF DayOlder
    <3>4. \/ dir[d].held >= dir[d].age
          \/ dir[d].held > DeleteAfter
      BY <3>2 DEF SweptInv, SweptDated
    <3>5. dir[d].age \in 0..MaxAge /\ dir[d].held \in 0..(DeleteAfter + 1)
      BY DEF Dir
    <3> QED
      BY <3>3, <3>4, <3>5, SizeAssumption DEF Older, MaxAge
  <2> QED
    BY <2>2, <2>3, <2>4, <2>5 DEF SweptInv
<1> QED
  BY <1>2, <1>3, <1>4, <1>5, <1>6, <1>7, <1>8 DEF Commands

LEMMA SweptInvHolds == Spec => [](TypeOK /\ EndingFree /\ SweptInv)
<1>1. Init => EndingFree /\ SweptInv
  BY DEF Init, EndingFree, SweptInv, OneSweep, MoveFree, SweptStamped,
         SweptDated, Sweeping, Gone
<1>2. TypeOK /\ EndingFree /\ SweptInv /\ [Next]_vars => SweptInv'
  <2> SUFFICES ASSUME TypeOK, EndingFree, SweptInv, [Next]_vars
               PROVE  SweptInv'
    OBVIOUS
  <2>1. CASE \E p \in Starter : Start(p) \/ Sweep(p) \/ Crash(p)
    BY <2>1, SweptSweepStep
  <2>2. CASE \/ \E s \in Sid : Capture(s) \/ End(s) \/ EndMove(s)
             \/ Commands \/ Day \/ UNCHANGED vars
    BY <2>2, SweptOtherStep
  <2> QED
    BY <2>1, <2>2 DEF Next
<1> QED
  BY <1>1, <1>2, TypeCorrect, EndingStep, PTL DEF Spec

\* Captures, ends, manual prunes, consolidations and sweeps in any order let no
\* sweep delete what a sweep has moved within the last DELETE_AFTER_DAYS, as
\* long as no two sweeps overlap and none dies between the move and its stamp.
THEOREM SnapshotRetained == Spec => SnapshotKept
<1> DEFINE Kept ==
      ~rough => \A d \in Place :
                  SweepDeletes(d) /\ dir[d].swept => dir[d].held > DeleteAfter
<1>1. TypeOK /\ EndingFree /\ SweptInv /\ [Next]_vars => [Kept]_vars
  <2> SUFFICES ASSUME TypeOK, SweptInv, Next, ~rough, NEW d \in Place,
                      SweepDeletes(d), dir[d].swept
               PROVE  dir[d].held > DeleteAfter
    OBVIOUS
  <2>1. PICK p \in Starter, e \in Place :
          pc[p] = "tier2" /\ Expired(e) /\ dir' = [dir EXCEPT ![e] = Gone]
    BY OnlySweepsDelete
  <2>2. Expired(d) /\ d[2] > 0
    BY <2>1 DEF SweepDeletes, Present, TypeOK
  <2>3. dir[d].mark # "none"
    <3>1. \A q \in Starter : pc[q] # "stamp"
      BY <2>1 DEF SweptInv, OneSweep, Sweeping
    <3> QED
      BY <2>2, <3>1 DEF SweptInv, SweptStamped
  <2>4. dir[d].mark = "dated" /\ dir[d].age > DeleteAfter
    BY <2>2, <2>3 DEF Expired
  <2>5. dir[d].held >= dir[d].age \/ dir[d].held > DeleteAfter
    BY <2>2, <2>4 DEF SweptInv, SweptDated
  <2>6. dir[d].age \in 0..MaxAge /\ dir[d].held \in 0..(DeleteAfter + 1)
    BY DEF TypeOK, Dir
  <2> QED
    BY <2>4, <2>5, <2>6, SizeAssumption DEF MaxAge
<1> HIDE DEF Kept
<1>2. Spec => [][Kept]_vars
  BY <1>1, SweptInvHolds, PTL DEF Spec
<1> QED
  BY <1>2, PTL DEF Kept, SnapshotKept

=============================================================================
