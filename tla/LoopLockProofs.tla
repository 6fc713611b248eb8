--------------------------- MODULE LoopLockProofs ---------------------------
(***************************************************************************)
(* The lock of the loop, for any number of launches on any number of       *)
(* hosts: types, and what the lock guarantees to launches that do not      *)
(* overlap inside acquire_lock.                                            *)
(***************************************************************************)
EXTENDS LoopLock, TLAPS

TypeInv == TypeOK /\ AttemptLeft

\* The type invariant, which bounds the attempts of acquire_lock, is inductive
\* together with AttemptLeft.
THEOREM TypeCorrect == Spec => []TypeInv
<1>1. Init => TypeInv
  <2> SUFFICES ASSUME Init PROVE TypeInv
    OBVIOUS
  <2> USE DEF Init
  <2>1. /\ file \in Launch \cup {NoFile}
        /\ written \in SUBSET Launch
        /\ pc \in [Launch -> PC]
        /\ seen \in [Launch -> Launch \cup {NoFile}]
        /\ overlap \in BOOLEAN
    BY DEF PC
  <2>2. tries \in [Launch -> 0..MaxAttempts]
    BY DEF MaxAttempts
  <2>3. AttemptLeft
    BY DEF AttemptLeft, MaxAttempts
  <2> QED
    BY <2>1, <2>2, <2>3 DEF TypeInv, TypeOK
<1>2. TypeInv /\ [Next]_vars => TypeInv'
  <2> SUFFICES ASSUME TypeInv, [Next]_vars PROVE TypeInv'
    OBVIOUS
  <2> USE DEF TypeInv, TypeOK, AttemptLeft, PC, MaxAttempts
  <2>1. ASSUME NEW p \in Launch, Start(p) PROVE TypeInv'
    BY <2>1 DEF Start
  <2>2. ASSUME NEW p \in Launch, Create(p) PROVE TypeInv'
    BY <2>2 DEF Create
  <2>3. ASSUME NEW p \in Launch, Exists(p) PROVE TypeInv'
    BY <2>3 DEF Exists
  <2>4. ASSUME NEW p \in Launch, WritePayload(p) PROVE TypeInv'
    BY <2>4 DEF WritePayload
  <2>5. ASSUME NEW p \in Launch, ReadPayload(p) PROVE TypeInv'
    BY <2>5 DEF ReadPayload
  <2>6. ASSUME NEW p \in Launch, ReadMalformed(p) PROVE TypeInv'
    BY <2>6 DEF ReadMalformed
  <2>7. ASSUME NEW p \in Launch, JudgeHeld(p) PROVE TypeInv'
    BY <2>7 DEF JudgeHeld
  <2>8. ASSUME NEW p \in Launch, JudgeStale(p) PROVE TypeInv'
    BY <2>8 DEF JudgeStale, DeadHere
  <2>9. ASSUME NEW p \in Launch, Reclaim(p) PROVE TypeInv'
    BY <2>9 DEF Reclaim, Taken
  <2>10. ASSUME NEW p \in Launch, Release(p) PROVE TypeInv'
    BY <2>10 DEF Release
  <2>11. ASSUME NEW p \in Launch, Crash(p) PROVE TypeInv'
    BY <2>11 DEF Crash, Alive, Acquiring
  <2>12. CASE UNCHANGED vars
    BY <2>12 DEF vars
  <2> QED
    BY <2>1, <2>2, <2>3, <2>4, <2>5, <2>6, <2>7, <2>8, <2>9, <2>10,
       <2>11, <2>12
       DEF Next, Step
<1> QED
  BY <1>1, <1>2, PTL DEF Spec

\* Every variable has its type; no launch makes more than MaxAttempts
\* attempts at the lock.
THEOREM LockTypeCorrect == Spec => []TypeOK
<1>1. TypeInv => TypeOK
  BY DEF TypeInv
<1> QED
  BY <1>1, TypeCorrect, PTL

-----------------------------------------------------------------------------
\* SerialInv is inductive: every step of one launch, while no other is in
\* acquire_lock, leaves the file with its owner.
THEOREM SerialInvariant == Spec => []SerialInv
<1>1. Init => SerialInv
  BY NoFileAssumption DEF Init, SerialInv, Acquiring
<1>2. TypeInv /\ SerialInv /\ [Next]_vars => SerialInv'
  <2> SUFFICES ASSUME TypeInv, SerialInv, [Next]_vars PROVE SerialInv'
    OBVIOUS
  <2> USE NoFileAssumption
      DEF TypeInv, TypeOK, AttemptLeft, PC, MaxAttempts, SerialInv, Acquiring
  <2>1. ASSUME NEW p \in Launch, Start(p) PROVE SerialInv'
    <3>1. /\ pc' = [pc EXCEPT ![p] = "open"]
          /\ pc[p] = "idle"
          /\ UNCHANGED <<file, written, seen, tries>>
          /\ overlap' = (overlap \/ \E q \in Launch : Acquiring(q))
      BY <2>1 DEF Start
    <3>2. CASE overlap \/ \E q \in Launch : Acquiring(q)
      <4>1. overlap'
        BY <3>1, <3>2
      <4> QED
        BY <3>1, <4>1
    <3>3. CASE ~overlap /\ \A q \in Launch : ~Acquiring(q)
      BY <3>1, <3>3
    <3> QED
      BY <3>2, <3>3
  <2>2. ASSUME NEW p \in Launch, Create(p) PROVE SerialInv'
    BY <2>2 DEF Create
  <2>3. ASSUME NEW p \in Launch, Exists(p) PROVE SerialInv'
    BY <2>3 DEF Exists
  <2>4. ASSUME NEW p \in Launch, WritePayload(p) PROVE SerialInv'
    BY <2>4 DEF WritePayload
  <2>5. ASSUME NEW p \in Launch, ReadPayload(p) PROVE SerialInv'
    BY <2>5 DEF ReadPayload
  <2>6. ASSUME NEW p \in Launch, ReadMalformed(p) PROVE SerialInv'
    BY <2>6 DEF ReadMalformed
  <2>7. ASSUME NEW p \in Launch, JudgeHeld(p) PROVE SerialInv'
    BY <2>7 DEF JudgeHeld
  <2>8. ASSUME NEW p \in Launch, JudgeStale(p) PROVE SerialInv'
    BY <2>8 DEF JudgeStale, DeadHere, Alive
  <2>9. ASSUME NEW p \in Launch, Reclaim(p) PROVE SerialInv'
    BY <2>9 DEF Reclaim, Taken
  <2>10. ASSUME NEW p \in Launch, Release(p) PROVE SerialInv'
    BY <2>10 DEF Release
  <2>11. ASSUME NEW p \in Launch, Crash(p) PROVE SerialInv'
    BY <2>11 DEF Crash, Alive
  <2>12. CASE UNCHANGED vars
    BY <2>12 DEF vars
  <2> QED
    BY <2>1, <2>2, <2>3, <2>4, <2>5, <2>6, <2>7, <2>8, <2>9, <2>10,
       <2>11, <2>12
       DEF Next, Step
<1> QED
  BY <1>1, <1>2, TypeCorrect, PTL DEF Spec

\* At most one launch runs the loop while launches do not overlap inside
\* acquire_lock.
THEOREM SerialExclusion == Spec => []SerialMutualExclusion
<1>1. SerialInv => SerialMutualExclusion
  BY DEF SerialInv, SerialMutualExclusion, MutualExclusion
<1> QED
  BY <1>1, SerialInvariant, PTL

\* A launch alone in acquire_lock needs one reclaim at the most.
THEOREM SerialReclaim == Spec => []SingleReclaim
<1>1. SerialInv => SingleReclaim
  BY DEF SerialInv, SingleReclaim
<1> QED
  BY <1>1, SerialInvariant, PTL

\* The name of a live launch's lock goes away by its own release only.
THEOREM SerialNameKept == Spec => LiveLockKept
<1> DEFINE Kept == ~overlap' =>
                     \A q \in Launch :
                       file = q /\ Alive(q) /\ pc'[q] # "done" => file' = q
<1>1. TypeInv /\ SerialInv /\ [Next]_vars => [Kept]_vars
  <2> SUFFICES ASSUME TypeInv, SerialInv, Next PROVE Kept
    BY DEF vars
  <2>1. ASSUME NEW p \in Launch, Create(p) PROVE Kept
    BY <2>1, NoFileAssumption DEF Create
  <2>2. ASSUME NEW p \in Launch, Reclaim(p) PROVE Kept
    <3> SUFFICES ASSUME ~overlap', NEW q \in Launch, file = q, Alive(q)
                 PROVE FALSE
      OBVIOUS
    <3>1. ~overlap /\ pc[p] = "unlink"
      BY <2>2 DEF Reclaim, Taken
    <3>2. pc[q] # "holding" /\ file # p
      BY <3>1 DEF SerialInv
    <3> QED
      BY <3>1, <3>2 DEF Alive, Acquiring, SerialInv
  <2>3. ASSUME NEW p \in Launch, Release(p) PROVE Kept
    <3> SUFFICES ASSUME ~overlap', NEW q \in Launch, file = q, pc'[q] # "done"
                 PROVE FALSE
      OBVIOUS
    <3>1. file = p
      BY <2>3 DEF Release, SerialInv
    <3> QED
      BY <2>3, <3>1 DEF Release, TypeInv, TypeOK
  <2>4. ASSUME NEW p \in Launch, Start(p) PROVE Kept
    BY <2>4 DEF Start
  <2>5. ASSUME NEW p \in Launch, Exists(p) PROVE Kept
    BY <2>5 DEF Exists
  <2>6. ASSUME NEW p \in Launch, WritePayload(p) PROVE Kept
    BY <2>6 DEF WritePayload
  <2>7. ASSUME NEW p \in Launch, ReadPayload(p) PROVE Kept
    BY <2>7 DEF ReadPayload
  <2>8. ASSUME NEW p \in Launch, ReadMalformed(p) PROVE Kept
    BY <2>8 DEF ReadMalformed
  <2>9. ASSUME NEW p \in Launch, JudgeHeld(p) PROVE Kept
    BY <2>9 DEF JudgeHeld
  <2>10. ASSUME NEW p \in Launch, JudgeStale(p) PROVE Kept
    BY <2>10 DEF JudgeStale, DeadHere
  <2>11. ASSUME NEW p \in Launch, Crash(p) PROVE Kept
    BY <2>11 DEF Crash
  <2> QED
    BY <2>1, <2>2, <2>3, <2>4, <2>5, <2>6, <2>7, <2>8, <2>9, <2>10, <2>11
       DEF Next, Step
<1> QED
  BY <1>1, TypeCorrect, SerialInvariant, PTL DEF Spec, LiveLockKept

-----------------------------------------------------------------------------
\* The lock file implements the abstract mutex: a launch goes on to run when it
\* writes its payload, and unless launches overlapped nobody else runs then.
THEOREM LockImplementsMutex == Spec => ImplementsMutex
<1> USE DEF Mutex!mutexVars
<1>1. Init => Mutex!MutexInit
  BY DEF Init, Mutex!MutexInit, Outcome
<1>2. TypeInv /\ SerialInv /\ [Next]_vars => [Mutex!MutexNext]_(Mutex!mutexVars)
  <2> SUFFICES ASSUME TypeInv, SerialInv, [Next]_vars
               PROVE  [Mutex!MutexNext]_(Mutex!mutexVars)
    OBVIOUS
  <2>1. pc \in [Launch -> PC] /\ overlap \in BOOLEAN
    BY DEF TypeInv, TypeOK
  <2>2. ASSUME NEW p \in Launch, NEW to \in {"read", "judge", "unlink", "created",
                                            "open"},
               Acquiring(p) \/ pc[p] = "idle",
               pc' = [pc EXCEPT ![p] = to]
        PROVE  Outcome' = Outcome
    BY <2>1, <2>2 DEF Outcome, Acquiring
  <2>3. ASSUME NEW p \in Launch, NEW to \in {"refused", "done", "dead"},
               Acquiring(p) \/ pc[p] = "holding",
               pc' = [pc EXCEPT ![p] = to], UNCHANGED overlap
        PROVE  Mutex!Leave(p)
    <3>1. Outcome' = [Outcome EXCEPT ![p] = "over"]
      BY <2>1, <2>3 DEF Outcome
    <3>2. Outcome[p] # "over"
      BY <2>3 DEF Outcome, Acquiring
    <3> QED
      BY <2>3, <3>1, <3>2 DEF Mutex!Leave
  <2>4. ASSUME NEW p \in Launch, Start(p)
        PROVE  Outcome' = Outcome /\ (overlap' = overlap \/ overlap' = TRUE)
    BY <2>1, <2>2, <2>4 DEF Start
  <2>5. ASSUME NEW p \in Launch, WritePayload(p) PROVE Mutex!Run(p)
    <3>1. /\ pc[p] = "created" /\ UNCHANGED overlap
          /\ pc' = [pc EXCEPT ![p] = "holding"]
      BY <2>5 DEF WritePayload
    <3>2. Outcome[p] = "waiting"
      BY <3>1 DEF Outcome
    <3>3. Outcome' = [Outcome EXCEPT ![p] = "running"]
      BY <2>1, <3>1 DEF Outcome
    <3>4. ASSUME ~ overlap, NEW q \in Launch PROVE Outcome[q] # "running"
      <4>1. pc[q] # "holding"
        BY <3>1, <3>4 DEF SerialInv
      <4> QED
        BY <4>1 DEF Outcome
    <3> QED
      BY <3>1, <3>2, <3>3, <3>4 DEF Mutex!Run
  <2>6. ASSUME NEW p \in Launch,
               \/ Create(p) \/ Exists(p) \/ ReadPayload(p) \/ ReadMalformed(p)
               \/ JudgeStale(p)
        PROVE  Outcome' = Outcome /\ overlap' = overlap
    BY <2>2, <2>6
       DEF Create, Exists, ReadPayload, ReadMalformed, JudgeStale, Acquiring
  <2>7. ASSUME NEW p \in Launch, JudgeHeld(p) \/ Release(p) \/ Crash(p)
        PROVE  Mutex!Leave(p)
    BY <2>3, <2>7 DEF JudgeHeld, Release, Crash, Alive, Acquiring
  <2>8. ASSUME NEW p \in Launch, Reclaim(p)
        PROVE  Mutex!Leave(p) \/ (Outcome' = Outcome /\ overlap' = overlap)
    <3>1. CASE Taken(p) < MaxAttempts
      BY <2>2, <2>8, <3>1 DEF Reclaim, Acquiring
    <3>2. CASE ~ (Taken(p) < MaxAttempts)
      BY <2>3, <2>8, <3>2 DEF Reclaim, Acquiring
    <3> QED
      BY <3>1, <3>2
  <2>9. CASE UNCHANGED vars
    BY <2>9 DEF vars, Outcome
  <2> QED
    BY <2>4, <2>5, <2>6, <2>7, <2>8, <2>9
       DEF Next, Step, Mutex!MutexNext, Mutex!Contend
<1> QED
  BY <1>1, <1>2, TypeCorrect, SerialInvariant, PTL
     DEF Spec, ImplementsMutex, Mutex!MutexSpec

=============================================================================
