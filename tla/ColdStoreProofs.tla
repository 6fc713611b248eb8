--------------------------- MODULE ColdStoreProofs ---------------------------
(***************************************************************************)
(* That what agents are told to follow was proved, for any number of items *)
(* and commits, whatever people edit and wherever a pass is killed.  The   *)
(* argument: a commit that supports an item stays on the branch, the first *)
(* sighting of an item stays the first, and a green answer stays given, so *)
(* what was once a basis remains one; and each record, on disk or in the   *)
(* memory of a pass, was written from such a basis.                        *)
(***************************************************************************)
EXTENDS ColdStore, SequenceTheorems, FiniteSetTheorems, TLAPS

\* What _rollup answers over all the runs: green only if the commit is.
LEMMA RollupGreen ==
    ASSUME NEW S
    PROVE  /\ Rollup(S) \in Verdict
           /\ Rollup(S) = "green" => TrulyGreen(S)
<1>. DEFINE outcomes == {r.outcome : r \in LatestByName(S)}
<1>1. Rollup(S) \in Verdict
    BY DEF Rollup, Verdict
<1>2. ASSUME Rollup(S) = "green"
      PROVE  TrulyGreen(S)
    <2>1. outcomes = {"passing"}
        BY <1>2 DEF Rollup
    <2>2. LatestByName(S) # {} /\ \A r \in LatestByName(S) : r.outcome = "passing"
        BY <2>1
    <2>. QED
        BY <2>2 DEF TrulyGreen, LatestByName
<1>. QED
    BY <1>1, <1>2

\* What resolve_ci_status answers: green only if the commit is, or has more runs
\* than the query sees.
LEMMA ResolvedGreen ==
    ASSUME NEW S, NEW v \in ResolveCIStatus(S, RunsPage)
    PROVE  /\ v \in Verdict
           /\ v = "green" => TrulyGreen(S) \/ ~ Cardinality(S) <= RunsPage
<1>1. CASE v = "unknown"
    BY <1>1 DEF Verdict
<1>2. CASE v # "unknown"
    <2>1. PICK fetched \in FetchCheckRuns(S, RunsPage) : v = Rollup(fetched)
        BY <1>2 DEF ResolveCIStatus
    <2>2. Cardinality(S) <= RunsPage => fetched = S
        BY <2>1 DEF FetchCheckRuns
    <2>. QED
        BY <2>1, <2>2, RollupGreen
<1>. QED
    BY <1>1, <1>2

LEMMA ColdShapeInit == ColdInit => ColdShape
<1>. SUFFICES ASSUME ColdInit
              PROVE  ColdShape
    OBVIOUS
<1>1. commits \in Seq(Commit) /\ Len(commits) <= MaxCommits
    BY ColdAssumption DEF ColdInit
<1>2. coldDay \in Day /\ campaigns \subseteq Day
    BY ColdAssumption DEF ColdInit, Day
<1>. QED
    BY <1>1, <1>2 DEF ColdInit, ColdShape, NoCopy

LEMMA ColdShapeStep == ColdShape /\ TodoSound /\ [ColdNext]_coldVars => ColdShape'
<1>. SUFFICES ASSUME ColdShape, TodoSound, [ColdNext]_coldVars
              PROVE  ColdShape'
    OBVIOUS
<1>. USE DEF ColdShape
<1>. DEFINE Records == [Slug -> Item \cup {NoItem}]
<1>1. ASSUME NEW s \in Slug, Seal(s)
      PROVE  ColdShape'
    <2>1. PICK tier \in {"cold", "hot"}, current \in campaigns :
            item' = [item EXCEPT ![s] =
                [tier |-> tier, pinned |-> FALSE, sha |-> NoSha,
                 green |-> "unknown", used |-> Never, created |-> coldDay,
                 campaign |-> current]]
        BY <1>1 DEF Seal
    <2>2. item' \in Records
        BY <2>1 DEF Item, Verdict, Day
    <2>. QED
        BY <1>1, <2>2 DEF Seal, worldVars, passVars
<1>2. ASSUME NEW s \in Slug, NEW new \in Item, Edited(s, new)
      PROVE  ColdShape'
    <2>1. new.pinned \in BOOLEAN
        BY DEF Item
    <2>. QED
        BY <1>2, <2>1 DEF Edited, worldVars, passVars
<1>3. ASSUME NEW s \in Slug, TogglePin(s)
      PROVE  ColdShape'
    <2>1. [item[s] EXCEPT !.pinned = ~ @] \in Item
        BY <1>3 DEF TogglePin, Item
    <2>. QED
        BY <1>2, <1>3, <2>1 DEF TogglePin
<1>4. ASSUME NEW s \in Slug, WriteConsequence(s)
      PROVE  ColdShape'
    <2>1. PICK c \in Authored, v \in {"green", "red"} :
            Edited(s, [item[s] EXCEPT !.sha = c, !.green = v])
        BY <1>4 DEF WriteConsequence
    <2>2. c \in Sha
        BY <2>1, ColdAssumption DEF Authored, Sha
    <2>3. item[s] \in Item
        BY <1>4 DEF WriteConsequence
    <2>4. [item[s] EXCEPT !.sha = c, !.green = v] \in Item
        BY <2>1, <2>2, <2>3 DEF Item, Verdict
    <2>. QED
        BY <1>2, <2>1, <2>4
<1>5. ASSUME Author
      PROVE  ColdShape'
    <2>1. PICK cites \in SUBSET Slug, touches \in SUBSET Slug :
            commits' = Append(commits, [cites |-> cites, touches |-> touches,
                                        merged |-> FALSE])
        BY <1>5 DEF Author
    <2>2. [cites |-> cites, touches |-> touches, merged |-> FALSE] \in Commit
        BY DEF Commit
    <2>3. commits' \in Seq(Commit) /\ Len(commits') = Len(commits) + 1
        BY <2>1, <2>2, AppendProperties
    <2>4. Len(commits') <= MaxCommits
        BY <1>5, <2>3, ColdAssumption DEF Author
    <2>. QED
        BY <1>5, <2>3, <2>4 DEF Author, storeVars, passVars, historyVars
<1>6. ASSUME NEW c \in Authored, Merge(c)
      PROVE  ColdShape'
    <2>1. commits[c] \in Commit
        BY ElementOfSeq DEF Authored
    <2>2. commits' = [commits EXCEPT ![c] = [commits[c] EXCEPT !.merged = TRUE]]
        BY <1>6 DEF Merge
    <2>3. [commits[c] EXCEPT !.merged = TRUE] \in Commit
        BY <2>1 DEF Commit
    <2>4. commits' \in Seq(Commit) /\ Len(commits') = Len(commits)
        BY <2>2, <2>3, ExceptSeq DEF Authored
    <2>. QED
        BY <1>6, <2>4 DEF Merge, storeVars, passVars, historyVars
<1>7. ASSUME NEW c \in Authored, CheckRun(c)
      PROVE  ColdShape'
    BY <1>7 DEF CheckRun, storeVars, passVars, historyVars
<1>8. ASSUME NewDay
      PROVE  ColdShape'
    <2>1. coldDay' \in Day /\ campaigns' \subseteq Day
        BY <1>8, ColdAssumption DEF NewDay, Day
    <2>. QED
        BY <1>8, <2>1 DEF NewDay, storeVars, passVars, historyVars
<1>9. ASSUME NEW matching \in SUBSET Slug, Surface(matching)
      PROVE  ColdShape'
    <2>1. Len(commits) + 1 \in Nat
        BY LenProperties
    <2>. DEFINE first(known) == [s \in Slug |->
                    IF s \in Surfaced(matching) /\ known[s] = 0
                    THEN Len(commits) + 1 ELSE known[s]]
    <2>2. first(shown) \in [Slug -> Nat] /\ first(logged) \in [Slug -> Nat]
        BY <2>1
    <2>3. shown' = first(shown) /\ logged' \in {logged, first(logged)}
        BY <1>9 DEF Surface
    <2>. HIDE DEF first
    <2>. QED
        BY <1>9, <2>2, <2>3 DEF Surface, storeVars, passVars
<1>10. ASSUME BeginPass
       PROVE  ColdShape'
    <2>1. PlannedAttributions \subseteq Kind \X Slug \X ({NoSha} \cup Sha)
        BY ColdAssumption DEF PlannedAttributions, Kind, Authored, Sha
    <2>. QED
        BY <1>10, <2>1 DEF BeginPass, storeVars, worldVars, historyVars
<1>11. ASSUME NEW s \in Slug, NEW c \in Authored, Attribute(s, c)
       PROVE  ColdShape'
    <2>1. c \in Sha
        BY ColdAssumption DEF Authored, Sha
    <2>2. IsCold(s) => [item[s] EXCEPT !.sha = c, !.green = "unknown"] \in Item
        BY <2>1 DEF IsCold, Item, Verdict
    <2>3. item' \in Records
        <3>1. CASE UNCHANGED item
            BY <3>1
        <3>2. CASE ~ UNCHANGED item
            <4>1. /\ IsCold(s)
                  /\ item' = [item EXCEPT ![s] =
                        [item[s] EXCEPT !.sha = c, !.green = "unknown"]]
                BY <1>11, <3>2 DEF Attribute, WriteItem
            <4>. QED
                BY <2>2, <4>1
        <3>. QED
            BY <3>1, <3>2
    <2>4. todo' \subseteq todo
        BY <1>11 DEF Attribute
    <2>. QED
        BY <1>11, <2>3, <2>4 DEF Attribute, worldVars, historyVars
<1>12. ASSUME BeginFlips
       PROVE  ColdShape'
    BY <1>12 DEF BeginFlips, Kind, storeVars, worldVars, historyVars
<1>13. ASSUME NEW s \in Slug, ReadPending(s)
       PROVE  ColdShape'
    BY <1>13 DEF ReadPending, storeVars, worldVars, historyVars
<1>14. ASSUME NEW s \in Slug, FlipVerdict(s)
       PROVE  ColdShape'
    <2>1. PICK v \in ResolveCIStatus(runs[copy[s].sha], RunsPage) :
            item' = IF v = "unknown" THEN item
                    ELSE [item EXCEPT ![s] = [copy[s] EXCEPT !.green = v]]
        BY <1>14 DEF FlipVerdict, WriteItem
    <2>2. v \in Verdict
        BY ResolvedGreen
    <2>3. copy[s] \in Item
        BY <1>14 DEF FlipVerdict
    <2>4. [copy[s] EXCEPT !.green = v] \in Item
        BY <2>2, <2>3 DEF Item
    <2>5. item' \in Records
        BY <2>1, <2>4
    <2>. QED
        BY <1>14, <2>5 DEF FlipVerdict, worldVars
<1>15. ASSUME NEW scope, NEW current, LoadIndex(scope, current)
       PROVE  ColdShape'
    BY <1>15 DEF LoadIndex, Kind, storeVars, worldVars, historyVars
<1>16. ASSUME NEW s \in Slug, NEW from, NEW to \in Kind \cup {"done"},
              Advance(s, from, to)
       PROVE  todo' \subseteq Kind \X Slug \X ({NoSha} \cup Sha)
    BY <1>16 DEF Advance
<1>17. ASSUME NEW s \in Slug, WriteLeafDoc(s) \/ AddRoute(s)
       PROVE  ColdShape'
    BY <1>16, <1>17 DEF WriteLeafDoc, AddRoute, Kind, worldVars, historyVars
<1>18. ASSUME NEW s \in Slug, MarkWarm(s)
       PROVE  ColdShape'
    <2>1. copy[s] \in Item
        BY <1>18 DEF MarkWarm, Advance, TodoSound, TaskSound
    <2>2. [copy[s] EXCEPT !.tier = "warm", !.used = coldDay] \in Item
        BY <2>1 DEF Item
    <2>3. item' \in Records
        BY <1>18, <2>2 DEF MarkWarm, WriteItem
    <2>. QED
        BY <1>16, <1>18, <2>3 DEF MarkWarm, worldVars, historyVars
<1>19. ASSUME NEW s \in Slug, Demote(s)
       PROVE  ColdShape'
    <2>1. copy[s] \in Item
        BY <1>19 DEF Demote, Advance, TodoSound, TaskSound
    <2>2. [copy[s] EXCEPT !.tier = IF @ = "hot" THEN "warm" ELSE "cold"] \in Item
        BY <2>1 DEF Item
    <2>3. item' \in Records
        BY <1>19, <2>2 DEF Demote, WriteItem
    <2>. QED
        BY <1>16, <1>19, <2>3 DEF Demote, worldVars, historyVars
<1>20. ASSUME EndPass
       PROVE  ColdShape'
    BY <1>20 DEF EndPass, NoCopy, storeVars, worldVars, historyVars
<1>21. ASSUME NEW s \in Slug, StepFails(s)
       PROVE  ColdShape'
    BY <1>16, <1>21 DEF StepFails, storeVars, worldVars, historyVars
<1>22. ASSUME CrashPass
       PROVE  ColdShape'
    <2>1. item' \in Records
        BY <1>22 DEF CrashPass, storeVars
    <2>2. leaf' \subseteq leaf /\ routed' \subseteq routed
        BY <1>22 DEF CrashPass, storeVars
    <2>. QED
        BY <1>22, <2>1, <2>2 DEF CrashPass, NoCopy, worldVars, historyVars
<1>23. CASE UNCHANGED coldVars
    BY <1>23 DEF coldVars, storeVars, worldVars, passVars, historyVars
<1>. QED
    BY <1>1, <1>3, <1>4, <1>5, <1>6, <1>7, <1>8, <1>9, <1>10, <1>11, <1>12, <1>13,
       <1>14, <1>15, <1>17, <1>18, <1>19, <1>20, <1>21, <1>22, <1>23
    DEF ColdNext, Pass, World

-----------------------------------------------------------------------------
(* What stays.                                                             *)

\* Commits stay on the branch, sightings stay the first, answers stay given, and
\* what a person wrote stays written by a person.
Kept ==
    /\ Len(commits) <= Len(commits')
    /\ \A c \in Authored :
        /\ commits'[c].cites = commits[c].cites
        /\ commits'[c].touches = commits[c].touches
        /\ commits[c].merged => commits'[c].merged
    /\ \A s \in Slug : shown[s] # 0 => shown'[s] = shown[s]
    /\ vouched \subseteq vouched'
    /\ byHand \subseteq byHand'

LEMMA KeptStep == ColdShape /\ [ColdNext]_coldVars => Kept
<1>. SUFFICES ASSUME ColdShape, [ColdNext]_coldVars
              PROVE  Kept
    OBVIOUS
<1>. USE DEF ColdShape
<1>1. Len(commits) \in Nat
    BY LenProperties
<1>2. ASSUME UNCHANGED <<commits, shown>>,
             vouched \subseteq vouched', byHand \subseteq byHand'
      PROVE  Kept
    BY <1>1, <1>2 DEF Kept
<1>3. ASSUME Author
      PROVE  Kept
    <2>1. PICK cites \in SUBSET Slug, touches \in SUBSET Slug :
            commits' = Append(commits, [cites |-> cites, touches |-> touches,
                                        merged |-> FALSE])
        BY <1>3 DEF Author
    <2>2. [cites |-> cites, touches |-> touches, merged |-> FALSE] \in Commit
        BY DEF Commit
    <2>3. /\ Len(commits') = Len(commits) + 1
          /\ \A c \in Authored : commits'[c] = commits[c]
        BY <2>1, <2>2, AppendProperties DEF Authored
    <2>. QED
        <3>1. UNCHANGED <<shown, vouched, byHand>>
            BY <1>3 DEF Author, historyVars
        <3>. HIDE DEF ColdShape
        <3>. QED
            BY <1>1, <2>3, <3>1 DEF Kept
<1>4. ASSUME NEW c \in Authored, Merge(c)
      PROVE  Kept
    <2>1. commits[c] \in Commit
        BY ElementOfSeq DEF Authored
    <2>2. commits' = [commits EXCEPT ![c] = [commits[c] EXCEPT !.merged = TRUE]]
        BY <1>4 DEF Merge
    <2>3. [commits[c] EXCEPT !.merged = TRUE] \in Commit
        BY <2>1 DEF Commit
    <2>4. /\ Len(commits') = Len(commits)
          /\ \A d \in Authored : commits'[d] =
                IF d = c THEN [commits[c] EXCEPT !.merged = TRUE] ELSE commits[d]
        BY <2>2, <2>3, ExceptSeq DEF Authored
    <2>5. \A d \in Authored : commits[d] \in Commit
        BY ElementOfSeq DEF Authored
    <2>6. \A d \in Authored :
            /\ commits'[d].cites = commits[d].cites
            /\ commits'[d].touches = commits[d].touches
            /\ commits[d].merged => commits'[d].merged
        BY <2>1, <2>4, <2>5 DEF Commit
    <2>. QED
        <3>1. UNCHANGED <<shown, vouched, byHand>>
            BY <1>4 DEF Merge, historyVars
        <3>. HIDE DEF ColdShape
        <3>. QED
            BY <1>1, <2>4, <2>6, <3>1 DEF Kept
<1>5. ASSUME NEW matching \in SUBSET Slug, Surface(matching)
      PROVE  Kept
    <2>1. \A s \in Slug : shown[s] # 0 => shown'[s] = shown[s]
        BY <1>5 DEF Surface
    <2>. QED
        BY <1>1, <1>5, <2>1 DEF Surface, Kept
<1>6. ASSUME NEW s \in Slug,
             Seal(s) \/ TogglePin(s) \/ WriteConsequence(s)
      PROVE  Kept
    BY <1>2, <1>6 DEF Seal, TogglePin, WriteConsequence, Edited, worldVars
<1>7. ASSUME NEW c \in Authored, CheckRun(c)
      PROVE  Kept
    BY <1>2, <1>7 DEF CheckRun, historyVars
<1>8. ASSUME NewDay
      PROVE  Kept
    BY <1>2, <1>8 DEF NewDay, historyVars
<1>9. ASSUME Pass
      PROVE  Kept
    <2>1. UNCHANGED <<commits, shown, byHand>> /\ vouched \subseteq vouched'
        BY <1>9 DEF Pass, BeginPass, BeginFlips, EndPass, Attribute, ReadPending,
            FlipVerdict, WriteLeafDoc, AddRoute, MarkWarm, Demote, LoadIndex,
            worldVars, historyVars
    <2>. QED
        BY <1>2, <2>1
<1>10. CASE CrashPass
    BY <1>2, <1>10 DEF CrashPass, worldVars, historyVars
<1>11. ASSUME NEW s \in Slug, StepFails(s)
       PROVE  Kept
    BY <1>2, <1>11 DEF StepFails, worldVars, historyVars
<1>12. CASE UNCHANGED coldVars
    BY <1>2, <1>12 DEF coldVars, worldVars, historyVars
<1>. QED
    BY <1>3, <1>4, <1>5, <1>6, <1>7, <1>8, <1>9, <1>10, <1>11, <1>12
    DEF ColdNext, World

\* So a basis remains one.
LEMMA BasisKept ==
    ASSUME ColdShape, ColdShape', Kept
    PROVE  /\ \A s \in Slug : \A c : Basis(s, c) => Basis(s, c)'
           /\ \A s \in Slug : Proved(s) => Proved(s)'
<1>1. Len(commits) \in Nat /\ Len(commits') \in Nat
    BY LenProperties DEF ColdShape
<1>2. ASSUME NEW s \in Slug, NEW c, Basis(s, c)
      PROVE  Basis(s, c)'
    <2>1. c \in Authored /\ c \in Authored'
        BY <1>1, <1>2 DEF Basis, Kept, Authored
    <2>2. shown'[s] = shown[s]
        BY <1>2 DEF Basis, Kept
    <2>. QED
        BY <1>2, <2>1, <2>2 DEF Basis, Kept
<1>3. ASSUME NEW s \in Slug, Proved(s)
      PROVE  Proved(s)'
    BY <1>2, <1>3 DEF Proved, Kept
<1>. QED
    BY <1>2, <1>3

-----------------------------------------------------------------------------
(* The parts of the invariant.                                             *)

LEMMA LogTrueStep ==
    ASSUME ColdShape, ColdShape', LogTrue, [ColdNext]_coldVars
    PROVE  LogTrue'
<1>1. /\ Len(commits) \in Nat /\ Len(commits') \in Nat
      /\ Len(commits) <= Len(commits')
      /\ logged \in [Slug -> Nat] /\ shown \in [Slug -> Nat]
    BY KeptStep, LenProperties DEF ColdShape, Kept
<1>2. CASE UNCHANGED <<logged, shown>>
    BY <1>1, <1>2 DEF LogTrue
<1>3. ASSUME NEW matching \in SUBSET Slug, Surface(matching)
      PROVE  LogTrue'
    <2>. DEFINE first(known) == [s \in Slug |->
                    IF s \in Surfaced(matching) /\ known[s] = 0
                    THEN Len(commits) + 1 ELSE known[s]]
    <2>1. /\ shown' = first(shown) /\ logged' \in {logged, first(logged)}
          /\ Len(commits') = Len(commits)
        BY <1>3 DEF Surface
    <2>2. ASSUME NEW s \in Slug
          PROVE  /\ shown'[s] <= Len(commits') + 1
                 /\ logged'[s] # 0 => shown'[s] \in 1..logged'[s]
        <3>1. shown'[s] = IF s \in Surfaced(matching) /\ shown[s] = 0
                          THEN Len(commits) + 1 ELSE shown[s]
            BY <2>1
        <3>2. \/ logged'[s] = logged[s]
              \/ logged[s] = 0 /\ logged'[s] = Len(commits) + 1
                 /\ s \in Surfaced(matching)
            BY <2>1
        <3>3. /\ shown[s] <= Len(commits) + 1
              /\ logged[s] # 0 => shown[s] \in 1..logged[s]
            BY DEF LogTrue
        <3>. QED
            BY <1>1, <2>1, <3>1, <3>2, <3>3
    <2>. QED
        BY <2>2 DEF LogTrue
<1>4. CASE World
    <2>1. UNCHANGED <<logged, shown>> \/ \E matching \in SUBSET Slug : Surface(matching)
        BY <1>4 DEF World, Author, NewDay, Seal, TogglePin, WriteConsequence,
            Edited, Merge, CheckRun, worldVars, historyVars
    <2>. QED
        BY <1>2, <1>3, <2>1
<1>5. CASE Pass
    BY <1>2, <1>5 DEF Pass, BeginPass, BeginFlips, EndPass, Attribute, ReadPending,
        FlipVerdict, WriteLeafDoc, AddRoute, MarkWarm, Demote, LoadIndex,
        worldVars, historyVars
<1>6. CASE CrashPass \/ \E s \in Slug : StepFails(s)
    BY <1>2, <1>6 DEF CrashPass, StepFails, worldVars, historyVars
<1>7. CASE UNCHANGED coldVars
    BY <1>2, <1>7 DEF coldVars, worldVars, historyVars
<1>. QED
    BY <1>4, <1>5, <1>6, <1>7 DEF ColdNext

LEMMA InvStep ==
    ASSUME ColdShape, ColdShape', ColdInv, [ColdNext]_coldVars
    PROVE  RecordsWellFounded' /\ DocsProved' /\ TodoSound'
<1>1. /\ \A s \in Slug : \A c : Basis(s, c) => Basis(s, c)'
      /\ \A s \in Slug : Proved(s) => Proved(s)'
      /\ vouched \subseteq vouched' /\ byHand \subseteq byHand'
    <2>1. Kept
        BY KeptStep
    <2>. QED
        BY <2>1, BasisKept DEF Kept
<1>2. ASSUME NEW s \in Slug, item'[s] \in {item[s], NoItem}
      PROVE  WellFounded(s, item[s])'
    <2>1. WellFounded(s, item[s])
        BY DEF ColdInv, RecordsWellFounded
    <2>. QED
        BY <1>1, <1>2, <2>1 DEF WellFounded
<1>3. ASSUME NEW s \in Slug, copy'[s] \in {copy[s], item[s], NoItem}
      PROVE  WellFounded(s, copy[s])'
    <2>1. WellFounded(s, item[s]) /\ WellFounded(s, copy[s])
        BY DEF ColdInv, RecordsWellFounded
    <2>. QED
        BY <1>1, <1>3, <2>1 DEF WellFounded
<1>4. ASSUME NEW new, new \subseteq Slug,
             leaf' \cup routed' \subseteq leaf \cup routed \cup new,
             \A s \in new : s \in byHand \/ Proved(s)
      PROVE  DocsProved'
    <2>1. \A s \in (leaf \cup routed) \ byHand : Proved(s)
        BY DEF ColdInv, DocsProved
    <2>2. leaf \cup routed \subseteq Slug
        BY DEF ColdShape
    <2>. QED
        BY <1>1, <1>4, <2>1, <2>2 DEF DocsProved
<1>5. ASSUME NEW t \in todo, phase' = phase, copy' = copy
      PROVE  TaskSound(t)'
    <2>1. TaskSound(t) /\ t[2] \in Slug
        BY DEF ColdInv, TodoSound, ColdShape
    <2>. QED
        BY <1>1, <1>5, <2>1 DEF TaskSound, KindsOf
<1>. DEFINE Goal == RecordsWellFounded' /\ DocsProved' /\ TodoSound'
<1>6. ASSUME UNCHANGED <<item, copy>>
      PROVE  RecordsWellFounded'
    BY <1>2, <1>3, <1>6 DEF RecordsWellFounded
<1>7. ASSUME UNCHANGED <<leaf, routed>>
      PROVE  DocsProved'
    BY <1>1, <1>7 DEF ColdInv, DocsProved, ColdShape
<1>8. ASSUME UNCHANGED <<phase, copy>>, todo' \subseteq todo
      PROVE  TodoSound'
    BY <1>5, <1>8 DEF TodoSound
\* An item is rewritten, nothing else that the pass or the docs hold.
<1>9. ASSUME NEW s \in Slug, NEW new, item' = [item EXCEPT ![s] = new],
             WellFounded(s, item[s])', UNCHANGED copy
      PROVE  RecordsWellFounded'
    <2>1. \A r \in Slug \ {s} : item'[r] = item[r]
        BY <1>9 DEF ColdShape
    <2>. QED
        BY <1>2, <1>3, <1>9, <2>1 DEF RecordsWellFounded
<1>10. ASSUME NEW s \in Slug, Seal(s)
       PROVE  Goal
    <2>1. PICK tier \in {"cold", "hot"}, current \in campaigns :
            /\ item' = [item EXCEPT ![s] =
                [tier |-> tier, pinned |-> FALSE, sha |-> NoSha,
                 green |-> "unknown", used |-> Never, created |-> coldDay,
                 campaign |-> current]]
            /\ byHand' = IF tier = "hot" THEN byHand \cup {s} ELSE byHand
        BY <1>10 DEF Seal
    <2>2. item'[s].sha = NoSha /\ (item'[s].tier = "cold" \/ s \in byHand')
        BY <2>1 DEF ColdShape
    <2>3. WellFounded(s, item[s])'
        BY <2>2 DEF WellFounded, NoSha
    <2>. QED
        BY <1>7, <1>8, <1>9, <1>10, <2>1, <2>3 DEF Seal, passVars
<1>11. ASSUME NEW s \in Slug, TogglePin(s)
       PROVE  Goal
    <2>1. item' = [item EXCEPT ![s] = [item[s] EXCEPT !.pinned = ~ @]]
        BY <1>11 DEF TogglePin, Edited
    <2>2. item[s] \in Item /\ WellFounded(s, item[s]) /\ item[s] # NoItem
        BY <1>11 DEF TogglePin, ColdInv, RecordsWellFounded, ColdShape
    <2>3. /\ item'[s].sha = item[s].sha /\ item'[s].green = item[s].green
          /\ item'[s].tier = item[s].tier
        BY <2>1, <2>2 DEF ColdShape, Item
    <2>4. WellFounded(s, item[s])'
        BY <1>1, <2>2, <2>3 DEF WellFounded
    <2>. QED
        BY <1>7, <1>8, <1>9, <1>11, <2>1, <2>4 DEF TogglePin, Edited, passVars
<1>12. ASSUME NEW s \in Slug, WriteConsequence(s)
       PROVE  Goal
    <2>1. PICK new : item' = [item EXCEPT ![s] = new]
        BY <1>12 DEF WriteConsequence, Edited
    <2>2. WellFounded(s, item[s])'
        BY <1>12 DEF WriteConsequence, WellFounded
    <2>. QED
        BY <1>7, <1>8, <1>9, <1>12, <2>1, <2>2 DEF WriteConsequence, Edited, passVars
<1>13. CASE UNCHANGED <<storeVars, passVars>>
    BY <1>6, <1>7, <1>8, <1>13 DEF storeVars, passVars
<1>14. CASE World
    <2>1. \/ UNCHANGED <<storeVars, passVars>>
          \/ \E s \in Slug : Seal(s) \/ TogglePin(s) \/ WriteConsequence(s)
        BY <1>14 DEF World, Author, NewDay, Merge, CheckRun, Surface, historyVars
    <2>. QED
        BY <1>10, <1>11, <1>12, <1>13, <2>1
<1>15. ASSUME BeginPass
       PROVE  Goal
    <2>1. ASSUME NEW t \in PlannedAttributions
          PROVE  t[1] = "attribute" /\ Basis(t[2], t[3])
        <3>1. /\ t[1] = "attribute" /\ t[2] \in Slug /\ t[3] \in Authored
              /\ Qualifies(t[2], t[3])
            BY <2>1 DEF PlannedAttributions
        <3>2. shown[t[2]] \in 1..logged[t[2]]
            BY <3>1 DEF ColdInv, LogTrue, Qualifies, InjectedBy
        <3>. QED
            BY <3>1, <3>2, LenProperties
            DEF Qualifies, CitedCommits, InjectedBy, TouchesPaths, Basis, Authored,
                ColdShape
    <2>2. ASSUME NEW t \in todo'
          PROVE  TaskSound(t)'
        <3>1. t[1] = "attribute" /\ t[2] \in Slug /\ Basis(t[2], t[3])
            BY <1>15, <2>1 DEF BeginPass, PlannedAttributions
        <3>2. phase' = "attribute"
            BY <1>15 DEF BeginPass
        <3>. QED
            BY <1>1, <3>1, <3>2 DEF TaskSound, KindsOf
    <2>. QED
        BY <1>6, <1>7, <1>15, <2>2 DEF BeginPass, TodoSound, storeVars
<1>16. ASSUME NEW s \in Slug, NEW c \in Authored, Attribute(s, c)
       PROVE  Goal
    <2>1. RecordsWellFounded'
        <3>1. CASE UNCHANGED item
            BY <1>6, <1>16, <3>1 DEF Attribute
        <3>2. CASE ~ UNCHANGED item
            <4>1. /\ IsCold(s)
                  /\ item' = [item EXCEPT ![s] =
                        [item[s] EXCEPT !.sha = c, !.green = "unknown"]]
                BY <1>16, <3>2 DEF Attribute, WriteItem
            <4>2. Basis(s, c)
                BY <1>16 DEF Attribute, ColdInv, TodoSound, TaskSound
            <4>3. item[s] \in Item /\ WellFounded(s, item[s])
                BY <4>1 DEF IsCold, ColdInv, RecordsWellFounded, ColdShape
            <4>4. /\ item'[s].sha = c /\ item'[s].green = "unknown"
                  /\ item'[s].tier = "cold"
                BY <4>1, <4>3 DEF IsCold, ColdShape, Item
            <4>5. WellFounded(s, item[s])'
                BY <1>1, <4>2, <4>4 DEF WellFounded
            <4>. QED
                BY <1>9, <1>16, <4>1, <4>5 DEF Attribute
        <3>. QED
            BY <3>1, <3>2
    <2>. QED
        BY <1>7, <1>8, <1>16, <2>1 DEF Attribute
<1>17. ASSUME BeginFlips
       PROVE  Goal
    <2>1. ASSUME NEW t \in todo'
          PROVE  TaskSound(t)'
        BY <1>17 DEF BeginFlips, TaskSound, KindsOf
    <2>. QED
        BY <1>6, <1>7, <1>17, <2>1 DEF BeginFlips, TodoSound, storeVars
<1>18. ASSUME NEW s \in Slug, ReadPending(s)
       PROVE  Goal
    <2>1. /\ item' = item /\ todo' \subseteq todo
          /\ phase' \in {"flip", "resolve"}
          /\ copy' = copy \/ copy' = [copy EXCEPT ![s] = item[s]]
        BY <1>18 DEF ReadPending, storeVars
    <2>2. \A r \in Slug : copy'[r] \in {copy[r], item[r]}
        BY <2>1 DEF ColdShape
    <2>3. RecordsWellFounded'
        BY <1>2, <1>3, <2>1, <2>2 DEF RecordsWellFounded
    <2>4. ASSUME NEW t \in todo'
          PROVE  TaskSound(t)'
        <3>1. t[1] = "flip"
            BY <1>18, <2>1 DEF ReadPending, ColdInv, TodoSound, TaskSound, KindsOf
        <3>. QED
            BY <2>1, <3>1 DEF TaskSound, KindsOf
    <2>. QED
        BY <1>7, <1>18, <2>3, <2>4 DEF ReadPending, TodoSound, storeVars
<1>19. ASSUME NEW s \in Slug, FlipVerdict(s)
       PROVE  Goal
    <2>. DEFINE c == copy[s].sha
    <2>1. PICK v \in ResolveCIStatus(runs[c], RunsPage) :
            item' = IF v = "unknown" THEN item
                    ELSE [item EXCEPT ![s] = [copy[s] EXCEPT !.green = v]]
        BY <1>19 DEF FlipVerdict, WriteItem
    <2>2. v = "green" => c \in vouched'
        BY <1>19, ResolvedGreen DEF FlipVerdict
    <2>3. copy[s] \in Item /\ copy[s] # NoItem /\ WellFounded(s, copy[s])
        BY <1>19 DEF FlipVerdict, ColdInv, RecordsWellFounded, ColdShape
    <2>4. WellFounded(s, item[s])'
        <3>1. CASE v = "unknown"
            BY <1>2, <2>1, <3>1
        <3>2. CASE v # "unknown"
            <4>1. /\ item'[s].sha = c /\ item'[s].green = v
                  /\ item'[s].tier = copy[s].tier
                BY <2>1, <2>3, <3>2 DEF ColdShape, Item
            <4>. QED
                BY <1>1, <2>2, <2>3, <4>1 DEF WellFounded
        <3>. QED
            BY <3>1, <3>2
    <2>5. \A r \in Slug \ {s} : item'[r] = item[r]
        BY <2>1 DEF ColdShape
    <2>6. \A r \in Slug : copy'[r] \in {copy[r], NoItem}
        BY <1>19 DEF FlipVerdict, ColdShape
    <2>7. RecordsWellFounded'
        BY <1>2, <1>3, <2>4, <2>5, <2>6 DEF RecordsWellFounded
    <2>8. ASSUME NEW t \in todo'
          PROVE  TaskSound(t)'
        <3>1. t[1] = "flip"
            BY <1>19 DEF FlipVerdict, ColdInv, TodoSound, TaskSound, KindsOf
        <3>. QED
            BY <1>19, <3>1 DEF FlipVerdict, TaskSound, KindsOf
    <2>. QED
        BY <1>7, <1>19, <2>7, <2>8 DEF FlipVerdict, TodoSound
<1>20. ASSUME NEW scope, NEW current, LoadIndex(scope, current)
       PROVE  Goal
    <2>1. ASSUME NEW s \in Slug, Eligible(s)
          PROVE  s \in byHand \/ Proved(s)
        BY <2>1 DEF Eligible, IsCold, ColdInv, RecordsWellFounded, WellFounded, Proved
    <2>2. ASSUME NEW t \in todo'
          PROVE  TaskSound(t)'
        <3>1. \/ /\ t[1] = "promote" /\ t[2] \in Slug
                 /\ item[t[2]] # NoItem /\ Eligible(t[2])
              \/ /\ t[1] = "decay" /\ t[2] \in Slug /\ item[t[2]] # NoItem
            BY <1>20 DEF LoadIndex, Eligible, IsCold, Decays
        <3>2. copy' = item /\ phase' = "apply"
            BY <1>20 DEF LoadIndex
        <3>. QED
            BY <1>1, <2>1, <3>1, <3>2 DEF TaskSound, KindsOf
    <2>3. RecordsWellFounded'
        BY <1>2, <1>3, <1>20 DEF LoadIndex, RecordsWellFounded, storeVars
    <2>. QED
        BY <1>7, <1>20, <2>2, <2>3 DEF LoadIndex, TodoSound, storeVars
\* The next task of an item that is being promoted rests on the same basis.
<1>21. ASSUME NEW s \in Slug, NEW from \in {"promote", "route", "mark", "decay"},
              NEW to \in {"route", "mark", "done"},
              from = "decay" => to = "done",
              Advance(s, from, to), UNCHANGED <<phase, copy>>
       PROVE  TodoSound'
    <2>1. ASSUME NEW t \in todo'
          PROVE  TaskSound(t)'
        <3>1. CASE t \in todo
            BY <1>5, <1>21, <3>1
        <3>2. CASE t \notin todo
            <4>1. t = <<to, s, NoSha>> /\ to \in {"route", "mark"}
                BY <1>21, <3>2 DEF Advance
            <4>2. TaskSound(<<from, s, NoSha>>) /\ phase = "apply"
                BY <1>21 DEF Advance, ColdInv, TodoSound
            <4>3. copy[s] # NoItem /\ (s \in byHand \/ Proved(s))
                BY <1>21, <4>1, <4>2 DEF TaskSound
            <4>. QED
                BY <1>1, <1>21, <4>1, <4>2, <4>3 DEF TaskSound, KindsOf
        <3>. QED
            BY <3>1, <3>2
    <2>. QED
        BY <2>1 DEF TodoSound
<1>22. ASSUME NEW s \in Slug, WriteLeafDoc(s) \/ AddRoute(s)
       PROVE  Goal
    <2>1. s \in byHand \/ Proved(s)
        BY <1>22 DEF WriteLeafDoc, AddRoute, Advance, ColdInv, TodoSound, TaskSound
    <2>2. leaf' \cup routed' \subseteq leaf \cup routed \cup {s}
        BY <1>22 DEF WriteLeafDoc, AddRoute
    <2>3. DocsProved'
        BY <1>4, <2>1, <2>2
    <2>4. TodoSound'
        BY <1>21, <1>22 DEF WriteLeafDoc, AddRoute
    <2>. QED
        BY <1>6, <1>22, <2>3, <2>4 DEF WriteLeafDoc, AddRoute
<1>23. ASSUME NEW s \in Slug, MarkWarm(s)
       PROVE  Goal
    <2>1. copy[s] # NoItem /\ (s \in byHand \/ Proved(s))
        BY <1>23 DEF MarkWarm, Advance, ColdInv, TodoSound, TaskSound
    <2>2. copy[s] \in Item /\ WellFounded(s, copy[s])
        BY <2>1 DEF ColdInv, RecordsWellFounded, ColdShape
    <2>3. item' = [item EXCEPT ![s] =
                    [copy[s] EXCEPT !.tier = "warm", !.used = coldDay]]
        BY <1>23 DEF MarkWarm, WriteItem
    <2>4. /\ item'[s].sha = copy[s].sha /\ item'[s].green = copy[s].green
          /\ item'[s].tier = "warm"
        BY <2>2, <2>3 DEF ColdShape, Item
    <2>5. WellFounded(s, item[s])'
        BY <1>1, <2>1, <2>2, <2>4 DEF WellFounded
    <2>6. TodoSound'
        BY <1>21, <1>23 DEF MarkWarm
    <2>. QED
        BY <1>7, <1>9, <1>23, <2>3, <2>5, <2>6 DEF MarkWarm
<1>24. ASSUME NEW s \in Slug, Demote(s)
       PROVE  Goal
    <2>1. copy[s] # NoItem
        BY <1>24 DEF Demote, Advance, ColdInv, TodoSound, TaskSound
    <2>2. copy[s] \in Item /\ WellFounded(s, copy[s])
        BY <2>1 DEF ColdInv, RecordsWellFounded, ColdShape
    <2>3. item' = [item EXCEPT ![s] = [copy[s] EXCEPT !.tier =
                    IF @ = "hot" THEN "warm" ELSE "cold"]]
        BY <1>24 DEF Demote, WriteItem
    <2>4. /\ item'[s].sha = copy[s].sha /\ item'[s].green = copy[s].green
          /\ item'[s].tier = IF copy[s].tier = "hot" THEN "warm" ELSE "cold"
        BY <2>2, <2>3 DEF ColdShape, Item
    <2>5. WellFounded(s, item[s])'
        BY <1>1, <2>1, <2>2, <2>4 DEF WellFounded
    <2>6. TodoSound'
        BY <1>21, <1>24 DEF Demote
    <2>. QED
        BY <1>7, <1>9, <1>24, <2>3, <2>5, <2>6 DEF Demote
<1>25. CASE EndPass
    <2>1. \A r \in Slug : item'[r] = item[r] /\ copy'[r] = NoItem
        BY <1>25 DEF EndPass, NoCopy, storeVars
    <2>2. RecordsWellFounded'
        BY <1>2, <1>3, <2>1 DEF RecordsWellFounded
    <2>. QED
        BY <1>7, <1>25, <2>2 DEF EndPass, TodoSound, storeVars
<1>26. ASSUME NEW s \in Slug, StepFails(s)
       PROVE  Goal
    <2>1. TodoSound'
        BY <1>21, <1>26 DEF StepFails
    <2>. QED
        BY <1>6, <1>7, <1>26, <2>1 DEF StepFails, storeVars
<1>27. CASE CrashPass
    <2>1. \A r \in Slug : item'[r] \in {item[r], NoItem} /\ copy'[r] = NoItem
        BY <1>27 DEF CrashPass, NoCopy, storeVars, ColdShape
    <2>2. RecordsWellFounded'
        BY <1>2, <1>3, <2>1 DEF RecordsWellFounded
    <2>3. leaf' \subseteq leaf /\ routed' \subseteq routed /\ todo' = {}
        BY <1>27 DEF CrashPass, storeVars
    <2>4. DocsProved'
        BY <1>1, <2>3 DEF ColdInv, DocsProved, ColdShape
    <2>. QED
        BY <2>2, <2>3, <2>4 DEF TodoSound
<1>28. CASE UNCHANGED coldVars
    BY <1>13, <1>28 DEF coldVars
<1>29. Goal
    BY <1>14, <1>15, <1>16, <1>17, <1>18, <1>19, <1>20, <1>22, <1>23, <1>24, <1>25,
       <1>26, <1>27, <1>28
    DEF ColdNext, Pass
<1>. QED
    BY <1>29

-----------------------------------------------------------------------------
(* The theorems.                                                           *)

LEMMA InvInit == ColdInit => ColdInv
<1>. SUFFICES ASSUME ColdInit
              PROVE  ColdInv
    OBVIOUS
<1>1. RecordsWellFounded
    BY DEF ColdInit, RecordsWellFounded, WellFounded, NoCopy
<1>2. LogTrue
    BY DEF ColdInit, LogTrue
<1>3. DocsProved /\ TodoSound
    BY DEF ColdInit, DocsProved, TodoSound
<1>. QED
    BY <1>1, <1>2, <1>3 DEF ColdInv

\* Whatever is on disk, in the log or in the memory of a pass has its basis, at
\* every step of every pass.
THEOREM ColdInvariant == ColdSpec => [](ColdShape /\ ColdInv)
<1>1. ColdShape /\ ColdInv /\ [ColdNext]_coldVars => ColdShape' /\ ColdInv'
    <2>. SUFFICES ASSUME ColdShape, ColdInv, [ColdNext]_coldVars
                  PROVE  ColdShape' /\ ColdInv'
        OBVIOUS
    <2>1. ColdShape'
        BY ColdShapeStep DEF ColdInv
    <2>2. LogTrue'
        BY <2>1, LogTrueStep DEF ColdInv
    <2>3. RecordsWellFounded' /\ DocsProved' /\ TodoSound'
        BY <2>1, InvStep
    <2>. QED
        BY <2>1, <2>2, <2>3 DEF ColdInv
<1>. QED
    BY <1>1, ColdShapeInit, InvInit, PTL DEF ColdSpec

\* What gate_promotions lets through, and what its passes leave in docs, routes
\* and tiers, was proved by a commit.
THEOREM ColdInjectedProved == ColdSpec => []InjectedProved
<1>1. ColdShape /\ ColdInv => InjectedProved
    <2>. SUFFICES ASSUME ColdShape, ColdInv,
                         NEW s \in Slug \ byHand,
                         s \in leaf \cup routed
                            \/ (item[s] # NoItem /\ item[s].tier = "warm")
                  PROVE  Proved(s)
        BY DEF InjectedProved, Proved, Basis
    <2>1. CASE s \in leaf \cup routed
        BY <2>1 DEF ColdInv, DocsProved
    <2>2. CASE item[s] # NoItem /\ item[s].tier = "warm"
        BY <2>2 DEF ColdInv, RecordsWellFounded, WellFounded
    <2>. QED
        BY <2>1, <2>2
<1>. QED
    BY <1>1, ColdInvariant, PTL

LEMMA RouteStep == RouteInv /\ [ColdNext]_coldVars => RouteInv'
<1>. SUFFICES ASSUME RouteInv, [ColdNext]_coldVars
              PROVE  RouteInv'
    OBVIOUS
<1>. USE DEF RouteInv
<1>1. ASSUME UNCHANGED <<leaf, routed, coldCrashes>>,
             \A t \in todo' : t \in todo \/ t[1] # "route"
      PROVE  RouteInv'
    BY <1>1
<1>2. ASSUME coldCrashes' = coldCrashes + 1
      PROVE  RouteInv'
    BY <1>2
<1>3. CASE World
    <2>1. UNCHANGED <<leaf, routed, todo, coldCrashes>>
        BY <1>3 DEF World, Author, NewDay, Seal, TogglePin, WriteConsequence, Edited,
            Merge, CheckRun, Surface, storeVars, passVars, countVars
    <2>. QED
        BY <1>1, <2>1
<1>4. ASSUME BeginPass \/ BeginFlips \/ EndPass
      PROVE  RouteInv'
    <2>1. \A t \in todo' : t \in todo \/ t[1] # "route"
        BY <1>4 DEF BeginPass, BeginFlips, EndPass, PlannedAttributions
    <2>. QED
        BY <1>1, <1>4, <2>1 DEF BeginPass, BeginFlips, EndPass, storeVars, countVars
<1>5. ASSUME NEW s \in Slug, NEW c \in Authored, Attribute(s, c)
      PROVE  RouteInv'
    BY <1>1, <1>5 DEF Attribute, countVars
<1>6. ASSUME NEW s \in Slug, ReadPending(s) \/ FlipVerdict(s)
      PROVE  RouteInv'
    BY <1>1, <1>6 DEF ReadPending, FlipVerdict, storeVars, countVars
<1>7. ASSUME NEW scope, NEW current, LoadIndex(scope, current)
      PROVE  RouteInv'
    <2>1. \A t \in todo' : t[1] # "route"
        BY <1>7 DEF LoadIndex
    <2>. QED
        BY <1>1, <1>7, <2>1 DEF LoadIndex, storeVars, countVars
<1>8. ASSUME NEW s \in Slug, WriteLeafDoc(s)
      PROVE  RouteInv'
    BY <1>8 DEF WriteLeafDoc, Advance, countVars
<1>9. ASSUME NEW s \in Slug, AddRoute(s)
      PROVE  RouteInv'
    BY <1>9 DEF AddRoute, Advance, countVars
<1>10. ASSUME NEW s \in Slug, MarkWarm(s) \/ Demote(s)
       PROVE  RouteInv'
    <2>1. \A t \in todo' : t \in todo
        BY <1>10 DEF MarkWarm, Demote, Advance
    <2>. QED
        BY <1>1, <1>10, <2>1 DEF MarkWarm, Demote, countVars
<1>11. CASE CrashPass \/ \E s \in Slug : StepFails(s)
    BY <1>2, <1>11 DEF CrashPass, StepFails
<1>12. CASE UNCHANGED coldVars
    BY <1>1, <1>12 DEF coldVars, storeVars, passVars, countVars
<1>. QED
    BY <1>3, <1>4, <1>5, <1>6, <1>7, <1>8, <1>9, <1>10, <1>11, <1>12
    DEF ColdNext, Pass

\* materialize writes the bullet before the route: as long as no pass was killed
\* and no write failed, each route leads to a doc that holds its item.
THEOREM ColdRouteHasLeaf == ColdSpec => []RouteHasLeaf
<1>1. ColdInit => RouteInv
    BY DEF ColdInit, RouteInv
<1>2. RouteInv => RouteHasLeaf
    BY DEF RouteInv, RouteHasLeaf
<1>. QED
    BY <1>1, <1>2, RouteStep, PTL DEF ColdSpec

-----------------------------------------------------------------------------
(* What a pass holds, and what is on disk.                                 *)

LEMMA FreshStep ==
    ASSUME ColdShape, ColdShape', ColdInv, FreshInv, [ColdNext]_coldVars
    PROVE  FreshInv'
<1>. USE NoItemAssumption
<1>1. \A t \in todo : t[1] \in KindsOf /\ t[2] \in Slug
    BY DEF ColdInv, TodoSound, TaskSound, ColdShape
<1>2. phase # "apply" =>
        \A t \in todo : t[1] \notin {"promote", "route", "mark", "decay"}
    BY <1>1 DEF KindsOf
<1>3. \A t \in todo : t[1] \in {"promote", "route", "mark", "decay"} =>
        copy[t[2]] # NoItem
    BY DEF ColdInv, TodoSound, TaskSound
<1>4. /\ item \in [Slug -> Item \cup {NoItem}] /\ item' \in [Slug -> Item \cup {NoItem}]
      /\ copy \in [Slug -> Item \cup {NoItem}] /\ copy' \in [Slug -> Item \cup {NoItem}]
    BY DEF ColdShape
\* Nothing that the invariant speaks of changes.
<1>5. CASE UNCHANGED <<item, phase, todo, copy, raced, pinWish>>
    BY <1>5 DEF FreshInv, CopyFresh, AsHeld, PinsKnown, TodoFresh, TaskFresh
\* People write an item: it is not held, or it is raced.
<1>6. ASSUME NEW s \in Slug, NEW new \in Item,
             item' = [item EXCEPT ![s] = new],
             pinWish'[s] = new.pinned,
             \A r \in Slug \ {s} : pinWish'[r] = pinWish[r],
             copy[s] = NoItem \/ s \in raced',
             raced \subseteq raced' \cup {s},
             UNCHANGED <<phase, todo, copy>>
      PROVE  FreshInv'
    <2>1. item'[s] = new /\ \A r \in Slug \ {s} : item'[r] = item[r]
        BY <1>4, <1>6
    <2>2. CopyFresh'
        BY <1>6, <2>1 DEF FreshInv, CopyFresh, AsHeld
    <2>3. PinsKnown'
        BY <1>6, <2>1 DEF FreshInv, PinsKnown
    <2>4. ASSUME NEW t \in todo
          PROVE  TaskFresh(t)'
        <3>1. CASE t[2] = s
            BY <1>3, <1>6, <3>1 DEF FreshInv, TodoFresh, TaskFresh
        <3>2. CASE t[2] # s
            BY <1>1, <1>6, <2>1, <3>2 DEF FreshInv, TodoFresh, TaskFresh
        <3>. QED
            BY <3>1, <3>2
    <2>. QED
        BY <1>6, <2>2, <2>3, <2>4 DEF FreshInv, TodoFresh
<1>7. ASSUME NEW s \in Slug, Seal(s)
      PROVE  FreshInv'
    <2>1. PICK tier \in {"cold", "hot"}, current \in campaigns :
            item' = [item EXCEPT ![s] =
                [tier |-> tier, pinned |-> FALSE, sha |-> NoSha,
                 green |-> "unknown", used |-> Never, created |-> coldDay,
                 campaign |-> current]]
        BY <1>7 DEF Seal
    <2>2. item'[s] \in Item
        BY <1>4, <2>1 DEF ColdShape, Item, Verdict
    <2>3. copy[s] = NoItem \/ s \in raced
        BY <1>7 DEF Seal, FreshInv, CopyFresh, AsHeld
    <2>4. /\ pinWish'[s] = item'[s].pinned
          /\ \A r \in Slug \ {s} : pinWish'[r] = pinWish[r]
        BY <1>4, <1>7, <2>1 DEF Seal, ColdShape
    <2>5. item' = [item EXCEPT ![s] = item'[s]]
        BY <1>4, <2>1
    <2>6. UNCHANGED <<phase, todo, copy, raced>>
        BY <1>7 DEF Seal, passVars
    <2>. QED
        BY <1>6, <2>2, <2>3, <2>4, <2>5, <2>6
<1>8. ASSUME NEW s \in Slug, NEW new \in Item, Edited(s, new)
      PROVE  FreshInv'
    BY <1>6, <1>8 DEF Edited, ColdShape, passVars
<1>9. ASSUME NEW s \in Slug, TogglePin(s)
      PROVE  FreshInv'
    <2>1. [item[s] EXCEPT !.pinned = ~ @] \in Item
        BY <1>4, <1>9 DEF TogglePin, Item
    <2>. QED
        BY <1>8, <1>9, <2>1 DEF TogglePin
<1>10. ASSUME NEW s \in Slug, WriteConsequence(s)
       PROVE  FreshInv'
    <2>1. PICK c \in Authored, v \in {"green", "red"} :
            Edited(s, [item[s] EXCEPT !.sha = c, !.green = v])
        BY <1>10 DEF WriteConsequence
    <2>2. c \in Sha
        BY <2>1, ColdAssumption, LenProperties DEF Authored, Sha, ColdShape
    <2>3. [item[s] EXCEPT !.sha = c, !.green = v] \in Item
        BY <1>4, <1>10, <2>1, <2>2 DEF WriteConsequence, Item, Verdict
    <2>. QED
        BY <1>8, <2>1, <2>3
<1>11. CASE World
    <2>1. \/ UNCHANGED <<item, phase, todo, copy, raced, pinWish>>
          \/ \E s \in Slug : Seal(s) \/ TogglePin(s) \/ WriteConsequence(s)
        BY <1>11 DEF World, Author, NewDay, Merge, CheckRun, Surface, storeVars,
            passVars, historyVars
    <2>. QED
        BY <1>5, <1>7, <1>9, <1>10, <2>1
\* The pass writes an item that people did not touch: the pin stays.
<1>12. ASSUME NEW s \in Slug, NEW new,
              item' = [item EXCEPT ![s] = new],
              s \in raced \/ (item[s] # NoItem /\ new.pinned = item[s].pinned),
              UNCHANGED <<raced, pinWish>>
       PROVE  PinsKnown'
    <2>1. item'[s] = new /\ \A r \in Slug \ {s} : item'[r] = item[r]
        BY <1>4, <1>12
    <2>. QED
        BY <1>12, <2>1 DEF FreshInv, PinsKnown
<1>13. ASSUME \A s \in Slug : item'[s] \in {item[s], NoItem},
              UNCHANGED <<raced, pinWish>>
       PROVE  PinsKnown'
    BY <1>13 DEF FreshInv, PinsKnown
<1>14. ASSUME \A t \in todo' : t[1] \in {"attribute", "flip"}, phase' # "apply"
       PROVE  TodoFresh'
    BY <1>14 DEF TodoFresh, TaskFresh
<1>15. ASSUME BeginPass \/ BeginFlips
       PROVE  FreshInv'
    <2>1. /\ \A t \in todo' : t[1] \in {"attribute", "flip"}
          /\ phase \in {"idle", "attribute"} /\ phase' \in {"attribute", "flip"}
          /\ UNCHANGED <<item, copy, raced, pinWish>>
        BY <1>15 DEF BeginPass, BeginFlips, PlannedAttributions, storeVars, historyVars
    <2>2. CopyFresh'
        BY <2>1 DEF FreshInv, CopyFresh, AsHeld, NoCopy
    <2>. QED
        BY <1>13, <1>14, <2>1, <2>2 DEF FreshInv
<1>16. ASSUME NEW s \in Slug, NEW c \in Authored, Attribute(s, c)
       PROVE  FreshInv'
    <2>1. /\ phase = "attribute" /\ todo' \subseteq todo
          /\ UNCHANGED <<phase, copy, raced, pinWish>>
        BY <1>16 DEF Attribute, historyVars
    <2>2. CopyFresh' /\ copy = NoCopy
        BY <2>1 DEF FreshInv, CopyFresh, AsHeld, NoCopy
    <2>3. TodoFresh'
        BY <1>2, <1>3, <2>1, <2>2 DEF TodoFresh, TaskFresh
    <2>4. CASE UNCHANGED item
        BY <1>13, <2>1, <2>2, <2>3, <2>4 DEF FreshInv
    <2>5. CASE ~ UNCHANGED item
        <3>1. /\ IsCold(s)
              /\ item' = [item EXCEPT ![s] =
                    [item[s] EXCEPT !.sha = c, !.green = "unknown"]]
            BY <1>16, <2>5 DEF Attribute, WriteItem
        <3>2. item[s] \in Item /\ item[s] # NoItem
            BY <1>4, <3>1 DEF IsCold
        <3>3. [item[s] EXCEPT !.sha = c, !.green = "unknown"].pinned = item[s].pinned
            BY <3>2 DEF Item
        <3>4. PinsKnown'
            BY <1>12, <2>1, <3>1, <3>2, <3>3
        <3>. QED
            BY <2>2, <2>3, <3>4 DEF FreshInv
    <2>. QED
        BY <2>4, <2>5
<1>17. ASSUME NEW s \in Slug, ReadPending(s)
       PROVE  FreshInv'
    <2>1. /\ phase = "flip" /\ copy = NoCopy /\ todo' \subseteq todo
          /\ phase' \in {"flip", "resolve"}
          /\ UNCHANGED <<item, raced, pinWish>>
        BY <1>17 DEF ReadPending, storeVars, historyVars, FreshInv, CopyFresh
    <2>2. TodoFresh'
        BY <1>1, <1>14, <2>1 DEF KindsOf
    <2>3. CopyFresh'
        <3>1. CASE Pending(s) /\ copy' = [copy EXCEPT ![s] = item[s]] /\ phase' = "resolve"
            <4>1. copy'[s] = item[s] /\ \A r \in Slug \ {s} : copy'[r] = NoItem
                BY <1>4, <2>1, <3>1 DEF NoCopy
            <4>. QED
                BY <2>1, <3>1, <4>1 DEF CopyFresh, AsHeld, Pending, IsCold
        <3>2. CASE UNCHANGED <<copy, phase>>
            BY <2>1, <3>2 DEF CopyFresh, AsHeld, NoCopy
        <3>. QED
            BY <1>17, <3>1, <3>2 DEF ReadPending
    <2>. QED
        BY <1>13, <2>1, <2>2, <2>3 DEF FreshInv
<1>18. ASSUME NEW s \in Slug, FlipVerdict(s)
       PROVE  FreshInv'
    <2>1. /\ phase = "resolve" /\ phase' = "flip" /\ copy[s] # NoItem
          /\ copy' = [copy EXCEPT ![s] = NoItem]
          /\ UNCHANGED <<todo, raced, pinWish>>
        BY <1>18 DEF FlipVerdict
    <2>2. \A r \in Slug \ {s} : copy[r] = NoItem
        BY <2>1 DEF FreshInv, CopyFresh
    <2>3. copy' = NoCopy
        <3>1. \A r \in Slug : copy'[r] = NoItem
            BY <1>4, <2>1, <2>2
        <3>2. copy' = [r \in Slug |-> copy'[r]]
            BY <1>4
        <3>. QED
            BY <3>1, <3>2 DEF NoCopy
    <2>4. CopyFresh'
        BY <2>1, <2>3 DEF CopyFresh, NoCopy
    <2>5. TodoFresh'
        BY <1>1, <1>14, <2>1 DEF KindsOf
    <2>6. PinsKnown'
        <3>1. PICK v \in ResolveCIStatus(runs[copy[s].sha], RunsPage) :
                item' = IF v = "unknown" THEN item
                        ELSE [item EXCEPT ![s] = [copy[s] EXCEPT !.green = v]]
            BY <1>18 DEF FlipVerdict, WriteItem
        <3>2. [copy[s] EXCEPT !.green = v].pinned = copy[s].pinned
            BY <1>4, <2>1 DEF Item
        <3>3. s \in raced \/ (item[s] # NoItem /\ copy[s].pinned = item[s].pinned)
            BY <2>1 DEF FreshInv, CopyFresh, AsHeld
        <3>. QED
            BY <1>12, <1>13, <2>1, <3>1, <3>2, <3>3
    <2>. QED
        BY <2>4, <2>5, <2>6 DEF FreshInv
<1>19. ASSUME NEW scope, NEW current, LoadIndex(scope, current)
       PROVE  FreshInv'
    <2>1. /\ phase' = "apply" /\ copy' = item /\ UNCHANGED <<item, raced, pinWish>>
        BY <1>19 DEF LoadIndex, storeVars, historyVars
    <2>2. \A t \in todo' :
            /\ t[2] \in Slug
            /\ \/ t = <<"promote", t[2], NoSha>> /\ item[t[2]].tier = "cold"
               \/ /\ t = <<"decay", t[2], NoSha>> /\ ~ item[t[2]].pinned
                  /\ item[t[2]].tier \in {"warm", "hot"}
        BY <1>19 DEF LoadIndex, Eligible, Decays, IsCold
    <2>3. CopyFresh'
        BY <2>1 DEF CopyFresh, AsHeld
    <2>4. \A t \in todo' : TaskFresh(t)'
        BY <2>1, <2>2 DEF TaskFresh
    <2>5. ASSUME NEW t \in todo', NEW u \in todo', t[2] = u[2]
          PROVE  t = u
        BY <2>2, <2>5
    <2>. QED
        BY <1>13, <2>1, <2>3, <2>4, <2>5 DEF FreshInv, TodoFresh
\* One task of an item takes the place of another.
<1>20. ASSUME NEW s \in Slug, NEW from, NEW to, Advance(s, from, to),
              \/ from \in {"promote", "route"} /\ to \in {"route", "mark"}
              \/ to = "done",
              UNCHANGED <<item, phase, copy, raced, pinWish>>
       PROVE  FreshInv'
    <2>. DEFINE old == <<from, s, NoSha>>
    <2>1. phase = "apply" /\ old \in todo
        BY <1>20 DEF Advance
    <2>2. \A t \in todo' : (t \in todo /\ t # old) \/ (to # "done" /\ t = <<to, s, NoSha>>)
        BY <1>20 DEF Advance
    <2>3. \A t \in todo : t[2] = s => t = old
        BY <2>1 DEF FreshInv, TodoFresh
    <2>4. \A t \in todo' : TaskFresh(t)'
        BY <1>20, <2>1, <2>2 DEF FreshInv, TodoFresh, TaskFresh
    <2>5. ASSUME NEW t \in todo', NEW u \in todo', t[2] = u[2]
          PROVE  t = u
        <3>. DEFINE new == <<to, s, NoSha>>
        <3>1. new[2] = s
            OBVIOUS
        <3>. HIDE DEF new
        <3>2. \A w \in todo' : (w \in todo /\ w # old) \/ w = new
            BY <2>2 DEF new
        <3>. HIDE DEF old
        <3>3. \A w \in todo' : w[2] = s => w = new
            BY <2>3, <3>2
        <3>4. CASE t \in todo /\ u \in todo
            BY <2>1, <2>5, <3>4 DEF FreshInv, TodoFresh
        <3>5. CASE ~ (t \in todo /\ u \in todo)
            BY <2>5, <3>1, <3>2, <3>3, <3>5
        <3>. QED
            BY <3>4, <3>5
    <2>6. CopyFresh' /\ PinsKnown'
        BY <1>20 DEF FreshInv, CopyFresh, AsHeld, PinsKnown
    <2>. QED
        BY <2>4, <2>5, <2>6 DEF FreshInv, TodoFresh
\* The last write of an item, from what the pass holds.
<1>21. ASSUME NEW s \in Slug, NEW kind \in {"mark", "decay"}, NEW new \in Item,
              Advance(s, kind, "done"),
              item' = [item EXCEPT ![s] = new],
              new.sha = copy[s].sha, new.green = copy[s].green,
              new.pinned = copy[s].pinned,
              UNCHANGED <<phase, copy, raced, pinWish>>
       PROVE  FreshInv'
    <2>1. phase = "apply" /\ <<kind, s, NoSha>> \in todo
        BY <1>21 DEF Advance
    <2>2. todo' = todo \ {<<kind, s, NoSha>>}
        BY <1>21 DEF Advance
    <2>3. \A t \in todo' : t[2] # s
        BY <2>1, <2>2 DEF FreshInv, TodoFresh
    <2>4. item'[s] = new /\ \A r \in Slug \ {s} : item'[r] = item[r]
        BY <1>4, <1>21
    <2>5. copy[s] # NoItem
        BY <1>3, <2>1
    <2>6. s \in raced \/ (item[s] # NoItem /\ copy[s].pinned = item[s].pinned)
        BY <2>5 DEF FreshInv, CopyFresh, AsHeld
    <2>7. PinsKnown'
        BY <1>12, <1>21, <2>6
    <2>8. CopyFresh'
        BY <1>21, <2>1, <2>4 DEF FreshInv, CopyFresh, AsHeld
    <2>9. TodoFresh'
        <3>1. \A t \in todo' : t \in todo /\ t[2] \in Slug \ {s}
            BY <1>1, <2>2, <2>3
        <3>. QED
            BY <1>21, <2>4, <3>1 DEF FreshInv, TodoFresh, TaskFresh
    <2>. QED
        BY <2>7, <2>8, <2>9 DEF FreshInv
<1>22. ASSUME NEW s \in Slug, WriteLeafDoc(s) \/ AddRoute(s)
       PROVE  FreshInv'
    BY <1>20, <1>22 DEF WriteLeafDoc, AddRoute, historyVars
<1>23. ASSUME NEW s \in Slug, MarkWarm(s)
       PROVE  FreshInv'
    <2>. DEFINE new == [copy[s] EXCEPT !.tier = "warm", !.used = coldDay]
    <2>1. copy[s] \in Item
        BY <1>3, <1>4, <1>23 DEF MarkWarm, Advance
    <2>2. /\ new \in Item /\ new.sha = copy[s].sha /\ new.green = copy[s].green
          /\ new.pinned = copy[s].pinned
        BY <2>1 DEF Item, ColdShape
    <2>. HIDE DEF new
    <2>3. item' = [item EXCEPT ![s] = new]
        BY <1>23 DEF MarkWarm, WriteItem, new
    <2>. QED
        BY <1>21, <1>23, <2>2, <2>3 DEF MarkWarm, historyVars
<1>24. ASSUME NEW s \in Slug, Demote(s)
       PROVE  FreshInv'
    <2>. DEFINE new == [copy[s] EXCEPT !.tier = IF @ = "hot" THEN "warm" ELSE "cold"]
    <2>1. copy[s] \in Item
        BY <1>3, <1>4, <1>24 DEF Demote, Advance
    <2>2. /\ new \in Item /\ new.sha = copy[s].sha /\ new.green = copy[s].green
          /\ new.pinned = copy[s].pinned
        BY <2>1 DEF Item
    <2>. HIDE DEF new
    <2>3. item' = [item EXCEPT ![s] = new]
        BY <1>24 DEF Demote, WriteItem, new
    <2>. QED
        BY <1>21, <1>24, <2>2, <2>3 DEF Demote, historyVars
<1>25. ASSUME NEW s \in Slug, StepFails(s)
       PROVE  FreshInv'
    BY <1>20, <1>25 DEF StepFails, storeVars, historyVars
<1>26. ASSUME EndPass \/ CrashPass
       PROVE  FreshInv'
    <2>1. /\ phase' = "idle" /\ copy' = NoCopy /\ todo' = {}
          /\ UNCHANGED <<raced, pinWish>>
        BY <1>26 DEF EndPass, CrashPass, historyVars
    <2>2. \A s \in Slug : item'[s] \in {item[s], NoItem}
        BY <1>4, <1>26 DEF EndPass, CrashPass, storeVars
    <2>. QED
        BY <1>13, <2>1, <2>2 DEF FreshInv, CopyFresh, NoCopy, TodoFresh
<1>27. CASE UNCHANGED coldVars
    BY <1>5, <1>27 DEF coldVars, storeVars, passVars, historyVars
<1>. QED
    BY <1>11, <1>15, <1>16, <1>17, <1>18, <1>19, <1>22, <1>23, <1>24, <1>25, <1>26, <1>27
    DEF ColdNext, Pass

LEMMA FreshInit == ColdInit => FreshInv
BY DEF ColdInit, FreshInv, CopyFresh, PinsKnown, TodoFresh, NoCopy

LEMMA ColdFresh == ColdSpec => [](ColdShape /\ ColdInv /\ FreshInv)
<1>1. ColdShape /\ ColdShape' /\ ColdInv /\ FreshInv /\ [ColdNext]_coldVars => FreshInv'
    BY FreshStep
<1>. QED
    BY <1>1, FreshInit, ColdInvariant, PTL DEF ColdSpec

\* People's edits are counted.
LEMMA EditsStep == [ColdNext]_coldVars => edits' \in {edits, edits + 1}
<1>. SUFFICES ASSUME [ColdNext]_coldVars
              PROVE  edits' \in {edits, edits + 1}
    OBVIOUS
<1>1. CASE World
    BY <1>1 DEF World, Author, NewDay, Seal, TogglePin, WriteConsequence, Edited, Merge,
        CheckRun, Surface, countVars
<1>2. CASE Pass
    <2>1. CASE BeginPass \/ BeginFlips \/ EndPass
        BY <2>1 DEF BeginPass, BeginFlips, EndPass, countVars
    <2>2. CASE \E s \in Slug, c \in Authored : Attribute(s, c)
        BY <2>2 DEF Attribute, countVars
    <2>3. CASE \E s \in Slug : ReadPending(s) \/ FlipVerdict(s)
        BY <2>3 DEF ReadPending, FlipVerdict, countVars
    <2>4. CASE \E s \in Slug : WriteLeafDoc(s) \/ AddRoute(s) \/ MarkWarm(s) \/ Demote(s)
        BY <2>4 DEF WriteLeafDoc, AddRoute, MarkWarm, Demote, countVars
    <2>5. CASE \E scope \in {campaigns} \cup {{d} : d \in campaigns},
                  current \in {{}, {Max(campaigns)}} : LoadIndex(scope, current)
        BY <2>5 DEF LoadIndex, countVars
    <2>. QED
        BY <1>2, <2>1, <2>2, <2>3, <2>4, <2>5 DEF Pass
<1>3. CASE CrashPass \/ \E s \in Slug : StepFails(s)
    BY <1>3 DEF CrashPass, StepFails
<1>4. CASE UNCHANGED coldVars
    BY <1>4 DEF coldVars, countVars
<1>. QED
    BY <1>1, <1>2, <1>3, <1>4 DEF ColdNext

LEMMA EditsCounted == ColdSpec => [](edits \in Nat)
<1>1. ColdInit => edits \in Nat
    BY DEF ColdInit
<1>2. edits \in Nat /\ [ColdNext]_coldVars => (edits \in Nat)'
    BY EditsStep
<1>. QED
    BY <1>1, <1>2, PTL DEF ColdSpec

\* What a step that is not an edit may do to an item that is not raced.
Written(s) ==
    \/ item'[s] = item[s]
    \/ /\ item[s].sha = NoSha
       /\ \E c \in Sha : item'[s] = [item[s] EXCEPT !.sha = c, !.green = "unknown"]
    \/ /\ AsHeld(s) /\ copy[s].green = "unknown"
       /\ copy[s].tier = "cold" /\ item[s].tier = "cold"
       /\ \E v \in Verdict : item'[s] = [copy[s] EXCEPT !.green = v]
    \/ /\ AsHeld(s) /\ item[s].tier = "cold"
       /\ item'[s] = [copy[s] EXCEPT !.tier = "warm", !.used = coldDay]
    \/ /\ AsHeld(s) /\ ~ copy[s].pinned
       /\ item'[s] = [copy[s] EXCEPT !.tier = IF @ = "hot" THEN "warm" ELSE "cold"]

LEMMA WriteKinds ==
    ASSUME ColdShape, ColdInv, FreshInv, edits \in Nat, [ColdNext]_coldVars,
           edits' = edits,
           NEW s \in Slug, s \notin raced, item[s] # NoItem, item'[s] # NoItem
    PROVE  Written(s)
<1>1. item \in [Slug -> Item \cup {NoItem}]
    BY DEF ColdShape
<1>2. CASE UNCHANGED item
    BY <1>2 DEF Written
<1>3. ASSUME NEW r \in Slug \ {s}, NEW new, item' = [item EXCEPT ![r] = new]
      PROVE  Written(s)
    BY <1>1, <1>3 DEF Written
<1>4. ASSUME NEW r \in Slug, NEW new, Edited(r, new)
      PROVE  FALSE
    BY <1>4 DEF Edited
<1>5. CASE World
    <2>1. CASE \E r \in Slug : TogglePin(r) \/ WriteConsequence(r)
        BY <1>4, <2>1 DEF TogglePin, WriteConsequence
    <2>2. CASE \E r \in Slug : Seal(r)
        <3>1. PICK r \in Slug : Seal(r)
            BY <2>2
        <3>2. r # s
            BY <3>1 DEF Seal
        <3>. QED
            BY <1>3, <3>1, <3>2 DEF Seal
    <2>3. CASE UNCHANGED item
        BY <1>2, <2>3
    <2>. QED
        BY <1>5, <2>1, <2>2, <2>3
        DEF World, Author, NewDay, Merge, CheckRun, Surface, storeVars
<1>6. ASSUME NEW r \in Slug, NEW c \in Authored, Attribute(r, c)
      PROVE  Written(s)
    <2>1. c \in Sha
        BY ColdAssumption, LenProperties DEF Authored, Sha, ColdShape
    <2>. QED
        BY <1>1, <1>2, <1>3, <1>6, <2>1 DEF Attribute, WriteItem, Written
<1>7. ASSUME NEW r \in Slug, FlipVerdict(r)
      PROVE  Written(s)
    <2>1. PICK v \in ResolveCIStatus(runs[copy[r].sha], RunsPage) :
            item' = IF v = "unknown" THEN item
                    ELSE [item EXCEPT ![r] = [copy[r] EXCEPT !.green = v]]
        BY <1>7 DEF FlipVerdict, WriteItem
    <2>2. v \in Verdict
        BY ResolvedGreen
    <2>3. phase = "resolve" /\ copy[r] # NoItem
        BY <1>7 DEF FlipVerdict
    <2>4. CASE r = s /\ v # "unknown"
        <3>1. item'[s] = [copy[s] EXCEPT !.green = v]
            BY <1>1, <2>1, <2>4
        <3>2. /\ AsHeld(s) /\ copy[s].green = "unknown"
              /\ copy[s].tier = "cold" /\ item[s].tier = "cold"
            BY <2>3, <2>4 DEF FreshInv, CopyFresh
        <3>. QED
            BY <2>2, <3>1, <3>2 DEF Written
    <2>. QED
        BY <1>2, <1>3, <2>1, <2>4
<1>8. ASSUME NEW r \in Slug, MarkWarm(r)
      PROVE  Written(s)
    <2>1. /\ <<"mark", r, NoSha>> \in todo
          /\ item' = [item EXCEPT ![r] = [copy[r] EXCEPT !.tier = "warm", !.used = coldDay]]
        BY <1>8 DEF MarkWarm, Advance, WriteItem
    <2>2. CASE r = s
        <3>1. TaskSound(<<"mark", s, NoSha>>) /\ TaskFresh(<<"mark", s, NoSha>>)
            BY <2>1, <2>2 DEF ColdInv, TodoSound, FreshInv, TodoFresh
        <3>2. AsHeld(s) /\ item[s].tier = "cold"
            BY <3>1 DEF TaskSound, TaskFresh, FreshInv, CopyFresh
        <3>3. item'[s] = [copy[s] EXCEPT !.tier = "warm", !.used = coldDay]
            BY <1>1, <2>1, <2>2
        <3>. QED
            BY <3>2, <3>3 DEF Written
    <2>. QED
        BY <1>3, <2>1, <2>2
<1>9. ASSUME NEW r \in Slug, Demote(r)
      PROVE  Written(s)
    <2>1. /\ <<"decay", r, NoSha>> \in todo
          /\ item' = [item EXCEPT ![r] =
                [copy[r] EXCEPT !.tier = IF @ = "hot" THEN "warm" ELSE "cold"]]
        BY <1>9 DEF Demote, Advance, WriteItem
    <2>2. CASE r = s
        <3>1. TaskSound(<<"decay", s, NoSha>>) /\ TaskFresh(<<"decay", s, NoSha>>)
            BY <2>1, <2>2 DEF ColdInv, TodoSound, FreshInv, TodoFresh
        <3>2. AsHeld(s) /\ ~ copy[s].pinned
            BY <3>1 DEF TaskSound, TaskFresh, FreshInv, CopyFresh
        <3>3. item'[s] = [copy[s] EXCEPT !.tier = IF @ = "hot" THEN "warm" ELSE "cold"]
            BY <1>1, <2>1, <2>2
        <3>. QED
            BY <3>2, <3>3 DEF Written
    <2>. QED
        BY <1>3, <2>1, <2>2
<1>10. CASE CrashPass
    <2>1. CASE UNCHANGED item
        BY <1>2, <2>1
    <2>2. CASE \E r \in Slug : item' = [item EXCEPT ![r] = NoItem]
        BY <1>1, <1>3, <2>2
    <2>3. \A t \in todo : t[2] \in Slug
        BY DEF ColdShape
    <2>. QED
        BY <1>10, <2>1, <2>2, <2>3 DEF CrashPass, storeVars
<1>11. CASE BeginPass \/ BeginFlips \/ EndPass
            \/ \E r \in Slug : ReadPending(r) \/ WriteLeafDoc(r) \/ AddRoute(r) \/ StepFails(r)
    BY <1>2, <1>11 DEF BeginPass, BeginFlips, EndPass, ReadPending, WriteLeafDoc, AddRoute,
        StepFails, storeVars
<1>12. ASSUME NEW scope, NEW current, LoadIndex(scope, current)
       PROVE  Written(s)
    BY <1>2, <1>12 DEF LoadIndex, storeVars
<1>13. CASE UNCHANGED coldVars
    BY <1>2, <1>13 DEF coldVars, storeVars
<1>. QED
    BY <1>5, <1>6, <1>7, <1>8, <1>9, <1>10, <1>11, <1>12, <1>13 DEF ColdNext, Pass

\* The pass never takes back a commit or a verdict, although the commit of an
\* item, CI's answer and the store are read at different times.
THEOREM ColdAttributionKept == ColdSpec => AttributionKept
<1>1. ASSUME ColdShape, ColdInv, FreshInv, edits \in Nat, [ColdNext]_coldVars,
             NEW s \in Slug, edits' = edits, s \notin raced,
             item[s] # NoItem, item'[s] # NoItem
      PROVE  /\ item[s].sha # NoSha => item'[s].sha = item[s].sha
             /\ item[s].sha # NoSha /\ item[s].green # "unknown"
                  => item'[s].green = item[s].green
    <2>1. Written(s)
        BY <1>1, WriteKinds
    <2>2. item[s] \in Item
        BY <1>1 DEF ColdShape
    <2>3. AsHeld(s) => copy[s] \in Item
        BY <1>1 DEF ColdShape, AsHeld
    <2>. QED
        BY <2>1, <2>2, <2>3 DEF Written, AsHeld, Item
<1>. DEFINE Kept1 == \A s \in Slug :
        /\ edits' = edits /\ s \notin raced
        /\ item[s] # NoItem /\ item'[s] # NoItem
        => /\ item[s].sha # NoSha => item'[s].sha = item[s].sha
           /\ item[s].sha # NoSha /\ item[s].green # "unknown"
                => item'[s].green = item[s].green
<1>2. ColdShape /\ ColdInv /\ FreshInv /\ edits \in Nat /\ [ColdNext]_coldVars => Kept1
    BY <1>1
<1>3. ColdSpec => [][Kept1]_coldVars
    BY <1>2, ColdFresh, EditsCounted, PTL DEF ColdSpec
<1>. QED
    BY <1>3 DEF AttributionKept

\* The pass demotes no item that a person had pinned before it looked, and
\* leaves the pin.
THEOREM ColdPinHonoured == ColdSpec => PinHonoured
<1>1. ASSUME ColdShape, ColdInv, FreshInv, edits \in Nat, [ColdNext]_coldVars,
             NEW s \in Slug, edits' = edits, s \notin raced, pinWish[s],
             item[s] # NoItem, item'[s] # NoItem
      PROVE  /\ item'[s].pinned
             /\ item'[s].tier \in {item[s].tier, "warm"}
             /\ item[s].tier = "hot" => item'[s].tier = "hot"
    <2>1. Written(s)
        BY <1>1, WriteKinds
    <2>2. item[s] \in Item
        BY <1>1 DEF ColdShape
    <2>3. AsHeld(s) => copy[s] \in Item
        BY <1>1 DEF ColdShape, AsHeld
    <2>4. item[s].pinned
        BY <1>1, <2>2 DEF FreshInv, PinsKnown, Item
    <2>. QED
        BY <2>1, <2>2, <2>3, <2>4 DEF Written, AsHeld, Item
<1>. DEFINE Honoured == \A s \in Slug :
        /\ edits' = edits /\ s \notin raced /\ pinWish[s]
        /\ item[s] # NoItem /\ item'[s] # NoItem
        => /\ item'[s].pinned
           /\ item'[s].tier \in {item[s].tier, "warm"}
           /\ item[s].tier = "hot" => item'[s].tier = "hot"
<1>2. ColdShape /\ ColdInv /\ FreshInv /\ edits \in Nat /\ [ColdNext]_coldVars => Honoured
    BY <1>1
<1>3. ColdSpec => [][Honoured]_coldVars
    BY <1>2, ColdFresh, EditsCounted, PTL DEF ColdSpec
<1>. QED
    BY <1>3 DEF PinHonoured

-----------------------------------------------------------------------------
(* Tiers and days: what the pass writes back late is still as it was read. *)

\* What a step may do to the tier and the days of an item.
Rewrite(s) ==
    \/ item'[s] = item[s]
    \/ /\ item[s] = NoItem /\ item'[s] # NoItem
       /\ item'[s].used = Never /\ item'[s].campaign \in campaigns
       /\ UNCHANGED <<phase, todo, copy, campaigns, routed>>
    \/ item'[s] = NoItem /\ phase' = "idle" /\ coldCrashes' = coldCrashes + 1
    \/ item[s] # NoItem /\ item'[s] # NoItem /\ SameDays(item'[s], item[s])
    \/ MarkWarm(s)
    \/ Demote(s)

LEMMA Rewrites ==
    ASSUME ColdShape, HeldInv, [ColdNext]_coldVars, NEW s \in Slug
    PROVE  Rewrite(s)
<1>. USE NoItemAssumption
<1>1. /\ item \in [Slug -> Item \cup {NoItem}]
      /\ copy \in [Slug -> Item \cup {NoItem}]
    BY DEF ColdShape
<1>2. CASE UNCHANGED item
    BY <1>2 DEF Rewrite
<1>3. ASSUME NEW r \in Slug, NEW new, item' = [item EXCEPT ![r] = new], r # s
      PROVE  Rewrite(s)
    BY <1>1, <1>3 DEF Rewrite
<1>4. ASSUME NEW new \in Item, item' = [item EXCEPT ![s] = new],
             item[s] # NoItem, SameDays(new, item[s])
      PROVE  Rewrite(s)
    BY <1>1, <1>4 DEF Rewrite
<1>5. ASSUME Seal(s)
      PROVE  Rewrite(s)
    <2>1. PICK tier \in {"cold", "hot"}, current \in campaigns :
            item' = [item EXCEPT ![s] =
                [tier |-> tier, pinned |-> FALSE, sha |-> NoSha,
                 green |-> "unknown", used |-> Never, created |-> coldDay,
                 campaign |-> current]]
        BY <1>5 DEF Seal
    <2>2. [tier |-> tier, pinned |-> FALSE, sha |-> NoSha, green |-> "unknown",
           used |-> Never, created |-> coldDay, campaign |-> current] \in Item
        BY DEF ColdShape, Item, Verdict
    <2>3. item'[s] # NoItem /\ item'[s].used = Never /\ item'[s].campaign \in campaigns
        BY <1>1, <2>1, <2>2
    <2>4. /\ item[s] = NoItem
          /\ UNCHANGED <<phase, todo, copy, campaigns, routed>>
        BY <1>5 DEF Seal, passVars, worldVars
    <2>. QED
        BY <2>3, <2>4 DEF Rewrite
<1>6. ASSUME NEW r \in Slug, TogglePin(r)
      PROVE  Rewrite(s)
    <2>1. item' = [item EXCEPT ![r] = [item[r] EXCEPT !.pinned = ~ @]]
        BY <1>6 DEF TogglePin, Edited
    <2>2. item[r] \in Item /\ item[r] # NoItem
        BY <1>1, <1>6 DEF TogglePin
    <2>3. /\ [item[r] EXCEPT !.pinned = ~ @] \in Item
          /\ SameDays([item[r] EXCEPT !.pinned = ~ @], item[r])
        BY <2>2 DEF Item, SameDays
    <2>. QED
        BY <1>3, <1>4, <2>1, <2>2, <2>3
<1>7. ASSUME NEW r \in Slug, NEW c \in Authored, NEW v \in {"green", "red", "unknown"},
             item[r] # NoItem,
             item' = [item EXCEPT ![r] = [item[r] EXCEPT !.sha = c, !.green = v]]
      PROVE  Rewrite(s)
    <2>1. c \in Sha
        BY ColdAssumption, LenProperties DEF Authored, Sha, ColdShape
    <2>2. item[r] \in Item
        BY <1>1, <1>7
    <2>3. /\ [item[r] EXCEPT !.sha = c, !.green = v] \in Item
          /\ SameDays([item[r] EXCEPT !.sha = c, !.green = v], item[r])
        BY <2>1, <2>2 DEF Item, SameDays, Verdict
    <2>. QED
        BY <1>3, <1>4, <1>7, <2>3
<1>8. CASE World
    <2>1. CASE \E r \in Slug : Seal(r)
        <3>1. PICK r \in Slug : Seal(r)
            BY <2>1
        <3>. QED
            BY <1>3, <1>5, <3>1 DEF Seal
    <2>2. CASE \E r \in Slug : WriteConsequence(r)
        <3>1. PICK r \in Slug, c \in Authored, v \in {"green", "red"} :
                /\ item[r] # NoItem
                /\ item' = [item EXCEPT ![r] = [item[r] EXCEPT !.sha = c, !.green = v]]
            BY <2>2 DEF WriteConsequence, Edited
        <3>. QED
            BY <1>7, <3>1
    <2>. QED
        BY <1>2, <1>6, <1>8, <2>1, <2>2
        DEF World, Author, NewDay, Merge, CheckRun, Surface, storeVars
<1>9. ASSUME NEW r \in Slug, NEW c \in Authored, Attribute(r, c)
      PROVE  Rewrite(s)
    <2>1. \/ UNCHANGED item
          \/ /\ item[r] # NoItem
             /\ item' = [item EXCEPT ![r] =
                            [item[r] EXCEPT !.sha = c, !.green = "unknown"]]
        BY <1>9 DEF Attribute, WriteItem, IsCold
    <2>. QED
        BY <1>2, <1>7, <2>1
<1>10. ASSUME NEW r \in Slug, FlipVerdict(r)
       PROVE  Rewrite(s)
    <2>1. PICK v \in ResolveCIStatus(runs[copy[r].sha], RunsPage) :
            item' = IF v = "unknown" THEN item
                    ELSE [item EXCEPT ![r] = [copy[r] EXCEPT !.green = v]]
        BY <1>10 DEF FlipVerdict, WriteItem
    <2>2. v \in Verdict
        BY ResolvedGreen
    <2>3. copy[r] \in Item /\ item[r] \in Item /\ SameDays(item[r], copy[r])
        BY <1>1, <1>10 DEF FlipVerdict, HeldInv
    <2>4. /\ [copy[r] EXCEPT !.green = v] \in Item
          /\ SameDays([copy[r] EXCEPT !.green = v], item[r])
        BY <2>2, <2>3 DEF Item, SameDays
    <2>. QED
        BY <1>2, <1>3, <1>4, <2>1, <2>3, <2>4
<1>11. ASSUME NEW r \in Slug, MarkWarm(r) \/ Demote(r)
       PROVE  Rewrite(s)
    BY <1>3, <1>11 DEF MarkWarm, Demote, WriteItem, Rewrite
<1>12. CASE CrashPass
    <2>1. \A t \in todo : t[2] \in Slug
        BY DEF ColdShape
    <2>2. UNCHANGED item \/ \E r \in Slug : item' = [item EXCEPT ![r] = NoItem]
        BY <1>12, <2>1 DEF CrashPass, storeVars
    <2>3. CASE \E r \in Slug : item' = [item EXCEPT ![r] = NoItem]
        BY <1>1, <1>12, <2>3 DEF CrashPass, Rewrite
    <2>. QED
        BY <1>2, <2>2, <2>3
<1>13. CASE BeginPass \/ BeginFlips \/ EndPass
            \/ \E r \in Slug : ReadPending(r) \/ WriteLeafDoc(r) \/ AddRoute(r) \/ StepFails(r)
    BY <1>2, <1>13 DEF BeginPass, BeginFlips, EndPass, ReadPending, WriteLeafDoc, AddRoute,
        StepFails, storeVars
<1>14. ASSUME NEW scope, NEW current, LoadIndex(scope, current)
       PROVE  Rewrite(s)
    BY <1>2, <1>14 DEF LoadIndex, storeVars
<1>15. CASE UNCHANGED coldVars
    BY <1>2, <1>15 DEF coldVars, storeVars
<1>. QED
    BY <1>8, <1>9, <1>10, <1>11, <1>12, <1>13, <1>14, <1>15 DEF ColdNext, Pass

\* What a step may do to the tasks and to what the pass has in memory.
LEMMA PassKinds ==
    ASSUME ColdShape, FreshInv, [ColdNext]_coldVars
    PROVE  \/ phase' \in {"idle", "attribute", "flip"}
           \/ copy' = item /\ item' = item
           \/ /\ \E r \in Slug : copy' = [copy EXCEPT ![r] = item[r]]
              /\ copy = NoCopy /\ item' = item
           \/ /\ UNCHANGED <<phase, copy>>
              /\ \A t \in todo' : \E u \in todo : u[2] = t[2]
<1>. DEFINE Goal == \/ phase' \in {"idle", "attribute", "flip"}
                    \/ copy' = item /\ item' = item
                    \/ /\ \E r \in Slug : copy' = [copy EXCEPT ![r] = item[r]]
                       /\ copy = NoCopy /\ item' = item
                    \/ /\ UNCHANGED <<phase, copy>>
                       /\ \A t \in todo' : \E u \in todo : u[2] = t[2]
<1>1. CASE World
    BY <1>1 DEF World, Author, NewDay, Seal, TogglePin, WriteConsequence, Edited,
        Merge, CheckRun, Surface, passVars
<1>2. CASE BeginPass \/ BeginFlips \/ EndPass \/ CrashPass
    BY <1>2 DEF BeginPass, BeginFlips, EndPass, CrashPass
<1>3. ASSUME NEW s \in Slug, NEW c \in Authored, Attribute(s, c)
      PROVE  Goal
    BY <1>3 DEF Attribute
<1>4. ASSUME NEW s \in Slug, ReadPending(s)
      PROVE  Goal
    <2>1. copy = NoCopy
        BY <1>4 DEF ReadPending, FreshInv, CopyFresh
    <2>. QED
        BY <1>4, <2>1 DEF ReadPending, storeVars
<1>5. ASSUME NEW s \in Slug, FlipVerdict(s)
      PROVE  Goal
    BY <1>5 DEF FlipVerdict
<1>6. ASSUME NEW scope, NEW current, LoadIndex(scope, current)
      PROVE  Goal
    BY <1>6 DEF LoadIndex, storeVars
<1>7. ASSUME NEW s \in Slug, NEW from, NEW to, Advance(s, from, to),
             UNCHANGED <<phase, copy>>
      PROVE  Goal
    <2>1. <<from, s, NoSha>> \in todo
        BY <1>7 DEF Advance
    <2>2. ASSUME NEW t \in todo'
          PROVE  t \in todo \/ t[2] = s
        BY <1>7 DEF Advance
    <2>3. <<from, s, NoSha>>[2] = s
        OBVIOUS
    <2>. QED
        BY <1>7, <2>1, <2>2, <2>3
<1>8. ASSUME NEW s \in Slug,
             \/ WriteLeafDoc(s) \/ AddRoute(s) \/ MarkWarm(s) \/ Demote(s)
             \/ StepFails(s)
      PROVE  Goal
    BY <1>7, <1>8 DEF WriteLeafDoc, AddRoute, MarkWarm, Demote, StepFails
<1>9. CASE UNCHANGED coldVars
    BY <1>9 DEF coldVars, passVars
<1>. QED
    BY <1>1, <1>2, <1>3, <1>4, <1>5, <1>6, <1>8, <1>9 DEF ColdNext, Pass

\* MarkWarm and Demote: a record that the pass holds, under a new tier.
LEMMA WrittenBack ==
    ASSUME ColdShape, ColdInv, FreshInv, NEW s \in Slug, MarkWarm(s) \/ Demote(s)
    PROVE  /\ copy[s] \in Item /\ copy[s] # NoItem
           /\ item'[s] \in Item /\ item'[s] # NoItem
           /\ item'[s].created = copy[s].created
           /\ item'[s].campaign = copy[s].campaign
           /\ MarkWarm(s) => item'[s].tier = "warm" /\ item'[s].used = coldDay
           /\ Demote(s) => item'[s].used = copy[s].used
           /\ phase = "apply" /\ phase' = "apply"
           /\ \A t \in todo' : t[2] # s
           /\ Demote(s) => <<"decay", s, NoSha>> \in todo
           /\ Demote(s) => <<"mark", s, NoSha>> \notin todo
<1>. USE NoItemAssumption
<1>1. PICK kind \in {"mark", "decay"} :
        /\ Advance(s, kind, "done")
        /\ kind = "mark" <=> MarkWarm(s)
        /\ kind = "decay" <=> Demote(s)
        /\ UNCHANGED <<phase, copy>>
    <2>1. CASE MarkWarm(s)
        <3>1. ~ Demote(s)
            BY <2>1 DEF MarkWarm, Demote, Advance, FreshInv, TodoFresh
        <3>. QED
            BY <2>1, <3>1 DEF MarkWarm
    <2>2. CASE Demote(s)
        <3>1. ~ MarkWarm(s)
            BY <2>2 DEF MarkWarm, Demote, Advance, FreshInv, TodoFresh
        <3>. QED
            BY <2>2, <3>1 DEF Demote
    <2>. QED
        BY <2>1, <2>2
<1>2. phase = "apply" /\ <<kind, s, NoSha>> \in todo /\ todo' = todo \ {<<kind, s, NoSha>>}
    BY <1>1 DEF Advance
<1>3. copy[s] # NoItem /\ copy[s] \in Item
    <2>1. TaskSound(<<kind, s, NoSha>>)
        BY <1>2 DEF ColdInv, TodoSound
    <2>. QED
        BY <2>1 DEF TaskSound, ColdShape
<1>4. \A t \in todo : t[2] = s => t = <<kind, s, NoSha>>
    BY <1>2 DEF FreshInv, TodoFresh
<1>5. /\ phase = "apply" /\ phase' = "apply"
      /\ \A t \in todo' : t[2] # s
      /\ Demote(s) => <<"decay", s, NoSha>> \in todo
      /\ Demote(s) => <<"mark", s, NoSha>> \notin todo
    <2>1. Demote(s) => kind = "decay" /\ <<"mark", s, NoSha>> \notin todo
        BY <1>1, <1>4
    <2>. QED
        BY <1>1, <1>2, <1>4, <2>1
<1>6. CASE MarkWarm(s)
    <2>1. item'[s] = [copy[s] EXCEPT !.tier = "warm", !.used = coldDay]
        BY <1>6 DEF MarkWarm, WriteItem, ColdShape
    <2>2. /\ item'[s] \in Item
          /\ item'[s].tier = "warm" /\ item'[s].used = coldDay
          /\ item'[s].created = copy[s].created
          /\ item'[s].campaign = copy[s].campaign
        BY <1>3, <2>1 DEF ColdShape, Item
    <2>3. ~ Demote(s)
        BY <1>1, <1>6
    <2>. QED
        BY <1>3, <1>5, <2>2, <2>3
<1>7. CASE Demote(s)
    <2>1. item'[s] = [copy[s] EXCEPT !.tier = IF @ = "hot" THEN "warm" ELSE "cold"]
        BY <1>7 DEF Demote, WriteItem, ColdShape
    <2>2. /\ item'[s] \in Item
          /\ item'[s].used = copy[s].used
          /\ item'[s].created = copy[s].created
          /\ item'[s].campaign = copy[s].campaign
        BY <1>3, <2>1 DEF Item
    <2>3. ~ MarkWarm(s)
        BY <1>1, <1>7
    <2>. QED
        BY <1>3, <1>5, <2>2, <2>3
<1>. QED
    BY <1>6, <1>7

LEMMA HeldStep ==
    ColdShape /\ ColdInv /\ FreshInv /\ FreshInv' /\ HeldInv /\ [ColdNext]_coldVars
        => HeldInv'
<1>. SUFFICES ASSUME ColdShape, ColdInv, FreshInv, FreshInv', HeldInv,
                     [ColdNext]_coldVars
              PROVE  HeldInv'
    OBVIOUS
<1>. USE NoItemAssumption
<1>1. /\ item \in [Slug -> Item \cup {NoItem}] /\ copy \in [Slug -> Item \cup {NoItem}]
    BY DEF ColdShape
<1>2. CASE phase' \in {"idle", "attribute", "flip"}
    BY <1>2 DEF FreshInv, CopyFresh, NoCopy, HeldInv
<1>3. CASE copy' = item /\ item' = item
    BY <1>3 DEF HeldInv, SameDays
<1>4. CASE /\ \E r \in Slug : copy' = [copy EXCEPT ![r] = item[r]]
           /\ copy = NoCopy /\ item' = item
    <2>1. \A s \in Slug : copy'[s] \in {NoItem, item'[s]}
        BY <1>1, <1>4 DEF NoCopy
    <2>. QED
        BY <2>1 DEF HeldInv, SameDays
<1>5. CASE /\ phase' \notin {"idle", "attribute", "flip"}
           /\ UNCHANGED <<phase, copy>>
           /\ \A t \in todo' : \E u \in todo : u[2] = t[2]
    <2>. SUFFICES ASSUME NEW s \in Slug, copy'[s] # NoItem
                  PROVE  /\ item'[s] # NoItem
                         /\ phase' # "apply" \/ (\E t \in todo' : t[2] = s)
                              => SameDays(item'[s], copy'[s])
        BY DEF HeldInv
    <2>1. /\ copy[s] # NoItem /\ item[s] # NoItem
          /\ phase # "apply" \/ (\E t \in todo : t[2] = s) => SameDays(item[s], copy[s])
        BY <1>5 DEF HeldInv
    <2>2. CASE MarkWarm(s) \/ Demote(s)
        BY <2>2, WrittenBack
    <2>3. CASE item'[s] # NoItem /\ SameDays(item'[s], item[s])
        BY <1>5, <2>1, <2>3 DEF SameDays
    <2>4. SameDays(item[s], item[s])
        BY DEF SameDays
    <2>5. Rewrite(s)
        BY Rewrites
    <2>. QED
        BY <1>5, <2>1, <2>2, <2>3, <2>4, <2>5 DEF Rewrite
<1>. QED
    BY <1>2, <1>3, <1>4, <1>5, PassKinds

LEMMA ColdHeld == ColdSpec => [](ColdShape /\ ColdInv /\ FreshInv /\ HeldInv)
<1>1. ColdInit => HeldInv
    BY DEF ColdInit, HeldInv, NoCopy
<1>. QED
    BY <1>1, HeldStep, ColdFresh, PTL DEF ColdSpec

\* Passes that are killed, and items that cannot be written, are counted.
LEMMA CrashesStep ==
    ASSUME [ColdNext]_coldVars
    PROVE  \/ coldCrashes' = coldCrashes
           \/ /\ coldCrashes' = coldCrashes + 1
              /\ CrashPass \/ \E s \in Slug : StepFails(s)
<1>1. CASE World
    BY <1>1 DEF World, Author, NewDay, Seal, TogglePin, WriteConsequence, Edited, Merge,
        CheckRun, Surface, countVars
<1>2. CASE BeginPass \/ BeginFlips \/ EndPass
    BY <1>2 DEF BeginPass, BeginFlips, EndPass, countVars
<1>3. CASE \E s \in Slug, c \in Authored : Attribute(s, c)
    BY <1>3 DEF Attribute, countVars
<1>4. CASE \E s \in Slug : ReadPending(s) \/ FlipVerdict(s)
    BY <1>4 DEF ReadPending, FlipVerdict, countVars
<1>5. CASE \E s \in Slug : WriteLeafDoc(s) \/ AddRoute(s) \/ MarkWarm(s) \/ Demote(s)
    BY <1>5 DEF WriteLeafDoc, AddRoute, MarkWarm, Demote, countVars
<1>6. ASSUME NEW scope, NEW current, LoadIndex(scope, current)
      PROVE  coldCrashes' = coldCrashes
    BY <1>6 DEF LoadIndex, countVars
<1>7. CASE CrashPass \/ \E s \in Slug : StepFails(s)
    BY <1>7 DEF CrashPass, StepFails
<1>8. CASE UNCHANGED coldVars
    BY <1>8 DEF coldVars, countVars
<1>. QED
    BY <1>1, <1>2, <1>3, <1>4, <1>5, <1>6, <1>7, <1>8 DEF ColdNext, Pass

\* A route is added between the bullet and the mark of its item, and the mark
\* is not forgotten.
LEMMA RouteKinds ==
    ASSUME ColdShape, ColdInv, FreshInv, [ColdNext]_coldVars,
           ~ (CrashPass \/ \E s \in Slug : StepFails(s)),
           NEW s \in Slug
    PROVE  /\ \/ s \in routed' => s \in routed
              \/ item' = item /\ copy[s] # NoItem /\ <<"mark", s, NoSha>> \in todo'
           /\ <<"mark", s, NoSha>> \in todo =>
                <<"mark", s, NoSha>> \in todo' \/ MarkWarm(s)
<1>. DEFINE mark == <<"mark", s, NoSha>>
            Goal == /\ \/ s \in routed' => s \in routed
                       \/ item' = item /\ copy[s] # NoItem /\ mark \in todo'
                    /\ mark \in todo => mark \in todo' \/ MarkWarm(s)
<1>. SUFFICES Goal
    OBVIOUS
<1>1. mark \in todo => phase = "apply"
    <2>1. \A t \in todo : t[1] \in KindsOf
        BY DEF ColdInv, TodoSound, TaskSound
    <2>2. mark[1] = "mark"
        OBVIOUS
    <2>. HIDE DEF mark
    <2>. QED
        BY <2>1, <2>2 DEF KindsOf
<1>. HIDE DEF mark
<1>2. CASE UNCHANGED <<routed, todo>>
    BY <1>2
<1>3. ASSUME phase # "apply" \/ todo = {}, UNCHANGED routed
      PROVE  Goal
    BY <1>1, <1>3
<1>4. CASE World
    <2>1. UNCHANGED <<routed, todo>>
        BY <1>4 DEF World, Author, NewDay, Seal, TogglePin, WriteConsequence, Edited,
            Merge, CheckRun, Surface, storeVars, passVars
    <2>. QED
        BY <1>2, <2>1
<1>5. CASE BeginPass \/ BeginFlips \/ EndPass
    BY <1>3, <1>5 DEF BeginPass, BeginFlips, EndPass, storeVars
<1>6. ASSUME NEW r \in Slug, NEW c \in Authored, Attribute(r, c)
      PROVE  Goal
    BY <1>3, <1>6 DEF Attribute
<1>7. ASSUME NEW r \in Slug, ReadPending(r) \/ FlipVerdict(r)
      PROVE  Goal
    BY <1>3, <1>7 DEF ReadPending, FlipVerdict, storeVars
<1>8. ASSUME NEW scope, NEW current, LoadIndex(scope, current)
      PROVE  Goal
    BY <1>3, <1>8 DEF LoadIndex, storeVars
<1>9. ASSUME NEW r \in Slug, AddRoute(r)
      PROVE  Goal
    <2>1. /\ <<"route", r, NoSha>> \in todo /\ item' = item
          /\ todo' = (todo \ {<<"route", r, NoSha>>}) \cup {<<"mark", r, NoSha>>}
          /\ routed' = routed \cup {r}
        BY <1>9 DEF AddRoute, Advance
    <2>2. copy[r] # NoItem
        BY <2>1 DEF ColdInv, TodoSound, TaskSound
    <2>3. mark # <<"route", r, NoSha>>
        BY DEF mark
    <2>4. r = s => mark \in todo'
        BY <2>1 DEF mark
    <2>. QED
        BY <2>1, <2>2, <2>3, <2>4
<1>10. ASSUME NEW r \in Slug, WriteLeafDoc(r) \/ Demote(r)
       PROVE  Goal
    <2>1. PICK from \in {"promote", "decay"}, to \in {"route", "done"} :
            Advance(r, from, to) /\ UNCHANGED routed
        BY <1>10 DEF WriteLeafDoc, Demote
    <2>2. \A t \in todo : t # <<from, r, NoSha>> => t \in todo'
        BY <2>1 DEF Advance
    <2>3. mark # <<from, r, NoSha>>
        BY DEF mark
    <2>. QED
        BY <2>1, <2>2, <2>3
<1>11. ASSUME NEW r \in Slug, MarkWarm(r)
       PROVE  Goal
    <2>1. /\ \A t \in todo : t # <<"mark", r, NoSha>> => t \in todo'
          /\ UNCHANGED routed
        BY <1>11 DEF MarkWarm, Advance
    <2>2. CASE r = s
        BY <1>11, <2>1, <2>2
    <2>3. CASE r # s
        <3>1. mark # <<"mark", r, NoSha>>
            BY <2>3 DEF mark
        <3>. QED
            BY <2>1, <3>1
    <2>. QED
        BY <2>2, <2>3
<1>12. CASE UNCHANGED coldVars
    BY <1>2, <1>12 DEF coldVars, storeVars, passVars
<1>. QED
    BY <1>4, <1>5, <1>6, <1>7, <1>8, <1>9, <1>10, <1>11, <1>12 DEF ColdNext, Pass

LEMMA UsedStep ==
    ColdShape /\ ColdInv /\ FreshInv /\ HeldInv /\ RouteInv /\ UsedInv
      /\ [ColdNext]_coldVars => UsedInv'
<1>. USE NoItemAssumption
<1>. SUFFICES ASSUME ColdShape, ColdInv, FreshInv, HeldInv, RouteInv, UsedInv,
                     [ColdNext]_coldVars, coldCrashes' = 0, NEW s \in routed',
                     s \in Slug
              PROVE  /\ item'[s] # NoItem
                     /\ item'[s].used = Never => <<"mark", s, NoSha>> \in todo'
    <2>1. ColdShape /\ TodoSound /\ [ColdNext]_coldVars => routed' \subseteq Slug
        BY ColdShapeStep DEF ColdShape
    <2>. QED
        BY <2>1 DEF UsedInv, ColdInv
<1>1. /\ coldCrashes = 0 /\ coldCrashes' # coldCrashes + 1
      /\ ~ (CrashPass \/ \E r \in Slug : StepFails(r))
    <2>1. coldCrashes \in Nat
        BY DEF RouteInv
    <2>2. CrashPass \/ (\E r \in Slug : StepFails(r)) => coldCrashes' = coldCrashes + 1
        BY DEF CrashPass, StepFails
    <2>. QED
        BY <2>1, <2>2, CrashesStep
<1>2. CASE item' = item /\ copy[s] # NoItem /\ <<"mark", s, NoSha>> \in todo'
    BY <1>2 DEF HeldInv
<1>3. CASE s \in routed
    <2>1. /\ item[s] # NoItem
          /\ item[s].used = Never => <<"mark", s, NoSha>> \in todo
        BY <1>1, <1>3 DEF UsedInv
    <2>2. <<"mark", s, NoSha>> \in todo => <<"mark", s, NoSha>> \in todo' \/ MarkWarm(s)
        BY <1>1, RouteKinds
    <2>3. CASE MarkWarm(s)
        <3>1. coldDay # Never
            BY ColdAssumption DEF ColdShape, Day, Never
        <3>. QED
            BY <2>3, <3>1, WrittenBack
    <2>4. CASE ~ MarkWarm(s) /\ Demote(s)
        <3>1. /\ item'[s] # NoItem /\ item'[s].used = copy[s].used
              /\ copy[s] # NoItem /\ <<"decay", s, NoSha>> \in todo
              /\ <<"mark", s, NoSha>> \notin todo
            BY <2>4, WrittenBack
        <3>2. \E t \in todo : t[2] = s
            BY <3>1
        <3>3. item[s].used = copy[s].used
            BY <3>1, <3>2 DEF HeldInv, SameDays
        <3>. QED
            BY <2>1, <3>1, <3>3
    <2>5. CASE item'[s] # NoItem /\ item'[s].used = item[s].used /\ ~ MarkWarm(s)
        BY <2>1, <2>2, <2>5
    <2>6. Rewrite(s)
        BY Rewrites
    <2>. QED
        BY <1>1, <2>1, <2>3, <2>4, <2>5, <2>6 DEF Rewrite, SameDays
<1>. QED
    BY <1>1, <1>2, <1>3, RouteKinds

\* The topic of an item that a route injects is not surfaced as a cold one too:
\* the tier is written last, and never from a record that is out of date.
THEOREM ColdNotSurfacedTwice == ColdSpec => []NotSurfacedTwice
<1>1. ColdInit => RouteInv /\ UsedInv
    BY DEF ColdInit, RouteInv, UsedInv
<1>2. ASSUME ColdShape, ColdInv, UsedInv
      PROVE  NotSurfacedTwice
    <2>. SUFFICES ASSUME phase = "idle", coldCrashes = 0, NEW s \in routed,
                         item[s].used = Never
                  PROVE  FALSE
        BY DEF NotSurfacedTwice
    <2>1. <<"mark", s, NoSha>> \in todo
        BY <1>2 DEF UsedInv
    <2>. QED
        BY <1>2, <2>1 DEF ColdInv, TodoSound, TaskSound, KindsOf
<1>3. ColdShape /\ ColdInv /\ UsedInv => NotSurfacedTwice
    BY <1>2
<1>. QED
    BY <1>1, <1>3, RouteStep, UsedStep, ColdHeld, PTL DEF ColdSpec

-----------------------------------------------------------------------------
(* The window of decay: how many campaigns began after a day.              *)

LEMMA LeastOf ==
    ASSUME NEW T \in SUBSET Nat, T # {}
    PROVE  \E n \in T : \A m \in T : n <= m
<1>1. PICK n \in T : \A m \in T : <<m, n>> \notin OpToRel(<, Nat)
    BY NatLessThanWellFounded, WFMin
<1>2. \A m \in T : ~ (m < n)
    BY <1>1 DEF OpToRel
<1>. QED
    BY <1>2

LEMMA DayNat ==
    /\ MaxDay \in Nat /\ Never \in Nat
    /\ \A d \in Day : d \in Nat /\ MaxDay - d \in Nat /\ d # Never
BY ColdAssumption DEF Day, Never

LEMMA DaysFinite ==
    ASSUME NEW S \in SUBSET Day
    PROVE  /\ S \subseteq Nat
           /\ \A T \in SUBSET S : IsFiniteSet(T) /\ Cardinality(T) \in Nat
           /\ \A T \in SUBSET S : \A U \in SUBSET T : Cardinality(U) <= Cardinality(T)
<1>1. IsFiniteSet(Day)
    BY ColdAssumption, FS_Interval DEF Day
<1>2. \A T \in SUBSET S : IsFiniteSet(T)
    BY <1>1, FS_Subset
<1>3. \A T \in SUBSET S : Cardinality(T) \in Nat
    BY <1>2, FS_CardinalityType
<1>4. ASSUME NEW T \in SUBSET S, NEW U \in SUBSET T
      PROVE  Cardinality(U) <= Cardinality(T)
    BY <1>2, <1>4, FS_Subset
<1>. QED
    BY <1>2, <1>3, <1>4, ColdAssumption DEF Day

LEMMA LatestDay ==
    ASSUME NEW S \in SUBSET Day, S # {}
    PROVE  Max(S) \in S
<1>. DEFINE left == {MaxDay - d : d \in S}
<1>1. left \in SUBSET Nat /\ left # {}
    <2>1. \A d \in S : MaxDay - d \in Nat
        BY DayNat
    <2>. QED
        BY <2>1
<1>2. PICK n \in left : \A m \in left : n <= m
    <2>. HIDE DEF left
    <2>. QED
        BY <1>1, LeastOf
<1>3. PICK d \in S : n = MaxDay - d
    BY <1>2
<1>4. \A e \in S : d >= e
    <2>1. \A e \in S : MaxDay - d <= MaxDay - e
        BY <1>2, <1>3
    <2>2. \A e \in S : e \in Nat
        BY DayNat
    <2>. QED
        BY <2>1, <2>2, DayNat
<1>. QED
    BY <1>3, <1>4 DEF Max

\* For each rank there is a campaign of that rank, counted from the last.
LEMMA Ranked ==
    ASSUME NEW S \in SUBSET Day, NEW n \in 1..Cardinality(S)
    PROVE  \E d \in S : Cardinality({e \in S : e >= d}) = n
<1>. DEFINE from(d) == {e \in S : e >= d}
            high == {d \in S : Cardinality(from(d)) >= n}
            sizes == {Cardinality(from(d)) : d \in high}
<1>1. S \subseteq Nat /\ \A d : IsFiniteSet(from(d)) /\ Cardinality(from(d)) \in Nat
    BY DaysFinite
<1>2. high # {}
    <2>1. S # {}
        BY FS_EmptySet
    <2>2. PICK d \in S : \A e \in S : d <= e
        BY <1>1, <2>1, LeastOf
    <2>3. from(d) = S
        BY <1>1, <2>2
    <2>. QED
        BY <2>2, <2>3, DaysFinite
<1>3. PICK d \in high : \A e \in high : Cardinality(from(d)) <= Cardinality(from(e))
    <2>1. sizes \in SUBSET Nat /\ sizes # {}
        BY <1>1, <1>2
    <2>2. PICK k \in sizes : \A m \in sizes : k <= m
        <3>. HIDE DEF sizes
        <3>. QED
            BY <2>1, LeastOf
    <2>. QED
        BY <2>2
<1>4. d \in S /\ Cardinality(from(d)) >= n
    BY <1>3
<1>5. Cardinality(from(d)) = n
    <2>. SUFFICES ASSUME Cardinality(from(d)) # n
                  PROVE  FALSE
        OBVIOUS
    <2>. DEFINE above == from(d) \ {d}
    <2>1. IsFiniteSet(above) /\ Cardinality(above) = Cardinality(from(d)) - 1
        <3>1. d \in from(d)
            BY <1>1, <1>4
        <3>. HIDE DEF from
        <3>. QED
            BY <1>1, <3>1, FS_RemoveElement
    <2>2. Cardinality(from(d)) \in Nat /\ Cardinality(from(d)) > n
        BY <1>1, <1>4
    <2>3. above # {}
        <3>1. Cardinality(above) >= 1
            BY <2>1, <2>2
        <3>. HIDE DEF above
        <3>. QED
            BY <3>1, FS_EmptySet
    <2>4. PICK e \in above : \A f \in above : e <= f
        BY <1>1, <2>3, LeastOf
    <2>5. from(e) = above
        <3>1. e \in S /\ e > d
            BY <1>1, <1>4, <2>4
        <3>2. \A f \in S : f >= e <=> f \in above
            BY <1>1, <1>4, <2>4, <3>1
        <3>3. above \subseteq S
            OBVIOUS
        <3>. HIDE DEF above
        <3>. QED
            BY <3>2, <3>3
    <2>6. e \in high
        BY <2>1, <2>2, <2>4, <2>5
    <2>. QED
        <3>1. Cardinality(from(d)) <= Cardinality(from(e))
            BY <1>3, <2>6
        <3>. HIDE DEF from, above
        <3>. QED
            BY <2>1, <2>2, <2>5, <3>1
<1>. QED
    BY <1>4, <1>5

\* A day before the window, of which a campaign began no later, is more than
\* Threshold campaigns ago.
LEMMA BeforeWindow ==
    ASSUME NEW S \in SUBSET Day, NEW u \in Day, u < Window(S),
           NEW c \in S, c <= u
    PROVE  Cardinality({d \in S : d > u}) >= Threshold
<1>. DEFINE size == Cardinality(S)
            n == Min({Threshold, size})
            after == {d \in S : d > u}
<1>1. S \subseteq Nat /\ size \in Nat /\ IsFiniteSet(S)
    BY DaysFinite
<1>2. size # 0
    BY <1>1, FS_EmptySet
<1>3. n \in {Threshold, size} /\ n <= Threshold /\ n <= size
    <2>1. \E x \in {Threshold, size} : \A y \in {Threshold, size} : x <= y
        <3>. HIDE DEF size
        <3>. QED
            BY <1>1, ColdAssumption
    <2>2. n \in {Threshold, size} /\ \A y \in {Threshold, size} : n <= y
        <3>. HIDE DEF size
        <3>. QED
            BY <2>1 DEF Min
    <2>. QED
        BY <2>2
<1>4. n \in 1..size
    BY <1>1, <1>2, <1>3, ColdAssumption
<1>5. /\ Window(S) \in S
      /\ Cardinality({e \in S : e >= Window(S)}) = n
    <2>1. \E d \in S : Cardinality({e \in S : e >= d}) = n
        <3>. HIDE DEF n
        <3>. QED
            BY <1>4, Ranked
    <2>. QED
        BY <2>1 DEF Window
<1>6. n <= Cardinality(after)
    <2>1. {e \in S : e >= Window(S)} \subseteq after
        <3>1. u \in Nat /\ Window(S) \in Nat
            BY <1>1, <1>5, DayNat
        <3>2. ASSUME NEW e \in S, e >= Window(S)
              PROVE  e > u
            BY <1>1, <3>1, <3>2
        <3>. QED
            BY <3>2
    <2>. QED
        BY <1>5, <2>1, DaysFinite
<1>7. Cardinality(after) < size
    <2>1. c \notin after /\ c \in S
        BY <1>1, DayNat
    <2>2. Cardinality(S \ {c}) = size - 1
        BY <1>1, <2>1, FS_RemoveElement
    <2>3. after \subseteq S \ {c}
        BY <2>1
    <2>4. Cardinality(after) <= Cardinality(S \ {c})
        <3>. HIDE DEF after
        <3>. QED
            BY <2>3, DaysFinite
    <2>5. Cardinality(after) \in Nat
        BY DaysFinite
    <2>. QED
        <3>. HIDE DEF after, size
        <3>. QED
            BY <1>1, <2>2, <2>4, <2>5
<1>. QED
    <2>1. Cardinality(after) \in Nat
        BY DaysFinite
    <2>. HIDE DEF after, n, size
    <2>2. n = Threshold
        BY <1>1, <1>3, <1>6, <1>7, <2>1, ColdAssumption
    <2>3. Cardinality(after) >= Threshold
        BY <1>6, <2>1, <2>2, ColdAssumption
    <2>. QED
        BY <2>3 DEF after

\* If each item is dated like its campaign, the campaigns that the pass knows of
\* have all begun, and they are those of the items and perhaps the current one.
LEMMA StartsKnown ==
    ASSUME ColdShape, DatesInv, NEW s \in Slug, item[s] # NoItem,
           \A t \in Slug : item[t] # NoItem => item[t].created = item[t].campaign,
           NEW current \in {{}, {Max(campaigns)}}
    PROVE  KnownStarts(current) \subseteq campaigns
           /\ item[s].campaign \in KnownStarts(current)
<1>. DEFINE live == {t \in Slug : item[t] # NoItem}
            created(k) == {item[t].created : t \in {r \in live : item[r].campaign = k}}
<1>1. KnownStarts(current) = current \cup {Min(created(item[t].campaign)) : t \in live}
    BY DEF KnownStarts
<1>2. ASSUME NEW t \in live
      PROVE  Min(created(item[t].campaign)) = item[t].campaign /\ item[t].campaign \in campaigns
    <2>1. item[t].campaign \in campaigns
        BY <1>2 DEF DatesInv, Dated
    <2>2. item[t].campaign \in Nat
        BY <2>1, DayNat DEF ColdShape
    <2>3. created(item[t].campaign) = {item[t].campaign}
        BY <1>2
    <2>4. \A k \in Nat : Min({k}) = k
        BY DEF Min
    <2>. QED
        BY <2>1, <2>2, <2>3, <2>4
<1>3. s \in live
    OBVIOUS
<1>4. current \subseteq campaigns
    <2>1. campaigns # {} /\ campaigns \subseteq Day
        BY <1>2, <1>3 DEF ColdShape
    <2>. QED
        BY <2>1, LatestDay
<1>. HIDE DEF live, created
<1>. QED
    BY <1>1, <1>2, <1>3, <1>4

-----------------------------------------------------------------------------
(* That what is demoted has been out of use for as many campaigns.         *)

LEMMA DaysStep ==
    ASSUME ColdShape, [ColdNext]_coldVars
    PROVE  /\ campaigns \subseteq campaigns' /\ coldDay <= coldDay'
           /\ \/ UNCHANGED <<campaigns, coldDay>>
              \/ /\ campaigns' \subseteq campaigns \cup {coldDay'}
                 /\ coldDay' = coldDay + 1 /\ UNCHANGED <<item, copy>>
<1>1. coldDay \in Nat
    BY DayNat DEF ColdShape
<1>2. CASE NewDay
    BY <1>1, <1>2 DEF NewDay, storeVars, passVars
<1>3. ASSUME World, ~ NewDay
      PROVE  UNCHANGED <<campaigns, coldDay>>
    <2>1. CASE Author \/ \E c \in Authored : Merge(c) \/ CheckRun(c)
        BY <2>1 DEF Author, Merge, CheckRun
    <2>2. CASE \E s \in Slug : Seal(s) \/ TogglePin(s) \/ WriteConsequence(s)
        BY <2>2 DEF Seal, TogglePin, WriteConsequence, Edited, worldVars
    <2>3. CASE \E matching \in SUBSET Slug : Surface(matching)
        BY <2>3 DEF Surface
    <2>. QED
        BY <1>3, <2>1, <2>2, <2>3 DEF World
<1>4. CASE BeginPass \/ BeginFlips \/ EndPass
    BY <1>1, <1>4 DEF BeginPass, BeginFlips, EndPass, worldVars
<1>5. CASE \E s \in Slug, c \in Authored : Attribute(s, c)
    BY <1>1, <1>5 DEF Attribute, worldVars
<1>6. CASE \E s \in Slug : ReadPending(s) \/ FlipVerdict(s)
    BY <1>1, <1>6 DEF ReadPending, FlipVerdict, worldVars
<1>7. CASE \E s \in Slug : WriteLeafDoc(s) \/ AddRoute(s) \/ MarkWarm(s) \/ Demote(s)
    BY <1>1, <1>7 DEF WriteLeafDoc, AddRoute, MarkWarm, Demote, worldVars
<1>8. ASSUME NEW scope, NEW current, LoadIndex(scope, current)
      PROVE  UNCHANGED <<campaigns, coldDay>>
    BY <1>8 DEF LoadIndex, worldVars
<1>9. CASE CrashPass \/ \E s \in Slug : StepFails(s)
    BY <1>1, <1>9 DEF CrashPass, StepFails, worldVars
<1>10. CASE UNCHANGED coldVars
    BY <1>1, <1>10 DEF coldVars, worldVars
<1>. QED
    BY <1>1, <1>2, <1>3, <1>4, <1>5, <1>6, <1>7, <1>8, <1>9, <1>10 DEF ColdNext, Pass, World

LEMMA DatesStep ==
    ColdShape /\ ColdShape' /\ ColdInv /\ FreshInv /\ FreshInv' /\ HeldInv /\ DatesInv
      /\ [ColdNext]_coldVars => DatesInv'
<1>. USE NoItemAssumption
<1>. SUFFICES ASSUME ColdShape, ColdShape', ColdInv, FreshInv, FreshInv', HeldInv,
                     DatesInv, [ColdNext]_coldVars
              PROVE  DatesInv'
    OBVIOUS
<1>1. campaigns' \subseteq 0..coldDay'
    <2>1. coldDay \in Nat /\ coldDay' \in Nat
        BY DayNat DEF ColdShape
    <2>2. ASSUME NEW d \in campaigns'
          PROVE  d \in 0..coldDay'
        <3>1. d \in 0..coldDay \/ d = coldDay'
            BY DaysStep DEF DatesInv
        <3>2. coldDay <= coldDay'
            BY DaysStep
        <3>. QED
            BY <2>1, <3>1, <3>2
    <2>. QED
        BY <2>2
<1>2. ASSUME NEW record, Dated(record)
      PROVE  Dated(record)'
    BY <1>2, DaysStep DEF Dated
<1>3. ASSUME NEW s \in Slug
      PROVE  Dated(item[s])'
    <2>1. Dated(item[s]) /\ Dated(copy[s])
        BY DEF DatesInv
    <2>2. CASE item'[s] = item[s] \/ item'[s] = NoItem
        BY <1>2, <2>1, <2>2 DEF Dated
    <2>3. CASE item[s] # NoItem /\ item'[s] # NoItem /\ SameDays(item'[s], item[s])
        BY <2>1, <2>3, DaysStep DEF Dated, SameDays
    <2>4. CASE item'[s].used = Never /\ item'[s].campaign \in campaigns
        BY <2>4, DaysStep DEF Dated
    <2>5. CASE Demote(s)
        BY <2>1, <2>5, WrittenBack, DaysStep DEF Dated
    <2>6. CASE MarkWarm(s)
        <3>1. /\ item'[s].campaign = copy[s].campaign /\ item'[s].used = coldDay
              /\ copy[s] # NoItem
            BY <2>6, WrittenBack
        <3>2. copy[s].campaign \in campaigns /\ copy[s].campaign <= coldDay
            <4>1. copy[s].campaign \in campaigns
                BY <2>1, <3>1 DEF Dated
            <4>2. \A d \in campaigns : d \in 0..coldDay
                BY DEF DatesInv
            <4>3. coldDay \in Nat
                BY DayNat DEF ColdShape
            <4>. QED
                BY <4>1, <4>2, <4>3
        <3>. QED
            BY <3>1, <3>2, DaysStep DEF Dated
    <2>7. Rewrite(s)
        BY Rewrites
    <2>. QED
        BY <2>2, <2>3, <2>4, <2>5, <2>6, <2>7 DEF Rewrite
<1>4. ASSUME NEW s \in Slug
      PROVE  Dated(copy[s])'
    <2>1. Dated(item[s]) /\ Dated(copy[s])
        BY DEF DatesInv
    <2>2. copy'[s] \in {copy[s], item[s], NoItem}
        <3>1. phase' \in {"idle", "attribute", "flip"} => copy'[s] = NoItem
            BY DEF FreshInv, CopyFresh, NoCopy
        <3>. QED
            BY <3>1, PassKinds DEF ColdShape
    <2>. QED
        BY <1>2, <2>1, <2>2 DEF Dated
<1>. QED
    BY <1>1, <1>3, <1>4 DEF DatesInv

\* A decay is planned by load_index, from the items as they are then.
LEMMA DecayKinds ==
    ASSUME ColdShape, ColdInv, ColdInv', FreshInv, [ColdNext]_coldVars,
           NEW s \in Slug, <<"decay", s, NoSha>> \in todo'
    PROVE  \/ UNCHANGED copy /\ <<"decay", s, NoSha>> \in todo
           \/ \E scope, current : /\ LoadIndex(scope, current)
                                  /\ current \in {{}, {Max(campaigns)}}
<1>. DEFINE decay == <<"decay", s, NoSha>>
            Goal == \/ UNCHANGED copy /\ decay \in todo
                    \/ \E scope, current : /\ LoadIndex(scope, current)
                                           /\ current \in {{}, {Max(campaigns)}}
<1>. SUFFICES Goal
    OBVIOUS
<1>1. phase' = "apply"
    <2>1. \A t \in todo' : (t[1] \in KindsOf)'
        BY DEF ColdInv, TodoSound, TaskSound
    <2>2. decay[1] = "decay" /\ decay \in todo'
        OBVIOUS
    <2>. HIDE DEF decay
    <2>. QED
        BY <2>1, <2>2 DEF KindsOf
<1>2. decay \in todo'
    OBVIOUS
<1>. HIDE DEF decay
<1>3. CASE UNCHANGED <<todo, copy>>
    BY <1>2, <1>3
<1>4. CASE World
    BY <1>3, <1>4 DEF World, Author, NewDay, Seal, TogglePin, WriteConsequence, Edited,
        Merge, CheckRun, Surface, passVars
<1>5. CASE BeginPass \/ BeginFlips \/ EndPass \/ CrashPass
    BY <1>1, <1>5 DEF BeginPass, BeginFlips, EndPass, CrashPass
<1>6. ASSUME NEW r \in Slug, NEW c \in Authored, Attribute(r, c)
      PROVE  Goal
    BY <1>1, <1>6 DEF Attribute
<1>7. ASSUME NEW r \in Slug, ReadPending(r) \/ FlipVerdict(r)
      PROVE  Goal
    BY <1>1, <1>7 DEF ReadPending, FlipVerdict
<1>8. ASSUME NEW r \in Slug, NEW from, NEW to \in {"route", "mark", "done"},
             Advance(r, from, to), UNCHANGED copy
      PROVE  Goal
    <2>1. \A t \in todo' : t \in todo \/ t = <<to, r, NoSha>>
        BY <1>8 DEF Advance
    <2>2. decay # <<to, r, NoSha>>
        BY DEF decay
    <2>. QED
        BY <1>2, <1>8, <2>1, <2>2
<1>9. ASSUME NEW r \in Slug,
             \/ WriteLeafDoc(r) \/ AddRoute(r) \/ MarkWarm(r) \/ Demote(r)
             \/ StepFails(r)
      PROVE  Goal
    BY <1>8, <1>9 DEF WriteLeafDoc, AddRoute, MarkWarm, Demote, StepFails
<1>10. CASE \E scope \in {campaigns} \cup {{d} : d \in campaigns},
               current \in {{}, {Max(campaigns)}} : LoadIndex(scope, current)
    BY <1>10
<1>11. CASE UNCHANGED coldVars
    BY <1>3, <1>11 DEF coldVars, passVars
<1>. QED
    BY <1>4, <1>5, <1>6, <1>7, <1>9, <1>10, <1>11 DEF ColdNext, Pass

LEMMA DecayStep ==
    ColdShape /\ ColdInv /\ ColdInv' /\ FreshInv /\ DatesInv /\ DecayInv
      /\ [ColdNext]_coldVars => DecayInv'
<1>. SUFFICES ASSUME ColdShape, ColdInv, ColdInv', FreshInv, DatesInv, DecayInv,
                     [ColdNext]_coldVars,
                     \A t \in Slug : copy'[t] # NoItem => copy'[t].created = copy'[t].campaign,
                     NEW s \in Slug, <<"decay", s, NoSha>> \in todo', copy'[s].used # Never
              PROVE  Cardinality({d \in campaigns' : d > copy'[s].used}) >= Threshold
    BY DEF DecayInv
<1>1. CASE UNCHANGED copy /\ <<"decay", s, NoSha>> \in todo
    <2>. DEFINE before == {d \in campaigns : d > copy[s].used}
                after == {d \in campaigns' : d > copy[s].used}
    <2>1. Cardinality(before) >= Threshold
        BY <1>1 DEF DecayInv
    <2>2. campaigns \subseteq Day /\ campaigns' \subseteq Day
        BY ColdShapeStep DEF ColdShape, ColdInv
    <2>3. before \subseteq after
        BY DaysStep
    <2>4. /\ Cardinality(before) <= Cardinality(after)
          /\ Cardinality(before) \in Nat /\ Cardinality(after) \in Nat
        BY <2>2, <2>3, DaysFinite
    <2>. HIDE DEF before, after
    <2>5. Cardinality(after) >= Threshold
        BY <2>1, <2>4, ColdAssumption
    <2>. QED
        BY <1>1, <2>5 DEF after
<1>2. ASSUME NEW scope, NEW current \in {{}, {Max(campaigns)}}, LoadIndex(scope, current)
      PROVE  Cardinality({d \in campaigns' : d > copy'[s].used}) >= Threshold
    <2>. DEFINE starts == KnownStarts(current)
                used == item[s].used
    <2>1. copy' = item /\ campaigns' = campaigns
        BY <1>2 DEF LoadIndex, worldVars
    <2>2. Decays(s, starts)
        <3>1. <<"decay", s, NoSha>> \in {<<"decay", t, NoSha>> :
                    t \in {r \in Slug : Decays(r, KnownStarts(current))}}
            BY <1>2 DEF LoadIndex
        <3>. QED
            BY <3>1
    <2>3. item[s] # NoItem /\ used # Never /\ used < Window(starts)
        BY <2>1, <2>2 DEF Decays, Stale
    <2>4. item[s].campaign \in starts /\ starts \subseteq campaigns
        <3>1. \A t \in Slug : item[t] # NoItem => item[t].created = item[t].campaign
            BY <2>1
        <3>. QED
            BY <2>3, <3>1, StartsKnown
    <2>5. used \in Day /\ item[s].campaign <= used /\ campaigns \subseteq Day
        BY <2>3 DEF ColdShape, Item, DatesInv, Dated
    <2>. DEFINE known == {d \in starts : d > used}
                begun == {d \in campaigns : d > used}
    <2>6. Cardinality(known) >= Threshold
        <3>. HIDE DEF starts, used
        <3>. QED
            BY <2>3, <2>4, <2>5, BeforeWindow
    <2>7. /\ Cardinality(known) <= Cardinality(begun)
          /\ Cardinality(known) \in Nat /\ Cardinality(begun) \in Nat
        <3>1. known \subseteq begun
            BY <2>4
        <3>. HIDE DEF starts
        <3>. QED
            BY <2>4, <2>5, <3>1, DaysFinite
    <2>. HIDE DEF known, begun
    <2>8. Cardinality(begun) >= Threshold
        BY <2>6, <2>7, ColdAssumption
    <2>. QED
        BY <2>1, <2>8 DEF begun
<1>. QED
    BY <1>1, <1>2, DecayKinds

\* An item is demoted only when as many campaigns as the budget says have begun
\* since its promotion, if no item dates its campaign late: whatever is edited,
\* and whatever day it is, between the plan and the write.
THEOREM ColdDecayNotEarly == ColdSpec => DecayNotEarly
<1>1. ColdInit => DatesInv /\ DecayInv
    BY DayNat DEF ColdInit, DatesInv, DecayInv, Dated, NoCopy
<1>2. ASSUME ColdShape, ColdInv, FreshInv, HeldInv, DecayInv, [ColdNext]_coldVars,
             NEW s \in Slug, Demotion(s), item[s].used # Never,
             \A t \in Slug : copy[t] # NoItem => copy[t].created = copy[t].campaign
      PROVE  Cardinality(StartsSince(s)) >= Threshold
    <2>1. /\ item[s] # NoItem /\ item'[s] # NoItem
          /\ item[s].tier = "warm" /\ item'[s].tier = "cold"
        BY <1>2 DEF Demotion
    <2>2. Demote(s)
        <3>1. ~ MarkWarm(s)
            BY <1>2, <2>1, WrittenBack
        <3>2. Rewrite(s)
            BY <1>2, Rewrites
        <3>. QED
            BY <2>1, <3>1, <3>2 DEF Rewrite, SameDays
    <2>3. copy[s] # NoItem /\ <<"decay", s, NoSha>> \in todo
        BY <1>2, <2>2, WrittenBack
    <2>4. \E t \in todo : t[2] = s
        BY <2>3
    <2>5. item[s].used = copy[s].used
        BY <1>2, <2>3, <2>4 DEF HeldInv, SameDays
    <2>. QED
        BY <1>2, <2>3, <2>5 DEF DecayInv, StartsSince
<1>. DEFINE NotEarly == \A s \in Slug :
        /\ Demotion(s) /\ item[s].used # Never
        /\ \A t \in Slug : copy[t] # NoItem => copy[t].created = copy[t].campaign
        => Cardinality(StartsSince(s)) >= Threshold
<1>3. ColdShape /\ ColdInv /\ FreshInv /\ HeldInv /\ DecayInv /\ [ColdNext]_coldVars
        => NotEarly
    BY <1>2
<1>4. ColdSpec => [][NotEarly]_coldVars
    <2>. HIDE DEF NotEarly
    <2>. QED
        BY <1>1, <1>3, DatesStep, DecayStep, ColdHeld, PTL DEF ColdSpec
<1>. QED
    BY <1>4 DEF DecayNotEarly

-----------------------------------------------------------------------------
(* Types.                                                                  *)

Run == [id : 1..MaxRuns, check : Check, outcome : Outcome]
RunsInv == runs \in [Sha -> SUBSET Run] /\ \A c \in Sha : IsFiniteSet(runs[c])

LEMMA RunsStep == ColdShape /\ RunsInv /\ [ColdNext]_coldVars => RunsInv'
<1>. SUFFICES ASSUME ColdShape, RunsInv, [ColdNext]_coldVars
              PROVE  RunsInv'
    OBVIOUS
<1>1. ASSUME NEW c \in Authored, CheckRun(c)
      PROVE  RunsInv'
    <2>1. c \in Sha
        BY ColdAssumption, LenProperties DEF ColdShape, Authored, Sha
    <2>2. runs[c] \in SUBSET Run /\ IsFiniteSet(runs[c]) /\ Cardinality(runs[c]) \in Nat
        BY <2>1, FS_CardinalityType DEF RunsInv
    <2>3. SUFFICES ASSUME NEW new \in SUBSET Run, IsFiniteSet(new),
                          runs' = [runs EXCEPT ![c] = new]
                   PROVE  RunsInv'
        <3>1. ASSUME NEW k \in Check, \A d \in Sha : Cardinality(runs[d]) < MaxRuns,
                     runs' = [runs EXCEPT ![c] = @ \cup
                        {[id |-> Cardinality(@) + 1, check |-> k,
                          outcome |-> "running"]}]
              PROVE  RunsInv'
            <4>. DEFINE r == [id |-> Cardinality(runs[c]) + 1, check |-> k,
                              outcome |-> "running"]
            <4>1. Cardinality(runs[c]) + 1 \in 1..MaxRuns
                BY <2>1, <2>2, <3>1, ColdAssumption
            <4>2. r \in Run
                BY <4>1 DEF Run, Outcome
            <4>3. runs' = [runs EXCEPT ![c] = runs[c] \cup {r}]
                BY <3>1
            <4>. HIDE DEF r
            <4>4. runs[c] \cup {r} \in SUBSET Run /\ IsFiniteSet(runs[c] \cup {r})
                BY <2>2, <4>2, FS_AddElement
            <4>. QED
                BY <2>3, <4>3, <4>4
        <3>2. ASSUME NEW r \in runs[c], NEW o \in Outcome,
                     runs' = [runs EXCEPT ![c] =
                                (@ \ {r}) \cup {[r EXCEPT !.outcome = o]}]
              PROVE  RunsInv'
            <4>. DEFINE q == [r EXCEPT !.outcome = o]
            <4>1. r \in Run
                BY <2>2
            <4>2. q \in Run
                BY <4>1 DEF Run
            <4>3. runs' = [runs EXCEPT ![c] = (runs[c] \ {r}) \cup {q}]
                BY <3>2
            <4>. HIDE DEF q
            <4>4. IsFiniteSet(runs[c] \ {r})
                BY <2>2, FS_RemoveElement
            <4>5. /\ (runs[c] \ {r}) \cup {q} \in SUBSET Run
                  /\ IsFiniteSet((runs[c] \ {r}) \cup {q})
                BY <2>2, <4>2, <4>4, FS_AddElement
            <4>. QED
                BY <2>3, <4>3, <4>5
        <3>. QED
            BY <1>1, <3>1, <3>2 DEF CheckRun
    <2>. QED
        BY <2>3 DEF RunsInv
<1>2. ASSUME NEW c \in Authored, Merge(c)
      PROVE  UNCHANGED runs
    BY <1>2 DEF Merge
<1>3. CASE World
    <2>1. CASE Author \/ NewDay
        BY <2>1 DEF Author, NewDay, RunsInv
    <2>2. CASE \E s \in Slug : Seal(s) \/ TogglePin(s) \/ WriteConsequence(s)
        BY <2>2 DEF Seal, TogglePin, WriteConsequence, Edited, worldVars, RunsInv
    <2>3. CASE \E matching \in SUBSET Slug : Surface(matching)
        BY <2>3 DEF Surface, RunsInv
    <2>. QED
        BY <1>1, <1>2, <1>3, <2>1, <2>2, <2>3 DEF World, RunsInv
<1>4. CASE Pass \/ CrashPass \/ UNCHANGED coldVars
    BY <1>4 DEF Pass, BeginPass, BeginFlips, EndPass, Attribute, ReadPending,
        FlipVerdict, WriteLeafDoc, AddRoute, MarkWarm, Demote, LoadIndex,
        CrashPass, coldVars, worldVars, RunsInv
<1>5. CASE \E s \in Slug : StepFails(s)
    BY <1>5 DEF StepFails, worldVars, RunsInv
<1>. QED
    BY <1>3, <1>4, <1>5 DEF ColdNext

\* The rest of the types, and that a commit which CI is asked about is known.
Phases == {"idle", "attribute", "flip", "resolve", "apply"}

RestInv ==
    /\ \A s \in Slug : logged[s] <= Len(commits) + 1
    /\ phase \in Phases
    /\ phase = "resolve" => \A s \in Slug : copy[s] # NoItem => copy[s].sha # NoSha
    /\ vouched \subseteq Sha
    /\ byHand \subseteq Slug /\ raced \subseteq Slug
    /\ edits \in 0..MaxEdits /\ coldCrashes \in 0..MaxColdCrashes

LEMMA RestStep ==
    ASSUME ColdShape, ColdShape', FreshInv, RestInv, [ColdNext]_coldVars
    PROVE  RestInv'
<1>1. /\ Len(commits) \in Nat /\ Len(commits') \in Nat /\ Len(commits) <= Len(commits')
      /\ \A s \in Slug : logged[s] \in Nat
    <2>1. Len(commits') \in Nat /\ Len(commits) \in Nat
        BY LenProperties DEF ColdShape
    <2>2. Len(commits) <= Len(commits')
        BY KeptStep DEF Kept
    <2>. QED
        BY <2>1, <2>2 DEF ColdShape
<1>2. UNCHANGED logged => \A s \in Slug : logged'[s] <= Len(commits') + 1
    BY <1>1 DEF RestInv
<1>3. ASSUME UNCHANGED <<phase, copy, logged, vouched, byHand, raced, edits, coldCrashes>>
      PROVE  RestInv'
    BY <1>2, <1>3 DEF RestInv
<1>4. ASSUME UNCHANGED <<logged, vouched, byHand, raced, edits, coldCrashes>>,
             phase' \in Phases \ {"resolve"}
      PROVE  RestInv'
    BY <1>2, <1>4 DEF RestInv
<1>5. ASSUME NEW s \in Slug, Seal(s)
      PROVE  RestInv'
    <2>1. /\ byHand' \subseteq Slug
          /\ UNCHANGED <<phase, copy, logged, vouched, raced, edits, coldCrashes>>
        BY <1>5 DEF Seal, RestInv, worldVars, passVars, countVars
    <2>. QED
        BY <1>2, <2>1 DEF RestInv
<1>6. ASSUME NEW s \in Slug, TogglePin(s) \/ WriteConsequence(s)
      PROVE  RestInv'
    <2>1. /\ byHand' \subseteq Slug
          /\ \E new : Edited(s, new)
        BY <1>6 DEF TogglePin, WriteConsequence, RestInv
    <2>2. /\ edits < MaxEdits /\ edits' = edits + 1
          /\ raced' \subseteq Slug
          /\ UNCHANGED <<phase, copy, logged, vouched, coldCrashes>>
        BY <2>1 DEF Edited, RestInv, worldVars, passVars
    <2>3. edits' \in 0..MaxEdits
        BY <2>2, ColdAssumption DEF RestInv
    <2>. QED
        BY <1>2, <2>1, <2>2, <2>3 DEF RestInv
<1>7. ASSUME NEW matching \in SUBSET Slug, Surface(matching)
      PROVE  RestInv'
    <2>1. /\ UNCHANGED <<commits, phase, copy, vouched, byHand, raced, edits, coldCrashes>>
          /\ \A s \in Slug : logged'[s] \in {logged[s], Len(commits) + 1}
        BY <1>7 DEF Surface, ColdShape, passVars, countVars
    <2>2. \A s \in Slug : logged'[s] <= Len(commits') + 1
        BY <1>1, <2>1 DEF RestInv
    <2>. QED
        BY <2>1, <2>2 DEF RestInv
<1>8. CASE World
    <2>1. CASE Author \/ NewDay
        BY <1>3, <2>1 DEF Author, NewDay, passVars, historyVars, countVars
    <2>2. ASSUME NEW c \in Authored, Merge(c) \/ CheckRun(c)
          PROVE  RestInv'
        BY <1>3, <2>2 DEF Merge, CheckRun, passVars, historyVars, countVars
    <2>. QED
        BY <1>5, <1>6, <1>7, <1>8, <2>1, <2>2 DEF World
<1>9. CASE BeginPass \/ BeginFlips \/ EndPass
    BY <1>4, <1>9 DEF BeginPass, BeginFlips, EndPass, Phases, worldVars, historyVars,
        countVars
<1>10. ASSUME NEW s \in Slug, NEW c \in Authored, Attribute(s, c)
       PROVE  RestInv'
    BY <1>3, <1>10 DEF Attribute, worldVars, historyVars, countVars
<1>11. ASSUME NEW s \in Slug, ReadPending(s)
       PROVE  RestInv'
    <2>1. copy = NoCopy
        BY <1>11 DEF ReadPending, FreshInv, CopyFresh
    <2>2. UNCHANGED <<logged, vouched, byHand, raced, edits, coldCrashes>>
        BY <1>11 DEF ReadPending, worldVars, historyVars, countVars
    <2>3. CASE Pending(s) /\ copy' = [copy EXCEPT ![s] = item[s]] /\ phase' = "resolve"
        <3>1. \A t \in Slug : copy'[t] # NoItem => t = s /\ copy'[t] = item[s]
            BY <2>1, <2>3 DEF NoCopy
        <3>2. item[s].sha # NoSha
            BY <2>3 DEF Pending
        <3>. QED
            BY <1>2, <2>2, <2>3, <3>1, <3>2 DEF RestInv, Phases
    <2>4. CASE UNCHANGED <<copy, phase>>
        BY <1>3, <2>2, <2>4
    <2>. QED
        BY <1>11, <2>3, <2>4 DEF ReadPending
<1>12. ASSUME NEW s \in Slug, FlipVerdict(s)
       PROVE  RestInv'
    <2>1. /\ phase' = "flip" /\ copy[s] # NoItem /\ phase = "resolve"
          /\ vouched' \subseteq vouched \cup {copy[s].sha}
          /\ UNCHANGED <<logged, byHand, raced, edits, coldCrashes>>
        BY <1>12 DEF FlipVerdict, worldVars, countVars
    <2>2. copy[s].sha \in Sha
        BY <2>1 DEF RestInv, ColdShape, Item
    <2>. QED
        BY <1>2, <2>1, <2>2 DEF RestInv, Phases
<1>13. ASSUME NEW s \in Slug, WriteLeafDoc(s) \/ AddRoute(s) \/ MarkWarm(s) \/ Demote(s)
       PROVE  RestInv'
    BY <1>3, <1>13 DEF WriteLeafDoc, AddRoute, MarkWarm, Demote, worldVars, historyVars,
        countVars
<1>14. ASSUME NEW scope, NEW current, LoadIndex(scope, current)
       PROVE  RestInv'
    BY <1>4, <1>14 DEF LoadIndex, Phases, worldVars, historyVars, countVars
<1>15. ASSUME CrashPass
       PROVE  RestInv'
    <2>1. /\ phase' = "idle" /\ coldCrashes < MaxColdCrashes
          /\ coldCrashes' = coldCrashes + 1
          /\ UNCHANGED <<logged, vouched, byHand, raced, edits>>
        BY <1>15 DEF CrashPass, worldVars, historyVars
    <2>2. coldCrashes' \in 0..MaxColdCrashes
        BY <2>1, ColdAssumption DEF RestInv
    <2>. QED
        BY <1>2, <2>1, <2>2 DEF RestInv, Phases
<1>16. ASSUME NEW s \in Slug, StepFails(s)
       PROVE  RestInv'
    <2>1. /\ coldCrashes < MaxColdCrashes /\ coldCrashes' = coldCrashes + 1
          /\ UNCHANGED <<phase, copy, logged, vouched, byHand, raced, edits>>
        BY <1>16 DEF StepFails, worldVars, historyVars
    <2>2. coldCrashes' \in 0..MaxColdCrashes
        BY <2>1, ColdAssumption DEF RestInv
    <2>. QED
        BY <1>2, <2>1, <2>2 DEF RestInv
<1>17. CASE UNCHANGED coldVars
    BY <1>3, <1>17 DEF coldVars, worldVars, passVars, historyVars, countVars
<1>. QED
    BY <1>8, <1>9, <1>10, <1>11, <1>12, <1>13, <1>14, <1>15, <1>16, <1>17
    DEF ColdNext, Pass

\* The types of the files, of what a pass holds and of the histories.
THEOREM ColdTypeCorrect == ColdSpec => []ColdTypeOK
<1>1. ColdInit => RunsInv /\ RestInv
    <2>. SUFFICES ASSUME ColdInit
                  PROVE  RunsInv /\ RestInv
        OBVIOUS
    <2>1. RunsInv
        BY FS_EmptySet DEF ColdInit, RunsInv
    <2>2. \A s \in Slug : logged[s] <= Len(commits) + 1
        BY DEF ColdInit
    <2>3. edits \in 0..MaxEdits /\ coldCrashes \in 0..MaxColdCrashes
        BY ColdAssumption DEF ColdInit
    <2>. QED
        BY <2>1, <2>2, <2>3 DEF ColdInit, RestInv, Phases
<1>2. ColdShape /\ ColdShape' /\ FreshInv /\ RestInv /\ [ColdNext]_coldVars => RestInv'
    BY RestStep
<1>3. ASSUME ColdShape, ColdInv, RunsInv, RestInv
      PROVE  ColdTypeOK
    <2>1. Len(commits) \in Nat /\ Len(commits) <= MaxCommits /\ MaxCommits \in Nat
        BY <1>3, ColdAssumption, LenProperties DEF ColdShape
    <2>2. \A s \in Slug : logged[s] \in 0..MaxCommits + 1 /\ shown[s] \in 0..MaxCommits + 1
        BY <1>3, <2>1 DEF ColdShape, ColdInv, LogTrue, RestInv
    <2>3. /\ logged \in [Slug -> 0..MaxCommits + 1]
          /\ shown \in [Slug -> 0..MaxCommits + 1]
        BY <1>3, <2>2 DEF ColdShape
    <2>. QED
        BY <1>3, <2>3 DEF ColdShape, RunsInv, RestInv, ColdTypeOK, Run, Phases
<1>. QED
    BY <1>1, <1>2, <1>3, RunsStep, ColdFresh, PTL DEF ColdSpec

=============================================================================
