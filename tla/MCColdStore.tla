---------------------------- MODULE MCColdStore ----------------------------
(***************************************************************************)
(* Two items of one path, shown one at a time, and a commit; in two slices *)
(* of the behaviours, for the whole is too large.  In one, a commit about  *)
(* the second item goes through attribution, CI and promotion while people *)
(* edit; in the other, the first item is promoted, pinned and demoted as   *)
(* campaigns go by, and the second only dates them.                        *)
(***************************************************************************)
EXTENDS ColdStore

CONSTANTS a, b, k1

MCSlug == {a, b}
MCRank == [s \in MCSlug |-> IF s = a THEN 1 ELSE 2]
MCCheck == {k1}

Changes == {commits'[c] : c \in 1..Len(commits')}
Outcomes == {r.outcome : r \in UNION {runs'[c] : c \in Sha}}

\* What no step of a phase reads may as well change before it.
Quiet(readIn, vars) == phase \in readIn \/ UNCHANGED vars

AttributionSlice ==
    /\ coldDay' = 0
    /\ edits' + coldCrashes' <= 1
    /\ byHand' \subseteq {b} /\ raced' \subseteq {b}
    /\ logged'[a] = shown'[a]
    /\ \A s \in MCSlug : ~ pinWish'[s]
    /\ \A c \in Changes : c.cites = {b} /\ c.touches \subseteq {b}
    /\ "doubtful" \notin Outcomes
    /\ Quiet({"idle"}, <<commits, logged, shown>>)
    /\ Quiet({"idle", "resolve"}, runs)
    /\ phase = "idle" \/ \A s \in MCSlug : item[s] = NoItem => item'[s] = NoItem

DecaySlice ==
    /\ edits' + coldCrashes' <= 1
    /\ phase = "apply" \/ coldCrashes' = coldCrashes
    /\ \A c \in Changes : c.cites = {a} /\ c.touches = {a}
    /\ Outcomes \subseteq {"running", "passing"}
    /\ \A c \in Sha : Cardinality(runs'[c]) <= 1
    /\ logged'[b] = 0 /\ shown'[b] = 0 /\ logged' = shown'
    /\ item'[b] # NoItem => /\ item'[b].sha = NoSha /\ ~ item'[b].pinned
                            /\ item'[b].tier = "cold"
    /\ item'[a] # NoItem /\ item[a] # NoItem => a \notin byHand' \/ byHand' = byHand
    /\ byHand' = {} \/ commits' = <<>>
    /\ runs' # runs => commits[1].merged
    /\ Quiet({"idle"}, <<commits, logged, shown>>)
    /\ Quiet({"idle", "resolve"}, runs)
    /\ Quiet({"idle", "apply"}, <<coldDay, campaigns>>)
    /\ phase = "idle" \/ \A s \in MCSlug : item[s] = NoItem => item'[s] = NoItem

\* The decay slice without crashes, edits and pins.
DecaySpec ==
    ColdInit /\ [][ColdNext /\ DecaySlice /\ edits' = 0 /\ coldCrashes' = 0]_coldVars

=============================================================================
