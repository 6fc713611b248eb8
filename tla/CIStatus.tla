------------------------------ MODULE CIStatus ------------------------------
(***************************************************************************)
(* What `ci_status.py` makes of the check runs of a commit.  A run is a    *)
(* record of its id, the name of its check and its outcome, where status   *)
(* and conclusion are folded into what _rollup tells apart: a run that is  *)
(* not completed, one with a passing or a failing conclusion, and one with *)
(* another conclusion or with none.                                        *)
(***************************************************************************)
EXTENDS Naturals, FiniteSets, FiniteSetsExt

Outcome == {"running", "passing", "failing", "doubtful"}
Verdict == {"green", "red", "unknown"}

\* Of each check the run with the highest id.
LatestByName(runs) ==
    {r \in runs : \A q \in runs : q.check = r.check => q.id <= r.id}

\* Mutant: what is not decided is reported as such.
RollupPending(runs) ==
    LET outcomes == {r.outcome : r \in LatestByName(runs)}
    IN  IF "failing" \in outcomes THEN "red"
        ELSE IF outcomes = {"passing"} THEN "green" ELSE "pending"

\* A failure outweighs what is still running or in doubt, and doubt outweighs
\* a pass.
Rollup(runs) ==
    LET outcomes == {r.outcome : r \in LatestByName(runs)}
    IN  IF "failing" \in outcomes THEN "red"
        ELSE IF outcomes = {"passing"} THEN "green" ELSE "unknown"

\* The one page that is asked for: all the runs, or any `page` of them.
FetchCheckRuns(runs, page) ==
    IF Cardinality(runs) <= page THEN {runs} ELSE kSubset(page, runs)

\* What resolve_ci_status may answer: without a token, or when the query fails,
\* "unknown".
ResolveCIStatus(runs, page) ==
    {"unknown"} \cup {Rollup(fetched) : fetched \in FetchCheckRuns(runs, page)}

\* What the repository asks of a green commit, said of all its runs: it has
\* some, and each of its checks passed when it last ran.
TrulyGreen(runs) ==
    /\ runs # {}
    /\ \A r \in LatestByName(runs) : r.outcome = "passing"

=============================================================================
