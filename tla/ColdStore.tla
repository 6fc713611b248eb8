----------------------------- MODULE ColdStore -----------------------------
(***************************************************************************)
(* The knowledge store and the campaign-close pass, `consolidate.py        *)
(* --apply` (consolidate, attribution, attribution_apply, distill, cold):  *)
(* the router shows cold findings to agents, agents cite them in commits,  *)
(* the pass attributes a commit to an item, asks CI about the commit,      *)
(* promotes what is proved into a leaf doc and a route, and demotes what   *)
(* is not used.  People edit the same files at any moment; nothing locks.  *)
(*                                                                         *)
(* A commit is named by its place in author-date order, so a commit c was  *)
(* authored after an item s was first shown iff c >= logged[s].  An item   *)
(* matches a path or it does not: paths are sets of items.  Each item has a *)
(* topic of its own, and so a leaf doc and routes of its own.              *)
(***************************************************************************)
EXTENDS Naturals, Sequences, FiniteSets, CIStatus

CONSTANTS
    Slug,           \* the items
    TopicRank,      \* the order of their topics
    Check,          \* the names of CI checks
    NoItem,         \* no file, or one that parse_item skips
    SurfaceCap,     \* budget.max_cold_surface_per_edit
    Threshold,      \* budget.decay_after_campaigns
    RunsPage,       \* per_page of the check-runs query
    MaxDay,         \* bound: the days
    MaxCommits,     \* bound: the commits that are authored
    MaxRuns,        \* bound: the check runs, of all commits together
    MaxEdits,       \* bound: the edits by people
    MaxColdCrashes  \* bound: the passes that are killed

ASSUME ColdAssumption ==
    /\ MaxDay \in Nat /\ MaxCommits \in Nat /\ MaxRuns \in Nat
    /\ MaxEdits \in Nat /\ MaxColdCrashes \in Nat
    /\ SurfaceCap \in Nat /\ RunsPage \in Nat \ {0} /\ Threshold \in Nat \ {0}
    /\ TopicRank \in [Slug -> Nat]

Day == 0..MaxDay
Never == MaxDay + 1     \* last_injected is null
NoSha == 0              \* acted_on_commit is null, or no sha
Sha == 1..MaxCommits

VARIABLES
    item,       \* the file of each item
    leaf,       \* the items whose bullet is in their leaf doc
    routed,     \* the items whose leaf doc has a route
    commits,    \* in author-date order
    runs,       \* the check runs of each commit
    logged,     \* the first commit after an item was logged as injected, or 0
    coldDay,    \* today
    campaigns,  \* the days on which campaigns began
    phase,      \* where the pass is
    todo,       \* what remains of the phase: <<kind, item, commit>>
    copy,       \* the items the pass has in memory
    shown,      \* history: as logged, of what agents were truly shown
    vouched,    \* history: the commits that were green when CI was asked, or
                \* that have more runs than the query sees
    pinWish,    \* history: the pin as a person last wrote it
    byHand,     \* history: the items whose tier or consequence a person wrote
    raced,      \* history: the items edited while the pass held a copy
    edits, coldCrashes

storeVars == <<item, leaf, routed>>
worldVars == <<commits, runs, logged, coldDay, campaigns>>
passVars == <<phase, todo, copy>>
historyVars == <<shown, vouched, pinWish, byHand, raced>>
countVars == <<edits, coldCrashes>>
coldVars == <<storeVars, worldVars, passVars, historyVars, countVars>>

Item == [tier : {"cold", "warm", "hot"}, pinned : BOOLEAN,
         sha : {NoSha} \cup Sha, green : Verdict, used : Day \cup {Never},
         created : Day, campaign : Day]
Commit == [cites : SUBSET Slug, touches : SUBSET Slug, merged : BOOLEAN]
Kind == {"attribute", "flip", "promote", "route", "mark", "decay"}

ASSUME NoItemAssumption == NoItem \notin Item

ColdTypeOK ==
    /\ item \in [Slug -> Item \cup {NoItem}]
    /\ leaf \subseteq Slug /\ routed \subseteq Slug
    /\ commits \in Seq(Commit) /\ Len(commits) <= MaxCommits
    /\ runs \in [Sha -> SUBSET [id : 1..MaxRuns, check : Check, outcome : Outcome]]
    /\ logged \in [Slug -> 0..MaxCommits + 1]
    /\ shown \in [Slug -> 0..MaxCommits + 1]
    /\ coldDay \in Day /\ campaigns \subseteq Day
    /\ phase \in {"idle", "attribute", "flip", "resolve", "apply"}
    /\ todo \subseteq Kind \X Slug \X ({NoSha} \cup Sha)
    /\ copy \in [Slug -> Item \cup {NoItem}]
    /\ vouched \subseteq Sha
    /\ pinWish \in [Slug -> BOOLEAN]
    /\ byHand \subseteq Slug /\ raced \subseteq Slug
    /\ edits \in 0..MaxEdits /\ coldCrashes \in 0..MaxColdCrashes

IsCold(s) == item[s] # NoItem /\ item[s].tier = "cold"
Authored == 1..Len(commits)
NoCopy == [s \in Slug |-> NoItem]

ColdInit ==
    /\ item = [s \in Slug |-> NoItem]
    /\ leaf = {} /\ routed = {}
    /\ commits = <<>>
    /\ runs = [c \in Sha |-> {}]
    /\ logged = [s \in Slug |-> 0]
    /\ shown = [s \in Slug |-> 0]
    /\ coldDay = 0 /\ campaigns = {0}
    /\ phase = "idle" /\ todo = {} /\ copy = NoCopy
    /\ vouched = {}
    /\ pinWish = [s \in Slug |-> FALSE]
    /\ byHand = {} /\ raced = {}
    /\ edits = 0 /\ coldCrashes = 0

-----------------------------------------------------------------------------
(* People, agents and CI.                                                  *)

\* Someone writes a finding, cold as the format asks, or hot by decree.
Seal(s) ==
    /\ item[s] = NoItem /\ s \notin byHand
    /\ \E tier \in {"cold", "hot"}, current \in campaigns :
        /\ \A d \in campaigns : d <= current
        /\ item' = [item EXCEPT ![s] =
            [tier |-> tier, pinned |-> FALSE, sha |-> NoSha,
             green |-> "unknown", used |-> Never, created |-> coldDay,
             campaign |-> current]]
        /\ byHand' = IF tier = "hot" THEN byHand \cup {s} ELSE byHand
    /\ pinWish' = [pinWish EXCEPT ![s] = FALSE]
    /\ UNCHANGED <<leaf, routed, worldVars, passVars, shown, vouched, raced,
                   countVars>>

\* A person rewrites the file of an item; what the pass holds is stale then.
Edited(s, new) ==
    /\ edits < MaxEdits
    /\ item[s] # NoItem
    /\ item' = [item EXCEPT ![s] = new]
    /\ edits' = edits + 1
    /\ pinWish' = [pinWish EXCEPT ![s] = new.pinned]
    /\ raced' = IF copy[s] = NoItem THEN raced \ {s} ELSE raced \cup {s}
    /\ UNCHANGED <<leaf, routed, worldVars, passVars, shown, vouched,
                   coldCrashes>>

TogglePin(s) ==
    /\ item[s] # NoItem
    /\ Edited(s, [item[s] EXCEPT !.pinned = ~ @])
    /\ UNCHANGED byHand

\* Consequences may be written, or withdrawn, by hand.
WriteConsequence(s) ==
    /\ item[s] # NoItem
    /\ \E c \in Authored, v \in {"green", "red"} :
        Edited(s, [item[s] EXCEPT !.sha = c, !.green = v])
    /\ byHand' = byHand \cup {s}

Author ==
    /\ Len(commits) < MaxCommits
    /\ \E cites, touches \in SUBSET Slug :
        commits' = Append(commits, [cites |-> cites, touches |-> touches,
                                    merged |-> FALSE])
    /\ UNCHANGED <<storeVars, runs, logged, coldDay, campaigns, passVars,
                   historyVars, countVars>>

Merge(c) ==
    /\ ~ commits[c].merged
    /\ commits' = [commits EXCEPT ![c].merged = TRUE]
    /\ UNCHANGED <<storeVars, runs, logged, coldDay, campaigns, passVars,
                   historyVars, countVars>>

\* CI starts a check, again perhaps, or a run comes to its end.
CheckRun(c) ==
    /\ \/ /\ \A d \in Sha : Cardinality(runs[d]) < MaxRuns
          /\ MaxRuns > 0
          /\ \E k \in Check : runs' = [runs EXCEPT ![c] = @ \cup
                {[id |-> Cardinality(@) + 1, check |-> k, outcome |-> "running"]}]
       \/ \E r \in runs[c], o \in Outcome \ {"running"} :
            /\ r.outcome = "running"
            /\ runs' = [runs EXCEPT ![c] =
                            (@ \ {r}) \cup {[r EXCEPT !.outcome = o]}]
    /\ UNCHANGED <<storeVars, commits, logged, coldDay, campaigns, passVars,
                   historyVars, countVars>>

NewDay ==
    /\ coldDay < MaxDay
    /\ coldDay' = coldDay + 1
    /\ campaigns' \in {campaigns, campaigns \cup {coldDay'}}
    /\ UNCHANGED <<storeVars, commits, runs, logged, passVars, historyVars,
                   countVars>>

\* The file of an item, rewritten whole.
WriteItem(s, new) == item' = [item EXCEPT ![s] = new]

-----------------------------------------------------------------------------
(* The router puts cold findings in front of an agent.                     *)

\* The first items, by topic, of those that match and are cold.
Surfaced(matching) ==
    LET cold == {s \in matching : IsCold(s)}
        ahead(s) == {t \in cold : TopicRank[t] < TopicRank[s]}
    IN  IF SurfaceCap = 0 THEN cold
        ELSE {s \in cold : Cardinality(ahead(s)) < SurfaceCap}

\* Mutant: what the cap cut is logged like what was shown.
SurfaceLogsAll(matching) ==
    LET first(known, slugs) ==
            [s \in Slug |-> IF s \in slugs /\ known[s] = 0
                            THEN Len(commits) + 1 ELSE known[s]]
    IN  /\ Surfaced(matching) # {}
        /\ shown' = first(shown, Surfaced(matching))
        /\ logged' = first(logged, {s \in matching : IsCold(s)})
        /\ UNCHANGED <<storeVars, commits, runs, coldDay, campaigns, passVars,
                       vouched, pinWish, byHand, raced, countVars>>

\* What is shown is logged, unless the log cannot be written.
Surface(matching) ==
    LET first(known, slugs) ==
            [s \in Slug |-> IF s \in slugs /\ known[s] = 0
                            THEN Len(commits) + 1 ELSE known[s]]
    IN  /\ Surfaced(matching) # {}
        /\ shown' = first(shown, Surfaced(matching))
        /\ logged' \in {logged, first(logged, Surfaced(matching))}
        /\ UNCHANGED <<storeVars, commits, runs, coldDay, campaigns, passVars,
                       vouched, pinWish, byHand, raced, countVars>>

-----------------------------------------------------------------------------
(* The pass, first part: attribution.                                      *)

\* The commits on the default branch that cite the item.
CitedCommits(s) == {c \in Authored : commits[c].merged /\ s \in commits[c].cites}

\* The item was injected, for the first time no later than the commit.
InjectedBy(s, c) == logged[s] # 0 /\ c >= logged[s]

\* The commit changes a file that a glob of the item matches.
TouchesPaths(s, c) == s \in commits[c].touches

Qualifies(s, c) == c \in CitedCommits(s) /\ InjectedBy(s, c) /\ TouchesPaths(s, c)

\* The earliest qualifying commit of each cold item that has none yet.
PlannedAttributions ==
    {t \in {"attribute"} \X Slug \X Authored :
        LET s == t[2]
            c == t[3]
        IN  /\ IsCold(s) /\ item[s].sha = NoSha
            /\ Qualifies(s, c)
            /\ \A d \in 1..(c - 1) : ~ Qualifies(s, d)}

\* Whatever fails in the planner leaves an empty plan.
BeginPass ==
    /\ phase = "idle"
    /\ todo' \in {PlannedAttributions, {}}
    /\ phase' = "attribute"
    /\ UNCHANGED <<storeVars, worldVars, copy, historyVars, countVars>>

\* Mutant: the item is not looked at again before it is written.
AttributeUnchecked(s, c) ==
    /\ phase = "attribute"
    /\ <<"attribute", s, c>> \in todo
    /\ todo' = todo \ {<<"attribute", s, c>>}
    /\ IF item[s] # NoItem
       THEN WriteItem(s, [item[s] EXCEPT !.sha = c, !.green = "unknown"])
       ELSE UNCHANGED item
    /\ UNCHANGED <<leaf, routed, worldVars, phase, copy, historyVars, countVars>>

\* Phase A: the item is read again, and left alone unless it is still cold and
\* without a commit.
Attribute(s, c) ==
    /\ phase = "attribute"
    /\ <<"attribute", s, c>> \in todo
    /\ todo' = todo \ {<<"attribute", s, c>>}
    /\ \/ /\ IsCold(s) /\ item[s].sha = NoSha
          /\ WriteItem(s, [item[s] EXCEPT !.sha = c, !.green = "unknown"])
       \/ /\ ~ (IsCold(s) /\ item[s].sha = NoSha)
          /\ UNCHANGED item
    /\ UNCHANGED <<leaf, routed, worldVars, phase, copy, historyVars, countVars>>

Pending(s) == IsCold(s) /\ item[s].sha # NoSha /\ item[s].green = "unknown"

BeginFlips ==
    /\ phase = "attribute" /\ todo = {}
    /\ todo' = {<<"flip", s, NoSha>> : s \in {t \in Slug : Pending(t)}}
    /\ phase' = "flip"
    /\ UNCHANGED <<storeVars, worldVars, copy, historyVars, countVars>>

\* Phase B: the item is read again, and then CI is asked about its commit.
ReadPending(s) ==
    /\ phase = "flip"
    /\ <<"flip", s, NoSha>> \in todo
    /\ todo' = todo \ {<<"flip", s, NoSha>>}
    /\ \/ /\ Pending(s)
          /\ copy' = [copy EXCEPT ![s] = item[s]]
          /\ phase' = "resolve"
       \/ /\ ~ Pending(s)
          /\ UNCHANGED <<copy, phase>>
    /\ UNCHANGED <<storeVars, worldVars, historyVars, countVars>>

\* What was read is written back with the answer, if there is one.
FlipVerdict(s) ==
    LET c == copy[s].sha
    IN  /\ phase = "resolve" /\ copy[s] # NoItem
        /\ \E v \in ResolveCIStatus(runs[c], RunsPage) :
            IF v = "unknown" THEN UNCHANGED item
            ELSE WriteItem(s, [copy[s] EXCEPT !.green = v])
        /\ vouched' = IF TrulyGreen(runs[c]) \/ ~ Cardinality(runs[c]) <= RunsPage
                      THEN vouched \cup {c} ELSE vouched
        /\ copy' = [copy EXCEPT ![s] = NoItem]
        /\ phase' = "flip"
        /\ UNCHANGED <<leaf, routed, worldVars, todo, shown, pinWish, byHand,
                       raced, countVars>>
-----------------------------------------------------------------------------
(* The pass, second part: promotion and decay, from one look at the store. *)

\* Each campaign is dated by its first item; task.md adds the current one.
KnownStarts(current) ==
    LET live == {s \in Slug : item[s] # NoItem}
        created(k) == {item[s].created : s \in {t \in live : item[t].campaign = k}}
    IN  current \cup {Min(created(item[s].campaign)) : s \in live}

\* Mutant: the window is one campaign short.
WindowShort(starts) ==
    CHOOSE d \in starts : Cardinality({e \in starts : e > d}) = 0

\* The start of the Threshold-th most recent campaign, or of the first.
Window(starts) ==
    LET n == Min({Threshold, Cardinality(starts)})
    IN  CHOOSE d \in starts : Cardinality({e \in starts : e >= d}) = n

\* last_injected is set by a promotion only: being shown does not count.
Stale(s, starts) ==
    \/ item[s].used = Never
    \/ starts # {} /\ item[s].used < Window(starts)

Eligible(s) == IsCold(s) /\ item[s].sha # NoSha /\ item[s].green = "green"

\* Mutant: the pin is not looked at.
DecaysPinned(s, starts) ==
    /\ item[s] # NoItem
    /\ item[s].tier \in {"warm", "hot"}
    /\ Stale(s, starts)

Decays(s, starts) ==
    /\ item[s] # NoItem
    /\ item[s].tier \in {"warm", "hot"}
    /\ ~ item[s].pinned
    /\ Stale(s, starts)

\* load_index and both plans; --campaign narrows the promotions only.
LoadIndex(scope, current) ==
    /\ phase = "flip" /\ todo = {}
    /\ copy' = item
    /\ todo' =
        {<<"promote", s, NoSha>> :
            s \in {t \in Slug : Eligible(t) /\ item[t].campaign \in scope}}
        \cup {<<"decay", s, NoSha>> :
            s \in {t \in Slug : Decays(t, KnownStarts(current))}}
    /\ phase' = "apply"
    /\ UNCHANGED <<storeVars, worldVars, historyVars, countVars>>

\* materialize is in the middle of an item.
InHand == \E t \in todo : t[1] \in {"route", "mark"}

Advance(s, from, to) ==
    /\ phase = "apply"
    /\ <<from, s, NoSha>> \in todo
    /\ todo' = (todo \ {<<from, s, NoSha>>})
                    \cup (IF to = "done" THEN {} ELSE {<<to, s, NoSha>>})

\* Mutant: the route is written before the doc it points to.
WriteRouteFirst(s) ==
    /\ ~ InHand
    /\ Advance(s, "promote", "route")
    /\ routed' = routed \cup {s}
    /\ UNCHANGED <<item, leaf, worldVars, phase, copy, historyVars, countVars>>

\* materialize: the bullet, then the route, then the tier.
WriteLeafDoc(s) ==
    /\ ~ InHand
    /\ Advance(s, "promote", "route")
    /\ leaf' = leaf \cup {s}
    /\ UNCHANGED <<item, routed, worldVars, phase, copy, historyVars, countVars>>

AddRoute(s) ==
    /\ Advance(s, "route", "mark")
    /\ routed' = routed \cup {s}
    /\ UNCHANGED <<item, leaf, worldVars, phase, copy, historyVars, countVars>>

\* Mutant: the last step of a promotion is skipped.
MarkNothing(s) ==
    /\ Advance(s, "mark", "done")
    /\ UNCHANGED <<item, leaf, routed, worldVars, phase, copy, historyVars, countVars>>

MarkWarm(s) ==
    /\ Advance(s, "mark", "done")
    /\ WriteItem(s, [copy[s] EXCEPT !.tier = "warm", !.used = coldDay])
    /\ UNCHANGED <<leaf, routed, worldVars, phase, copy, historyVars, countVars>>

\* Decays follow the promotions; leaf doc and route stay.
Demote(s) ==
    /\ ~ InHand /\ ~ \E t \in todo : t[1] = "promote"
    /\ Advance(s, "decay", "done")
    /\ WriteItem(s, [copy[s] EXCEPT !.tier = IF @ = "hot" THEN "warm" ELSE "cold"])
    /\ UNCHANGED <<leaf, routed, worldVars, phase, copy, historyVars, countVars>>

EndPass ==
    /\ phase = "apply" /\ todo = {}
    /\ phase' = "idle"
    /\ copy' = NoCopy
    /\ UNCHANGED <<storeVars, worldVars, todo, historyVars, countVars>>

\* One item cannot be written: the pass goes on with the next.
StepFails(s) ==
    /\ coldCrashes < MaxColdCrashes
    /\ \E kind \in {"promote", "route", "mark", "decay"} :
        Advance(s, kind, "done")
    /\ coldCrashes' = coldCrashes + 1
    /\ UNCHANGED <<storeVars, worldVars, phase, copy, historyVars, edits>>

\* The pass is killed, perhaps while it writes the file that its next step is
\* about: write_text has emptied it by then.
CrashPass ==
    LET at == {t \in todo : InHand => t[1] \in {"route", "mark"}}
        slugs(kinds) == {t[2] : t \in {u \in at : u[1] \in kinds}}
        ofItem == slugs({"attribute", "mark", "decay"})
                    \cup {s \in Slug : phase = "resolve" /\ copy[s] # NoItem}
    IN  /\ phase # "idle"
        /\ coldCrashes < MaxColdCrashes
        /\ coldCrashes' = coldCrashes + 1
        /\ \/ UNCHANGED storeVars
           \/ /\ \E s \in ofItem : item' = [item EXCEPT ![s] = NoItem]
              /\ UNCHANGED <<leaf, routed>>
           \/ /\ \E s \in slugs({"promote"}) : leaf' = leaf \ {s}
              /\ UNCHANGED <<item, routed>>
           \/ /\ slugs({"route"}) # {} /\ routed' = {}
              /\ UNCHANGED <<item, leaf>>
        /\ phase' = "idle" /\ todo' = {} /\ copy' = NoCopy
        /\ UNCHANGED <<worldVars, historyVars, edits>>

Pass ==
    \/ BeginPass \/ BeginFlips \/ EndPass
    \/ \E s \in Slug, c \in Authored : Attribute(s, c)
    \/ \E s \in Slug :
        \/ ReadPending(s) \/ FlipVerdict(s)
        \/ WriteLeafDoc(s) \/ AddRoute(s) \/ MarkWarm(s) \/ Demote(s)
    \/ \E scope \in {campaigns} \cup {{d} : d \in campaigns},
          current \in {{}, {Max(campaigns)}} : LoadIndex(scope, current)

World ==
    \/ Author \/ NewDay
    \/ \E s \in Slug : Seal(s) \/ TogglePin(s) \/ WriteConsequence(s)
    \/ \E c \in Authored : Merge(c) \/ CheckRun(c)
    \/ \E matching \in SUBSET Slug : Surface(matching)

ColdNext == Pass \/ World \/ CrashPass \/ \E s \in Slug : StepFails(s)

ColdSpec == ColdInit /\ [][ColdNext]_coldVars

-----------------------------------------------------------------------------
\* What agents are told to follow was proved: an item in a leaf doc, in a route
\* or warm that nobody decreed was cited by a merged commit which touches its
\* paths, which was authored after an agent was shown the item, and for which CI
\* was green when it was asked; wherever a pass died, whatever was edited.
InjectedProved ==
    \A s \in Slug \ byHand :
        s \in leaf \cup routed \/ (item[s] # NoItem /\ item[s].tier = "warm")
        => \E c \in Authored \cap vouched :
            /\ commits[c].merged
            /\ s \in commits[c].cites \cap commits[c].touches
            /\ shown[s] \in 1..c

\* A commit and a verdict, once recorded, are changed by people only; unless the
\* item was edited while a pass held an older copy of it.
AttributionKept ==
    [][\A s \in Slug :
        /\ edits' = edits /\ s \notin raced
        /\ item[s] # NoItem /\ item'[s] # NoItem
        => /\ item[s].sha # NoSha => item'[s].sha = item[s].sha
           /\ item[s].sha # NoSha /\ item[s].green # "unknown"
                => item'[s].green = item[s].green]_coldVars

\* A pin that was not set while a pass held an older copy keeps the item's tier
\* from falling, and is itself kept.
PinHonoured ==
    [][\A s \in Slug :
        /\ edits' = edits /\ s \notin raced /\ pinWish[s]
        /\ item[s] # NoItem /\ item'[s] # NoItem
        => /\ item'[s].pinned
           /\ item'[s].tier \in {item[s].tier, "warm"}
           /\ item[s].tier = "hot" => item'[s].tier = "hot"]_coldVars

\* Whatever the order of the writes and wherever a pass dies, a route points to
\* a doc that holds the item, unless the doc itself was torn.
RouteHasLeaf == coldCrashes = 0 => routed \subseteq leaf

Demotion(s) ==
    /\ item[s] # NoItem /\ item'[s] # NoItem
    /\ item[s].tier = "warm" /\ item'[s].tier = "cold"

StartsSince(s) == {d \in campaigns : d > item[s].used}

\* An item that was promoted stays warm until decay_after_campaigns campaigns
\* have begun since, where the items of a campaign date it rightly.
DecayNotEarly ==
    [][\A s \in Slug :
        /\ Demotion(s) /\ item[s].used # Never
        /\ \A t \in Slug : copy[t] # NoItem => copy[t].created = copy[t].campaign
        => Cardinality(StartsSince(s)) >= Threshold]_coldVars

\* The same, however late in its campaign an item was written.
DecayAfterCampaigns ==
    [][\A s \in Slug : Demotion(s) /\ item[s].used # Never
        => Cardinality(StartsSince(s)) >= Threshold]_coldVars

\* What is injected by a route is not shown again as a cold topic: not by a pass
\* that came to its end, unless the item was promoted and demoted again.
NotSurfacedTwice ==
    phase = "idle" /\ coldCrashes = 0 =>
        \A s \in routed : IsCold(s) => item[s].used # Never

-----------------------------------------------------------------------------
(* The inductive invariant behind InjectedProved: each fact about an item  *)
(* rests on a commit, and commits, sightings and verdicts are not unmade.  *)

Basis(s, c) ==
    /\ c \in Authored /\ commits[c].merged
    /\ s \in commits[c].cites \cap commits[c].touches
    /\ shown[s] \in 1..c

Proved(s) == \E c \in vouched : Basis(s, c)

\* Of what is on disk, and of what the pass has in memory.
WellFounded(s, record) ==
    record # NoItem /\ s \notin byHand =>
        /\ record.sha # NoSha => Basis(s, record.sha)
        /\ record.sha # NoSha /\ record.green = "green" => record.sha \in vouched
        /\ record.tier = "cold" \/ (record.tier = "warm" /\ Proved(s))

KindsOf ==
    IF phase = "attribute" THEN {"attribute"}
    ELSE IF phase \in {"flip", "resolve"} THEN {"flip"}
    ELSE IF phase = "apply" THEN {"promote", "route", "mark", "decay"} ELSE {}

RecordsWellFounded ==
    \A s \in Slug : WellFounded(s, item[s]) /\ WellFounded(s, copy[s])

LogTrue ==
    \A s \in Slug :
        /\ shown[s] <= Len(commits) + 1
        /\ logged[s] # 0 => shown[s] \in 1..logged[s]

DocsProved == \A s \in (leaf \cup routed) \ byHand : Proved(s)

TaskSound(t) ==
    /\ t[1] \in KindsOf
    /\ t[1] = "attribute" => Basis(t[2], t[3])
    /\ t[1] \in {"promote", "route", "mark", "decay"} => copy[t[2]] # NoItem
    /\ t[1] \in {"promote", "route", "mark"} => t[2] \in byHand \/ Proved(t[2])

TodoSound == \A t \in todo : TaskSound(t)

ColdInv == RecordsWellFounded /\ LogTrue /\ DocsProved /\ TodoSound

\* The one behind RouteHasLeaf: a route is written for a bullet that is there.
RouteInv ==
    /\ coldCrashes \in Nat
    /\ coldCrashes = 0 =>
         /\ routed \subseteq leaf
         /\ \A t \in todo : t[1] = "route" => t[2] \in leaf

\* The one behind AttributionKept and PinHonoured: what a pass holds agrees with
\* what is on disk, but for the items that people edited since.
AsHeld(s) ==
    /\ item[s] # NoItem /\ copy[s] # NoItem
    /\ item[s].sha = copy[s].sha
    /\ item[s].green = copy[s].green
    /\ item[s].pinned = copy[s].pinned

CopyFresh ==
    /\ phase \in {"idle", "attribute", "flip"} => copy = NoCopy
    /\ phase = "resolve" =>
         \A s \in Slug : copy[s] # NoItem =>
            /\ copy[s].green = "unknown" /\ copy[s].tier = "cold"
            /\ s \in raced \/ item[s].tier = "cold"
            /\ \A r \in Slug \ {s} : copy[r] = NoItem
    /\ \A s \in Slug \ raced : copy[s] # NoItem => AsHeld(s)

PinsKnown == \A s \in Slug \ raced : item[s] # NoItem => item[s].pinned = pinWish[s]

TaskFresh(t) ==
    /\ t[1] \in {"promote", "route", "mark"} =>
         copy[t[2]].tier = "cold" /\ (t[2] \in raced \/ item[t[2]].tier = "cold")
    /\ t[1] = "decay" => ~ copy[t[2]].pinned

TodoFresh ==
    /\ \A t \in todo : TaskFresh(t)
    /\ phase = "apply" => \A t, u \in todo : t[2] = u[2] => t = u

FreshInv == CopyFresh /\ PinsKnown /\ TodoFresh

\* The ones behind NotSurfacedTwice and DecayNotEarly.  What a pass has yet to
\* write back has the tier and the days of the item on disk, whoever edits it.
SameDays(record, other) ==
    /\ record.tier = other.tier /\ record.used = other.used
    /\ record.created = other.created /\ record.campaign = other.campaign

HeldInv ==
    \A s \in Slug : copy[s] # NoItem =>
        /\ item[s] # NoItem
        /\ phase # "apply" \/ (\E t \in todo : t[2] = s) => SameDays(item[s], copy[s])

\* An item of a route was marked as used, unless that is the next step.
UsedInv ==
    coldCrashes = 0 =>
        \A s \in routed :
            /\ item[s] # NoItem
            /\ item[s].used = Never => <<"mark", s, NoSha>> \in todo

\* An item is of a known campaign, and was not used before it began.
Dated(record) ==
    record # NoItem =>
        /\ record.campaign \in campaigns
        /\ record.used # Never => record.campaign <= record.used

DatesInv ==
    /\ campaigns \subseteq 0..coldDay
    /\ \A s \in Slug : Dated(item[s]) /\ Dated(copy[s])

\* What is to be demoted has been out of use for long, if the items date their
\* campaigns rightly.
DecayInv ==
    (\A t \in Slug : copy[t] # NoItem => copy[t].created = copy[t].campaign) =>
        \A s \in Slug :
            <<"decay", s, NoSha>> \in todo /\ copy[s].used # Never =>
                Cardinality({d \in campaigns : d > copy[s].used}) >= Threshold

\* The part of the types that they need.
ColdShape ==
    /\ item \in [Slug -> Item \cup {NoItem}]
    /\ copy \in [Slug -> Item \cup {NoItem}]
    /\ commits \in Seq(Commit) /\ Len(commits) <= MaxCommits
    /\ logged \in [Slug -> Nat] /\ shown \in [Slug -> Nat]
    /\ pinWish \in [Slug -> BOOLEAN]
    /\ coldDay \in Day /\ campaigns \subseteq Day
    /\ leaf \subseteq Slug /\ routed \subseteq Slug
    /\ todo \subseteq Kind \X Slug \X ({NoSha} \cup Sha)

=============================================================================
