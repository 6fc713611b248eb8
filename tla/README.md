# ContextLifecycle in TLA+

Modules, TLC runs and TLAPS proofs about ContextLifecycle: the session loop that drives agent
backends (PseudoOperator) and the stores and hooks around it. `PROJECT.json` maps every definition
to the lines it is translated from and lists the runs, the mutants of their properties, the hazards
of the code and the theorems. Paths below are relative to `src/context_lifecycle/`.

## The system

ContextLifecycle keeps all its state in files, mostly under a repository's `.context/` and
`.console/`. There is no server: every part is a short `cl` process, started by a hook, a person or
the loop, that reads files, decides and writes. What makes it hard is that these processes overlap,
that few of them lock, that writes are not atomic, and that a process may die between two of them.

| Part | State | Operations | Hard behaviours |
| --- | --- | --- | --- |
| PseudoOperator lock (`pseudo_operator/engine.py`) | the lock file: pid and host | acquire with reclaim, release | launches that overlap, crashes, pids reused, other hosts |
| PseudoOperator loop (`engine.py`, `sessions.py`, `limits.py`, `cli/loop.py`) | iteration, failures, cooldowns in memory; stop, pause, schedule files | run, hooks, backend ladder, sleep, stop, pause, resume | limits and their resets, stop at any moment, caps, crash and relaunch |
| Config trust anchor (`config.py`, `signing.py`, `committed.py`) | live section, signed reference, `origin/main` | load_verified_config | the live file is read twice; offline |
| Sessions and retention (`session/`, `cli/session.py`, `context_engine/prune.py`, `lifecycle.py`) | session directories, archived directories, stamps | start, end, auto_gc, prune, capture, hydrate | sweeps that overlap with writers and with each other |
| Cold store and consolidation (`context_engine/`) | knowledge items: tier, pin, commit, tests | attribution, promotion, decay | human edits between load and apply |
| Router and CI status (`context_engine/route.py`, `ci_status.py`) | none | selection under a budget, roll-up | order, priority and limits |
| Reconcile (`reconcile/`) | log, backlog, archive, changelog | check, prune (plan, lock, apply) | crash between writes, editors that do not lock |
| Ledger (`ledger/`) | one markdown file | capture, promote, observe, check | unlocked rewrites, the operator edits |
| ContextGuard (`hooks/`, `cli/hook.py`) | session marker, checkpoints, leases | pre_tool_use, stop | order of the checks; state between processes |

The loop calls `cl session start` and `cl session end --archive` around a launch and `cl` hydrate
and capture around a session, so it is a client of the session store; consolidation calls the session
prune; the hooks read what capture wrote. The lock is the only thing that keeps two loops apart.

What makes each part correct: the lock excludes and lets go of the dead; the loop respects every
limit, spends no more sessions than its caps, stops when told and leaves nothing behind; the
retention never deletes what is younger than its window or still written; consolidation never demotes
a pinned item and never promotes an unproved one; a prune never loses a section; the ledger never
loses an entry; the trust anchor runs nothing else than what it verified.

## Modules

`LoopLock` is the lock file. A launch creates the file at most once, so it also names it: `file` is the
launch whose file bears the lock's name, `written` the launches whose payload is in their file. Each
system call of `acquire_lock` is an action: `Create`/`Exists` the `O_EXCL` open, `WritePayload` the
`fdopen` and write, `ReadPayload`/`ReadMalformed` the read of another's file, `JudgeHeld`/`JudgeStale`
the answer of `_lock_holder_is_live`, `Reclaim` the `unlink` and the next attempt, `Release` the `unlink`
of `release_lock`, `Crash` a death at any point. A pid that was given to another process makes a
dead holder look alive, so `JudgeHeld` is always possible on the holder's host; on another host the code never
looks and always treats the lock as held.

`PseudoOperator` is `run()` of the engine, one action per step between two reads of shared state,
with `pc` naming the place in the code. All instants are kept as time left: a `Tick` brings cooldowns and sleeps nearer,
and a cooldown of 0 is both the `None` of the code and a reset that has passed. `Operator` is the
person or the signal that stops, pauses and resumes at any moment; `Crash` and `Launch` are the end
of the process and the next one. The lock is abstracted to free, held or stale: `LoopLock` shows what makes that
sound, and when it is not. The model leaves out what the loop only writes (its runtime state,
its log), the child's environment, and the one-shot signal, which only the session reads.

`SessionRetention` is the directories of one anchor's sessions and every command that makes, moves or
deletes them, none of which locks. A directory is a session with a number: 0 under `sessions/`, 1 under its
name in `archived/`, above that with a suffix. Its record says what its `.gc-moved-at` stamp holds; dates are
ages in days. A `cl session start` runs through `Start`, the throttle (`Throttled`, `NotThrottled`, `MarkRun`), tier 1
(`Keep1`, `Choose`, `Move`/`MoveLost`, `StampOpen`, `StampDate`/`StampFails`) and tier 2 (`BeginTier2`, `Keep2`, `Delete`,
`EndSweep`), one action per file operation that another process can come between; `Capture` is the live writer that
makes its directory again, `End`/`EndMove` is `cl session end`, and the manual prune and the consolidation
plan in one step and apply in a later one. `held`, `swept` and `rough` are history: how long a directory
has been archived, whether a sweep moved it, and whether a sweep was interrupted before a stamp or ran beside another.

`ReconcilePrune` is `cl reconcile prune --apply`. A file is a sequence of sections, a section a heading over a set of entries,
and each archive file belongs to a source and a day. `PlanPrune` is `build_plan`, without the lock; `Lock`/`LockHeld` the
non-blocking flock; then for the log and for the backlog `Read`, `OpenArchive`, `WriteArchive`, `OpenSource`, `WriteSource`, since
`write_text` empties a file before it fills it; then `Changelog`, and `OpenScrub`/`WriteScrub` where a name is left. `Log`, `Complete`
and `MarkDone` are the people and agents who edit the log, the backlog and the worksheet at any moment, without the lock. The gate
of `check` only reads, so the model may plan at any time. `reused`, `raced` and `torn` are history: a heading came
again where it was archived, an edit came between a read and a write, a crash left a file half written.

`LoopMutex` is what the lock promises to those who launch loops: a launch waits, runs and is over, and unless two of them contend
one runs at a time. `LoopLock` maps onto it (`Outcome`: a holder runs, one that is refused, done or dead is over), and
`ImplementsMutex` is the refinement.

`CIStatus` is what `ci_status.py` makes of the check runs of a commit, as operators: the one page that is asked for, the latest run of each
check, the roll-up.

`ColdStore` is the knowledge store and the pass that closes a campaign. An item's file is a record; a commit is its place in author-date
order, with the items it cites and touches. The world is people who write, pin and edit items (`Seal`, `TogglePin`, `WriteConsequence`), agents who
commit and merge (`Author`, `Merge`), CI (`CheckRun`), the calendar with its campaigns (`NewDay`) and the router that shows cold items and logs
that it did (`Surface`). The pass is `run_attribution` in its two phases (`BeginPass`, `Attribute`; `BeginFlips`, `ReadPending`, `FlipVerdict`, with
the CI query between the read and the write), then `load_index` and both plans (`LoadIndex`), then the writes: of a promotion the bullet, the route and the
item (`WriteLeafDoc`, `AddRoute`, `MarkWarm`), of a decay the item (`Demote`). `StepFails` is the `except: continue` of an item, `CrashPass` a
death, which may find a file emptied. `shown`, `vouched`, `pinWish`, `byHand` and `raced` are history: what agents were truly shown, which commits
CI called green or could not show in one page, the pin as a person last wrote it, which items people decreed, and which they edited while the pass held a copy.

`ContextRouter` is `route.py`: globs translated to a regex, the version range, the selection by best priority and first sight, the budget. A path is
a sequence of segments, so that the documented meaning of a glob can be stated segment by segment and compared with the regex over the joined text.

`Ledger` is the one file that `capture` and `promote` rewrite whole: `Capture` and `Promote` read and compute, `EmptyFile` and `FillFile` are the two
halves of `write_text`, and the operator edits by hand in between (`Judge`, `Drop`). `atRisk` is history: what an overlap or a crash may have erased.

`TrustAnchor` is `load_verified_config`, one action per file it reads, and the people who edit, sign, check out and push. A signature is
named by the section that was signed. `ContextGuard` is the `pre_tool_use` and `stop` hooks over capsules, handoffs, checkpoints and the marker file; time passes,
dispatchers write through `capture`, and each hook runs under some hash seed.

`LoopLockProofs`, `PseudoOperatorProofs`, `SessionRetentionProofs`, `ReconcilePruneProofs`, `ColdStoreProofs`, `LedgerProofs`, `ContextRouterProofs` and
`StoresProofs` (the anchor, the hooks and the product of the stores) hold the theorems;
`MCLoopLock`, `MCPseudoOperator`, `MCSessionRetention`, `MCReconcilePrune`, `MCColdStore` and `MCStores` the small instances.

## Runs

| Run | Shows | Bounds and why they are enough |
| --- | --- | --- |
| looplock | Without contention (no two launches inside `acquire_lock` at once) two loops never run together, a launch reclaims at most once, and nobody but its owner takes away a live lock; the lock implements `LoopMutex`. | Four launches, one of them on a second host: the smallest instance in which a launch uses up its three attempts. Launches are finite, so the run may end: `CHECK_DEADLOCK FALSE`. |
| looplock_race | Expected to fail: with contention two loops do run. | As above. |
| engine_safety | Global limits hold every claude backend; cooldowns are not shortened; the ladder runs a backend once; one session at the most starts after a stop; a schedule serves one sleep; the session is ended before the lock is free; a reset sleep leaves a backend to run. | Three backends (two claude, one codex) are the fewest with a claude backend to skip and a codex one below; two iterations and two failures reach both caps from both sides; resets up to 2 give different cooldowns to compare. |
| engine_live | A stop ends the loop from anywhere; a launch that is not paused for good ends. | Two backends, resets of at most 1: every kind of sleep and the ladder occur. |
| engine_cap | Expected to fail: failures of fallback sessions are not counted. | As engine_live. |
| retention | No sweep deletes anything of a session younger than both windows together, whatever runs beside it and wherever a process dies; and none deletes a snapshot that a sweep moved within its window, as long as sweeps neither overlap nor die before the stamp. | One session and two sweeps (symmetric): directories of different sessions never share a name. Windows of one day give ages on every side of each cutoff; two archived names force a collision; a session that is not followed may start at any time. |
| retention_race | Expected to fail: a crash or a second sweep between move and stamp gets the moved snapshot deleted. | As retention. |
| retention_bounded | Of a session that has ended nothing stays for good, except under a torn stamp. | One sweep at a time, one crash. |
| reconcile | No entry is lost, or twice in an archive, through crashes between writes, repeated and overlapping prunes and stale plans, as long as no heading comes again; a second prune finds nothing to do; a prune takes no more from the log than its preview said; what was moved for an item has its line. | Two pruners, three of four entries written in any order, `--recent 1`: the pointer, a claimed and an unclaimed section already exceed it. Two days give two archive files. The run may end: `CHECK_DEADLOCK FALSE`. |
| stores | The knowledge store, the router, the ledger, the anchor and the guard, one at a time (below). | Below. |
| cold_decay | Expected to fail: an item is demoted before the threshold of campaigns has begun. | Two items, three days, one commit: nobody edits and nothing fails. |
| reconcile_loss | Expected to fail: a heading that comes again on the same day is trimmed and not archived. | As reconcile, without a crash. |

A violation run states what a comment of the code promises and shows a behaviour of the code
that breaks it; `PROJECT.json` quotes the comment.

`looplock_race`: a launch has created the lock file and not yet written its payload; a second reads it
empty, takes it for malformed, unlinks it by name and creates its own. Both go on.

`engine_cap`: with the first backend limited and the second failing, the failures of the second are
never counted.

`retention_race`: a session older than both windows is moved; the sweep dies before the stamp, or a second sweep
comes by before it is written. Without a stamp the directory is dated by its id, and deleted at once.

`reconcile_loss`: an item is completed and pruned; another is completed under the same `## Done` and pruned on the same day. The
archive has the heading, so the second body is left out, and the source is emptied.

`cold_decay`: an item is promoted on the day campaign 0 begins. Campaign 1 begins the next day, and its first item is written the day after.
`_derive_campaign_starts` dates campaign 1 by that item and adds the start that `task.md` states, so that the campaign counts twice: the boundary
of two campaigns falls on day 1, and the first item is demoted although one campaign has begun since.

### The run `stores`

Its parts share no variable, so that their product has no behaviour that each does not have alone; the variable `part` says which part moves, and one
run checks them all. What it shows:

| Part | Properties | Instance |
| --- | --- | --- |
| attribution | `InjectedProved`: what a doc, a route or the tier tells agents to follow rests on a commit that is merged, cites the item, touches its paths, came after the item was shown and was green when CI was asked. `AttributionKept`: no step takes back a commit or a verdict. | Two items of one path with room for one of them, one commit, two runs of one check. `AttributionSlice`: one day, and one edit or one crash. |
| decay | `PinHonoured`: a pin that was set before the pass looked keeps the tier and itself. `DecayNotEarly`: no demotion before the threshold of campaigns, where the items of a campaign date it rightly. `RouteHasLeaf`, `NotSurfacedTwice`: whatever the order of the writes, a route has its doc, and what is routed is not shown as cold. | Three days with a campaign on any of them, threshold 2: the boundary may fall before, on and after the promotion. `DecaySlice`: the first item is promoted, pinned, edited and demoted, the second only dates campaigns. |
| router | `GlobMeansWhatItSays`: the regex means what the docstring says. `SelectionRight`: each doc of a matching route is brought or reported once, and the budget cuts what ranks lowest. | Six globs with the wildcards in each place, nine paths that match or nearly do; two routes, two docs, two priorities, budgets 0 and 1. |
| ledger | `LedgerKept`: what was captured or judged stays, but for an overlap or a crash. `NoDuplicateCandidate`. `OnlyHumansJudge`: a reconfirmed line cites a ref a human wrote for that signal, and that once resolved. | Two clerks (symmetric), two signals of which one ends like the other, three lines. `LedgerSlice`: judgements of one signal. |
| anchor | `RunsTrusted`: what runs is what its status says: signed under ok and drift, on `origin/main` under drift_unsigned, and the strict flags run nothing less; the one gap is an edit between the two reads of the live section. | Two sections (symmetric): the signed one and another. |
| refusal | `RefusalStands`: a call that was refused is refused again until a file changes, however late. | Two handoffs, one that expires and forbids, one that allows nothing; three instants. |
| stop | `StopNotices`: the stop hook is quiet iff a checkpoint was written after the worker's first call, if all the hooks ran under one hash seed. | Two seeds, two names of checkpoints, three instants. |

In the slices of the cold store `Quiet` keeps a variable still while the pass is in a phase that does not read it: such a step commutes with those of the
phase, so it may as well come before. The parts have bounds and some end there: `CHECK_DEADLOCK FALSE`. `StoresTypeOK` is the types of all parts.

## Fairness

`FairSpec` is weakly fair to the loop and to the clock, and to nothing else: no operator, no launch and
no crash is ever owed. The loop may rely on it because every wait in the code is bounded: a session is
killed at its wall timeout, every hook and `cl` call has a timeout of its own, and sleeps are made
of steps of five seconds. `LaunchEnds` assumes that the pause flag is not set again and again for ever:
a paused loop idles without using up iterations. `LoopLock` states no liveness: each of its
launches ends by itself after three attempts.

`SessionRetention`'s `FairSpec` assumes that sessions keep being started (the loops do so at each launch; without a start
there is no sweep, and the code promises none), that a sweep and an end which have begun go on, and that days pass. The clock
has strong fairness because the model lets a day pass only between sweeps: a sweep takes its date once, when it begins. A start
may carry the id of a live session in its environment, never that of an ended one: `cl session end` unsets it.

## Proofs

Each theorem holds for every value of the constants that the named `ASSUME` of its module allows. The argument is the same everywhere:
an invariant that `Init` establishes and each action keeps, found by asking what a step must know of the memory of the other processes.

`LoopLockProofs` assumes only that each launch has one host and that `NoFile` is no launch. It proves the type and the bound on attempts
(`TypeInv`: a launch that may yet reclaim has an attempt left, without which the bound is not inductive), from it `SerialInv`, and from that
the exclusion, the single reclaim and the action property. `SerialInv` is needed because exclusion alone is
not inductive: one must know that a judgement is about the present holder, that nobody holds while
a reclaim is decided on, and that the attempt after a reclaim finds no file. `LockImplementsMutex` proves that each step of
`LoopLock` is a step of `LoopMutex` or a stutter: a create while another holds is a contended one by `SerialInv`.

For every number of backends and every cap (`SizeAssumption`), `PseudoOperatorProofs` proves the type,
with the failure count below its cap inside the loop, and `LoopInv`: the backend that runs is not cooling and
no claude backend comes off cooldown under a global limit (`HoldInv`); what ran in the iteration is above
what is about to run (`LadderInv`); a session spawned late is on its way out (`StopInv`); no schedule is left
at the top (`ScheduleInv`); the lock is held inside the loop and given up after the session
(`LockInv`). The four invariants and two action properties follow. `ResetSleepSuffices` follows from `WaitsForABackend`: with all CLIs
installed, the cooldown of some backend ends with the sleep, because the sleep is at least as long as the shortest cooldown and both shrink together.

For every set of sessions and of sweeping processes and for all windows, `SessionRetentionProofs` proves the type,
`YoungSessionKept` and `SnapshotKept`. The first rests on `AgeInv`: only sessions past the first window are moved or stamped, and
a session's id stays ahead of each of its stamps by that window as days pass, so a stamp that has
expired stands for a session older than both; no assumption about overlaps or crashes is needed. The second holds as long as nothing was rough,
and needs that one sweep runs at a time (`OneSweep`), that the name in `archived/` is free for a session that is about to end (`EndingFree`) and that
a sweep moves nothing into what a sweep has moved before (`MoveFree`): then what was moved is stamped at once (`SweptStamped`),
with a date on which it was there (`SweptDated`).

For any number of items, commits, days and checks, any cap on what is shown and any page of check runs, `ColdStoreProofs` proves the six properties of `ColdStore`.
- `InjectedProved` by `ColdInv`: each record on disk or in the memory of the pass, each doc and each task of the pass rests on a commit that supports it. It is
  preserved because nothing unmakes a basis: commits stay on the branch, the first sighting of an item stays the first, an answer stays given (`Kept`, `BasisKept`).
  The record in memory must be part of it because the pass writes it whole.
- `RouteHasLeaf` by `RouteInv`: a task that writes a route has its bullet.
- `AttributionKept` and `PinHonoured` by `FreshInv`: what the pass holds agrees with the disk on commit, verdict and pin, but for items that people edited
  since; an item that the pass demotes was held unpinned; an item has one task. `WriteKinds` then lists what a step may write.
- `NotSurfacedTwice` by `UsedInv` (an item of a route was marked as used, unless that is the task still to come) and `HeldInv` (what the pass has yet to write back
  has the tier and the days of the disk, whoever edits the rest of the item).
- `DecayNotEarly` by `HeldInv`, `DatesInv` (no item is used before its campaign began, and campaigns lie in the past) and `DecayInv` (what waits to be demoted has seen
  the threshold of campaigns begin). `Ranked` is behind it: a set of days has a day of each rank, counted from the last, proved with the cardinalities of the library.

For any pruners, entries, headings, claims and values of `--recent`, and for files of any length, `ReconcilePruneProofs` proves the six invariants of the prune. It
assumes what the code gives: log entries and backlog entries differ, no topic is called Done or Archived, and `--recent` has a value.
- `Recorded` by `RecordInv`: what is moved for an item is in a changelog, or in the plan of a prune that still has the changelog to write. The lock enters by `Serial`.
- `ArchivedOnce` by `OnceInv`: each section has the heading of its entries and each archive a heading once, as has what a prune is about to write there.
- `PreviewHonoured` by `PreviewInv`: until it reads the log, a plan that nothing has overtaken picks what the log would give.
- `RerunNoop` by `RerunInv`: what a prune is going to write back has nothing left that an item claims, and an item that ships later makes the plan stale.
- `HistoryKept` by `HistoryInv`, on top of these: every entry is in a file or in the hands of a prune that has emptied one (`EntriesKept`); an archive that has a
  heading of the source has its entries too, so that leaving a section out loses nothing (`SourcesFiled`); and what a prune holds makes up for what it takes away (`HeldAt`).

For any clerks, signals, contexts and refs, and for files of any length, `LedgerProofs` proves the type and the three properties of the ledger; it assumes that
no context is a ref, because the history variable `atRisk` holds pairs of both kinds. `OnlyHumansJudge` by `HumanInv`: each text that a clerk has read cites judgements
that a human made, and these are never unmade, however old the text. `NoDuplicateCandidate` by `OnceInv`: a whole text is written over the file, so a stale one
brings in no line twice. `LedgerKept` by `KeptInv`: the file, and the text that each clerk will put in its place, show all that no overlap and no crash has put at risk.

For any docs, globs and priorities, tables of any length and any budget, `ContextRouterProofs` proves the type and `SelectionRight`. It assumes what the code gives: routes
name lists of docs, a doc is there, empty or missing, and a path is not empty. The places of a doc (best priority, first route, place in it) order the docs of the
matching routes totally (`DocsOrdered`), any finite set with a total order can be listed in it (`SortedExists`, by `OneIsLast`), so the sort of the code gives such a
list (`OrderedFacts`); the three states share out what is kept (`InStateFacts`, `Joining`), and what is cut comes later in the order than what is kept (`BlockFacts`).

For any sections, `StoresProofs` proves the type of the anchor, and `RunsTrusted` by `AnchorInv`: what each stage of the loader knows of the section it goes by.
For any handoffs, risks, paths and seeds, it proves the type of the hooks and `RefusalStands`: what blocks a call does not cease to with time (`TimePermitsNothing`), and the
hook changes a file only when it lets a call pass; and `StopNotices` by `MarkerInv`: under one seed the marker has the time of the worker's first call.
`StoresImplementParts` proves that the specification of the run `stores`, with its slices, implements that of each part, and `StoresTypeCorrect` and `StoresCorrect` draw
from it that its invariants and action properties hold for every value of the constants.

The library's induction theorems cannot be used here. Where a file of any length needs induction, it is done on a set of indices: the set of those that
fail has a least element (`Least`, `UpTo`), as `<` is well-founded on the naturals, and a recursive function is described one index at a time (`Steps`).

Model-checked only: `StopEndsLoop`, `LaunchEnds` and `EndedGone` (liveness is beyond the prover), and `GlobMeansWhatItSays` (what two recursions over
the characters of a glob and of a path compute for every input; nor do the backends take `Matches`, a recursive function of two arguments).

## Disagreements without a run

Met while reading, where a text of the repository says other than its code does, and no run states it:

- The check runs are asked for in one page of 100. `ci_status.py` (38-41) says that runs beyond it "can only make the result more conservative (never a false True)", but a failure among them is what is not seen, and the commit is green. `InjectedProved` leaves such commits out (`vouched`).
- The docstring of `_rollup` lists what is incomplete before what failed; the code answers red first. Both refuse green.
- A glob `**/b` also matches `xb`: a leading `**/` is any text, not any number of segments. `GlobMeansWhatItSays` leaves it out (`Plain`).
- `write_item` writes the finding and not the detail of an item, so that the first write of the pass empties `## Detail`.
- A demoted item keeps its route, and as its commit and verdict stay, the next pass promotes it again.
- `last_injected` is set by a promotion only: that agents were shown an item does not count as use.
- "Every write is atomic" in `attribution_apply.py`: `write_text` empties the file before it fills it (`CrashPass`).
- The marker "survives across hook invocations" (`cli/hook.py`), but its name holds `hash(...)`, which differs from process to process unless the seed is fixed: without a marker any old checkpoint quiets the stop hook. `StopNotices` assumes one seed.
- An expired lease and a stale checkpoint block every tool, with them the Write of the checkpoint that the message asks for.
- The handoff whose name sorts first rules all workers of a session.
- A signal whose text ends like another is taken for it in the ledger: its capture is dropped (`EndsIn`). A reconfirmed line whose context quotes `[check: ...]` counts as a source afterwards.
- The plan that a person reviews is computed again when it is applied.

## Plan

1. `LoopLock`, `PseudoOperator`, `LoopMutex` and their proofs: done.
2. `SessionRetention` and its proofs: done.
3. `ReconcilePrune` and its proofs: done.
4. `ColdStore` with `CIStatus` and its proofs: done.
5. `Ledger`, `TrustAnchor`, `ContextGuard`, `ContextRouter`, their product and their proofs: done.
6. The composition of the loop with its lock and its backend process (a child that outlives a killed loop).

## Not modelled

In the prune: backlog sections with another heading than Done, old pointers that are repaired, a heading that is found inside
a body, keywords that claim the pointer itself, and a changelog half written.

In the retention: session directories without a date in their name (dated by mtime), a removal that stops
halfway, a second directory nested in the same place (the move fails, and the sweep goes on), a sweep across midnight.

In the cold store: items without a campaign or a parseable date (kept, by the code), commits without one (rejected), and a body that does not parse;
the dry run, which only reads. In the ledger: other text of the file, signals of several words, which `promote` never matches, and `observe` and `check`,
which only read. In the router: the text of the block. In the hooks: warnings.

`reconcile check` is a gate that only reads. Argument parsing and printing (`cli/`), the pydantic schemas, scrubbing, index and campaign
rendering, scaffold: stateless, or a single write of text. Ed25519, git, YAML and the GitHub API are external. The shell
hooks only look for a `cl` to run. Listed with reasons in `PROJECT.json`.
