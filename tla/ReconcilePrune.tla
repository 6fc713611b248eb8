--------------------------- MODULE ReconcilePrune ---------------------------
(***************************************************************************)
(* `cl reconcile prune --apply` (reconcile/prune.py, reconcile/lock.py):   *)
(* a plan made without the lock, then, under it, completed history moved   *)
(* from .console/log.md and .console/backlog.md to the archive of the day, *)
(* a line per item in the changelog, and a scrub of what remains.  People  *)
(* and agents write to the log and to the backlog all the while, without   *)
(* the lock.                                                               *)
(*                                                                         *)
(* A file is a sequence of sections, a section a heading over a set of     *)
(* entries: the log has one entry to a section and the newest first, the   *)
(* backlog one "Done" section.  <<f, 0>> is the file f, <<f, c>> its       *)
(* archive of the day c.  write_text empties a file before it fills it.    *)
(***************************************************************************)
EXTENDS Naturals, Sequences, SequencesExt

CONSTANTS
    LogEntry,       \* what may be written to the log
    DoneEntry,      \* what may be completed in the backlog
    Topic,          \* the headings of the log
    HeadingOf,      \* the heading of each entry of the log
    Items,          \* bound: the items of the worksheet are 1..Items
    Claims,         \* the headings that hold a keyword of each item
    Pruner,         \* the processes that prune
    None,           \* no pruner
    Recent,         \* the values of --recent
    DefaultRecent,  \* DEFAULT_RECENT_N
    Days,           \* bound: the days
    MaxEdits,       \* bound: the entries that are written
    MaxCrashes      \* bound: the prunes that crash

Entry == LogEntry \cup DoneEntry
Item == 1..Items
Heading == Topic \cup {"Done", "Archived"}
Source == {"log", "backlog"}
File == Source \X (0..Days)

ASSUME ReconcileAssumption ==
    /\ Days \in Nat \ {0} /\ Items \in Nat
    /\ MaxEdits \in Nat /\ MaxCrashes \in Nat
    /\ Recent \subseteq Nat /\ Recent # {} /\ DefaultRecent \in Nat
    /\ LogEntry \cap DoneEntry = {}
    /\ Topic \cap {"Done", "Archived"} = {}
    /\ HeadingOf \in [LogEntry -> Topic]
    /\ Claims \in [Item -> SUBSET Topic]
    /\ None \notin Pruner

VARIABLES
    text,       \* the sections of each file
    changelog,  \* the items and days in CHANGELOG.md
    shipped,    \* the items that the worksheet calls done
    today,
    lock,       \* the pruner that holds .reconcile.lock
    pc,         \* where each pruner is
    file,       \* the source it is at
    plan,       \* what build_plan told it
    buffer,     \* the sections it has in memory: to archive, to keep
    written,    \* history: the entries ever written
    moved,      \* history: the headings that were archived for an item
    stale,      \* history: the pruners whose plan was overtaken
    settled,    \* history: a prune has ended, and nothing was written since
    reused,     \* history: an entry came under a heading already archived
    raced,      \* history: an entry came between a read and a write
    torn,       \* history: a crash left a file half written
    crashes

pruner == <<pc, file, plan, buffer>>
vars == <<text, changelog, shipped, today, lock, pruner, written, moved,
          stale, settled, reused, raced, torn, crashes>>

\* marked: the section says "Completed items archived".
Section == [heading : Heading, body : SUBSET Entry, marked : BOOLEAN]
Pointer == [heading |-> "Archived", body |-> {}, marked |-> FALSE]

Headings(sections) == {s.heading : s \in ToSet(sections)}
Entries(sections) == UNION {s.body : s \in ToSet(sections)}

Plan == [claimed : SUBSET Topic, items : SUBSET Item, backlog : BOOLEAN,
         picked : SUBSET Entry, cutoff : 1..Days, recent : Recent]

Writing == {"archiving", "trimming", "scrubbing"}

TypeOK ==
    /\ text \in [File -> Seq(Section)]
    /\ changelog \subseteq Item \X (1..Days)
    /\ shipped \subseteq Item
    /\ today \in 1..Days
    /\ lock \in Pruner \cup {None}
    /\ pc \in [Pruner -> {"idle", "planned", "read", "archive", "trim",
                          "changelog", "scrub"} \cup Writing]
    /\ file \in [Pruner -> Source]
    /\ plan \in [Pruner -> Plan]
    /\ buffer \in [Pruner -> [away : Seq(Section), kept : Seq(Section)]]
    /\ written \subseteq Entry /\ moved \subseteq Topic
    /\ stale \subseteq Pruner
    /\ {settled, reused, raced, torn} \subseteq BOOLEAN
    /\ crashes \in 0..MaxCrashes

NoPlan == [claimed |-> {}, items |-> {}, backlog |-> FALSE, picked |-> {},
           cutoff |-> 1, recent |-> CHOOSE n \in Recent : TRUE]
Empty == [away |-> <<>>, kept |-> <<>>]

Init ==
    /\ text = [f \in File |-> <<>>]
    /\ changelog = {} /\ shipped = {}
    /\ today = 1
    /\ lock = None
    /\ pc = [p \in Pruner |-> "idle"]
    /\ file = [p \in Pruner |-> "log"]
    /\ plan = [p \in Pruner |-> NoPlan]
    /\ buffer = [p \in Pruner |-> Empty]
    /\ written = {} /\ moved = {} /\ stale = {}
    /\ settled = FALSE /\ reused = FALSE /\ raced = FALSE /\ torn = FALSE
    /\ crashes = 0

-----------------------------------------------------------------------------
(* The people and agents of the repository. *)

\* A pruner has read this source and has yet to write it back.
Holding(p, f) ==
    file[p] = f /\ pc[p] \in {"archive", "archiving", "trim", "trimming",
                              "scrubbing"}

\* The archive of today, or of a day whose prune is not over, has the heading.
Archived(f, h) ==
    \E c \in 1..Days :
      /\ c = today \/ \E p \in Pruner : pc[p] # "idle" /\ plan[p].cutoff = c
      /\ h \in Headings(text[<<f, c>>])

Busy == {p \in Pruner : pc[p] # "idle"}

Edit(f, e, sections, again) ==
    /\ e \notin written /\ Cardinality(written) < MaxEdits
    /\ written' = written \cup {e}
    /\ text' = [text EXCEPT ![<<f, 0>>] = sections]
    /\ reused' = (reused \/ again)
    /\ raced' = (raced \/ \E p \in Pruner : Holding(p, f))
    /\ stale' = Busy
    /\ settled' = FALSE
    /\ UNCHANGED <<changelog, shipped, today, lock, pruner, moved, torn,
                   crashes>>

Titled(h, body) == [heading |-> h, body |-> body, marked |-> FALSE]

\* A new section on top of the log.
Log(e) ==
    LET h == HeadingOf[e]
        old == text[<<"log", 0>>]
    IN  Edit("log", e, <<Titled(h, {e})>> \o old,
             h \in Headings(old) \/ Archived("log", h))

\* An item of the backlog goes to its "Done" section, under the note that
\* older ones are archived or in place of it.
Complete(e) ==
    \E marked \in BOOLEAN :
      LET old == text[<<"backlog", 0>>]
          done == IF old = <<>> THEN Titled("Done", {}) ELSE old[1]
      IN  /\ marked => done.marked
          /\ Edit("backlog", e,
                  <<[heading |-> "Done", body |-> done.body \cup {e},
                     marked |-> marked]>>,
                  Archived("backlog", "Done"))

\* The worksheet says that an item is done; it may do so any time.
MarkDone(i) ==
    /\ i \notin shipped
    /\ shipped' = shipped \cup {i}
    /\ stale' = Busy
    /\ settled' = FALSE
    /\ UNCHANGED <<text, changelog, today, lock, pruner, written, moved,
                   reused, raced, torn, crashes>>

-----------------------------------------------------------------------------
(* build_plan: no lock, no change. *)

\* The first item of the worksheet that has a keyword in the heading.
Claimant(i, h) ==
    /\ i \in shipped /\ h \in Claims[i]
    /\ \A j \in shipped : j < i => h \notin Claims[j]

ClaimedIn(sections) ==
    {h \in Headings(sections) : \E i \in shipped : h \in Claims[i]}

\* Mutant: a section that was pruned before is pruned again.
AnyDone(s) == s.heading = "Done"
Completed(s) == s.heading = "Done" /\ ~s.marked

HasCompleted(sections) == \E s \in ToSet(sections) : Completed(s)

\* The sections of a file that are in a set, in the order of the file.
Select(sections, chosen) ==
    LET picked[k \in 0..Len(sections)] ==
          IF k = 0 THEN <<>>
          ELSE IF sections[k] \in chosen THEN Append(picked[k - 1], sections[k])
          ELSE picked[k - 1]
    IN  picked[Len(sections)]

\* The sections of the log that stay: the newest that no item claims.
Kept(sections, claimed, n) ==
    LET unclaimed == Select(sections, {s \in ToSet(sections) : s.heading \notin claimed})
    IN  IF Len(unclaimed) <= n THEN unclaimed ELSE SubSeq(unclaimed, 1, n)

Rest(sections, kept) ==
    Select(sections, ToSet(sections) \ ToSet(kept))

NothingToMove(q) == q.claimed = {} /\ ~q.backlog

\* Mutant: the archive of the day after.
Tomorrow == today + 1
Cutoff == today

PlanPrune(p) ==
    /\ pc[p] = "idle"
    /\ \E n \in Recent :
         LET log == text[<<"log", 0>>]
             claimed == ClaimedIn(log)
         IN  plan' = [plan EXCEPT ![p] =
                [claimed |-> claimed,
                 items |-> {i \in shipped : \E h \in claimed : Claimant(i, h)},
                 backlog |-> /\ shipped # {}
                             /\ HasCompleted(text[<<"backlog", 0>>]),
                 picked |-> Entries(Rest(log, Kept(log, claimed, n))),
                 cutoff |-> Cutoff, recent |-> n]]
    /\ pc' = [pc EXCEPT ![p] = "planned"]
    /\ UNCHANGED <<text, changelog, shipped, today, lock, file, buffer,
                   written, moved, stale, settled, reused, raced, torn,
                   crashes>>

-----------------------------------------------------------------------------
(* apply_plan, under the lock. *)

\* Mutant: the lock is not looked at.
Anyway == TRUE
Unlocked == lock = None

\* A plan without a move goes straight to the scrub.
Lock(p) ==
    /\ pc[p] = "planned"
    /\ Unlocked
    /\ lock' = p
    /\ file' = [file EXCEPT ![p] = "log"]
    /\ pc' = [pc EXCEPT ![p] = IF NothingToMove(plan[p]) THEN "scrub"
                                                         ELSE "read"]
    /\ UNCHANGED <<text, changelog, shipped, today, plan, buffer, written,
                   moved, stale, settled, reused, raced, torn, crashes>>

\* The process is over; what it remembers is forgotten.
Leave(p) ==
    /\ pc' = [pc EXCEPT ![p] = "idle"]
    /\ file' = [file EXCEPT ![p] = "log"]
    /\ plan' = [plan EXCEPT ![p] = NoPlan]
    /\ buffer' = [buffer EXCEPT ![p] = Empty]

\* PruneLockHeld.
LockHeld(p) ==
    /\ pc[p] = "planned"
    /\ ~Unlocked
    /\ Leave(p)
    /\ stale' = stale \ {p}
    /\ UNCHANGED <<text, changelog, shipped, today, lock, written, moved,
                   settled, reused, raced, torn, crashes>>

\* Mutant: --recent is forgotten.
Default(n) == DefaultRecent
EffectiveRecent(n) == n

WithPointer(sections) ==
    IF "Archived" \in Headings(sections) THEN sections
                                         ELSE Append(sections, Pointer)

Emptied(s) == [heading |-> s.heading, body |-> {}, marked |-> TRUE]

\* What of a source goes to the archive, and what stays.
Split(p, sections) ==
    IF file[p] = "log"
    THEN LET kept == Kept(sections, plan[p].claimed,
                          EffectiveRecent(plan[p].recent))
         IN  [away |-> Rest(sections, kept), kept |-> WithPointer(kept)]
    ELSE IF ~plan[p].backlog THEN Empty
    ELSE [away |-> Select(sections, {s \in ToSet(sections) : Completed(s)}),
          kept |-> [k \in DOMAIN sections |->
                      IF Completed(sections[k]) THEN Emptied(sections[k])
                                                ELSE sections[k]]]

\* Mutant: without a move in the backlog the changelog is left out.
EarlyReturn(p, here, after) ==
    IF file[p] = "log" /\ plan[p].backlog
    THEN /\ file' = [file EXCEPT ![p] = "backlog"]
         /\ pc' = [pc EXCEPT ![p] = here]
    ELSE /\ file' = [file EXCEPT ![p] = "backlog"]
         /\ pc' = [pc EXCEPT ![p] = "scrub"]

\* After a source comes the next one, and then what follows them.
NextFile(p, here, after) ==
    IF file[p] = "log"
    THEN /\ file' = [file EXCEPT ![p] = "backlog"]
         /\ pc' = [pc EXCEPT ![p] = here]
    ELSE /\ file' = [file EXCEPT ![p] = "log"]
         /\ pc' = [pc EXCEPT ![p] = after]

\* Mutant: the source is trimmed at once.
TrimFirst == "trim"
FirstWrite == "archive"

Read(p) ==
    /\ pc[p] = "read"
    /\ LET split == Split(p, text[<<file[p], 0>>])
       IN  IF split.away = <<>>
           THEN NextFile(p, "read", "changelog") /\ UNCHANGED buffer
           ELSE /\ buffer' = [buffer EXCEPT ![p] = split]
                /\ pc' = [pc EXCEPT ![p] = FirstWrite]
                /\ UNCHANGED file
    /\ UNCHANGED <<text, changelog, shipped, today, lock, plan, written,
                   moved, stale, settled, reused, raced, torn, crashes>>

\* Mutant: whatever comes is appended.
Concat(sections, s) == Append(sections, s)
AddNew(sections, s) ==
    IF s.heading \in Headings(sections) THEN sections ELSE Append(sections, s)

\* _append_archive: a heading that the archive already has is left out.
AppendAll(sections, away) ==
    LET grown[k \in 0..Len(away)] ==
          IF k = 0 THEN sections ELSE AddNew(grown[k - 1], away[k])
    IN  grown[Len(away)]

Archive(p) == <<file[p], plan[p].cutoff>>

OpenArchive(p) ==
    /\ pc[p] = "archive"
    /\ buffer' = [buffer EXCEPT ![p].away = AppendAll(text[Archive(p)], @)]
    /\ text' = [text EXCEPT ![Archive(p)] = <<>>]
    /\ pc' = [pc EXCEPT ![p] = "archiving"]
    /\ UNCHANGED <<changelog, shipped, today, lock, file, plan, written,
                   moved, stale, settled, reused, raced, torn, crashes>>

WriteArchive(p) ==
    /\ pc[p] = "archiving"
    /\ text' = [text EXCEPT ![Archive(p)] = buffer[p].away]
    /\ pc' = [pc EXCEPT ![p] = "trim"]
    /\ UNCHANGED <<changelog, shipped, today, lock, file, plan, buffer,
                   written, moved, stale, settled, reused, raced, torn,
                   crashes>>

OpenSource(p) ==
    /\ pc[p] = "trim"
    /\ text' = [text EXCEPT ![<<file[p], 0>>] = <<>>]
    /\ pc' = [pc EXCEPT ![p] = "trimming"]
    /\ UNCHANGED <<changelog, shipped, today, lock, file, plan, buffer,
                   written, moved, stale, settled, reused, raced, torn,
                   crashes>>

WriteSource(p) ==
    /\ pc[p] = "trimming"
    /\ text' = [text EXCEPT ![<<file[p], 0>>] = buffer[p].kept]
    /\ NextFile(p, "read", "changelog")
    /\ buffer' = [buffer EXCEPT ![p] = Empty]
    /\ moved' = IF file[p] = "log"
                THEN moved \cup (plan[p].claimed
                                  \cap Headings(buffer[p].away))
                ELSE moved
    /\ stale' = stale \cup (Busy \ {p})
    /\ UNCHANGED <<changelog, shipped, today, lock, plan, written,
                   settled, reused, raced, torn, crashes>>

\* _append_changelog: a line that is there is left out.
Changelog(p) ==
    /\ pc[p] = "changelog"
    /\ changelog' = changelog \cup (plan[p].items \X {plan[p].cutoff})
    /\ pc' = [pc EXCEPT ![p] = "scrub"]
    /\ UNCHANGED <<text, shipped, today, lock, file, plan, buffer, written,
                   moved, stale, settled, reused, raced, torn, crashes>>

\* _scrub_retained rewrites a source in which a name is left.
Clean(p) ==
    /\ pc[p] = "scrub"
    /\ file[p] = "log"
    /\ NextFile(p, "scrub", "scrub")
    /\ UNCHANGED <<text, changelog, shipped, today, lock, plan, buffer,
                   written, moved, stale, settled, reused, raced, torn,
                   crashes>>

OpenScrub(p) ==
    /\ pc[p] = "scrub"
    /\ text[<<file[p], 0>>] # <<>>
    /\ buffer' = [buffer EXCEPT ![p].kept = text[<<file[p], 0>>]]
    /\ text' = [text EXCEPT ![<<file[p], 0>>] = <<>>]
    /\ pc' = [pc EXCEPT ![p] = "scrubbing"]
    /\ UNCHANGED <<changelog, shipped, today, lock, file, plan, written,
                   moved, stale, settled, reused, raced, torn, crashes>>

Done(p) ==
    /\ Leave(p)
    /\ lock' = None
    /\ settled' = (p \notin stale)

\* A name was left in the log, or in the backlog.
WriteScrub(p) ==
    /\ pc[p] = "scrubbing"
    /\ file[p] = "log"
    /\ text' = [text EXCEPT ![<<"log", 0>>] = buffer[p].kept]
    /\ NextFile(p, "scrub", "scrub")
    /\ buffer' = [buffer EXCEPT ![p] = Empty]
    /\ stale' = stale \cup (Busy \ {p})
    /\ UNCHANGED <<changelog, shipped, today, lock, plan, written, moved,
                   settled, reused, raced, torn, crashes>>

WriteLastScrub(p) ==
    /\ pc[p] = "scrubbing"
    /\ file[p] = "backlog"
    /\ text' = [text EXCEPT ![<<"backlog", 0>>] = buffer[p].kept]
    /\ Done(p)
    /\ stale' = Busy \ {p}
    /\ UNCHANGED <<changelog, shipped, today, written, moved, reused, raced,
                   torn, crashes>>

\* Nothing is left to scrub in the backlog.
Release(p) ==
    /\ pc[p] = "scrub"
    /\ file[p] = "backlog"
    /\ Done(p)
    /\ stale' = stale \ {p}
    /\ UNCHANGED <<text, changelog, shipped, today, written, moved, reused,
                   raced, torn, crashes>>

\* The process dies; the lock goes with it.
Crash(p) ==
    /\ pc[p] # "idle"
    /\ crashes < MaxCrashes
    /\ crashes' = crashes + 1
    /\ torn' = (torn \/ pc[p] \in Writing)
    /\ lock' = IF lock = p THEN None ELSE lock
    /\ Leave(p)
    /\ stale' = stale \ {p}
    /\ UNCHANGED <<text, changelog, shipped, today, written, moved, settled,
                   reused, raced>>

Day ==
    /\ today < Days
    /\ today' = today + 1
    /\ UNCHANGED <<text, changelog, shipped, lock, pruner, written, moved,
                   stale, settled, reused, raced, torn, crashes>>

Apply(p) ==
    \/ Lock(p) \/ LockHeld(p) \/ Read(p)
    \/ OpenArchive(p) \/ WriteArchive(p) \/ OpenSource(p) \/ WriteSource(p)
    \/ Changelog(p) \/ Clean(p) \/ OpenScrub(p) \/ WriteScrub(p)
    \/ WriteLastScrub(p) \/ Release(p)

Next ==
    \/ \E e \in LogEntry : Log(e)
    \/ \E e \in DoneEntry : Complete(e)
    \/ \E i \in Item : MarkDone(i)
    \/ \E p \in Pruner : PlanPrune(p) \/ Apply(p) \/ Crash(p)
    \/ Day

Spec == Init /\ [][Next]_vars

-----------------------------------------------------------------------------
(* What must hold. *)

Found(e) == \E f \in File : e \in Entries(text[f])

AllFound ==
    (\A p \in Pruner : pc[p] \notin Writing) => \A e \in written : Found(e)

\* "MOVES ... to archive - never deletes": while no file is being written and
\* none was left half written or written over by two, every entry that was ever
\* written is in a source or in an archive.  A heading that comes again on a
\* day when it was archived, or twice in the log, is taken for archived.
NeverDeletes == ~raced /\ ~torn => AllFound

\* When headings do not come again it is so, through crashes between two
\* writes, prunes that are repeated, overlap or have an old plan, and the end
\* of a day.
HistoryKept == ~reused /\ ~raced /\ ~torn => AllFound

\* "append-only; idempotent by heading": prunes that are repeated do not
\* archive an entry twice on one day.
ArchivedOnce ==
    \A f \in Source, c \in 1..Days :
      \A j, k \in DOMAIN text[<<f, c>>] :
        j # k => text[<<f, c>>][j].body \cap text[<<f, c>>][k].body = {}

\* "A re-run after a green prune is a no-op", until something is written.
RerunNoop ==
    settled =>
      /\ ClaimedIn(text[<<"log", 0>>]) = {}
      /\ shipped # {} => ~HasCompleted(text[<<"backlog", 0>>])

\* "the dry-run describes what apply actually does": of the log, a prune whose
\* plan nothing has overtaken takes away only what the plan has picked.
PreviewHonoured ==
    \A p \in Pruner :
      pc[p] = "archive" /\ file[p] = "log" /\ p \notin stale =>
        Entries(buffer[p].away) \subseteq plan[p].picked

\* Unless a prune dies, what it has moved for an item has a line in the
\* changelog once it is over.
Recorded ==
    (\A p \in Pruner : lock # p) /\ crashes = 0 =>
      \A h \in moved :
        \E i \in Item : h \in Claims[i] /\ \E c \in 1..Days :
                                             <<i, c>> \in changelog

=============================================================================
