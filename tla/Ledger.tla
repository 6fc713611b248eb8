------------------------------- MODULE Ledger -------------------------------
(***************************************************************************)
(* The operator-interventions ledger (src/context_lifecycle/ledger): one   *)
(* file that capture and promote rewrite whole, from what they read, while *)
(* the operator edits it by hand.                                          *)
(*                                                                         *)
(* A line is a candidate, a source (a judgement a human wrote, with the    *)
(* ref of the check that encodes it) or a reconfirmed candidate.  Other    *)
(* text of the file is left out, as are signals of several words, which    *)
(* promote never matches.                                                  *)
(***************************************************************************)
EXTENDS Naturals, Sequences, SequencesExt

CONSTANTS
    Clerk,      \* processes that run capture or promote
    Signal,
    Context,
    Ref,        \* check refs: custodian, ci or path
    EndsIn,     \* <<t, s>>: the text of signal t ends in that of signal s
    MaxDate,    \* bound: the dates of judgements
    MaxLines    \* bound: the lines of the ledger

\* A signal's text ends in itself; no context is a ref.
ASSUME LedgerAssumption ==
    /\ EndsIn \subseteq Signal \X Signal
    /\ \A s \in Signal : <<s, s>> \in EndsIn
    /\ Context \cap Ref = {}
    /\ MaxDate \in Nat /\ MaxLines \in Nat

VARIABLES
    ledger,     \* the lines; <<>> is also an absent or emptied file
    resolves,   \* the refs that verify_ref finds on disk
    desk,       \* what each clerk does, and what it holds
    reported,   \* history: captures that are on file and that no human took off
    judged,     \* history: <<signal, ref>> that a human wrote
    everLive,   \* history: refs that have resolved
    atRisk      \* history: what an overlap or a crash may have erased

ledgerVars == <<ledger, resolves, desk, reported, judged, everLive, atRisk>>

Entry == Signal \X Context
Judgement == Signal \X Ref

Line ==
    [kind : {"candidate"}, signal : Signal, context : Context]
      \cup [kind : {"source"}, signal : Signal, context : Context, ref : Ref,
            date : 1..MaxDate]
      \cup [kind : {"reconfirmed"}, signal : Signal, context : Context, ref : Ref]

Candidate(s, x) == [kind |-> "candidate", signal |-> s, context |-> x]

Away == [step |-> "away", text |-> <<>>, entry |-> {}]

LedgerTypeOK ==
    /\ ledger \in Seq(Line) /\ Len(ledger) <= MaxLines
    /\ resolves \subseteq Ref
    /\ \A c \in Clerk : /\ desk[c].step \in {"away", "empty", "fill"}
                        /\ desk[c].text \in Seq(Line)
                        /\ desk[c].entry \subseteq Entry
    /\ reported \subseteq Entry /\ judged \subseteq Judgement
    /\ everLive \subseteq Ref /\ atRisk \subseteq Entry \cup Judgement

LedgerInit ==
    /\ ledger = <<>>
    /\ resolves = {}
    /\ desk = [c \in Clerk |-> Away]
    /\ reported = {} /\ judged = {} /\ everLive = {} /\ atRisk = {}

Busy == {c \in Clerk : desk[c].step # "away"}
Emptied == \E c \in Clerk : desk[c].step = "fill"

\* What an emptied file loses if it is read, or left, as it is.
Everything == reported \cup judged

-----------------------------------------------------------------------------
(* capture                                                                 *)

\* Mutant: it compares with the last line only.
PresentLast(text, s, x) ==
    text # <<>> /\ Last(text) = Candidate(s, x)

\* The needle "<signal> - <context> -" is looked for anywhere in the line.
AlreadyPresent(text, s, x) ==
    \E l \in ToSet(text) : /\ l.kind = "candidate" /\ l.context = x
                           /\ <<l.signal, s>> \in EndsIn

\* Mutant: it writes the header and the line.
AppendedAlone(text, s, x) == <<Candidate(s, x)>>

Appended(text, s, x) == Append(text, Candidate(s, x))

Hold(c, text, entry) ==
    /\ desk' = [desk EXCEPT ![c] = [step |-> "empty", text |-> text, entry |-> entry]]
    /\ atRisk' = IF Emptied THEN atRisk \cup Everything ELSE atRisk

Capture(c, s, x) ==
    /\ c \notin Busy
    /\ IF AlreadyPresent(ledger, s, x)
       THEN /\ reported' = IF Candidate(s, x) \in ToSet(ledger)
                           THEN reported \cup {<<s, x>>} ELSE reported
            /\ atRisk' = IF Busy = {} THEN atRisk ELSE atRisk \cup {<<s, x>>}
            /\ UNCHANGED desk
       ELSE /\ Len(ledger) < MaxLines
            /\ Hold(c, Appended(ledger, s, x), {<<s, x>>})
            /\ UNCHANGED reported
    /\ UNCHANGED <<ledger, resolves, judged, everLive>>

-----------------------------------------------------------------------------
(* promote                                                                 *)

\* _sourced_refs: the judgement with the latest date, the last one of a day.
Sources(text, s) ==
    {i \in DOMAIN text : text[i].kind = "source" /\ text[i].signal = s}

SourceOf(text, s) ==
    text[CHOOSE i \in Sources(text, s) :
           \A j \in Sources(text, s) :
              \/ text[j].date < text[i].date
              \/ text[j].date = text[i].date /\ j <= i]

\* verify_ref: the file, the detector or the job that the ref names is there.
VerifyRef(r) == r \in resolves

\* Mutant: it does not verify.
ReconfirmableUnverified(text, l) ==
    l.kind = "candidate" /\ Sources(text, l.signal) # {}

Reconfirmable(text, l) ==
    /\ l.kind = "candidate" /\ Sources(text, l.signal) # {}
    /\ VerifyRef(SourceOf(text, l.signal).ref)

AutoPromote(text) ==
    [i \in DOMAIN text |->
       IF Reconfirmable(text, text[i])
       THEN [kind |-> "reconfirmed", signal |-> text[i].signal,
             context |-> text[i].context,
             ref |-> SourceOf(text, text[i].signal).ref]
       ELSE text[i]]

Promote(c) ==
    /\ c \notin Busy
    /\ AutoPromote(ledger) # ledger
    /\ Hold(c, AutoPromote(ledger), {})
    /\ UNCHANGED <<ledger, resolves, reported, judged, everLive>>

-----------------------------------------------------------------------------
(* write_text empties the file and then fills it.                          *)

EmptyFile(c) ==
    /\ desk[c].step = "empty"
    /\ ledger' = <<>>
    /\ desk' = [desk EXCEPT ![c].step = "fill"]
    /\ UNCHANGED <<resolves, reported, judged, everLive, atRisk>>

\* A line that another clerk has not seen, that clerk will write over.
FillFile(c) ==
    /\ desk[c].step = "fill"
    /\ ledger' = desk[c].text
    /\ desk' = [desk EXCEPT ![c] = Away]
    /\ reported' = reported \cup desk[c].entry
    /\ atRisk' = IF Busy = {c} THEN atRisk \ desk[c].entry
                               ELSE atRisk \cup desk[c].entry
    /\ UNCHANGED <<resolves, judged, everLive>>

CrashClerk(c) ==
    /\ c \in Busy
    /\ desk' = [desk EXCEPT ![c] = Away]
    /\ atRisk' = IF desk[c].step = "fill" THEN atRisk \cup Everything ELSE atRisk
    /\ UNCHANGED <<ledger, resolves, reported, judged, everLive>>

-----------------------------------------------------------------------------
(* The operator, and the repositories the refs point into.                 *)

\* The operator rewrites a candidate into a judgement with a check ref.
Judge(i, r, d) ==
    /\ ledger[i].kind = "candidate"
    /\ ledger' = [ledger EXCEPT ![i] =
                    [kind |-> "source", signal |-> ledger[i].signal,
                     context |-> ledger[i].context, ref |-> r, date |-> d]]
    /\ judged' = judged \cup {<<ledger[i].signal, r>>}
    /\ atRisk' = IF Busy = {} THEN atRisk \ {<<ledger[i].signal, r>>}
                              ELSE atRisk \cup {<<ledger[i].signal, r>>}
    /\ UNCHANGED <<resolves, desk, reported, everLive>>

\* The operator deletes a candidate that is not worth encoding.
Drop(i) ==
    /\ ledger[i].kind = "candidate"
    /\ ledger' = RemoveAt(ledger, i)
    /\ reported' = reported \ {<<ledger[i].signal, ledger[i].context>>}
    /\ UNCHANGED <<resolves, desk, judged, everLive, atRisk>>

CheckAppears(r) ==
    /\ r \notin resolves
    /\ resolves' = resolves \cup {r}
    /\ everLive' = everLive \cup {r}
    /\ UNCHANGED <<ledger, desk, reported, judged, atRisk>>

CheckRots(r) ==
    /\ r \in resolves
    /\ resolves' = resolves \ {r}
    /\ UNCHANGED <<ledger, desk, reported, judged, everLive, atRisk>>

LedgerNext ==
    \/ \E c \in Clerk :
         \/ \E s \in Signal, x \in Context : Capture(c, s, x)
         \/ Promote(c)
         \/ EmptyFile(c)
         \/ FillFile(c)
         \/ CrashClerk(c)
    \/ \E i \in DOMAIN ledger :
         \/ \E r \in Ref, d \in 1..MaxDate : Judge(i, r, d)
         \/ Drop(i)
    \/ \E r \in Ref : CheckAppears(r) \/ CheckRots(r)

LedgerSpec == LedgerInit /\ [][LedgerNext]_ledgerVars

-----------------------------------------------------------------------------
(* Properties.                                                             *)

\* "Append-only": what was captured keeps a line, whatever became of it, and
\* every judgement stays, unless the operator took it off; the exceptions are
\* the two windows of the whole-file rewrite, an overlap and a crash
\* (capture.py:121, promote.py:191).
LedgerKept ==
    ~Emptied =>
      /\ \A e \in reported \ atRisk :
           \E l \in ToSet(ledger) : l.signal = e[1] /\ l.context = e[2]
      /\ \A j \in judged \ atRisk :
           \E l \in ToSet(ledger) : l.kind = "source" /\ l.signal = j[1] /\ l.ref = j[2]

\* A signal that fires on every poll does not pile up candidates, not even when
\* two clerks capture it at once (capture.py:76-87).
NoDuplicateCandidate ==
    \A i, j \in DOMAIN ledger :
       ledger[i].kind = "candidate" /\ ledger[i] = ledger[j] => i = j

\* "The machine must never write a judgment it cannot verify": a reconfirmed
\* line cites a ref that a human wrote for that very signal, and that has
\* resolved (promote.py:81-129); a stale rewrite does not break it.
OnlyHumansJudge ==
    \A l \in ToSet(ledger) :
       l.kind = "reconfirmed" => /\ <<l.signal, l.ref>> \in judged
                                 /\ l.ref \in everLive
=============================================================================
