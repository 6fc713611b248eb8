---------------------------- MODULE LedgerProofs ----------------------------
(***************************************************************************)
(* Proofs about the ledger, for any clerks, signals, contexts and refs and *)
(* for files of any length.                                                *)
(***************************************************************************)
EXTENDS Ledger, SequenceTheorems, WellFoundedInduction, TLAPS

-----------------------------------------------------------------------------
(* The lines of a text. *)

\* A set of numbers has a least one.
LEMMA Least ==
    ASSUME NEW T \in SUBSET Nat, T # {}
    PROVE  \E n \in T : \A m \in T : n <= m
<1>1. PICK n \in T : \A m \in T : <<m, n>> \notin OpToRel(<, Nat)
  BY NatLessThanWellFounded, WFMin
<1>2. \A m \in T : ~ (m < n)
  BY <1>1 DEF OpToRel
<1> QED
  BY <1>2

\* What the three kinds of line have.
LEMMA LineFacts ==
    /\ \A l \in Line :
         /\ l.kind \in {"candidate", "source", "reconfirmed"}
         /\ l.signal \in Signal /\ l.context \in Context
         /\ l.kind = "source" => l.ref \in Ref /\ l.date \in 1..MaxDate
         /\ l.kind = "reconfirmed" => l.ref \in Ref
         /\ l.kind = "candidate" => l = Candidate(l.signal, l.context)
    /\ \A s \in Signal, x \in Context : Candidate(s, x) \in Line
BY DEF Line, Candidate

\* A signal that has a judgement has a latest one, which is what promote cites.
LEMMA SourceOfFacts ==
    ASSUME NEW text \in Seq(Line), NEW s \in Signal, Sources(text, s) # {}
    PROVE  \E i \in Sources(text, s) : SourceOf(text, s) = text[i]
<1> DEFINE S == Sources(text, s)
           Days == {MaxDate - text[i].date : i \in S}
<1>1. \A i \in S : i \in 1..Len(text) /\ text[i].date \in 1..MaxDate
  BY LineFacts, ElementOfSeq, LenProperties DEF Sources
<1>2. Days \in SUBSET Nat /\ Days # {}
  BY <1>1, LedgerAssumption
<1>3. PICK n \in Days : \A m \in Days : n <= m
  BY <1>2, Least
<1> DEFINE Late == {i \in S : MaxDate - text[i].date = n}
           Backs == {Len(text) - i : i \in Late}
<1>4. Backs \in SUBSET Nat /\ Backs # {}
  BY <1>1, <1>3, LenProperties
<1>5. PICK k \in Backs : \A m \in Backs : k <= m
  BY <1>4, Least
<1>6. PICK i \in Late : Len(text) - i = k
  BY <1>5
<1>7. ASSUME NEW j \in S
      PROVE  \/ text[j].date < text[i].date
             \/ text[j].date = text[i].date /\ j <= i
  <2>1. MaxDate - text[i].date <= MaxDate - text[j].date
    BY <1>3, <1>6
  <2>2. text[j].date <= text[i].date
    BY <1>1, <1>6, <2>1, LedgerAssumption
  <2>3. CASE text[j].date = text[i].date
    <3>1. Len(text) - j \in Backs
      BY <1>6, <2>3
    <3>2. Len(text) - i <= Len(text) - j
      BY <1>5, <1>6, <3>1
    <3> QED
      BY <1>1, <1>6, <2>3, <3>2, LenProperties
  <2> QED
    BY <1>1, <1>6, <2>2, <2>3
<1> DEFINE c == CHOOSE h \in S : \A j \in S :
                   \/ text[j].date < text[h].date
                   \/ text[j].date = text[h].date /\ j <= h
<1>8. c \in S
  BY <1>6, <1>7
<1>9. SourceOf(text, s) = text[c]
  BY DEF SourceOf
<1> QED
  BY <1>8, <1>9

\* promote turns candidates into reconfirmed lines of the same signal and
\* context, each with the ref of a judgement on its signal that resolves, and
\* leaves every other line as it is.
LEMMA AutoPromoteFacts ==
    ASSUME NEW text \in Seq(Line)
    PROVE  /\ AutoPromote(text) \in Seq(Line)
           /\ Len(AutoPromote(text)) = Len(text)
           /\ \A i \in 1..Len(text) :
                \/ AutoPromote(text)[i] = text[i]
                \/ /\ text[i].kind = "candidate"
                   /\ AutoPromote(text)[i].kind = "reconfirmed"
                   /\ AutoPromote(text)[i].signal = text[i].signal
                   /\ AutoPromote(text)[i].context = text[i].context
                   /\ AutoPromote(text)[i].ref \in resolves
                   /\ \E j \in 1..Len(text) :
                        /\ text[j].kind = "source"
                        /\ text[j].signal = text[i].signal
                        /\ text[j].ref = AutoPromote(text)[i].ref
<1> DEFINE new(i) ==
             IF Reconfirmable(text, text[i])
             THEN [kind |-> "reconfirmed", signal |-> text[i].signal,
                   context |-> text[i].context,
                   ref |-> SourceOf(text, text[i].signal).ref]
             ELSE text[i]
<1>1. DOMAIN text = 1..Len(text) /\ Len(text) \in Nat
      /\ \A i \in 1..Len(text) : text[i] \in Line
  BY LenProperties, ElementOfSeq
<1>2. AutoPromote(text) = [i \in 1..Len(text) |-> new(i)]
  BY <1>1 DEF AutoPromote
<1>3. ASSUME NEW i \in 1..Len(text), Reconfirmable(text, text[i])
      PROVE  /\ text[i].kind = "candidate"
             /\ SourceOf(text, text[i].signal).ref \in resolves
             /\ \E j \in 1..Len(text) :
                  /\ text[j].kind = "source"
                  /\ text[j].signal = text[i].signal
                  /\ text[j].ref = SourceOf(text, text[i].signal).ref
  <2>1. text[i].signal \in Signal
    BY <1>1, LineFacts
  <2>2. PICK j \in Sources(text, text[i].signal) :
          SourceOf(text, text[i].signal) = text[j]
    BY <1>3, <2>1, SourceOfFacts DEF Reconfirmable
  <2> QED
    BY <1>1, <1>3, <2>2 DEF Reconfirmable, VerifyRef, Sources
<1>4. \A i \in 1..Len(text) : new(i) \in Line
  <2> SUFFICES ASSUME NEW i \in 1..Len(text), Reconfirmable(text, text[i])
               PROVE  new(i) \in Line
    BY <1>1
  <2>1. SourceOf(text, text[i].signal).ref \in Ref
    BY <1>1, <1>3, LineFacts
  <2>2. text[i].signal \in Signal /\ text[i].context \in Context
    BY <1>1, LineFacts
  <2> QED
    BY <2>1, <2>2 DEF Line
<1>5. /\ AutoPromote(text) \in Seq(Line)
      /\ Len(AutoPromote(text)) = Len(text)
  <2>1. AutoPromote(text) \in Seq(Line)
    BY <1>1, <1>2, <1>4, IsASeq
  <2>2. DOMAIN AutoPromote(text) = 1..Len(text)
    BY <1>2
  <2>3. DOMAIN AutoPromote(text) = 1..Len(AutoPromote(text))
    BY <2>1, LenProperties
  <2> QED
    BY <1>1, <2>1, <2>2, <2>3, LenProperties
<1>6. ASSUME NEW i \in 1..Len(text)
      PROVE  \/ AutoPromote(text)[i] = text[i]
             \/ /\ text[i].kind = "candidate"
                /\ AutoPromote(text)[i].kind = "reconfirmed"
                /\ AutoPromote(text)[i].signal = text[i].signal
                /\ AutoPromote(text)[i].context = text[i].context
                /\ AutoPromote(text)[i].ref \in resolves
                /\ \E j \in 1..Len(text) :
                     /\ text[j].kind = "source"
                     /\ text[j].signal = text[i].signal
                     /\ text[j].ref = AutoPromote(text)[i].ref
  <2>1. CASE Reconfirmable(text, text[i])
    <3>1. AutoPromote(text)[i] =
            [kind |-> "reconfirmed", signal |-> text[i].signal,
             context |-> text[i].context,
             ref |-> SourceOf(text, text[i].signal).ref]
      BY <1>2, <2>1
    <3> QED
      BY <1>3, <2>1, <3>1
  <2>2. CASE ~Reconfirmable(text, text[i])
    BY <1>2, <2>2
  <2> QED
    BY <2>1, <2>2
<1> QED
  BY <1>5, <1>6

\* capture adds a candidate line at the end.
LEMMA AppendedFacts ==
    ASSUME NEW text \in Seq(Line), NEW s \in Signal, NEW x \in Context
    PROVE  /\ Appended(text, s, x) \in Seq(Line)
           /\ Len(Appended(text, s, x)) = Len(text) + 1
           /\ \A i \in 1..Len(Appended(text, s, x)) :
                \/ /\ i \in 1..Len(text)
                   /\ Appended(text, s, x)[i] = text[i]
                \/ /\ i = Len(text) + 1
                   /\ Appended(text, s, x)[i] = Candidate(s, x)
<1>1. /\ Appended(text, s, x) \in Seq(Line)
      /\ Len(Appended(text, s, x)) = Len(text) + 1
      /\ \A i \in 1..Len(text) : Appended(text, s, x)[i] = text[i]
      /\ Appended(text, s, x)[Len(text) + 1] = Candidate(s, x)
  BY LineFacts, AppendProperties DEF Appended
<1>2. Len(text) \in Nat
  BY LenProperties
<1> QED
  BY <1>1, <1>2

\* Deleting a line moves those behind it up.
LEMMA RemoveAtFacts ==
    ASSUME NEW text \in Seq(Line), NEW i \in 1..Len(text)
    PROVE  /\ RemoveAt(text, i) \in Seq(Line)
           /\ Len(RemoveAt(text, i)) = Len(text) - 1
           /\ \A j \in 1..(Len(text) - 1) :
                RemoveAt(text, i)[j] = IF j < i THEN text[j] ELSE text[j + 1]
<1> DEFINE front == SubSeq(text, 1, i - 1)
           back == SubSeq(text, i + 1, Len(text))
<1>1. Len(text) \in Nat /\ \A j \in 1..Len(text) : text[j] \in Line
  BY LenProperties, ElementOfSeq
<1>2. /\ front \in Seq(Line) /\ Len(front) = i - 1
      /\ \A j \in 1..(i - 1) : front[j] = text[j]
  <2>1. /\ front \in Seq(Line)
        /\ Len(front) = IF 1 <= i - 1 THEN (i - 1) - 1 + 1 ELSE 0
        /\ \A j \in 1..((i - 1) - 1 + 1) : front[j] = text[1 + j - 1]
    <3>1. 1 \in Int /\ i - 1 \in Int /\ \A j \in 1..(i - 1) : text[j] \in Line
      BY <1>1
    <3> HIDE DEF front
    <3> QED
      BY <3>1, SubSeqProperties DEF front
  <2> HIDE DEF front
  <2> QED
    BY <1>1, <2>1
<1>3. /\ back \in Seq(Line) /\ Len(back) = Len(text) - i
      /\ \A j \in 1..(Len(text) - i) : back[j] = text[i + j]
  <2>1. /\ back \in Seq(Line)
        /\ Len(back) = IF i + 1 <= Len(text) THEN Len(text) - (i + 1) + 1 ELSE 0
        /\ \A j \in 1..(Len(text) - (i + 1) + 1) :
             back[j] = text[(i + 1) + j - 1]
    <3>1. /\ i + 1 \in Int /\ Len(text) \in Int
          /\ \A j \in (i + 1)..Len(text) : text[j] \in Line
      BY <1>1
    <3> QED
      BY <3>1, SubSeqProperties
  <2> HIDE DEF back
  <2> QED
    BY <1>1, <2>1
<1>4. RemoveAt(text, i) = front \o back
  BY DEF RemoveAt
<1> HIDE DEF front, back
<1>5. /\ front \o back \in Seq(Line)
      /\ Len(front \o back) = Len(front) + Len(back)
      /\ \A j \in 1..(Len(front) + Len(back)) :
           (front \o back)[j] = IF j <= Len(front) THEN front[j]
                                                   ELSE back[j - Len(front)]
  BY <1>2, <1>3, ConcatProperties
<1> QED
  BY <1>1, <1>2, <1>3, <1>4, <1>5

-----------------------------------------------------------------------------
(* Types. *)

Desk == [step : {"away", "empty", "fill"}, text : Seq(Line),
         entry : SUBSET Entry]

\* LedgerTypeOK with what each clerk holds, which is no longer than the bound.
LedgerShape ==
    /\ ledger \in Seq(Line) /\ Len(ledger) <= MaxLines
    /\ resolves \in SUBSET Ref
    /\ desk \in [Clerk -> Desk]
    /\ \A c \in Clerk : Len(desk[c].text) <= MaxLines
    /\ reported \in SUBSET Entry /\ judged \in SUBSET Judgement
    /\ everLive \in SUBSET Ref /\ atRisk \in SUBSET (Entry \cup Judgement)

LEMMA EmptyText == <<>> \in Seq(Line) /\ Len(<<>>) = 0
BY EmptySeq

LEMMA AwayDesk == Away \in Desk /\ Away.text = <<>> /\ Len(Away.text) = 0
BY EmptyText DEF Away, Desk

\* What a clerk takes to its desk.
LEMMA HoldShape ==
    ASSUME LedgerShape, NEW c \in Clerk, NEW text \in Seq(Line),
           Len(text) <= MaxLines, NEW entry \in SUBSET Entry,
           Hold(c, text, entry)
    PROVE  /\ desk' \in [Clerk -> Desk]
           /\ \A d \in Clerk : Len(desk'[d].text) <= MaxLines
           /\ atRisk' \in SUBSET (Entry \cup Judgement)
<1>1. [step |-> "empty", text |-> text, entry |-> entry] \in Desk
  BY DEF Desk
<1>2. /\ desk' \in [Clerk -> Desk]
      /\ \A d \in Clerk : Len(desk'[d].text) <= MaxLines
  BY <1>1 DEF Hold, LedgerShape
<1>3. Everything \subseteq Entry \cup Judgement
  BY DEF Everything, LedgerShape
<1> QED
  BY <1>2, <1>3 DEF Hold, LedgerShape

LEMMA LedgerShapeInit == LedgerInit => LedgerShape
<1> SUFFICES ASSUME LedgerInit PROVE LedgerShape
  OBVIOUS
<1>1. ledger \in Seq(Line) /\ Len(ledger) <= MaxLines
  BY EmptyText, LedgerAssumption DEF LedgerInit
<1>2. desk \in [Clerk -> Desk]
  BY AwayDesk DEF LedgerInit
<1>3. \A c \in Clerk : Len(desk[c].text) <= MaxLines
  BY AwayDesk, LedgerAssumption DEF LedgerInit
<1> QED
  BY <1>1, <1>2, <1>3 DEF LedgerInit, LedgerShape

LEMMA LedgerShapeStep == LedgerShape /\ [LedgerNext]_ledgerVars => LedgerShape'
<1> SUFFICES ASSUME LedgerShape, [LedgerNext]_ledgerVars PROVE LedgerShape'
  OBVIOUS
<1>0. Len(ledger) \in Nat /\ \A i \in 1..Len(ledger) : ledger[i] \in Line
  BY LenProperties, ElementOfSeq DEF LedgerShape
<1>1. ASSUME NEW c \in Clerk, NEW s \in Signal, NEW x \in Context,
             Capture(c, s, x)
      PROVE  LedgerShape'
  <2>1. <<s, x>> \in Entry
    BY DEF Entry
  <2>2. CASE AlreadyPresent(ledger, s, x)
    BY <1>1, <2>1, <2>2 DEF Capture, LedgerShape
  <2>3. CASE ~AlreadyPresent(ledger, s, x)
    <3>1. /\ Hold(c, Appended(ledger, s, x), {<<s, x>>})
          /\ Len(ledger) < MaxLines
      BY <1>1, <2>3 DEF Capture
    <3>2. Appended(ledger, s, x) \in Seq(Line)
          /\ Len(Appended(ledger, s, x)) <= MaxLines
      BY <1>0, <3>1, AppendedFacts, LedgerAssumption DEF LedgerShape
    <3>3. {<<s, x>>} \in SUBSET Entry
      BY <2>1
    <3>4. /\ desk' \in [Clerk -> Desk]
          /\ \A d \in Clerk : Len(desk'[d].text) <= MaxLines
          /\ atRisk' \in SUBSET (Entry \cup Judgement)
      BY <3>1, <3>2, <3>3, HoldShape
    <3> QED
      BY <1>1, <2>3, <3>4 DEF Capture, LedgerShape
  <2> QED
    BY <2>2, <2>3
<1>2. ASSUME NEW c \in Clerk, Promote(c) PROVE LedgerShape'
  <2>1. /\ AutoPromote(ledger) \in Seq(Line)
        /\ Len(AutoPromote(ledger)) <= MaxLines
    BY AutoPromoteFacts DEF LedgerShape
  <2>2. /\ desk' \in [Clerk -> Desk]
        /\ \A d \in Clerk : Len(desk'[d].text) <= MaxLines
        /\ atRisk' \in SUBSET (Entry \cup Judgement)
    <3>1. {} \in SUBSET Entry
      OBVIOUS
    <3>2. Hold(c, AutoPromote(ledger), {})
      BY <1>2 DEF Promote
    <3> QED
      BY <2>1, <3>1, <3>2, HoldShape
  <2> QED
    BY <1>2, <2>2 DEF Promote, LedgerShape
<1>3. ASSUME NEW c \in Clerk, EmptyFile(c) PROVE LedgerShape'
  <2>1. desk' \in [Clerk -> Desk]
        /\ \A d \in Clerk : desk'[d].text = desk[d].text
    BY <1>3 DEF EmptyFile, LedgerShape, Desk
  <2>2. ledger' \in Seq(Line) /\ Len(ledger') <= MaxLines
    BY <1>3, EmptyText, LedgerAssumption DEF EmptyFile
  <2> QED
    BY <1>3, <2>1, <2>2 DEF EmptyFile, LedgerShape
<1>4. ASSUME NEW c \in Clerk, FillFile(c) PROVE LedgerShape'
  <2>1. desk' \in [Clerk -> Desk]
        /\ \A d \in Clerk : Len(desk'[d].text) <= MaxLines
    BY <1>4, AwayDesk, LedgerAssumption DEF FillFile, LedgerShape
  <2>2. desk[c].text \in Seq(Line) /\ desk[c].entry \in SUBSET Entry
    BY DEF LedgerShape, Desk
  <2> QED
    BY <1>4, <2>1, <2>2 DEF FillFile, LedgerShape
<1>5. ASSUME NEW c \in Clerk, CrashClerk(c) PROVE LedgerShape'
  <2>1. desk' \in [Clerk -> Desk]
        /\ \A d \in Clerk : Len(desk'[d].text) <= MaxLines
    BY <1>5, AwayDesk, LedgerAssumption DEF CrashClerk, LedgerShape
  <2> QED
    BY <1>5, <2>1 DEF CrashClerk, LedgerShape, Everything
<1>6. ASSUME NEW i \in DOMAIN ledger, NEW r \in Ref, NEW d \in 1..MaxDate,
             Judge(i, r, d)
      PROVE  LedgerShape'
  <2>1. i \in 1..Len(ledger) /\ ledger[i].signal \in Signal
        /\ ledger[i].context \in Context
    BY LenProperties, ElementOfSeq, LineFacts DEF LedgerShape
  <2> DEFINE line == [kind |-> "source", signal |-> ledger[i].signal,
                      context |-> ledger[i].context, ref |-> r, date |-> d]
  <2>2. line \in Line
    BY <2>1 DEF Line
  <2>3. ledger' = [ledger EXCEPT ![i] = line]
    BY <1>6 DEF Judge
  <2> HIDE DEF line
  <2>4. ledger' \in Seq(Line) /\ Len(ledger') = Len(ledger)
    BY <2>1, <2>2, <2>3, ExceptSeq DEF LedgerShape
  <2>5. <<ledger[i].signal, r>> \in Judgement
    BY <2>1 DEF Judgement
  <2> QED
    BY <1>6, <2>4, <2>5 DEF Judge, LedgerShape
<1>7. ASSUME NEW i \in DOMAIN ledger, Drop(i) PROVE LedgerShape'
  <2>1. i \in 1..Len(ledger)
    BY LenProperties DEF LedgerShape
  <2>2. ledger' \in Seq(Line) /\ Len(ledger') = Len(ledger) - 1
    BY <1>7, <2>1, RemoveAtFacts DEF Drop, LedgerShape
  <2>3. Len(ledger') <= MaxLines
    BY <1>0, <2>2, LedgerAssumption DEF LedgerShape
  <2> QED
    BY <1>7, <2>2, <2>3 DEF Drop, LedgerShape
<1>8. ASSUME NEW r \in Ref, CheckAppears(r) \/ CheckRots(r) PROVE LedgerShape'
  BY <1>8 DEF CheckAppears, CheckRots, LedgerShape
<1>9. CASE UNCHANGED ledgerVars
  BY <1>9 DEF ledgerVars, LedgerShape
<1> QED
  BY <1>1, <1>2, <1>3, <1>4, <1>5, <1>6, <1>7, <1>8, <1>9 DEF LedgerNext

LEMMA ShapeHolds == LedgerSpec => []LedgerShape
BY LedgerShapeInit, LedgerShapeStep, PTL DEF LedgerSpec

\* The ledger stays a text of its three kinds of line, within the bound.
THEOREM LedgerTypeCorrect == LedgerSpec => []LedgerTypeOK
<1>1. LedgerShape => LedgerTypeOK
  BY DEF LedgerShape, LedgerTypeOK, Desk
<1> QED
  BY <1>1, ShapeHolds, PTL

-----------------------------------------------------------------------------
(* What the operator does to the lines. *)

\* A candidate becomes a judgement in its place.
LEMMA JudgeText ==
    ASSUME LedgerShape, NEW i \in DOMAIN ledger, NEW r \in Ref,
           NEW d \in 1..MaxDate, Judge(i, r, d)
    PROVE  /\ Len(ledger') = Len(ledger) /\ i \in 1..Len(ledger)
           /\ \A j \in 1..Len(ledger) : j # i => ledger'[j] = ledger[j]
           /\ ledger[i].kind = "candidate" /\ ledger'[i].kind = "source"
           /\ ledger'[i].signal = ledger[i].signal
           /\ ledger'[i].context = ledger[i].context /\ ledger'[i].ref = r
<1>1. DOMAIN ledger = 1..Len(ledger)
  BY LenProperties DEF LedgerShape
<1>2. ledger' \in Seq(Line)
  BY LedgerShapeStep DEF LedgerNext, LedgerShape
<1>3. DOMAIN ledger' = DOMAIN ledger
  BY DEF Judge
<1>4. Len(ledger') = Len(ledger)
  BY <1>1, <1>2, <1>3, LenProperties DEF LedgerShape
<1> QED
  BY <1>1, <1>4 DEF Judge

\* A candidate goes, and the lines below it move up.
LEMMA DropText ==
    ASSUME LedgerShape, NEW i \in DOMAIN ledger, Drop(i)
    PROVE  /\ i \in 1..Len(ledger) /\ ledger[i].kind = "candidate"
           /\ Len(ledger') = Len(ledger) - 1
           /\ \A j \in 1..Len(ledger') :
                /\ ledger'[j] = IF j < i THEN ledger[j] ELSE ledger[j + 1]
                /\ \E k \in 1..Len(ledger) : k # i /\ ledger'[j] = ledger[k]
           /\ \A k \in 1..Len(ledger) :
                k # i => \E j \in 1..Len(ledger') : ledger'[j] = ledger[k]
<1>1. i \in 1..Len(ledger) /\ Len(ledger) \in Nat
  BY LenProperties DEF LedgerShape
<1>2. /\ Len(ledger') = Len(ledger) - 1
      /\ \A j \in 1..(Len(ledger) - 1) :
           ledger'[j] = IF j < i THEN ledger[j] ELSE ledger[j + 1]
  BY <1>1, RemoveAtFacts DEF Drop, LedgerShape
<1>3. ASSUME NEW j \in 1..Len(ledger')
      PROVE  \E k \in 1..Len(ledger) : k # i /\ ledger'[j] = ledger[k]
  <2>1. CASE j < i
    BY <1>1, <1>2, <2>1
  <2>2. CASE ~(j < i)
    <3>1. j + 1 \in 1..Len(ledger) /\ j + 1 # i /\ ledger'[j] = ledger[j + 1]
      BY <1>1, <1>2, <2>2
    <3> QED
      BY <3>1
  <2> QED
    BY <2>1, <2>2
<1>4. ASSUME NEW k \in 1..Len(ledger), k # i
      PROVE  \E j \in 1..Len(ledger') : ledger'[j] = ledger[k]
  <2>1. CASE k < i
    <3>1. k \in 1..Len(ledger') /\ ledger'[k] = ledger[k]
      BY <1>1, <1>2, <2>1
    <3> QED
      BY <3>1
  <2>2. CASE ~(k < i)
    <3>1. k - 1 \in 1..Len(ledger') /\ ~(k - 1 < i) /\ (k - 1) + 1 = k
      BY <1>1, <1>2, <1>4, <2>2
    <3>2. ledger'[k - 1] = ledger[k]
      BY <1>2, <3>1
    <3> QED
      BY <3>1, <3>2
  <2> QED
    BY <2>1, <2>2
<1>5. ledger[i].kind = "candidate"
  BY DEF Drop
<1> QED
  BY <1>1, <1>2, <1>3, <1>4, <1>5

-----------------------------------------------------------------------------
(* The machine judges nothing by itself. *)

\* A text, in the file or on a desk, in which every judgement is a human's and
\* every reconfirmed line cites one that has resolved.
TrueText(text) ==
    \A i \in 1..Len(text) :
      /\ text[i].kind \in {"source", "reconfirmed"} =>
           <<text[i].signal, text[i].ref>> \in judged
      /\ text[i].kind = "reconfirmed" => text[i].ref \in everLive

HumanInv ==
    /\ resolves \subseteq everLive
    /\ TrueText(ledger)
    /\ \A c \in Clerk : TrueText(desk[c].text)

\* What clerks have read stays true, as judgements and dates of resolving are
\* never taken back.
LEMMA HumanStep ==
    LedgerShape /\ HumanInv /\ [LedgerNext]_ledgerVars => HumanInv'
<1> SUFFICES ASSUME LedgerShape, HumanInv, [LedgerNext]_ledgerVars
             PROVE  HumanInv'
  OBVIOUS
<1>1. ASSUME judged \subseteq judged', everLive \subseteq everLive',
             resolves' \subseteq everLive', TrueText(ledger)',
             \A c \in Clerk : \/ desk'[c].text = desk[c].text
                              \/ TrueText(desk'[c].text)
      PROVE  HumanInv'
  BY <1>1 DEF HumanInv, TrueText
<1>2. ASSUME NEW c \in Clerk, NEW text \in Seq(Line), NEW entry, TrueText(text),
             Hold(c, text, entry),
             UNCHANGED <<ledger, resolves, judged, everLive>>
      PROVE  HumanInv'
  <2>1. \A d \in Clerk : desk'[d].text = desk[d].text \/ desk'[d].text = text
    BY <1>2 DEF Hold, LedgerShape
  <2> QED
    BY <1>1, <1>2, <2>1 DEF HumanInv, TrueText
<1>3. ASSUME NEW c \in Clerk, NEW s \in Signal, NEW x \in Context,
             Capture(c, s, x)
      PROVE  HumanInv'
  <2>1. CASE AlreadyPresent(ledger, s, x)
    BY <1>3, <2>1 DEF Capture, HumanInv, TrueText
  <2>2. CASE ~AlreadyPresent(ledger, s, x)
    <3>1. \A i \in 1..Len(Appended(ledger, s, x)) :
            \/ i \in 1..Len(ledger) /\ Appended(ledger, s, x)[i] = ledger[i]
            \/ Appended(ledger, s, x)[i].kind = "candidate"
      <4>1. Candidate(s, x).kind = "candidate"
        BY DEF Candidate
      <4> QED
        BY <4>1, AppendedFacts DEF LedgerShape
    <3>2. TrueText(Appended(ledger, s, x))
      BY <3>1 DEF HumanInv, TrueText
    <3>3. Appended(ledger, s, x) \in Seq(Line)
      BY AppendedFacts DEF LedgerShape
    <3> QED
      BY <1>2, <1>3, <2>2, <3>2, <3>3 DEF Capture
  <2> QED
    BY <2>1, <2>2
<1>4. ASSUME NEW c \in Clerk, Promote(c) PROVE HumanInv'
  <2>1. /\ AutoPromote(ledger) \in Seq(Line)
        /\ Len(AutoPromote(ledger)) = Len(ledger)
    BY AutoPromoteFacts DEF LedgerShape
  <2>2. ASSUME NEW i \in 1..Len(ledger)
        PROVE  \/ AutoPromote(ledger)[i] = ledger[i]
               \/ /\ AutoPromote(ledger)[i].kind = "reconfirmed"
                  /\ AutoPromote(ledger)[i].ref \in resolves
                  /\ <<AutoPromote(ledger)[i].signal,
                       AutoPromote(ledger)[i].ref>> \in judged
    <3>1. CASE AutoPromote(ledger)[i] = ledger[i]
      BY <3>1
    <3>2. CASE AutoPromote(ledger)[i] # ledger[i]
      <4>1. /\ AutoPromote(ledger)[i].kind = "reconfirmed"
            /\ AutoPromote(ledger)[i].signal = ledger[i].signal
            /\ AutoPromote(ledger)[i].ref \in resolves
        BY <3>2, AutoPromoteFacts DEF LedgerShape
      <4>2. PICK j \in 1..Len(ledger) :
              /\ ledger[j].kind = "source"
              /\ ledger[j].signal = ledger[i].signal
              /\ ledger[j].ref = AutoPromote(ledger)[i].ref
        BY <3>2, AutoPromoteFacts DEF LedgerShape
      <4>3. <<ledger[j].signal, ledger[j].ref>> \in judged
        BY <4>2 DEF HumanInv, TrueText
      <4> QED
        BY <4>1, <4>2, <4>3
    <3> QED
      BY <3>1, <3>2
  <2>3. TrueText(AutoPromote(ledger))
    BY <2>1, <2>2 DEF HumanInv, TrueText
  <2> QED
    BY <1>2, <1>4, <2>1, <2>3 DEF Promote
<1>5. ASSUME NEW c \in Clerk, EmptyFile(c) PROVE HumanInv'
  <2>1. \A d \in Clerk : desk'[d].text = desk[d].text
    BY <1>5 DEF EmptyFile, LedgerShape, Desk
  <2>2. TrueText(ledger)'
    BY <1>5, EmptyText DEF EmptyFile, TrueText
  <2> QED
    BY <1>1, <1>5, <2>1, <2>2 DEF EmptyFile, HumanInv
<1>6. ASSUME NEW c \in Clerk, FillFile(c) \/ CrashClerk(c) PROVE HumanInv'
  <2>1. UNCHANGED <<resolves, judged, everLive>>
        /\ ledger' \in {ledger, desk[c].text}
    BY <1>6 DEF FillFile, CrashClerk
  <2>2. \A d \in Clerk : desk'[d].text = desk[d].text \/ desk'[d].text = <<>>
    BY <1>6, AwayDesk DEF FillFile, CrashClerk, LedgerShape
  <2>3. TrueText(<<>>)
    BY EmptyText DEF TrueText
  <2> QED
    BY <1>1, <2>1, <2>2, <2>3 DEF HumanInv, TrueText
<1>7. ASSUME NEW i \in DOMAIN ledger, NEW r \in Ref, NEW d \in 1..MaxDate,
             Judge(i, r, d)
      PROVE  HumanInv'
  <2>1. /\ UNCHANGED <<resolves, desk, everLive>>
        /\ judged' = judged \cup {<<ledger[i].signal, r>>}
    BY <1>7 DEF Judge
  <2>2. TrueText(ledger)'
    BY <1>7, <2>1, JudgeText DEF HumanInv, TrueText
  <2> QED
    BY <1>1, <2>1, <2>2 DEF HumanInv
<1>8. ASSUME NEW i \in DOMAIN ledger, Drop(i) PROVE HumanInv'
  <2>1. UNCHANGED <<resolves, desk, judged, everLive>>
    BY <1>8 DEF Drop
  <2>2. \A j \in 1..Len(ledger') :
          \E k \in 1..Len(ledger) : ledger'[j] = ledger[k]
    BY <1>8, DropText
  <2> QED
    BY <1>1, <2>1, <2>2 DEF HumanInv, TrueText
<1>9. ASSUME NEW r \in Ref, CheckAppears(r) \/ CheckRots(r) PROVE HumanInv'
  BY <1>9 DEF CheckAppears, CheckRots, HumanInv, TrueText
<1>10. CASE UNCHANGED ledgerVars
  BY <1>10 DEF ledgerVars, HumanInv, TrueText
<1> QED
  BY <1>3, <1>4, <1>5, <1>6, <1>7, <1>8, <1>9, <1>10 DEF LedgerNext

\* A reconfirmed line cites a ref that a human wrote for that signal and that
\* has resolved, however old the text that a clerk writes back.
THEOREM LedgerHumansJudge == LedgerSpec => []OnlyHumansJudge
<1>1. LedgerInit => HumanInv
  BY EmptyText, AwayDesk DEF LedgerInit, HumanInv, TrueText
<1>2. LedgerShape /\ HumanInv => OnlyHumansJudge
  BY LenProperties DEF LedgerShape, HumanInv, TrueText, OnlyHumansJudge, ToSet
<1> QED
  BY <1>1, <1>2, HumanStep, ShapeHolds, PTL DEF LedgerSpec

-----------------------------------------------------------------------------
(* No candidate stands twice, in the file or in what a clerk will write. *)

NoTwice(text) ==
    \A i, j \in 1..Len(text) :
       text[i].kind = "candidate" /\ text[i] = text[j] => i = j

OnceInv == NoTwice(ledger) /\ \A c \in Clerk : NoTwice(desk[c].text)

\* A candidate that capture does not find is not in the text.
LEMMA NotPresent ==
    ASSUME NEW text \in Seq(Line), NEW s \in Signal, NEW x \in Context,
           ~AlreadyPresent(text, s, x)
    PROVE  \A i \in 1..Len(text) : text[i] # Candidate(s, x)
<1> SUFFICES ASSUME NEW i \in 1..Len(text), text[i] = Candidate(s, x)
             PROVE  AlreadyPresent(text, s, x)
  OBVIOUS
<1>1. text[i] \in ToSet(text)
  BY LenProperties DEF ToSet
<1>2. text[i].kind = "candidate" /\ text[i].context = x /\ text[i].signal = s
  BY DEF Candidate
<1>3. <<s, s>> \in EndsIn
  BY LedgerAssumption
<1> QED
  BY <1>1, <1>2, <1>3 DEF AlreadyPresent

LEMMA OnceStep ==
    LedgerShape /\ OnceInv /\ [LedgerNext]_ledgerVars => OnceInv'
<1> SUFFICES ASSUME LedgerShape, OnceInv, [LedgerNext]_ledgerVars
             PROVE  OnceInv'
  OBVIOUS
<1>0. Len(ledger) \in Nat
  BY LenProperties DEF LedgerShape
<1>1. ASSUME NEW c \in Clerk, NEW text \in Seq(Line), NEW entry, NoTwice(text),
             Hold(c, text, entry), UNCHANGED ledger
      PROVE  OnceInv'
  <2>1. \A d \in Clerk : desk'[d].text = desk[d].text \/ desk'[d].text = text
    BY <1>1 DEF Hold, LedgerShape
  <2> QED
    BY <1>1, <2>1 DEF OnceInv, NoTwice
<1>2. ASSUME NEW c \in Clerk, NEW s \in Signal, NEW x \in Context,
             Capture(c, s, x)
      PROVE  OnceInv'
  <2>1. CASE AlreadyPresent(ledger, s, x)
    BY <1>2, <2>1 DEF Capture, OnceInv, NoTwice
  <2>2. CASE ~AlreadyPresent(ledger, s, x)
    <3>1. \A i \in 1..Len(ledger) : ledger[i] # Candidate(s, x)
      BY <2>2, NotPresent DEF LedgerShape
    <3>2. /\ Appended(ledger, s, x) \in Seq(Line)
          /\ \A i \in 1..Len(Appended(ledger, s, x)) :
               \/ /\ i \in 1..Len(ledger)
                  /\ Appended(ledger, s, x)[i] = ledger[i]
               \/ /\ i = Len(ledger) + 1
                  /\ Appended(ledger, s, x)[i] = Candidate(s, x)
      BY AppendedFacts DEF LedgerShape
    <3>3. NoTwice(Appended(ledger, s, x))
      BY <1>0, <3>1, <3>2 DEF OnceInv, NoTwice
    <3> QED
      BY <1>1, <1>2, <2>2, <3>2, <3>3 DEF Capture
  <2> QED
    BY <2>1, <2>2
<1>3. ASSUME NEW c \in Clerk, Promote(c) PROVE OnceInv'
  <2>1. /\ AutoPromote(ledger) \in Seq(Line)
        /\ Len(AutoPromote(ledger)) = Len(ledger)
    BY AutoPromoteFacts DEF LedgerShape
  <2>2. \A i \in 1..Len(ledger) :
          \/ AutoPromote(ledger)[i] = ledger[i]
          \/ AutoPromote(ledger)[i].kind = "reconfirmed"
    BY AutoPromoteFacts DEF LedgerShape
  <2>3. NoTwice(AutoPromote(ledger))
    <3> SUFFICES ASSUME NEW i \in 1..Len(ledger), NEW j \in 1..Len(ledger),
                        AutoPromote(ledger)[i].kind = "candidate",
                        AutoPromote(ledger)[i] = AutoPromote(ledger)[j]
                 PROVE  i = j
      BY <2>1 DEF NoTwice
    <3>1. AutoPromote(ledger)[i] = ledger[i] /\ AutoPromote(ledger)[j] = ledger[j]
      BY <2>2
    <3> QED
      BY <3>1 DEF OnceInv, NoTwice
  <2> QED
    BY <1>1, <1>3, <2>1, <2>3 DEF Promote
<1>4. ASSUME NEW c \in Clerk, EmptyFile(c) PROVE OnceInv'
  <2>1. \A d \in Clerk : desk'[d].text = desk[d].text
    BY <1>4 DEF EmptyFile, LedgerShape, Desk
  <2>2. NoTwice(ledger)'
    BY <1>4, EmptyText DEF EmptyFile, NoTwice
  <2> QED
    BY <2>1, <2>2 DEF OnceInv, NoTwice
<1>5. ASSUME NEW c \in Clerk, FillFile(c) \/ CrashClerk(c) PROVE OnceInv'
  <2>1. ledger' \in {ledger, desk[c].text}
    BY <1>5 DEF FillFile, CrashClerk
  <2>2. \A d \in Clerk : desk'[d].text = desk[d].text \/ desk'[d].text = <<>>
    BY <1>5, AwayDesk DEF FillFile, CrashClerk, LedgerShape
  <2>3. NoTwice(<<>>)
    BY EmptyText DEF NoTwice
  <2> QED
    BY <2>1, <2>2, <2>3 DEF OnceInv, NoTwice
<1>6. ASSUME NEW i \in DOMAIN ledger, NEW r \in Ref, NEW d \in 1..MaxDate,
             Judge(i, r, d)
      PROVE  OnceInv'
  <2>1. NoTwice(ledger)'
    BY <1>6, JudgeText DEF OnceInv, NoTwice
  <2> QED
    BY <1>6, <2>1 DEF OnceInv, NoTwice, Judge
<1>7. ASSUME NEW i \in DOMAIN ledger, Drop(i) PROVE OnceInv'
  <2>1. /\ i \in 1..Len(ledger) /\ Len(ledger') = Len(ledger) - 1
        /\ \A j \in 1..Len(ledger') :
             ledger'[j] = IF j < i THEN ledger[j] ELSE ledger[j + 1]
    BY <1>7, DropText
  <2>2. NoTwice(ledger)'
    <3> SUFFICES ASSUME NEW j \in 1..Len(ledger'), NEW k \in 1..Len(ledger'),
                        ledger'[j].kind = "candidate", ledger'[j] = ledger'[k]
                 PROVE  j = k
      BY DEF NoTwice
    <3> DEFINE was(n) == IF n < i THEN n ELSE n + 1
    <3>1. /\ was(j) \in 1..Len(ledger) /\ ledger'[j] = ledger[was(j)]
          /\ was(k) \in 1..Len(ledger) /\ ledger'[k] = ledger[was(k)]
      BY <1>0, <2>1
    <3> HIDE DEF was
    <3>2. was(j) = was(k)
      BY <3>1 DEF OnceInv, NoTwice
    <3> QED
      BY <1>0, <2>1, <3>2 DEF was
  <2> QED
    BY <1>7, <2>2 DEF OnceInv, NoTwice, Drop
<1>8. ASSUME NEW r \in Ref, CheckAppears(r) \/ CheckRots(r) PROVE OnceInv'
  BY <1>8 DEF CheckAppears, CheckRots, OnceInv, NoTwice
<1>9. CASE UNCHANGED ledgerVars
  BY <1>9 DEF ledgerVars, OnceInv, NoTwice
<1> QED
  BY <1>2, <1>3, <1>4, <1>5, <1>6, <1>7, <1>8, <1>9 DEF LedgerNext

\* However often a signal fires, and whoever captures it at once, a candidate
\* has one line.
THEOREM LedgerNoDuplicate == LedgerSpec => []NoDuplicateCandidate
<1>1. LedgerInit => OnceInv
  BY EmptyText, AwayDesk DEF LedgerInit, OnceInv, NoTwice
<1>2. LedgerShape /\ OnceInv => NoDuplicateCandidate
  BY LenProperties DEF LedgerShape, OnceInv, NoTwice, NoDuplicateCandidate
<1> QED
  BY <1>1, <1>2, OnceStep, ShapeHolds, PTL DEF LedgerSpec

-----------------------------------------------------------------------------
(* What was captured or judged stays on file. *)

ShowsCapture(text, e) ==
    \E i \in 1..Len(text) : text[i].signal = e[1] /\ text[i].context = e[2]

ShowsJudgement(text, j) ==
    \E i \in 1..Len(text) :
       text[i].kind = "source" /\ text[i].signal = j[1] /\ text[i].ref = j[2]

Shows(text) ==
    /\ \A e \in reported \ atRisk : ShowsCapture(text, e)
    /\ \A j \in judged \ atRisk : ShowsJudgement(text, j)

\* The file, unless a clerk has emptied it, and the text that each clerk will
\* write in its place, show all that no overlap and no crash has put at risk.
KeptInv ==
    /\ ~Emptied => Shows(ledger)
    /\ \A c \in Busy : /\ Shows(desk[c].text)
                       /\ \A e \in desk[c].entry : ShowsCapture(desk[c].text, e)

\* A text that shows what another shows.
LEMMA ShowsMore ==
    ASSUME NEW old, NEW new,
           \A e : ShowsCapture(old, e) => ShowsCapture(new, e),
           \A j : ShowsJudgement(old, j) => ShowsJudgement(new, j),
           Shows(old)
    PROVE  Shows(new)
BY DEF Shows

\* A clerk that takes a text with all that the file shows.
LEMMA KeptHold ==
    ASSUME LedgerShape, KeptInv, NEW c \in Clerk, c \notin Busy,
           NEW text \in Seq(Line), NEW entry \in SUBSET Entry,
           Hold(c, text, entry), UNCHANGED <<ledger, reported, judged>>,
           Shows(ledger) => Shows(text),
           \A e \in entry : ShowsCapture(text, e)
    PROVE  KeptInv'
<1>1. /\ desk'[c] = [step |-> "empty", text |-> text, entry |-> entry]
      /\ \A d \in Clerk \ {c} : desk'[d] = desk[d]
  BY DEF Hold, LedgerShape
<1>2. Emptied' = Emptied /\ Busy' = Busy \cup {c}
  BY <1>1 DEF Emptied, Busy
<1>3. CASE Emptied
  <2>1. reported' \ atRisk' = {} /\ judged' \ atRisk' = {}
    BY <1>3 DEF Hold, Everything
  <2>2. \A d \in Busy' : \A e \in desk'[d].entry : ShowsCapture(desk'[d].text, e)
    BY <1>1, <1>2 DEF KeptInv, Busy
  <2> QED
    BY <1>2, <1>3, <2>1, <2>2 DEF KeptInv, Shows, ShowsCapture
<1>4. CASE ~Emptied
  <2>1. UNCHANGED <<reported, judged, atRisk>>
    BY <1>4 DEF Hold
  <2>2. Shows(ledger) /\ Shows(text)
    BY <1>4 DEF KeptInv
  <2>3. \A d \in Busy' : /\ Shows(desk'[d].text)
                        /\ \A e \in desk'[d].entry : ShowsCapture(desk'[d].text, e)
    BY <1>1, <1>2, <2>2 DEF KeptInv, Busy
  <2> QED
    BY <2>1, <2>2, <2>3 DEF KeptInv, Shows, ShowsCapture, ShowsJudgement
<1> QED
  BY <1>3, <1>4

LEMMA LedgerKeptStep ==
    LedgerShape /\ KeptInv /\ [LedgerNext]_ledgerVars => KeptInv'
<1> SUFFICES ASSUME LedgerShape, KeptInv, [LedgerNext]_ledgerVars
             PROVE  KeptInv'
  OBVIOUS
<1>0. Len(ledger) \in Nat /\ DOMAIN ledger = 1..Len(ledger)
  BY LenProperties DEF LedgerShape
<1>1. ASSUME NEW c \in Clerk, NEW s \in Signal, NEW x \in Context,
             Capture(c, s, x)
      PROVE  KeptInv'
  <2>1. CASE AlreadyPresent(ledger, s, x)
    <3>1. UNCHANGED <<ledger, desk, judged>>
      BY <1>1, <2>1 DEF Capture
    <3>2. CASE Busy = {}
      <4>1. Busy' = {} /\ ~Emptied /\ Shows(ledger) /\ atRisk' = atRisk
        BY <1>1, <2>1, <3>1, <3>2 DEF Capture, Busy, Emptied, KeptInv
      <4>2. ASSUME Candidate(s, x) \in ToSet(ledger)
            PROVE  ShowsCapture(ledger, <<s, x>>)
        BY <1>0, <4>2 DEF ToSet, ShowsCapture, Candidate
      <4>3. \A e \in reported' \ atRisk' : ShowsCapture(ledger, e)
        BY <1>1, <2>1, <4>1, <4>2 DEF Capture, Shows
      <4> QED
        BY <3>1, <4>1, <4>3 DEF KeptInv, Shows, ShowsCapture, ShowsJudgement
    <3>3. CASE Busy # {}
      <4>1. /\ reported' \ atRisk' \subseteq reported \ atRisk
            /\ judged' \ atRisk' \subseteq judged \ atRisk
        BY <1>1, <2>1, <3>3 DEF Capture
      <4> QED
        BY <3>1, <4>1
        DEF KeptInv, Shows, ShowsCapture, ShowsJudgement, Busy, Emptied
    <3> QED
      BY <3>2, <3>3
  <2>2. CASE ~AlreadyPresent(ledger, s, x)
    <3> DEFINE text == Appended(ledger, s, x)
    <3>1. /\ text \in Seq(Line) /\ Len(text) = Len(ledger) + 1
          /\ \A i \in 1..Len(ledger) : text[i] = ledger[i]
          /\ text[Len(ledger) + 1] = Candidate(s, x)
      <4>1. /\ text \in Seq(Line) /\ Len(text) = Len(ledger) + 1
            /\ \A i \in 1..Len(text) :
                 \/ i \in 1..Len(ledger) /\ text[i] = ledger[i]
                 \/ i = Len(ledger) + 1 /\ text[i] = Candidate(s, x)
        BY AppendedFacts DEF LedgerShape
      <4> HIDE DEF text
      <4> QED
        BY <1>0, <4>1
    <3>2. Hold(c, text, {<<s, x>>}) /\ UNCHANGED <<ledger, reported, judged>>
      BY <1>1, <2>2 DEF Capture
    <3> HIDE DEF text
    <3>3. 1..Len(ledger) \subseteq 1..Len(text) /\ Len(ledger) + 1 \in 1..Len(text)
      BY <1>0, <3>1
    <3>4. Shows(ledger) => Shows(text)
      BY <3>1, <3>3, ShowsMore DEF ShowsCapture, ShowsJudgement
    <3>5. ShowsCapture(text, <<s, x>>)
      BY <3>1, <3>3 DEF ShowsCapture, Candidate
    <3>6. {<<s, x>>} \in SUBSET Entry /\ c \notin Busy
      BY <1>1 DEF Entry, Capture
    <3> QED
      BY <3>1, <3>2, <3>4, <3>5, <3>6, KeptHold
  <2> QED
    BY <2>1, <2>2
<1>2. ASSUME NEW c \in Clerk, Promote(c) PROVE KeptInv'
  <2> DEFINE text == AutoPromote(ledger)
  <2>1. /\ text \in Seq(Line) /\ Len(text) = Len(ledger)
        /\ \A i \in 1..Len(ledger) :
             \/ text[i] = ledger[i]
             \/ /\ ledger[i].kind = "candidate"
                /\ text[i].signal = ledger[i].signal
                /\ text[i].context = ledger[i].context
    BY AutoPromoteFacts DEF LedgerShape
  <2>2. Hold(c, text, {}) /\ UNCHANGED <<ledger, reported, judged>> /\ c \notin Busy
    BY <1>2 DEF Promote
  <2> HIDE DEF text
  <2>3. Shows(ledger) => Shows(text)
    BY <2>1, ShowsMore DEF ShowsCapture, ShowsJudgement
  <2>4. {} \in SUBSET Entry /\ \A e \in {} : ShowsCapture(text, e)
    OBVIOUS
  <2> QED
    BY <2>1, <2>2, <2>3, <2>4, KeptHold
<1>3. ASSUME NEW c \in Clerk, EmptyFile(c) PROVE KeptInv'
  <2>1. /\ desk' = [desk EXCEPT ![c].step = "fill"] /\ desk[c].step = "empty"
        /\ UNCHANGED <<reported, judged, atRisk>>
    BY <1>3 DEF EmptyFile
  <2>2. \A d \in Clerk : desk'[d].text = desk[d].text /\ desk'[d].entry = desk[d].entry
    BY <2>1 DEF LedgerShape, Desk
  <2>3. Emptied' /\ Busy' = Busy
    BY <2>1 DEF Emptied, Busy, LedgerShape, Desk
  <2> QED
    BY <2>1, <2>2, <2>3 DEF KeptInv, Shows, ShowsCapture, ShowsJudgement, Busy
<1>4. ASSUME NEW c \in Clerk, FillFile(c) PROVE KeptInv'
  <2>1. /\ c \in Busy /\ Busy' = Busy \ {c}
        /\ \A d \in Clerk \ {c} : desk'[d] = desk[d]
    BY <1>4 DEF FillFile, Busy, LedgerShape, Away
  <2>2. /\ Shows(desk[c].text) /\ ledger' = desk[c].text
        /\ \A e \in desk[c].entry : ShowsCapture(desk[c].text, e)
    BY <1>4, <2>1 DEF FillFile, KeptInv
  <2>3. CASE Busy = {c}
    <3>1. /\ reported' = reported \cup desk[c].entry /\ judged' = judged
          /\ atRisk' = atRisk \ desk[c].entry
      BY <1>4, <2>3 DEF FillFile
    <3>2. desk[c].entry \cap judged = {}
      BY LedgerAssumption DEF LedgerShape, Desk, Entry, Judgement
    <3>3. \A e \in reported' \ atRisk' : ShowsCapture(ledger', e)
      BY <2>2, <3>1 DEF Shows
    <3>4. \A j \in judged' \ atRisk' : ShowsJudgement(ledger', j)
      BY <2>2, <3>1, <3>2 DEF Shows
    <3>5. Busy' = {}
      BY <2>1, <2>3
    <3> QED
      BY <3>3, <3>4, <3>5 DEF KeptInv, Shows, ShowsCapture, ShowsJudgement
  <2>4. CASE Busy # {c}
    <3>1. /\ reported' \ atRisk' \subseteq reported \ atRisk
          /\ judged' \ atRisk' \subseteq judged \ atRisk
      BY <1>4, <2>4 DEF FillFile
    <3>2. Shows(ledger)'
      BY <2>2, <3>1 DEF Shows, ShowsCapture, ShowsJudgement
    <3>3. \A d \in Busy' : /\ Shows(desk[d].text) /\ desk'[d] = desk[d]
                          /\ \A e \in desk[d].entry : ShowsCapture(desk[d].text, e)
      BY <2>1 DEF KeptInv, Busy
    <3>4. \A d \in Busy' : /\ Shows(desk[d].text)'
                          /\ \A e \in desk'[d].entry : ShowsCapture(desk'[d].text, e)
      BY <3>1, <3>3 DEF Shows, ShowsCapture, ShowsJudgement
    <3> QED
      BY <3>2, <3>4 DEF KeptInv, ShowsCapture
  <2> QED
    BY <2>3, <2>4
<1>5. ASSUME NEW c \in Clerk, CrashClerk(c) PROVE KeptInv'
  <2>1. /\ c \in Busy /\ Busy' = Busy \ {c} /\ UNCHANGED <<ledger, reported, judged>>
        /\ desk'[c] = Away /\ \A d \in Clerk \ {c} : desk'[d] = desk[d]
    BY <1>5 DEF CrashClerk, Busy, LedgerShape, Away
  <2>2. \A d \in Busy' : /\ Shows(desk[d].text) /\ desk'[d] = desk[d]
                        /\ \A e \in desk[d].entry : ShowsCapture(desk[d].text, e)
    BY <2>1 DEF KeptInv, Busy
  <2>3. CASE desk[c].step = "fill"
    <3>1. reported' \ atRisk' = {} /\ judged' \ atRisk' = {}
      BY <1>5, <2>1, <2>3 DEF CrashClerk, Everything
    <3> QED
      BY <2>2, <3>1 DEF KeptInv, Shows, ShowsCapture
  <2>4. CASE desk[c].step # "fill"
    <3>1. Emptied' = Emptied
      BY <2>1, <2>4 DEF Emptied, Away
    <3>2. atRisk' = atRisk
      BY <1>5, <2>4 DEF CrashClerk
    <3> QED
      BY <2>1, <2>2, <3>1, <3>2 DEF KeptInv, Shows, ShowsCapture, ShowsJudgement
  <2> QED
    BY <2>3, <2>4
<1>6. ASSUME NEW i \in DOMAIN ledger, NEW r \in Ref, NEW d \in 1..MaxDate,
             Judge(i, r, d)
      PROVE  KeptInv'
  <2>1. UNCHANGED <<desk, reported>>
    BY <1>6 DEF Judge
  <2>2. Emptied' = Emptied /\ Busy' = Busy
    BY <2>1 DEF Emptied, Busy
  <2> DEFINE new == <<ledger[i].signal, r>>
  <2>3. /\ \A e : ShowsCapture(ledger, e) => ShowsCapture(ledger', e)
        /\ \A j : ShowsJudgement(ledger, j) => ShowsJudgement(ledger', j)
        /\ ShowsJudgement(ledger', new)
    <3>1. /\ Len(ledger') = Len(ledger) /\ i \in 1..Len(ledger)
          /\ \A j \in 1..Len(ledger) : j # i => ledger'[j] = ledger[j]
          /\ ledger[i].kind = "candidate" /\ ledger'[i].kind = "source"
          /\ ledger'[i].signal = ledger[i].signal
          /\ ledger'[i].context = ledger[i].context /\ ledger'[i].ref = r
      BY <1>6, JudgeText
    <3>2. \A e : ShowsCapture(ledger, e) => ShowsCapture(ledger', e)
      BY <3>1 DEF ShowsCapture
    <3>3. \A j : ShowsJudgement(ledger, j) => ShowsJudgement(ledger', j)
      BY <3>1 DEF ShowsJudgement
    <3>4. ShowsJudgement(ledger', new)
      BY <3>1 DEF ShowsJudgement
    <3> QED
      BY <3>2, <3>3, <3>4
  <2>4. new \notin reported
    <3>1. i \in 1..Len(ledger) /\ ledger[i].signal \in Signal
      BY <1>0, ElementOfSeq, LineFacts DEF LedgerShape
    <3> QED
      BY <3>1, LedgerAssumption DEF LedgerShape, Entry
  <2> HIDE DEF new
  <2>5. CASE Busy = {}
    <3>1. Busy' = {} /\ Shows(ledger)
      BY <2>2, <2>5 DEF Busy, Emptied, KeptInv
    <3>2. judged' = judged \cup {new} /\ atRisk' = atRisk \ {new}
      BY <1>6, <2>5 DEF Judge, new
    <3>3. \A e \in reported' \ atRisk' : ShowsCapture(ledger', e)
      BY <2>1, <2>3, <2>4, <3>1, <3>2 DEF Shows
    <3>4. \A j \in judged' \ atRisk' : ShowsJudgement(ledger', j)
      BY <2>3, <3>1, <3>2 DEF Shows
    <3> QED
      BY <3>1, <3>3, <3>4 DEF KeptInv, Shows, ShowsCapture, ShowsJudgement
  <2>6. CASE Busy # {}
    <3>1. /\ reported' \ atRisk' \subseteq reported \ atRisk
          /\ judged' \ atRisk' \subseteq judged \ atRisk
      BY <1>6, <2>1, <2>6 DEF Judge
    <3>2. ~Emptied => Shows(ledger)'
      BY <2>3, <3>1 DEF KeptInv, Shows, ShowsCapture, ShowsJudgement
    <3> QED
      BY <2>1, <2>2, <3>1, <3>2 DEF KeptInv, Shows, ShowsCapture, ShowsJudgement
  <2> QED
    BY <2>5, <2>6
<1>7. ASSUME NEW i \in DOMAIN ledger, Drop(i) PROVE KeptInv'
  <2>1. /\ UNCHANGED <<desk, judged, atRisk>>
        /\ reported' = reported \ {<<ledger[i].signal, ledger[i].context>>}
    BY <1>7 DEF Drop
  <2>2. Emptied' = Emptied /\ Busy' = Busy
    BY <2>1 DEF Emptied, Busy
  <2>3. /\ i \in 1..Len(ledger) /\ ledger[i].kind = "candidate"
        /\ \A k \in 1..Len(ledger) :
             k # i => \E j \in 1..Len(ledger') : ledger'[j] = ledger[k]
    BY <1>7, DropText
  <2>4. ASSUME NEW e \in reported', ShowsCapture(ledger, e)
        PROVE  ShowsCapture(ledger', e)
    <3>1. e = <<e[1], e[2]>>
      BY <2>1 DEF LedgerShape, Entry
    <3>2. PICK k \in 1..Len(ledger) :
            ledger[k].signal = e[1] /\ ledger[k].context = e[2]
      BY <2>4 DEF ShowsCapture
    <3>3. k # i
      BY <2>1, <3>1, <3>2
    <3> QED
      BY <2>3, <3>2, <3>3 DEF ShowsCapture
  <2>5. \A j : ShowsJudgement(ledger, j) => ShowsJudgement(ledger', j)
    BY <2>3 DEF ShowsJudgement
  <2>6. ~Emptied => Shows(ledger)'
    BY <2>1, <2>4, <2>5 DEF KeptInv, Shows, ShowsCapture, ShowsJudgement
  <2> QED
    BY <2>1, <2>2, <2>6 DEF KeptInv, Shows, ShowsCapture, ShowsJudgement
<1>8. ASSUME UNCHANGED <<ledger, desk, reported, judged, atRisk>>
      PROVE  KeptInv'
  <2>1. Busy' = Busy /\ Emptied' = Emptied
    BY <1>8 DEF Busy, Emptied
  <2>2. Shows(ledger)' = Shows(ledger)
    BY <1>8 DEF Shows, ShowsCapture, ShowsJudgement
  <2>3. \A c \in Clerk : Shows(desk[c].text)' = Shows(desk[c].text)
    BY <1>8 DEF Shows, ShowsCapture, ShowsJudgement
  <2>4. \A c \in Clerk : \A e : ShowsCapture(desk[c].text, e)'
                               = ShowsCapture(desk[c].text, e)
    BY <1>8 DEF ShowsCapture
  <2> QED
    BY <1>8, <2>1, <2>2, <2>3, <2>4 DEF KeptInv, Busy
<1>9. ASSUME NEW r \in Ref, CheckAppears(r) \/ CheckRots(r) PROVE KeptInv'
  BY <1>8, <1>9 DEF CheckAppears, CheckRots
<1>10. CASE UNCHANGED ledgerVars
  BY <1>8, <1>10 DEF ledgerVars
<1> QED
  BY <1>1, <1>2, <1>3, <1>4, <1>5, <1>6, <1>7, <1>9, <1>10 DEF LedgerNext

\* What was captured has a line, and what a human judged stays a judgement,
\* except what an overlap or a crash of the whole-file rewrite puts at risk.
THEOREM LedgerKeepsAll == LedgerSpec => []LedgerKept
<1>1. LedgerInit => KeptInv
  BY DEF LedgerInit, KeptInv, Shows, Busy, Away
<1>2. LedgerShape /\ KeptInv => LedgerKept
  <2> SUFFICES ASSUME LedgerShape, Shows(ledger)
               PROVE
                 /\ \A e \in reported \ atRisk :
                      \E l \in ToSet(ledger) : l.signal = e[1] /\ l.context = e[2]
                 /\ \A j \in judged \ atRisk :
                      \E l \in ToSet(ledger) :
                        l.kind = "source" /\ l.signal = j[1] /\ l.ref = j[2]
    BY DEF KeptInv, LedgerKept
  <2>1. \A i \in 1..Len(ledger) : ledger[i] \in ToSet(ledger)
    BY LenProperties DEF LedgerShape, ToSet
  <2> QED
    BY <2>1 DEF Shows, ShowsCapture, ShowsJudgement
<1> QED
  BY <1>1, <1>2, LedgerKeptStep, ShapeHolds, PTL DEF LedgerSpec

=============================================================================
