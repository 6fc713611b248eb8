------------------------ MODULE ReconcilePruneProofs ------------------------
(***************************************************************************)
(* Proofs about the prune, for any entries, headings, items and pruners,   *)
(* and for files of any length.                                            *)
(***************************************************************************)
EXTENDS ReconcilePrune, SequenceTheorems, WellFoundedInduction, TLAPS

-----------------------------------------------------------------------------
(* Recursion and induction along a sequence. *)

\* Induction up to n, for a set of numbers.
LEMMA UpTo ==
    ASSUME NEW n \in Nat, NEW P, 0 \in P,
           \A i \in 1..n : i - 1 \in P => i \in P
    PROVE  \A i \in 0..n : i \in P
<1> DEFINE T == (0..n) \ P
<1> SUFFICES ASSUME T # {} PROVE FALSE
  OBVIOUS
<1>1. PICK k \in T : \A m \in T : <<m, k>> \notin OpToRel(<, Nat)
  <2>1. T \in SUBSET Nat
    OBVIOUS
  <2> QED
    BY <2>1, NatLessThanWellFounded, WFMin
<1>2. k - 1 \in T
  OBVIOUS
<1>3. <<k - 1, k>> \in OpToRel(<, Nat)
  BY <1>2 DEF OpToRel
<1> QED
  BY <1>1, <1>2, <1>3

\* What is computed step by step up to n has a value at each step.
Along(f, S, n, base, step) ==
    /\ f \in [0..n -> S] /\ f[0] = base
    /\ \A i \in 1..n : f[i] = step[<<f[i - 1], i>>]

LEMMA Steps ==
    ASSUME NEW S, NEW n \in Nat, NEW base \in S,
           NEW step \in [S \X (1..n) -> S]
    PROVE  \E f : Along(f, S, n, base, step)
<1> DEFINE P == {k \in 0..n : \E f : Along(f, S, k, base, step)}
<1>1. 0 \in P
  <2>1. Along([i \in 0..0 |-> base], S, 0, base, step)
    BY DEF Along
  <2>2. 0 \in 0..n
    OBVIOUS
  <2> QED
    BY <2>1, <2>2
<1>2. ASSUME NEW k \in 1..n, k - 1 \in P PROVE k \in P
  <2>1. PICK f : Along(f, S, k - 1, base, step)
    BY <1>2
  <2> DEFINE g == [i \in 0..k |-> IF i = k THEN step[<<f[k - 1], k>>] ELSE f[i]]
  <2>2. f[k - 1] \in S
    BY <2>1 DEF Along
  <2>3. step[<<f[k - 1], k>>] \in S
    BY <2>2
  <2>4. g \in [0..k -> S] /\ g[0] = base
    BY <2>1, <2>3 DEF Along
  <2>5. \A i \in 1..k : g[i] = step[<<g[i - 1], i>>]
    BY <2>1 DEF Along
  <2>6. Along(g, S, k, base, step)
    BY <2>4, <2>5 DEF Along
  <2> HIDE DEF g
  <2> QED
    BY <2>6
<1> HIDE DEF P
<1>3. n \in P
  BY <1>1, <1>2, UpTo
<1> QED
  BY <1>3 DEF P

\* The two functions that the model computes along a sequence.
LEMMA Selecting ==
    ASSUME NEW sections \in Seq(Section), NEW chosen
    PROVE  \E f \in [0..Len(sections) -> Seq(Section)] :
             /\ f[0] = <<>>
             /\ \A k \in 1..Len(sections) :
                  f[k] = IF sections[k] \in chosen
                         THEN Append(f[k - 1], sections[k]) ELSE f[k - 1]
             /\ Select(sections, chosen) = f[Len(sections)]
<1> DEFINE n == Len(sections)
           Is(f) == f = [k \in 0..n |->
                           IF k = 0 THEN <<>>
                           ELSE IF sections[k] \in chosen
                                THEN Append(f[k - 1], sections[k])
                                ELSE f[k - 1]]
           step == [q \in Seq(Section) \X (1..n) |->
                      IF sections[q[2]] \in chosen
                      THEN Append(q[1], sections[q[2]]) ELSE q[1]]
<1>1. n \in Nat /\ \A k \in 1..n : sections[k] \in Section
  BY LenProperties, ElementOfSeq
<1>2. step \in [Seq(Section) \X (1..n) -> Seq(Section)]
  BY <1>1, AppendProperties
<1>3. \A s \in Seq(Section), k \in 1..n :
        step[<<s, k>>] = IF sections[k] \in chosen
                         THEN Append(s, sections[k]) ELSE s
  OBVIOUS
<1>4. <<>> \in Seq(Section)
  OBVIOUS
<1> HIDE DEF step, n
<1>5. PICK f : Along(f, Seq(Section), n, <<>>, step)
  BY <1>1, <1>2, <1>4, Steps
<1>6. \A k \in 1..n : f[k] = IF sections[k] \in chosen
                             THEN Append(f[k - 1], sections[k]) ELSE f[k - 1]
  <2> SUFFICES ASSUME NEW k \in 1..n
               PROVE  f[k] = IF sections[k] \in chosen
                             THEN Append(f[k - 1], sections[k]) ELSE f[k - 1]
    OBVIOUS
  <2>1. f[k - 1] \in Seq(Section)
    BY <1>1, <1>5 DEF Along
  <2> QED
    BY <1>3, <1>5, <2>1 DEF Along
<1>7. Is(f)
  <2>1. f = [k \in 0..n |-> f[k]] /\ f[0] = <<>>
    BY <1>5 DEF Along
  <2>2. \A k \in 0..n : k = 0 \/ k \in 1..n
    BY <1>1
  <2> QED
    BY <1>6, <2>1, <2>2
<1> DEFINE g == CHOOSE h : Is(h)
<1>8. Is(g)
  BY <1>7
<1>9. Select(sections, chosen) = g[n]
  BY DEF Select, n
<1> HIDE DEF g
<1>12. /\ g[0] = <<>>
       /\ \A k \in 1..n : g[k] = IF sections[k] \in chosen
                                THEN Append(g[k - 1], sections[k]) ELSE g[k - 1]
  <2>1. \A k \in 0..n : g[k] = IF k = 0 THEN <<>>
                              ELSE IF sections[k] \in chosen
                              THEN Append(g[k - 1], sections[k]) ELSE g[k - 1]
    BY <1>8
  <2> QED
    BY <1>1, <2>1
<1>10. g \in [0..n -> Seq(Section)]
  <2> DEFINE P == {k \in 0..n : g[k] \in Seq(Section)}
  <2>1. 0 \in P
    <3>1. g[0] = <<>>
      BY <1>12
    <3>2. g[0] \in Seq(Section)
      BY <1>4, <3>1, Zenon
    <3> QED
      BY <1>1, <3>2
  <2>2. ASSUME NEW k \in 1..n, k - 1 \in P PROVE k \in P
    <3>1. g[k - 1] \in Seq(Section)
      BY <2>2
    <3>2. g[k] = IF sections[k] \in chosen
                 THEN Append(g[k - 1], sections[k]) ELSE g[k - 1]
      BY <1>12
    <3>3. Append(g[k - 1], sections[k]) \in Seq(Section)
      BY <1>1, <3>1, AppendProperties
    <3>4. g[k] \in Seq(Section)
      BY <3>1, <3>2, <3>3
    <3> QED
      BY <1>1, <3>4
  <2> HIDE DEF P
  <2>3. \A k \in 0..n : k \in P
    BY <1>1, <2>1, <2>2, UpTo
  <2>4. \A k \in 0..n : g[k] \in Seq(Section)
    BY <2>3 DEF P
  <2> QED
    BY <1>8, <2>4
<1> QED
  BY <1>9, <1>10, <1>12 DEF n

LEMMA Growing ==
    ASSUME NEW sections \in Seq(Section), NEW away \in Seq(Section)
    PROVE  \E f \in [0..Len(away) -> Seq(Section)] :
             /\ f[0] = sections
             /\ \A k \in 1..Len(away) : f[k] = AddNew(f[k - 1], away[k])
             /\ AppendAll(sections, away) = f[Len(away)]
<1> DEFINE n == Len(away)
           Is(f) == f = [k \in 0..n |->
                           IF k = 0 THEN sections ELSE AddNew(f[k - 1], away[k])]
           step == [q \in Seq(Section) \X (1..n) |-> AddNew(q[1], away[q[2]])]
<1>1. n \in Nat /\ \A k \in 1..n : away[k] \in Section
  BY LenProperties, ElementOfSeq
<1>2. \A s \in Seq(Section), t \in Section : AddNew(s, t) \in Seq(Section)
  BY AppendProperties DEF AddNew
<1>3. step \in [Seq(Section) \X (1..n) -> Seq(Section)]
  BY <1>1, <1>2
<1>4. \A s \in Seq(Section), k \in 1..n : step[<<s, k>>] = AddNew(s, away[k])
  OBVIOUS
<1> HIDE DEF step, n
<1>5. PICK f : Along(f, Seq(Section), n, sections, step)
  BY <1>1, <1>3, Steps
<1>6. \A k \in 1..n : f[k] = AddNew(f[k - 1], away[k])
  <2> SUFFICES ASSUME NEW k \in 1..n PROVE f[k] = AddNew(f[k - 1], away[k])
    OBVIOUS
  <2>1. f[k - 1] \in Seq(Section)
    BY <1>1, <1>5 DEF Along
  <2> QED
    BY <1>4, <1>5, <2>1 DEF Along
<1>7. Is(f)
  <2>1. f = [k \in 0..n |-> f[k]] /\ f[0] = sections
    BY <1>5 DEF Along
  <2>2. \A k \in 0..n : k = 0 \/ k \in 1..n
    BY <1>1
  <2> QED
    BY <1>6, <2>1, <2>2
<1> DEFINE g == CHOOSE h : Is(h)
<1>8. Is(g)
  BY <1>7
<1>9. AppendAll(sections, away) = g[n]
  BY DEF AppendAll, n
<1> HIDE DEF g
<1>10. g[0] = sections /\ \A k \in 1..n : g[k] = AddNew(g[k - 1], away[k])
  <2>1. \A k \in 0..n :
          g[k] = IF k = 0 THEN sections ELSE AddNew(g[k - 1], away[k])
    BY <1>8
  <2> QED
    BY <1>1, <2>1
<1>11. g \in [0..n -> Seq(Section)]
  <2> DEFINE P == {k \in 0..n : g[k] \in Seq(Section)}
  <2>1. 0 \in P
    BY <1>1, <1>10
  <2>2. ASSUME NEW k \in 1..n, k - 1 \in P PROVE k \in P
    <3>1. g[k - 1] \in Seq(Section) /\ g[k] = AddNew(g[k - 1], away[k])
      BY <1>10, <2>2
    <3>2. g[k] \in Seq(Section)
      BY <1>1, <1>2, <3>1
    <3> QED
      BY <1>1, <3>2
  <2> HIDE DEF P
  <2>3. \A k \in 0..n : k \in P
    BY <1>1, <2>1, <2>2, UpTo
  <2>4. \A k \in 0..n : g[k] \in Seq(Section)
    BY <2>3 DEF P
  <2>5. DOMAIN g = 0..n /\ g = [k \in DOMAIN g |-> g[k]]
    BY <1>8, Zenon
  <2> QED
    BY <2>4, <2>5
<1> QED
  BY <1>9, <1>10, <1>11 DEF n

-----------------------------------------------------------------------------
(* Sections. *)

\* No two sections have one heading.
Distinct(sections) ==
    \A j, k \in 1..Len(sections) :
       sections[j].heading = sections[k].heading => j = k

\* What an index finds is in the set of sections, and the converse.
LEMMA InSet ==
    ASSUME NEW sections \in Seq(Section)
    PROVE  /\ \A k \in 1..Len(sections) : sections[k] \in ToSet(sections)
           /\ \A s \in ToSet(sections) :
                s \in Section /\ \E k \in 1..Len(sections) : s = sections[k]
BY LenProperties, ElementOfSeq DEF ToSet

LEMMA AppendSet ==
    ASSUME NEW sections \in Seq(Section), NEW s \in Section
    PROVE  /\ Append(sections, s) \in Seq(Section)
           /\ Append(sections, s) # <<>>
           /\ ToSet(Append(sections, s)) = ToSet(sections) \cup {s}
           /\ Distinct(sections) /\ s.heading \notin Headings(sections)
                => Distinct(Append(sections, s))
<1> DEFINE more == Append(sections, s)
<1>1. /\ more \in Seq(Section) /\ Len(more) = Len(sections) + 1
      /\ more[Len(sections) + 1] = s
      /\ \A k \in 1..Len(sections) : more[k] = sections[k]
  BY AppendProperties
<1>2. Len(sections) \in Nat
  BY LenProperties
<1> HIDE DEF more
<1>3. \A k \in 1..Len(more) : \/ k \in 1..Len(sections) /\ more[k] = sections[k]
                              \/ k = Len(sections) + 1 /\ more[k] = s
  BY <1>1, <1>2
<1>4. ToSet(more) = ToSet(sections) \cup {s}
  <2>1. ToSet(more) \subseteq ToSet(sections) \cup {s}
    BY <1>1, <1>3, InSet
  <2>2. ToSet(sections) \cup {s} \subseteq ToSet(more)
    <3>1. s \in ToSet(more)
      BY <1>1, <1>2, InSet
    <3>2. ASSUME NEW t \in ToSet(sections) PROVE t \in ToSet(more)
      <4>1. PICK k \in 1..Len(sections) : t = sections[k]
        BY InSet
      <4> QED
        BY <1>1, <1>2, <4>1, InSet
    <3> QED
      BY <3>1, <3>2
  <2> QED
    BY <2>1, <2>2
<1>5. ASSUME Distinct(sections), s.heading \notin Headings(sections)
      PROVE  Distinct(more)
  <2>1. \A k \in 1..Len(sections) : sections[k].heading # s.heading
    BY <1>5, InSet DEF Headings
  <2> QED
    BY <1>3, <1>5, <2>1 DEF Distinct
<1>6. more # <<>>
  BY <1>1, <1>2
<1> QED
  BY <1>1, <1>4, <1>5, <1>6 DEF more

\* What is selected: the sections of the set, in their order.
LEMMA SelectFacts ==
    ASSUME NEW sections \in Seq(Section), NEW chosen
    PROVE  /\ Select(sections, chosen) \in Seq(Section)
           /\ ToSet(Select(sections, chosen)) = ToSet(sections) \cap chosen
           /\ Distinct(sections) => Distinct(Select(sections, chosen))
<1> DEFINE n == Len(sections)
           upto(k) == {sections[i] : i \in 1..k}
<1>1. n \in Nat /\ \A k \in 1..n : sections[k] \in Section
  BY LenProperties, ElementOfSeq
<1>2. PICK f \in [0..n -> Seq(Section)] :
        /\ f[0] = <<>>
        /\ \A k \in 1..n : f[k] = IF sections[k] \in chosen
                                  THEN Append(f[k - 1], sections[k]) ELSE f[k - 1]
        /\ Select(sections, chosen) = f[n]
  BY Selecting
<1> DEFINE P == {k \in 0..n : /\ ToSet(f[k]) = upto(k) \cap chosen
                              /\ Distinct(sections) => Distinct(f[k])}
<1>3. 0 \in P
  <2>1. ToSet(f[0]) = {} /\ Distinct(f[0])
    BY <1>2 DEF ToSet, Distinct
  <2>2. upto(0) = {} /\ 0 \in 0..n
    BY <1>1
  <2> QED
    BY <2>1, <2>2
<1>4. ASSUME NEW k \in 1..n, k - 1 \in P PROVE k \in P
  <2>1. /\ ToSet(f[k - 1]) = upto(k - 1) \cap chosen
        /\ Distinct(sections) => Distinct(f[k - 1])
    BY <1>4
  <2>2. upto(k) = upto(k - 1) \cup {sections[k]}
    BY <1>1
  <2>3. f[k - 1] \in Seq(Section) /\ sections[k] \in Section
    BY <1>1, <1>2
  <2>4. Distinct(sections) => sections[k].heading \notin Headings(f[k - 1])
    <3> SUFFICES ASSUME Distinct(sections), NEW s \in ToSet(f[k - 1])
                 PROVE  s.heading # sections[k].heading
      BY DEF Headings
    <3>1. PICK i \in 1..(k - 1) : s = sections[i]
      BY <2>1
    <3>2. i \in 1..n /\ i # k
      BY <1>1
    <3> QED
      BY <3>1, <3>2 DEF Distinct
  <2> HIDE DEF upto
  <2>5. CASE sections[k] \in chosen
    <3>1. f[k] = Append(f[k - 1], sections[k])
      BY <1>2, <2>5
    <3>2. /\ ToSet(f[k]) = ToSet(f[k - 1]) \cup {sections[k]}
          /\ Distinct(sections) => Distinct(f[k])
      BY <2>1, <2>3, <2>4, <3>1, AppendSet
    <3> QED
      BY <1>1, <2>1, <2>2, <2>5, <3>2
  <2>6. CASE sections[k] \notin chosen
    <3>1. f[k] = f[k - 1]
      BY <1>2, <2>6
    <3> QED
      BY <1>1, <2>1, <2>2, <2>6, <3>1
  <2> QED
    BY <2>5, <2>6
<1> HIDE DEF P, n
<1>5. n \in P
  <2>1. n \in Nat
    BY <1>1
  <2>2. \A k \in 0..n : k \in P
    BY <1>3, <1>4, <2>1, UpTo
  <2> QED
    BY <2>1, <2>2
<1>6. upto(n) = ToSet(sections)
  <2>1. DOMAIN sections = 1..n
    BY LenProperties DEF n
  <2> QED
    BY <2>1 DEF ToSet
<1>7. /\ ToSet(f[n]) = upto(n) \cap chosen
      /\ Distinct(sections) => Distinct(f[n])
  BY <1>5 DEF P
<1> HIDE DEF upto
<1>8. f[n] \in Seq(Section)
  BY <1>1, <1>2
<1>9. Select(sections, chosen) = f[n]
  BY <1>2
<1> QED
  BY <1>6, <1>7, <1>8, <1>9

\* What stays of the log: sections that no item claims.
LEMMA KeptFacts ==
    ASSUME NEW sections \in Seq(Section), NEW claimed, NEW n \in Nat
    PROVE  /\ Kept(sections, claimed, n) \in Seq(Section)
           /\ \A s \in ToSet(Kept(sections, claimed, n)) :
                s \in ToSet(sections) /\ s.heading \notin claimed
           /\ Distinct(sections) => Distinct(Kept(sections, claimed, n))
<1> DEFINE free == Select(sections, {s \in ToSet(sections) : s.heading \notin claimed})
           kept == Kept(sections, claimed, n)
<1>1. /\ free \in Seq(Section)
      /\ \A s \in ToSet(free) : s \in ToSet(sections) /\ s.heading \notin claimed
      /\ Distinct(sections) => Distinct(free)
  BY SelectFacts
<1>2. kept = IF Len(free) <= n THEN free ELSE SubSeq(free, 1, n)
  BY DEF Kept
<1> HIDE DEF free, kept
<1>3. CASE Len(free) <= n
  BY <1>1, <1>2, <1>3 DEF kept
<1>4. CASE ~(Len(free) <= n)
  <2>1. Len(free) \in Nat /\ \A k \in 1..n : k \in 1..Len(free) /\ free[k] \in Section
    <3>1. Len(free) \in Nat /\ \A k \in 1..Len(free) : free[k] \in Section
      BY <1>1, LenProperties, ElementOfSeq
    <3> QED
      BY <1>4, <3>1
  <2>2. /\ kept \in Seq(Section) /\ Len(kept) = n
        /\ \A k \in 1..n : kept[k] = free[k]
    <3> DEFINE sub == SubSeq(free, 1, n)
    <3>1. /\ sub \in Seq(Section)
          /\ Len(sub) = IF 1 <= n THEN n - 1 + 1 ELSE 0
          /\ \A k \in 1..(n - 1 + 1) : sub[k] = free[1 + k - 1]
      <4>1. 1 \in Int /\ n \in Int /\ \A k \in 1..n : free[k] \in Section
        BY <2>1
      <4> QED
        BY <1>1, <4>1, SubSeqProperties
    <3>2. kept = sub
      BY <1>2, <1>4
    <3> HIDE DEF sub
    <3> QED
      BY <3>1, <3>2
  <2>3. \A s \in ToSet(kept) : s \in ToSet(free)
    BY <1>1, <2>1, <2>2, InSet
  <2>4. Distinct(free) => Distinct(kept)
    BY <2>1, <2>2 DEF Distinct
  <2> QED
    BY <1>1, <2>2, <2>3, <2>4 DEF kept
<1> QED
  BY <1>3, <1>4

LEMMA RestFacts ==
    ASSUME NEW sections \in Seq(Section), NEW kept \in Seq(Section)
    PROVE  /\ Rest(sections, kept) \in Seq(Section)
           /\ ToSet(Rest(sections, kept)) = ToSet(sections) \ ToSet(kept)
           /\ Distinct(sections) => Distinct(Rest(sections, kept))
BY SelectFacts DEF Rest

LEMMA PointerFacts ==
    ASSUME ReconcileAssumption, NEW kept \in Seq(Section)
    PROVE  /\ Pointer \in Section
           /\ WithPointer(kept) \in Seq(Section)
           /\ ToSet(kept) \subseteq ToSet(WithPointer(kept))
           /\ ToSet(WithPointer(kept)) \subseteq ToSet(kept) \cup {Pointer}
           /\ Distinct(kept) => Distinct(WithPointer(kept))
<1>1. Pointer \in Section /\ Pointer.heading = "Archived"
  BY DEF Pointer, Section, Heading
<1> QED
  BY <1>1, AppendSet DEF WithPointer

\* An archive keeps what it has, and takes what has a new heading.
LEMMA AppendAllFacts ==
    ASSUME NEW sections \in Seq(Section), NEW away \in Seq(Section)
    PROVE  /\ AppendAll(sections, away) \in Seq(Section)
           /\ ToSet(sections) \subseteq ToSet(AppendAll(sections, away))
           /\ ToSet(AppendAll(sections, away))
                \subseteq ToSet(sections) \cup ToSet(away)
           /\ Headings(away) \subseteq Headings(AppendAll(sections, away))
           /\ Distinct(sections) => Distinct(AppendAll(sections, away))
<1> DEFINE n == Len(away)
<1>1. n \in Nat /\ \A k \in 1..n : away[k] \in Section /\ away[k] \in ToSet(away)
  BY LenProperties, ElementOfSeq, InSet
<1>2. PICK f \in [0..n -> Seq(Section)] :
        /\ f[0] = sections
        /\ \A k \in 1..n : f[k] = AddNew(f[k - 1], away[k])
        /\ AppendAll(sections, away) = f[n]
  BY Growing
<1> HIDE DEF n
<1> DEFINE P == {k \in 0..n :
                   /\ ToSet(sections) \subseteq ToSet(f[k])
                   /\ ToSet(f[k]) \subseteq ToSet(sections) \cup ToSet(away)
                   /\ \A i \in 1..k : away[i].heading \in Headings(f[k])
                   /\ Distinct(sections) => Distinct(f[k])}
<1>3. 0 \in P
  BY <1>1, <1>2
<1>4. ASSUME NEW k \in 1..n, k - 1 \in P PROVE k \in P
  <2>1. /\ ToSet(sections) \subseteq ToSet(f[k - 1])
        /\ ToSet(f[k - 1]) \subseteq ToSet(sections) \cup ToSet(away)
        /\ \A i \in 1..(k - 1) : away[i].heading \in Headings(f[k - 1])
        /\ Distinct(sections) => Distinct(f[k - 1])
    BY <1>4, Zenon
  <2>2. /\ f[k - 1] \in Seq(Section) /\ away[k] \in Section
        /\ f[k] = AddNew(f[k - 1], away[k])
    <3>1. k - 1 \in 0..n
      BY <1>1
    <3> QED
      BY <1>1, <1>2, <3>1
  <2>3. /\ ToSet(f[k - 1]) \subseteq ToSet(f[k])
        /\ ToSet(f[k]) \subseteq ToSet(f[k - 1]) \cup {away[k]}
        /\ away[k].heading \in Headings(f[k])
        /\ Distinct(f[k - 1]) => Distinct(f[k])
    <3>1. CASE away[k].heading \in Headings(f[k - 1])
      BY <2>2, <3>1 DEF AddNew
    <3>2. CASE away[k].heading \notin Headings(f[k - 1])
      <4>1. f[k] = Append(f[k - 1], away[k])
        BY <2>2, <3>2 DEF AddNew
      <4>2. /\ ToSet(f[k]) = ToSet(f[k - 1]) \cup {away[k]}
            /\ Distinct(f[k - 1]) => Distinct(f[k])
        BY <2>2, <3>2, <4>1, AppendSet
      <4> QED
        BY <4>2 DEF Headings
    <3> QED
      BY <3>1, <3>2
  <2>4. \A i \in 1..k : away[i].heading \in Headings(f[k])
    <3>1. Headings(f[k - 1]) \subseteq Headings(f[k])
      BY <2>3 DEF Headings
    <3>2. \A i \in 1..k : i = k \/ i \in 1..(k - 1)
      OBVIOUS
    <3> QED
      BY <2>1, <2>3, <3>1, <3>2
  <2>5. k \in 0..n /\ away[k] \in ToSet(away)
    BY <1>1
  <2> QED
    BY <2>1, <2>3, <2>4, <2>5
<1> HIDE DEF P
<1>5. n \in P
  <2>1. n \in Nat
    BY <1>1
  <2>2. \A k \in 0..n : k \in P
    BY <1>3, <1>4, <2>1, UpTo
  <2> QED
    BY <2>1, <2>2
<1>6. /\ ToSet(sections) \subseteq ToSet(f[n])
      /\ ToSet(f[n]) \subseteq ToSet(sections) \cup ToSet(away)
      /\ \A i \in 1..n : away[i].heading \in Headings(f[n])
      /\ Distinct(sections) => Distinct(f[n])
  BY <1>5 DEF P
<1>7. Headings(away) \subseteq Headings(f[n])
  <2> SUFFICES ASSUME NEW s \in ToSet(away) PROVE s.heading \in Headings(f[n])
    BY DEF Headings
  <2>1. PICK i \in 1..n : s = away[i]
    BY InSet DEF n
  <2> QED
    BY <1>6, <2>1
<1>8. AppendAll(sections, away) = f[n] /\ f[n] \in Seq(Section)
  BY <1>1, <1>2
<1> QED
  BY <1>6, <1>7, <1>8

-----------------------------------------------------------------------------
(* What the actions write. *)

LEMMA Files ==
    ASSUME ReconcileAssumption
    PROVE  /\ \A f \in Source, c \in 0..Days : <<f, c>> \in File
           /\ \A f \in Source : <<f, 0>> \in File
           /\ Source = {"log", "backlog"} /\ 1 \in 1..Days /\ Days \in Nat
BY DEF File, Source, ReconcileAssumption

\* The log with a new section on top.
LEMMA LogText ==
    ASSUME ReconcileAssumption, TypeOK, NEW e \in LogEntry
    PROVE  LET s == Titled(HeadingOf[e], {e})
               old == text[<<"log", 0>>]
           IN  /\ HeadingOf[e] \in Topic /\ s \in Section
               /\ <<s>> \o old \in Seq(Section)
               /\ ToSet(<<s>> \o old) = {s} \cup ToSet(old)
               /\ Distinct(old) /\ s.heading \notin Headings(old)
                    => Distinct(<<s>> \o old)
<1> DEFINE s == Titled(HeadingOf[e], {e})
           old == text[<<"log", 0>>]
           new == <<s>> \o old
<1>1. HeadingOf[e] \in Topic /\ s \in Section
  BY DEF ReconcileAssumption, Titled, Section, Heading, Entry
<1>2. old \in Seq(Section)
  BY Files DEF TypeOK
<1>3. <<s>> \in Seq(Section) /\ Len(<<s>>) = 1 /\ <<s>>[1] = s
  BY <1>1
<1> HIDE DEF s, old
<1>4. /\ new \in Seq(Section) /\ Len(new) = 1 + Len(old)
      /\ \A k \in 1..(1 + Len(old)) :
           new[k] = IF k <= 1 THEN <<s>>[k] ELSE old[k - 1]
  BY <1>2, <1>3, ConcatProperties
<1>5. Len(old) \in Nat
  BY <1>2, LenProperties
<1> HIDE DEF new
<1>6. new[1] = s /\ \A k \in 1..Len(old) : new[k + 1] = old[k]
  BY <1>3, <1>4, <1>5
<1>7. \A k \in 1..Len(new) : k = 1 \/ (k - 1 \in 1..Len(old) /\ new[k] = old[k - 1])
  BY <1>4, <1>5
<1>8. ToSet(new) = {s} \cup ToSet(old)
  <2>1. ToSet(new) \subseteq {s} \cup ToSet(old)
    BY <1>2, <1>4, <1>6, <1>7, InSet
  <2>2. {s} \cup ToSet(old) \subseteq ToSet(new)
    <3>1. \A k \in 1..Len(old) : k + 1 \in 1..Len(new)
      BY <1>4, <1>5
    <3>2. 1 \in 1..Len(new)
      BY <1>4, <1>5
    <3>3. s \in ToSet(new)
      BY <1>4, <1>6, <3>2, InSet
    <3>4. ASSUME NEW t \in ToSet(old) PROVE t \in ToSet(new)
      <4>1. PICK k \in 1..Len(old) : t = old[k]
        BY <1>2, InSet
      <4>2. t = new[k + 1]
        BY <1>6, <4>1
      <4> QED
        BY <1>4, <3>1, <4>2, InSet
    <3> QED
      BY <3>3, <3>4
  <2> QED
    BY <2>1, <2>2
<1>9. ASSUME Distinct(old), s.heading \notin Headings(old) PROVE Distinct(new)
  <2>1. \A k \in 1..Len(old) : old[k].heading # s.heading
    BY <1>2, <1>9, InSet DEF Headings
  <2> SUFFICES ASSUME NEW j \in 1..Len(new), NEW k \in 1..Len(new),
                      new[j].heading = new[k].heading
               PROVE  j = k
    BY DEF Distinct
  <2>2. CASE j = 1 \/ k = 1
    BY <1>6, <1>7, <2>1, <2>2
  <2>3. CASE j # 1 /\ k # 1
    <3>1. j - 1 = k - 1
      BY <1>7, <1>9, <2>3 DEF Distinct
    <3> QED
      BY <1>4, <1>5, <3>1
  <2> QED
    BY <2>2, <2>3
<1> QED
  BY <1>1, <1>4, <1>8, <1>9 DEF s, old, new

\* The backlog with one more item done.
LEMMA CompleteText ==
    ASSUME ReconcileAssumption, TypeOK, NEW e \in DoneEntry, Complete(e)
    PROVE  \E s \in Section :
             LET old == text[<<"backlog", 0>>]
             IN  /\ Edit("backlog", e, <<s>>, Archived("backlog", "Done"))
                 /\ <<s>> \in Seq(Section) /\ Len(<<s>>) = 1
                 /\ ToSet(<<s>>) = {s} /\ s.heading = "Done"
                 /\ old # <<>> =>
                      old[1] \in ToSet(old) /\ s.body = old[1].body \cup {e}
                 /\ old = <<>> => s.body = {e}
<1> DEFINE old == text[<<"backlog", 0>>]
           done == IF old = <<>> THEN Titled("Done", {}) ELSE old[1]
<1>1. PICK m \in BOOLEAN :
        Edit("backlog", e, <<[heading |-> "Done", body |-> done.body \cup {e},
                              marked |-> m]>>,
             Archived("backlog", "Done"))
  BY DEF Complete
<1> DEFINE s == [heading |-> "Done", body |-> done.body \cup {e}, marked |-> m]
<1>2. old \in Seq(Section)
  BY Files DEF TypeOK
<1>3. old # <<>> => old[1] \in ToSet(old) /\ old[1] \in Section
  BY <1>2, EmptySeq, LenProperties, InSet
<1>4. done.body \subseteq Entry
  BY <1>3 DEF Titled, Section
<1>5. s \in Section
  BY <1>4 DEF Section, Heading, Entry
<1>6. /\ s.heading = "Done"
      /\ old # <<>> => s.body = old[1].body \cup {e}
      /\ old = <<>> => s.body = {e}
  BY DEF Titled
<1> HIDE DEF s, old
<1>7. <<s>> \in Seq(Section) /\ Len(<<s>>) = 1 /\ ToSet(<<s>>) = {s}
  BY <1>5 DEF ToSet
<1>8. Edit("backlog", e, <<s>>, Archived("backlog", "Done"))
  BY <1>1 DEF s, old
<1> QED
  BY <1>3, <1>5, <1>6, <1>7, <1>8 DEF old

\* What a prune takes from a source, and what it leaves there.
LEMMA SplitFacts ==
    ASSUME ReconcileAssumption, TypeOK, NEW p \in Pruner,
           NEW sections \in Seq(Section)
    PROVE  LET split == Split(p, sections)
           IN  /\ split \in [away : Seq(Section), kept : Seq(Section)]
               /\ ToSet(split.away) \subseteq ToSet(sections)
               /\ file[p] = "log" \/ plan[p].backlog =>
                    \A s \in ToSet(sections) :
                      s \in ToSet(split.kept) \/ s \in ToSet(split.away)
               /\ \A s \in ToSet(split.kept) :
                    s \in ToSet(sections) \/ s.body = {}
               /\ file[p] # "log" => Headings(split.kept) \subseteq Headings(sections)
               /\ Distinct(sections) => Distinct(split.kept)
<1> DEFINE split == Split(p, sections)
<1>1. file[p] \in Source /\ plan[p].recent \in Nat
  BY DEF TypeOK, Plan, ReconcileAssumption
<1>2. CASE file[p] = "log"
  <2> DEFINE kept == Kept(sections, plan[p].claimed, plan[p].recent)
  <2>1. split = [away |-> Rest(sections, kept), kept |-> WithPointer(kept)]
    BY <1>2 DEF Split, EffectiveRecent
  <2>2. /\ kept \in Seq(Section)
        /\ \A s \in ToSet(kept) : s \in ToSet(sections)
        /\ Distinct(sections) => Distinct(kept)
    BY <1>1, KeptFacts
  <2> HIDE DEF kept
  <2>3. /\ Rest(sections, kept) \in Seq(Section)
        /\ ToSet(Rest(sections, kept)) = ToSet(sections) \ ToSet(kept)
    BY <2>2, RestFacts
  <2>4. /\ WithPointer(kept) \in Seq(Section)
        /\ ToSet(kept) \subseteq ToSet(WithPointer(kept))
        /\ ToSet(WithPointer(kept)) \subseteq ToSet(kept) \cup {Pointer}
        /\ Distinct(kept) => Distinct(WithPointer(kept))
    BY <2>2, PointerFacts
  <2>5. Pointer.body = {}
    BY DEF Pointer
  <2> HIDE DEF split
  <2> QED
    BY <1>2, <2>1, <2>2, <2>3, <2>4, <2>5 DEF split
<1>3. CASE file[p] # "log" /\ ~plan[p].backlog
  <2>1. split = Empty
    BY <1>3 DEF Split
  <2>2. /\ Empty \in [away : Seq(Section), kept : Seq(Section)]
        /\ ToSet(Empty.away) = {} /\ ToSet(Empty.kept) = {}
        /\ Headings(Empty.kept) = {} /\ Distinct(Empty.kept)
    BY DEF Empty, ToSet, Distinct, Headings
  <2> QED
    BY <1>3, <2>1, <2>2
<1>4. CASE file[p] # "log" /\ plan[p].backlog
  <2> DEFINE done == Select(sections, {s \in ToSet(sections) : Completed(s)})
             kept == [k \in DOMAIN sections |->
                        IF Completed(sections[k]) THEN Emptied(sections[k])
                                                  ELSE sections[k]]
  <2>1. split = [away |-> done, kept |-> kept]
    BY <1>4 DEF Split
  <2>2. /\ done \in Seq(Section)
        /\ ToSet(done) = {s \in ToSet(sections) : Completed(s)}
    BY SelectFacts
  <2>3. /\ DOMAIN sections = 1..Len(sections) /\ Len(sections) \in Nat
        /\ \A k \in 1..Len(sections) : sections[k] \in Section
    BY LenProperties, ElementOfSeq
  <2>4. \A s \in Section : /\ Emptied(s) \in Section /\ Emptied(s).body = {}
                           /\ Emptied(s).heading = s.heading
    BY DEF Emptied, Section
  <2>5. /\ kept \in Seq(Section) /\ Len(kept) = Len(sections)
        /\ \A k \in 1..Len(sections) :
             kept[k] = IF Completed(sections[k]) THEN Emptied(sections[k])
                                                 ELSE sections[k]
    <3>1. kept = [k \in 1..Len(sections) |->
                    IF Completed(sections[k]) THEN Emptied(sections[k])
                                              ELSE sections[k]]
      BY <2>3
    <3>2. \A k \in 1..Len(sections) :
            (IF Completed(sections[k]) THEN Emptied(sections[k])
                                       ELSE sections[k]) \in Section
      BY <2>3, <2>4
    <3>3. kept \in Seq(Section)
      BY <2>3, <3>1, <3>2, IsASeq
    <3>4. DOMAIN kept = 1..Len(kept) /\ Len(kept) \in Nat
      BY <3>3, LenProperties
    <3>5. DOMAIN kept = 1..Len(sections)
      BY <3>1
    <3> HIDE DEF kept
    <3>6. Len(kept) = Len(sections)
      <4>1. \A k : k \in 1..Len(kept) <=> k \in 1..Len(sections)
        BY <3>4, <3>5
      <4>2. Len(sections) \in Nat
        BY <2>3
      <4> QED
        BY <3>4, <4>1, <4>2
    <3> QED
      BY <3>1, <3>3, <3>6
  <2> HIDE DEF done, kept
  <2>6. \A s \in ToSet(sections) : s \in ToSet(kept) \/ s \in ToSet(done)
    BY <2>2, <2>5, InSet
  <2>7. \A s \in ToSet(kept) : s \in ToSet(sections) \/ s.body = {}
    BY <2>3, <2>4, <2>5, InSet
  <2>8. \A k \in 1..Len(sections) : kept[k].heading = sections[k].heading
    BY <2>3, <2>4, <2>5
  <2>9. Distinct(sections) => Distinct(kept)
    BY <2>5, <2>8 DEF Distinct
  <2>10. Headings(kept) \subseteq Headings(sections)
    <3> SUFFICES ASSUME NEW s \in ToSet(kept)
                 PROVE  \E r \in ToSet(sections) : s.heading = r.heading
      BY DEF Headings
    <3>1. PICK k \in 1..Len(sections) : s = kept[k]
      BY <2>5, InSet
    <3> QED
      BY <2>8, <3>1, InSet
  <2> QED
    BY <2>1, <2>2, <2>5, <2>6, <2>7, <2>9, <2>10
<1> QED
  BY <1>2, <1>3, <1>4

-----------------------------------------------------------------------------
(* Types. *)

Places == {"idle", "planned", "read", "archive", "trim", "changelog", "scrub"}
            \cup Writing
Flags == settled \in BOOLEAN /\ reused \in BOOLEAN /\ raced \in BOOLEAN
           /\ torn \in BOOLEAN
Held == [away : Seq(Section), kept : Seq(Section)]

\* TypeOK in parts: the files, the processes, and the rest.
FilesOK ==
    /\ text \in [File -> Seq(Section)]
    /\ changelog \in SUBSET (Item \X (1..Days)) /\ shipped \in SUBSET Item
    /\ today \in 1..Days
PrunersOK ==
    /\ pc \in [Pruner -> Places] /\ file \in [Pruner -> Source]
    /\ plan \in [Pruner -> Plan] /\ buffer \in [Pruner -> Held]
    /\ lock \in Pruner \cup {None} /\ stale \in SUBSET Pruner
RestOK ==
    /\ written \in SUBSET Entry /\ moved \in SUBSET Topic
    /\ Flags /\ crashes \in 0..MaxCrashes

LEMMA Parts == TypeOK <=> FilesOK /\ PrunersOK /\ RestOK
<1>1. {settled, reused, raced, torn} \subseteq BOOLEAN <=> Flags
  BY DEF Flags
<1> QED
  BY <1>1 DEF TypeOK, FilesOK, PrunersOK, RestOK, Places, Held

LEMMA PartsNext == TypeOK' <=> FilesOK' /\ PrunersOK' /\ RestOK'
<1>1. {settled', reused', raced', torn'} \subseteq BOOLEAN <=> Flags'
  BY DEF Flags
<1> QED
  BY <1>1 DEF TypeOK, FilesOK, PrunersOK, RestOK, Places, Held

LEMMA NothingInHand ==
    ASSUME ReconcileAssumption
    PROVE  NoPlan \in Plan /\ NoPlan.cutoff = 1 /\ Empty \in Held
<1>1. (CHOOSE n \in Recent : TRUE) \in Recent
  BY DEF ReconcileAssumption
<1>2. <<>> \in Seq(Section)
  OBVIOUS
<1> QED
  BY <1>1, <1>2, Files DEF NoPlan, Plan, Empty, Held

LEMMA TypeInit == ReconcileAssumption /\ Init => TypeOK
<1> SUFFICES ASSUME ReconcileAssumption, Init PROVE TypeOK
  OBVIOUS
<1>1. FilesOK
  <2>1. <<>> \in Seq(Section)
    OBVIOUS
  <2> QED
    BY <2>1, Files DEF Init, FilesOK
<1>2. PrunersOK
  BY NothingInHand, Files DEF Init, PrunersOK, Places
<1>3. RestOK
  <2>1. MaxCrashes \in Nat
    BY DEF ReconcileAssumption
  <2>2. Flags
    BY DEF Init, Flags
  <2>3. written = {} /\ moved = {} /\ crashes = 0
    BY DEF Init
  <2> QED
    BY <2>1, <2>2, <2>3 DEF RestOK
<1> QED
  BY <1>1, <1>2, <1>3, Parts

\* A file that is written with sections.
LEMMA WriteType ==
    ASSUME TypeOK, NEW f \in File, NEW sections \in Seq(Section),
           text' = [text EXCEPT ![f] = sections],
           UNCHANGED <<shipped, today, changelog>>
    PROVE  FilesOK'
BY Parts DEF FilesOK

\* A process that ends.
LEMMA LeaveType ==
    ASSUME ReconcileAssumption, TypeOK, NEW p \in Pruner, Leave(p),
           lock' \in Pruner \cup {None}, stale' \in SUBSET Pruner
    PROVE  PrunersOK'
BY Parts, NothingInHand, Files DEF Leave, PrunersOK, Places

LEMMA TypeStep ==
    ReconcileAssumption /\ TypeOK /\ [Next]_vars => TypeOK'
<1> SUFFICES ASSUME ReconcileAssumption, TypeOK, [Next]_vars
             PROVE  FilesOK' /\ PrunersOK' /\ RestOK'
  BY PartsNext
<1> USE Parts, Files
<1>1. ASSUME NEW f \in Source, NEW e \in Entry, NEW sections \in Seq(Section),
             NEW again, Edit(f, e, sections, again)
      PROVE  FilesOK' /\ PrunersOK' /\ RestOK'
  <2>1. FilesOK'
    BY <1>1, WriteType DEF Edit
  <2>2. PrunersOK'
    BY <1>1 DEF Edit, pruner, PrunersOK, Busy
  <2>3. RestOK'
    BY <1>1 DEF Edit, RestOK, Flags
  <2> QED
    BY <2>1, <2>2, <2>3
<1>2. ASSUME NEW e \in LogEntry, Log(e)
      PROVE  FilesOK' /\ PrunersOK' /\ RestOK'
  <2>1. <<Titled(HeadingOf[e], {e})>> \o text[<<"log", 0>>] \in Seq(Section)
    BY LogText
  <2>2. e \in Entry
    BY DEF Entry
  <2> QED
    BY <1>1, <1>2, <2>1, <2>2 DEF Log
<1>3. ASSUME NEW e \in DoneEntry, Complete(e)
      PROVE  FilesOK' /\ PrunersOK' /\ RestOK'
  <2>1. e \in Entry
    BY DEF Entry
  <2>2. PICK s \in Section :
          /\ Edit("backlog", e, <<s>>, Archived("backlog", "Done"))
          /\ <<s>> \in Seq(Section)
    BY <1>3, CompleteText
  <2> QED
    BY <1>1, <2>1, <2>2
<1>4. ASSUME NEW i \in Item, MarkDone(i)
      PROVE  FilesOK' /\ PrunersOK' /\ RestOK'
  <2>1. FilesOK'
    BY <1>4 DEF MarkDone, FilesOK
  <2>2. PrunersOK'
    BY <1>4 DEF MarkDone, pruner, PrunersOK, Busy
  <2>3. RestOK'
    BY <1>4 DEF MarkDone, RestOK, Flags
  <2> QED
    BY <2>1, <2>2, <2>3
<1>5. ASSUME NEW p \in Pruner, PlanPrune(p)
      PROVE  FilesOK' /\ PrunersOK' /\ RestOK'
  <2>1. PICK n \in Recent :
          LET log == text[<<"log", 0>>]
              claimed == ClaimedIn(log)
          IN  plan' = [plan EXCEPT ![p] =
                [claimed |-> claimed,
                 items |-> {i \in shipped : \E h \in claimed : Claimant(i, h)},
                 backlog |-> /\ shipped # {}
                             /\ HasCompleted(text[<<"backlog", 0>>]),
                 picked |-> Entries(Rest(log, Kept(log, claimed, n))),
                 cutoff |-> Cutoff, recent |-> n]]
    BY <1>5 DEF PlanPrune
  <2>2. ClaimedIn(text[<<"log", 0>>]) \in SUBSET Topic
    BY DEF ClaimedIn, FilesOK, ReconcileAssumption
  <2>3. Entries(Rest(text[<<"log", 0>>],
                     Kept(text[<<"log", 0>>], ClaimedIn(text[<<"log", 0>>]), n)))
          \in SUBSET Entry
    <3> DEFINE log == text[<<"log", 0>>]
               kept == Kept(log, ClaimedIn(log), n)
    <3>1. log \in Seq(Section) /\ n \in Nat
      BY DEF FilesOK, ReconcileAssumption
    <3>2. kept \in Seq(Section)
      BY <3>1, KeptFacts
    <3> HIDE DEF log, kept
    <3>3. Rest(log, kept) \in Seq(Section)
      BY <3>1, <3>2, RestFacts
    <3>4. \A s \in ToSet(Rest(log, kept)) : s.body \in SUBSET Entry
      BY <3>3, InSet DEF Section
    <3>5. Entries(Rest(log, kept)) \in SUBSET Entry
      BY <3>4 DEF Entries
    <3> QED
      BY <3>5 DEF log, kept
  <2>4. plan' \in [Pruner -> Plan]
    <3> DEFINE q == [claimed |-> ClaimedIn(text[<<"log", 0>>]),
                     items |-> {i \in shipped :
                                  \E h \in ClaimedIn(text[<<"log", 0>>]) :
                                     Claimant(i, h)},
                     backlog |-> /\ shipped # {}
                                 /\ HasCompleted(text[<<"backlog", 0>>]),
                     picked |-> Entries(Rest(text[<<"log", 0>>],
                                  Kept(text[<<"log", 0>>],
                                       ClaimedIn(text[<<"log", 0>>]), n))),
                     cutoff |-> Cutoff, recent |-> n]
    <3>1. {i \in shipped : \E h \in ClaimedIn(text[<<"log", 0>>]) :
                              Claimant(i, h)} \in SUBSET Item
      BY DEF FilesOK
    <3>2. (shipped # {} /\ HasCompleted(text[<<"backlog", 0>>])) \in BOOLEAN
      OBVIOUS
    <3>3. Cutoff \in 1..Days
      BY DEF Cutoff, FilesOK
    <3>4. q \in Plan
      BY <2>2, <2>3, <3>1, <3>2, <3>3 DEF Plan
    <3>5. plan' = [plan EXCEPT ![p] = q]
      BY <2>1
    <3> HIDE DEF q
    <3> QED
      BY <3>4, <3>5 DEF PrunersOK
  <2>5. pc' \in [Pruner -> Places]
    BY <1>5 DEF PlanPrune, PrunersOK, Places
  <2>6. PrunersOK'
    BY <1>5, <2>4, <2>5 DEF PlanPrune, PrunersOK
  <2> QED
    BY <1>5, <2>6 DEF PlanPrune, FilesOK, RestOK, Flags
<1>6. ASSUME NEW p \in Pruner, Lock(p)
      PROVE  FilesOK' /\ PrunersOK' /\ RestOK'
  BY <1>6 DEF Lock, FilesOK, PrunersOK, Places, RestOK, Flags
<1>7. ASSUME NEW p \in Pruner, LockHeld(p)
      PROVE  FilesOK' /\ PrunersOK' /\ RestOK'
  <2>1. PrunersOK'
    BY <1>7, LeaveType DEF LockHeld, PrunersOK
  <2> QED
    BY <1>7, <2>1 DEF LockHeld, FilesOK, RestOK, Flags
<1>8. ASSUME NEW p \in Pruner, Read(p)
      PROVE  FilesOK' /\ PrunersOK' /\ RestOK'
  <2> DEFINE split == Split(p, text[<<file[p], 0>>])
  <2>1. split \in Held
    <3>1. text[<<file[p], 0>>] \in Seq(Section)
      BY DEF FilesOK, PrunersOK
    <3> QED
      BY <3>1, SplitFacts DEF Held
  <2>2. IF split.away = <<>>
        THEN NextFile(p, "read", "changelog") /\ UNCHANGED buffer
        ELSE /\ buffer' = [buffer EXCEPT ![p] = split]
             /\ pc' = [pc EXCEPT ![p] = FirstWrite]
             /\ UNCHANGED file
    BY <1>8 DEF Read
  <2> HIDE DEF split
  <2>3. UNCHANGED <<lock, plan, stale>>
    BY <1>8 DEF Read
  <2>4. PrunersOK'
    BY <2>1, <2>2, <2>3 DEF NextFile, FirstWrite, PrunersOK, Places
  <2> QED
    BY <1>8, <2>4 DEF Read, FilesOK, RestOK, Flags
<1>9. ASSUME NEW p \in Pruner, NEW f \in File, NEW sections \in Seq(Section),
             text' = [text EXCEPT ![f] = sections],
             UNCHANGED <<changelog, shipped, today, written, reused, raced,
                         torn, crashes>>,
             moved' \in SUBSET Topic, settled' \in BOOLEAN, PrunersOK'
      PROVE  FilesOK' /\ PrunersOK' /\ RestOK'
  BY <1>9, WriteType DEF RestOK, Flags
<1>10. ASSUME NEW p \in Pruner
       PROVE  /\ <<file[p], 0>> \in File /\ Archive(p) \in File
              /\ buffer[p].away \in Seq(Section) /\ buffer[p].kept \in Seq(Section)
              /\ <<>> \in Seq(Section)
              /\ text[Archive(p)] \in Seq(Section)
              /\ text[<<file[p], 0>>] \in Seq(Section)
              /\ moved \in SUBSET Topic /\ settled \in BOOLEAN
  <2>1. plan[p].cutoff \in 0..Days /\ file[p] \in Source
    BY DEF PrunersOK, Plan
  <2> QED
    BY <2>1 DEF Archive, PrunersOK, FilesOK, Held, RestOK, Flags
<1>11. ASSUME NEW p \in Pruner, OpenArchive(p)
       PROVE  FilesOK' /\ PrunersOK' /\ RestOK'
  <2>1. AppendAll(text[Archive(p)], buffer[p].away) \in Seq(Section)
    BY <1>10, AppendAllFacts
  <2>2. PrunersOK'
    <3>1. buffer' \in [Pruner -> Held]
      <4> DEFINE x == AppendAll(text[Archive(p)], buffer[p].away)
      <4>1. buffer' = [buffer EXCEPT ![p].away = x] /\ x \in Seq(Section)
        BY <1>11, <2>1 DEF OpenArchive
      <4> HIDE DEF x
      <4>2. buffer \in [Pruner -> [away : Seq(Section), kept : Seq(Section)]]
        BY DEF PrunersOK, Held
      <4>3. \A q \in Pruner : buffer'[q] \in Held
        BY <4>1, <4>2 DEF Held
      <4> QED
        BY <4>1, <4>2, <4>3
    <3> QED
      BY <1>11, <3>1 DEF OpenArchive, PrunersOK, Places, Writing
  <2> QED
    BY <1>9, <1>10, <1>11, <2>2 DEF OpenArchive
<1>12. ASSUME NEW p \in Pruner, WriteArchive(p)
       PROVE  FilesOK' /\ PrunersOK' /\ RestOK'
  <2>1. PrunersOK'
    BY <1>12 DEF WriteArchive, PrunersOK, Places
  <2> QED
    BY <1>9, <1>10, <1>12, <2>1 DEF WriteArchive
<1>13. ASSUME NEW p \in Pruner, OpenSource(p)
       PROVE  FilesOK' /\ PrunersOK' /\ RestOK'
  <2>1. PrunersOK'
    BY <1>13 DEF OpenSource, PrunersOK, Places, Writing
  <2> QED
    BY <1>9, <1>10, <1>13, <2>1 DEF OpenSource
<1>14. ASSUME NEW p \in Pruner, WriteSource(p)
       PROVE  FilesOK' /\ PrunersOK' /\ RestOK'
  <2>1. PrunersOK'
    <3>1. stale' \in SUBSET Pruner /\ buffer' \in [Pruner -> Held]
      BY <1>14, NothingInHand DEF WriteSource, PrunersOK, Busy
    <3>2. pc' \in [Pruner -> Places] /\ file' \in [Pruner -> Source]
      BY <1>14 DEF WriteSource, NextFile, PrunersOK, Places
    <3> QED
      BY <1>14, <3>1, <3>2 DEF WriteSource, PrunersOK
  <2>2. moved' \in SUBSET Topic
    BY <1>14 DEF WriteSource, PrunersOK, Plan, RestOK
  <2> QED
    BY <1>9, <1>10, <1>14, <2>1, <2>2 DEF WriteSource
<1>15. ASSUME NEW p \in Pruner, Changelog(p)
       PROVE  FilesOK' /\ PrunersOK' /\ RestOK'
  <2>1. plan[p].items \in SUBSET Item /\ plan[p].cutoff \in 1..Days
    BY DEF PrunersOK, Plan
  <2>2. FilesOK'
    BY <1>15, <2>1 DEF Changelog, FilesOK
  <2>3. PrunersOK'
    BY <1>15 DEF Changelog, PrunersOK, Places
  <2> QED
    BY <1>15, <2>2, <2>3 DEF Changelog, RestOK, Flags
<1>16. ASSUME NEW p \in Pruner, Clean(p)
       PROVE  FilesOK' /\ PrunersOK' /\ RestOK'
  BY <1>16 DEF Clean, NextFile, FilesOK, PrunersOK, Places, RestOK, Flags
<1>17. ASSUME NEW p \in Pruner, OpenScrub(p)
       PROVE  FilesOK' /\ PrunersOK' /\ RestOK'
  <2>1. PrunersOK'
    <3>1. buffer' \in [Pruner -> Held]
      <4> DEFINE x == text[<<file[p], 0>>]
      <4>1. buffer' = [buffer EXCEPT ![p].kept = x] /\ x \in Seq(Section)
        BY <1>10, <1>17 DEF OpenScrub
      <4> HIDE DEF x
      <4>2. buffer \in [Pruner -> [away : Seq(Section), kept : Seq(Section)]]
        BY DEF PrunersOK, Held
      <4>3. \A q \in Pruner : buffer'[q] \in Held
        BY <4>1, <4>2 DEF Held
      <4> QED
        BY <4>1, <4>2, <4>3
    <3> QED
      BY <1>17, <3>1 DEF OpenScrub, PrunersOK, Places, Writing
  <2> QED
    BY <1>9, <1>10, <1>17, <2>1 DEF OpenScrub
<1>18. ASSUME NEW p \in Pruner, WriteScrub(p)
       PROVE  FilesOK' /\ PrunersOK' /\ RestOK'
  <2>1. PrunersOK'
    <3>1. stale' \in SUBSET Pruner /\ buffer' \in [Pruner -> Held]
      BY <1>18, NothingInHand DEF WriteScrub, PrunersOK, Busy
    <3> QED
      BY <1>18, <3>1 DEF WriteScrub, NextFile, PrunersOK, Places
  <2>2. <<"log", 0>> \in File
    OBVIOUS
  <2> QED
    BY <1>9, <1>10, <1>18, <2>1, <2>2 DEF WriteScrub
<1>19. ASSUME NEW p \in Pruner, WriteLastScrub(p)
       PROVE  FilesOK' /\ PrunersOK' /\ RestOK'
  <2>1. PrunersOK'
    BY <1>19, LeaveType DEF WriteLastScrub, Done, Busy
  <2>2. <<"backlog", 0>> \in File
    OBVIOUS
  <2>3. settled' \in BOOLEAN
    BY <1>19 DEF WriteLastScrub, Done
  <2> QED
    BY <1>9, <1>10, <1>19, <2>1, <2>2, <2>3 DEF WriteLastScrub
<1>20. ASSUME NEW p \in Pruner, Release(p)
       PROVE  FilesOK' /\ PrunersOK' /\ RestOK'
  <2>1. PrunersOK'
    BY <1>20, LeaveType DEF Release, Done, PrunersOK
  <2>2. settled' \in BOOLEAN
    BY <1>20 DEF Release, Done
  <2> QED
    BY <1>20, <2>1, <2>2 DEF Release, FilesOK, RestOK, Flags
<1>21. ASSUME NEW p \in Pruner, Crash(p)
       PROVE  FilesOK' /\ PrunersOK' /\ RestOK'
  <2>1. PrunersOK'
    BY <1>21, LeaveType DEF Crash, PrunersOK
  <2>2. torn' \in BOOLEAN /\ crashes' \in 0..MaxCrashes
    BY <1>21 DEF Crash, RestOK, ReconcileAssumption
  <2> QED
    BY <1>21, <2>1, <2>2 DEF Crash, FilesOK, RestOK, Flags
<1>22. ASSUME Day PROVE FilesOK' /\ PrunersOK' /\ RestOK'
  BY <1>22 DEF Day, pruner, FilesOK, PrunersOK, RestOK, Flags
<1>23. CASE UNCHANGED vars
  BY <1>23 DEF vars, pruner, FilesOK, PrunersOK, RestOK, Flags
<1> QED
  BY <1>2, <1>3, <1>4, <1>5, <1>6, <1>7, <1>8, <1>11, <1>12, <1>13, <1>14,
     <1>15, <1>16, <1>17, <1>18, <1>19, <1>20, <1>21, <1>22, <1>23
  DEF Next, Apply

\* The files stay sequences of sections, and a prune goes through its steps.
THEOREM PruneTypeCorrect == Spec => []TypeOK
BY ReconcileAssumption, TypeInit, TypeStep, PTL DEF Spec

-----------------------------------------------------------------------------
(* One prune at a time, and none that writes to the archive of a day to     *)
(* come.                                                                    *)

Working == {"read", "archive", "trim", "changelog", "scrub"} \cup Writing

\* The pruner that is at work is the one that holds the lock.
Serial == \A p \in Pruner : pc[p] \in Working <=> lock = p

LEMMA SerialStep ==
    ReconcileAssumption /\ TypeOK /\ Serial /\ [Next]_vars => Serial'
<1> SUFFICES ASSUME ReconcileAssumption, TypeOK, Serial, [Next]_vars
             PROVE  Serial'
  OBVIOUS
<1>0. pc \in [Pruner -> Places] /\ None \notin Pruner
  BY Parts DEF PrunersOK, ReconcileAssumption
<1>1. ASSUME UNCHANGED <<pc, lock>> PROVE Serial'
  BY <1>1 DEF Serial
<1>2. ASSUME NEW p \in Pruner, pc[p] \in Working, lock' = lock,
             NEW there \in Working, pc' = [pc EXCEPT ![p] = there]
      PROVE  Serial'
  BY <1>0, <1>2 DEF Serial
<1>3. ASSUME NEW p \in Pruner, pc[p] \notin Working, lock' = lock,
             NEW there, there \notin Working, pc' = [pc EXCEPT ![p] = there]
      PROVE  Serial'
  BY <1>0, <1>3 DEF Serial
<1>4. ASSUME NEW p \in Pruner, pc[p] \in Working, lock' = None,
             pc' = [pc EXCEPT ![p] = "idle"]
      PROVE  Serial'
  BY <1>0, <1>4 DEF Serial, Working, Writing
<1>5. ASSUME NEW e \in Entry, Log(e) \/ Complete(e) PROVE Serial'
  BY <1>1, <1>5 DEF Log, Complete, Edit, pruner
<1>6. ASSUME NEW i \in Item, MarkDone(i) PROVE Serial'
  BY <1>1, <1>6 DEF MarkDone, pruner
<1>7. ASSUME NEW p \in Pruner, PlanPrune(p) \/ LockHeld(p) PROVE Serial'
  BY <1>3, <1>7 DEF PlanPrune, LockHeld, Leave, Working, Writing
<1>8. ASSUME NEW p \in Pruner, Lock(p) PROVE Serial'
  BY <1>0, <1>8 DEF Lock, Unlocked, Serial, Working, Writing
<1>9. ASSUME NEW p \in Pruner,
             \/ Read(p) \/ OpenArchive(p) \/ WriteArchive(p) \/ OpenSource(p)
             \/ WriteSource(p) \/ Changelog(p) \/ Clean(p) \/ OpenScrub(p)
             \/ WriteScrub(p)
      PROVE  Serial'
  <2>1. lock' = lock
    BY <1>9 DEF Read, OpenArchive, WriteArchive, OpenSource, WriteSource,
                Changelog, Clean, OpenScrub, WriteScrub
  <2>2. pc[p] \in Working
    BY <1>9 DEF Read, OpenArchive, WriteArchive, OpenSource, WriteSource,
                Changelog, Clean, OpenScrub, WriteScrub, Working, Writing
  <2>3. \E there \in Working : pc' = [pc EXCEPT ![p] = there]
    BY <1>9 DEF Read, OpenArchive, WriteArchive, OpenSource, WriteSource,
                Changelog, Clean, OpenScrub, WriteScrub, NextFile, FirstWrite,
                Working, Writing
  <2> QED
    BY <1>2, <2>1, <2>2, <2>3
<1>10. ASSUME NEW p \in Pruner, WriteLastScrub(p) \/ Release(p) PROVE Serial'
  BY <1>4, <1>10 DEF WriteLastScrub, Release, Done, Leave, Working, Writing
<1>11. ASSUME NEW p \in Pruner, Crash(p) PROVE Serial'
  <2>1. pc' = [pc EXCEPT ![p] = "idle"]
        /\ lock' = IF lock = p THEN None ELSE lock
    BY <1>11 DEF Crash, Leave
  <2> QED
    BY <1>0, <2>1 DEF Serial, Working, Writing
<1>12. ASSUME Day \/ UNCHANGED vars PROVE Serial'
  BY <1>1, <1>12 DEF Day, vars, pruner
<1> QED
  BY <1>5, <1>6, <1>7, <1>8, <1>9, <1>10, <1>11, <1>12
  DEF Next, Apply, Entry

LEMMA SerialHolds == Spec => [](TypeOK /\ Serial)
<1>1. ReconcileAssumption /\ Init => Serial
  BY DEF Init, Serial, Working, Writing, ReconcileAssumption
<1> QED
  BY <1>1, ReconcileAssumption, TypeInit, TypeStep, SerialStep, PTL DEF Spec

-----------------------------------------------------------------------------
(* What is moved for an item comes to the changelog. *)

Noted(h) ==
    \E i \in Item : h \in Claims[i] /\ \E c \in 1..Days : <<i, c>> \in changelog

\* A heading that a plan claims is one of an item of the plan.
Covered ==
    \A p \in Pruner : \A h \in plan[p].claimed :
      \E i \in plan[p].items : h \in Claims[i]

\* Between the move and the changelog the prune still has it in its plan.
Moving == {"read", "archive", "archiving", "trim", "trimming", "changelog"}

RecordInv ==
    /\ Covered
    /\ crashes = 0 =>
         \A h \in moved :
           Noted(h) \/ \E p \in Pruner : pc[p] \in Moving /\ h \in plan[p].claimed

\* Of the items with a keyword in a heading one is the first.
LEMMA FirstClaimant ==
    ASSUME TypeOK, NEW h, \E i \in shipped : h \in Claims[i]
    PROVE  \E i \in shipped : h \in Claims[i] /\ Claimant(i, h)
<1> DEFINE T == {i \in shipped : h \in Claims[i]}
<1>1. T \in SUBSET Nat /\ T # {} /\ shipped \in SUBSET Nat
  BY Parts DEF FilesOK, Item
<1>2. PICK i \in T : \A j \in T : <<j, i>> \notin OpToRel(<, Nat)
  BY <1>1, NatLessThanWellFounded, WFMin
<1>3. \A j \in shipped : j < i => h \notin Claims[j]
  BY <1>1, <1>2 DEF OpToRel
<1> QED
  BY <1>2, <1>3 DEF Claimant

LEMMA RecordStep ==
    ReconcileAssumption /\ TypeOK /\ RecordInv /\ [Next]_vars => RecordInv'
<1> SUFFICES ASSUME ReconcileAssumption, TypeOK, RecordInv, [Next]_vars
             PROVE  RecordInv'
  OBVIOUS
<1>0. /\ pc \in [Pruner -> Places] /\ plan \in [Pruner -> Plan]
      /\ crashes \in Nat
  BY Parts DEF PrunersOK, RestOK
<1>1. ASSUME UNCHANGED <<changelog, moved, plan>>,
             crashes' = crashes \/ crashes' = crashes + 1,
             crashes' = crashes =>
               \A p \in Pruner : pc[p] \in Moving => pc'[p] \in Moving
      PROVE  RecordInv'
  <2>1. Covered'
    BY <1>1 DEF RecordInv, Covered
  <2>2. ASSUME crashes' = 0, NEW h \in moved', ~Noted(h)'
        PROVE  \E q \in Pruner : pc'[q] \in Moving /\ h \in plan'[q].claimed
    <3>1. crashes' = crashes /\ crashes = 0
      BY <1>0, <1>1, <2>2
    <3>2. PICK q \in Pruner : pc[q] \in Moving /\ h \in plan[q].claimed
      BY <1>1, <2>2, <3>1 DEF RecordInv, Noted
    <3> QED
      BY <1>1, <3>1, <3>2
  <2> QED
    BY <2>1, <2>2 DEF RecordInv
<1>2. ASSUME NEW p \in Pruner, Leave(p), UNCHANGED <<changelog, moved>>,
             (crashes' = crashes /\ pc[p] \notin Moving) \/ crashes' = crashes + 1
      PROVE  RecordInv'
  <2>1. /\ \A q \in Pruner \ {p} : plan'[q] = plan[q] /\ pc'[q] = pc[q]
        /\ plan'[p].claimed = {}
    BY <1>0, <1>2 DEF Leave, NoPlan
  <2>2. Covered'
    BY <2>1 DEF RecordInv, Covered
  <2>3. ASSUME crashes' = 0, NEW h \in moved', ~Noted(h)'
        PROVE  \E q \in Pruner : pc'[q] \in Moving /\ h \in plan'[q].claimed
    <3>1. crashes = 0 /\ pc[p] \notin Moving
      BY <1>0, <1>2, <2>3
    <3>2. PICK q \in Pruner : pc[q] \in Moving /\ h \in plan[q].claimed
      BY <1>2, <2>3, <3>1 DEF RecordInv, Noted
    <3> QED
      BY <2>1, <3>1, <3>2
  <2> QED
    BY <2>2, <2>3 DEF RecordInv
<1>3. ASSUME NEW e \in Entry, Log(e) \/ Complete(e) PROVE RecordInv'
  BY <1>1, <1>3 DEF Log, Complete, Edit, pruner
<1>4. ASSUME NEW i \in Item, MarkDone(i) PROVE RecordInv'
  BY <1>1, <1>4 DEF MarkDone, pruner
<1>5. ASSUME NEW p \in Pruner, PlanPrune(p) PROVE RecordInv'
  <2>1. /\ \A q \in Pruner \ {p} : plan'[q] = plan[q] /\ pc'[q] = pc[q]
        /\ plan'[p].claimed = ClaimedIn(text[<<"log", 0>>])
        /\ plan'[p].items = {i \in shipped :
             \E h \in ClaimedIn(text[<<"log", 0>>]) : Claimant(i, h)}
    BY <1>0, <1>5 DEF PlanPrune
  <2>2. \A h \in plan'[p].claimed : \E i \in plan'[p].items : h \in Claims[i]
    <3> SUFFICES ASSUME NEW h \in ClaimedIn(text[<<"log", 0>>])
                 PROVE  \E i \in plan'[p].items : h \in Claims[i]
      BY <2>1
    <3>1. \E i \in shipped : h \in Claims[i]
      BY DEF ClaimedIn
    <3> QED
      BY <2>1, <3>1, FirstClaimant
  <2>3. Covered'
    BY <2>1, <2>2 DEF RecordInv, Covered
  <2>4. /\ UNCHANGED <<changelog, moved, crashes>> /\ pc[p] \notin Moving
    BY <1>5 DEF PlanPrune, Moving
  <2> QED
    BY <2>1, <2>3, <2>4 DEF RecordInv, Noted
<1>6. ASSUME NEW p \in Pruner, Lock(p) PROVE RecordInv'
  BY <1>0, <1>1, <1>6 DEF Lock, Moving
<1>7. ASSUME NEW p \in Pruner, LockHeld(p) PROVE RecordInv'
  BY <1>2, <1>7 DEF LockHeld, Moving
<1>8. ASSUME NEW p \in Pruner,
             Read(p) \/ OpenArchive(p) \/ WriteArchive(p) \/ OpenSource(p)
      PROVE  RecordInv'
  <2>1. UNCHANGED <<changelog, moved, plan, crashes>>
    BY <1>8 DEF Read, OpenArchive, WriteArchive, OpenSource
  <2>2. \A q \in Pruner : pc[q] \in Moving => pc'[q] \in Moving
    BY <1>0, <1>8 DEF Read, OpenArchive, WriteArchive, OpenSource, NextFile,
                      FirstWrite, Moving
  <2> QED
    BY <1>1, <2>1, <2>2
<1>9. ASSUME NEW p \in Pruner, WriteSource(p) PROVE RecordInv'
  <2>1. UNCHANGED <<changelog, plan, crashes>>
        /\ moved' \subseteq moved \cup plan[p].claimed
    BY <1>9 DEF WriteSource
  <2>2. /\ \A q \in Pruner : pc[q] \in Moving => pc'[q] \in Moving
        /\ pc'[p] \in Moving
    BY <1>0, <1>9 DEF WriteSource, NextFile, Moving
  <2> QED
    BY <2>1, <2>2 DEF RecordInv, Covered, Noted
<1>10. ASSUME NEW p \in Pruner, Changelog(p) PROVE RecordInv'
  <2>1. /\ UNCHANGED <<moved, plan, crashes>>
        /\ changelog' = changelog \cup (plan[p].items \X {plan[p].cutoff})
        /\ \A q \in Pruner \ {p} : pc'[q] = pc[q]
    BY <1>0, <1>10 DEF Changelog
  <2>2. plan[p].items \in SUBSET Item /\ plan[p].cutoff \in 1..Days
    BY <1>0 DEF Plan
  <2>3. ASSUME NEW h \in plan[p].claimed PROVE Noted(h)'
    <3>1. PICK i \in plan[p].items : h \in Claims[i]
      BY DEF RecordInv, Covered
    <3>2. <<i, plan[p].cutoff>> \in changelog'
      BY <2>1
    <3> QED
      BY <2>2, <3>1, <3>2 DEF Noted
  <2>4. \A h : Noted(h) => Noted(h)'
    BY <2>1 DEF Noted
  <2>5. Covered'
    BY <2>1 DEF RecordInv, Covered
  <2> QED
    BY <2>1, <2>3, <2>4, <2>5 DEF RecordInv
<1>11. ASSUME NEW p \in Pruner, Clean(p) \/ OpenScrub(p) \/ WriteScrub(p)
       PROVE  RecordInv'
  <2>1. UNCHANGED <<changelog, moved, plan, crashes>>
    BY <1>11 DEF Clean, OpenScrub, WriteScrub
  <2>2. \A q \in Pruner : pc[q] \in Moving => pc'[q] \in Moving
    BY <1>0, <1>11 DEF Clean, OpenScrub, WriteScrub, NextFile, Moving
  <2> QED
    BY <1>1, <2>1, <2>2
<1>12. ASSUME NEW p \in Pruner, WriteLastScrub(p) \/ Release(p) PROVE RecordInv'
  BY <1>2, <1>12 DEF WriteLastScrub, Release, Done, Moving
<1>13. ASSUME NEW p \in Pruner, Crash(p) PROVE RecordInv'
  BY <1>2, <1>13 DEF Crash
<1>14. ASSUME Day \/ UNCHANGED vars PROVE RecordInv'
  BY <1>1, <1>14 DEF Day, vars, pruner
<1> QED
  BY <1>3, <1>4, <1>5, <1>6, <1>7, <1>8, <1>9, <1>10, <1>11, <1>12, <1>13,
     <1>14
  DEF Next, Apply, Entry

\* Unless a prune dies, an item for which history was moved has its line in the
\* changelog when no prune is at work.
THEOREM PruneRecorded == Spec => []Recorded
<1>1. Init => RecordInv
  BY DEF Init, RecordInv, Covered, NoPlan
<1>2. TypeOK /\ Serial /\ RecordInv => Recorded
  BY DEF Serial, RecordInv, Recorded, Noted, Moving, Working, Writing
<1> QED
  BY <1>1, <1>2, ReconcileAssumption, RecordStep, SerialHolds, PTL DEF Spec

-----------------------------------------------------------------------------
(* What a prune finds. *)

LEMMA Here ==
    ASSUME ReconcileAssumption, TypeOK, NEW p \in Pruner
    PROVE  /\ file[p] \in Source /\ plan[p].cutoff \in 1..Days
           /\ plan[p].cutoff \in 0..Days /\ 0 \in 0..Days
           /\ Archive(p) = <<file[p], plan[p].cutoff>> /\ Archive(p) \in File
           /\ <<file[p], 0>> \in File
           /\ text[<<file[p], 0>>] \in Seq(Section)
           /\ text[Archive(p)] \in Seq(Section)
           /\ buffer[p].away \in Seq(Section) /\ buffer[p].kept \in Seq(Section)
<1>1. /\ file[p] \in Source /\ plan[p].cutoff \in 1..Days /\ Days \in Nat
      /\ buffer[p] \in Held
  BY Parts, Files DEF PrunersOK, Plan
<1>2. plan[p].cutoff \in 0..Days /\ 0 \in 0..Days
  BY <1>1
<1> QED
  BY <1>1, <1>2, Parts, Files DEF FilesOK, Archive, Held

-----------------------------------------------------------------------------
(* An archive has each entry once. *)

\* The section has a heading that is right for its entries.
Belongs(f, s) ==
    IF f = "log" THEN \A e \in s.body : e \in LogEntry /\ HeadingOf[e] = s.heading
                 ELSE s.heading = "Done"
AllBelong(f, sections) == \A s \in ToSet(sections) : Belongs(f, s)

\* A prune is between the read and the write of a source.
InFile == {"archive", "archiving", "trim", "trimming", "scrubbing"}

OnceAt(p) ==
    /\ pc[p] \in InFile => AllBelong(file[p], buffer[p].kept)
    /\ pc[p] \in {"archive", "archiving"} => AllBelong(file[p], buffer[p].away)
    /\ pc[p] = "archiving" => Distinct(buffer[p].away)

OnceFiles ==
    /\ \A f \in Source, c \in 0..Days : AllBelong(f, text[<<f, c>>])
    /\ \A f \in Source, c \in 1..Days : Distinct(text[<<f, c>>])

OnceInv == OnceFiles /\ \A p \in Pruner : OnceAt(p)

LEMMA OnceWrite ==
    ASSUME ReconcileAssumption, TypeOK, OnceFiles,
           NEW f \in Source, NEW c \in 0..Days, NEW sections,
           text' = [text EXCEPT ![<<f, c>>] = sections],
           AllBelong(f, sections), c = 0 \/ Distinct(sections)
    PROVE  OnceFiles'
<1>1. ASSUME NEW g \in Source, NEW d \in 0..Days
      PROVE  AllBelong(g, text'[<<g, d>>]) /\ (d # 0 => Distinct(text'[<<g, d>>]))
  <2>1. text'[<<g, d>>] = IF g = f /\ d = c THEN sections ELSE text[<<g, d>>]
    BY Parts, Files DEF FilesOK
  <2>2. d # 0 => d \in 1..Days
    BY Files
  <2>3. AllBelong(g, text[<<g, d>>]) /\ (d # 0 => Distinct(text[<<g, d>>]))
    BY <2>2 DEF OnceFiles
  <2> QED
    BY <2>1, <2>3
<1>2. \A d \in 1..Days : d \in 0..Days /\ d # 0
  BY Files
<1> QED
  BY <1>1, <1>2 DEF OnceFiles

LEMMA OnceStep ==
    ReconcileAssumption /\ TypeOK /\ OnceInv /\ [Next]_vars => OnceInv'
<1> SUFFICES ASSUME ReconcileAssumption, TypeOK, OnceInv, [Next]_vars
             PROVE  OnceInv'
  OBVIOUS
<1>0. pc \in [Pruner -> Places] /\ file \in [Pruner -> Source]
      /\ buffer \in [Pruner -> Held] /\ Days \in Nat
  BY Parts, Files DEF PrunersOK
<1>1. ASSUME UNCHANGED text,
             \A p \in Pruner : \/ pc'[p] \notin InFile
                               \/ UNCHANGED <<pc[p], file[p], buffer[p]>>
      PROVE  OnceInv'
  <2>1. \A p \in Pruner : OnceAt(p)'
    BY <1>1 DEF OnceInv, OnceAt, InFile
  <2> QED
    BY <1>1, <2>1 DEF OnceInv, OnceFiles
<1>2. ASSUME NEW p \in Pruner,
              pc'[p] \notin InFile \/ UNCHANGED <<pc[p], file[p], buffer[p]>>
       PROVE  OnceAt(p)'
  BY <1>2 DEF OnceInv, OnceAt, InFile
<1>3. ASSUME NEW e \in LogEntry, Log(e) PROVE OnceInv'
  <2> DEFINE s == Titled(HeadingOf[e], {e})
             new == <<s>> \o text[<<"log", 0>>]
  <2>1. ToSet(new) = {s} \cup ToSet(text[<<"log", 0>>])
    BY LogText
  <2>2. Belongs("log", s)
    BY DEF Belongs, Titled
  <2>3. text' = [text EXCEPT ![<<"log", 0>>] = new]
        /\ UNCHANGED <<pc, file, buffer>>
    BY <1>3 DEF Log, Edit, pruner
  <2> HIDE DEF s, new
  <2>4. 0 \in 0..Days /\ "log" \in Source
    BY Files, <1>0
  <2>5. AllBelong("log", new)
    BY <2>1, <2>2, <2>4 DEF OnceInv, OnceFiles, AllBelong
  <2>6. OnceFiles'
    BY <2>3, <2>4, <2>5, OnceWrite DEF OnceInv
  <2> QED
    BY <1>2, <2>3, <2>6 DEF OnceInv
<1>4. ASSUME NEW e \in DoneEntry, Complete(e) PROVE OnceInv'
  <2>1. PICK s \in Section :
          /\ Edit("backlog", e, <<s>>, Archived("backlog", "Done"))
          /\ ToSet(<<s>>) = {s} /\ s.heading = "Done"
    BY <1>4, CompleteText
  <2>2. AllBelong("backlog", <<s>>)
    BY <2>1 DEF AllBelong, Belongs
  <2>3. text' = [text EXCEPT ![<<"backlog", 0>>] = <<s>>]
        /\ UNCHANGED <<pc, file, buffer>>
    BY <2>1 DEF Edit, pruner
  <2>4. 0 \in 0..Days /\ "backlog" \in Source
    BY Files, <1>0
  <2>5. OnceFiles'
    BY <2>2, <2>3, <2>4, OnceWrite DEF OnceInv
  <2> QED
    BY <1>2, <2>3, <2>5 DEF OnceInv
<1>5. ASSUME NEW i \in Item, MarkDone(i) PROVE OnceInv'
  BY <1>1, <1>5 DEF MarkDone, pruner
<1>6. ASSUME NEW p \in Pruner,
             PlanPrune(p) \/ Lock(p) \/ Changelog(p) \/ Clean(p)
      PROVE  OnceInv'
  BY <1>0, <1>1, <1>6 DEF PlanPrune, Lock, Changelog, Clean, NextFile, InFile
<1>7. ASSUME NEW p \in Pruner, LockHeld(p) \/ Release(p) \/ Crash(p)
      PROVE  OnceInv'
  BY <1>0, <1>1, <1>7 DEF LockHeld, Release, Crash, Done, Leave, InFile
<1>8. ASSUME NEW p \in Pruner, Read(p) PROVE OnceInv'
  <2> DEFINE sections == text[<<file[p], 0>>]
             split == Split(p, sections)
  <2>1. IF split.away = <<>>
        THEN NextFile(p, "read", "changelog") /\ UNCHANGED buffer
        ELSE /\ buffer' = [buffer EXCEPT ![p] = split]
             /\ pc' = [pc EXCEPT ![p] = "archive"]
             /\ UNCHANGED file
    BY <1>8 DEF Read, FirstWrite
  <2>2. UNCHANGED text
    BY <1>8 DEF Read
  <2>3. CASE split.away = <<>>
    <3> HIDE DEF split
    <3> QED
      BY <1>0, <1>1, <2>1, <2>2, <2>3 DEF NextFile, InFile
  <2>4. CASE split.away # <<>>
    <3>1. sections \in Seq(Section) /\ AllBelong(file[p], sections)
      BY Here DEF OnceInv, OnceFiles
    <3>2. /\ ToSet(split.away) \subseteq ToSet(sections)
          /\ \A s \in ToSet(split.kept) : s \in ToSet(sections) \/ s.body = {}
          /\ file[p] # "log" => Headings(split.kept) \subseteq Headings(sections)
      BY <3>1, SplitFacts
    <3>3. /\ buffer' = [buffer EXCEPT ![p] = split]
          /\ pc' = [pc EXCEPT ![p] = "archive"]
          /\ UNCHANGED file
      BY <2>1, <2>4
    <3> HIDE DEF split, sections
    <3>4. AllBelong(file[p], split.away)
      BY <3>1, <3>2 DEF AllBelong
    <3>5. AllBelong(file[p], split.kept)
      BY <3>1, <3>2 DEF AllBelong, Belongs, Headings
    <3>6. OnceAt(p)'
      BY <1>0, <3>3, <3>4, <3>5 DEF OnceAt
    <3>7. \A q \in Pruner \ {p} : OnceAt(q)'
      BY <1>0, <3>3 DEF OnceInv, OnceAt
    <3> QED
      BY <2>2, <3>6, <3>7 DEF OnceInv, OnceFiles
  <2> QED
    BY <2>3, <2>4
<1>9. ASSUME NEW p \in Pruner, OpenArchive(p) PROVE OnceInv'
  <2> DEFINE old == text[Archive(p)]
             new == AppendAll(old, buffer[p].away)
  <2>1. /\ pc[p] = "archive" /\ UNCHANGED file
        /\ buffer' = [buffer EXCEPT ![p].away = new]
        /\ text' = [text EXCEPT ![<<file[p], plan[p].cutoff>>] = <<>>]
        /\ pc' = [pc EXCEPT ![p] = "archiving"]
    BY <1>9 DEF OpenArchive, Archive
  <2>2. /\ old \in Seq(Section) /\ buffer[p].away \in Seq(Section)
        /\ file[p] \in Source /\ plan[p].cutoff \in 0..Days
        /\ AllBelong(file[p], old) /\ Distinct(old)
    BY Here DEF OnceInv, OnceFiles
  <2>3. /\ ToSet(new) \subseteq ToSet(old) \cup ToSet(buffer[p].away)
        /\ Distinct(new)
    BY <2>2, AppendAllFacts
  <2>4. OnceAt(p)
    BY DEF OnceInv
  <2> HIDE DEF new, old
  <2>5. buffer'[p].away = new /\ buffer'[p].kept = buffer[p].kept
        /\ \A q \in Pruner \ {p} : buffer'[q] = buffer[q]
    BY <1>0, <2>1 DEF Held
  <2>6. AllBelong(file[p], new)
    BY <2>1, <2>2, <2>3, <2>4 DEF OnceAt, AllBelong
  <2>7. OnceAt(p)'
    BY <1>0, <2>1, <2>3, <2>4, <2>5, <2>6 DEF OnceAt, InFile
  <2>8. AllBelong(file[p], <<>>) /\ Distinct(<<>>)
    BY DEF AllBelong, Distinct, ToSet
  <2>9. \A q \in Pruner \ {p} : OnceAt(q)'
    BY <1>0, <1>2, <2>1, <2>5
  <2>10. OnceFiles'
    BY <2>1, <2>2, <2>8, OnceWrite DEF OnceInv
  <2> QED
    BY <2>7, <2>9, <2>10 DEF OnceInv
<1>10. ASSUME NEW p \in Pruner, WriteArchive(p) PROVE OnceInv'
  <2>1. /\ pc[p] = "archiving" /\ UNCHANGED <<file, buffer>>
        /\ text' = [text EXCEPT ![<<file[p], plan[p].cutoff>>] = buffer[p].away]
        /\ pc' = [pc EXCEPT ![p] = "trim"]
    BY <1>10 DEF WriteArchive, Archive
  <2>2. OnceAt(p) /\ file[p] \in Source /\ plan[p].cutoff \in 0..Days
    BY Here DEF OnceInv
  <2>3. OnceAt(p)'
    BY <1>0, <2>1, <2>2 DEF OnceAt, InFile
  <2>4. AllBelong(file[p], buffer[p].away) /\ Distinct(buffer[p].away)
    BY <2>1, <2>2 DEF OnceAt
  <2>5. \A q \in Pruner \ {p} : OnceAt(q)'
    BY <1>0, <1>2, <2>1
  <2>6. OnceFiles'
    BY <2>1, <2>2, <2>4, OnceWrite DEF OnceInv
  <2> QED
    BY <2>3, <2>5, <2>6 DEF OnceInv
<1>11. ASSUME NEW p \in Pruner, OpenSource(p) PROVE OnceInv'
  <2>1. /\ pc[p] = "trim" /\ UNCHANGED <<file, buffer>>
        /\ text' = [text EXCEPT ![<<file[p], 0>>] = <<>>]
        /\ pc' = [pc EXCEPT ![p] = "trimming"]
    BY <1>11 DEF OpenSource
  <2>2. OnceAt(p) /\ file[p] \in Source /\ 0 \in 0..Days
    BY Here DEF OnceInv
  <2>3. OnceAt(p)'
    BY <1>0, <2>1, <2>2 DEF OnceAt, InFile
  <2>4. AllBelong(file[p], <<>>)
    BY DEF AllBelong, ToSet
  <2>5. \A q \in Pruner \ {p} : OnceAt(q)'
    BY <1>0, <1>2, <2>1
  <2>6. OnceFiles'
    BY <2>1, <2>2, <2>4, OnceWrite DEF OnceInv
  <2> QED
    BY <2>3, <2>5, <2>6 DEF OnceInv
<1>12. ASSUME NEW p \in Pruner,
              pc[p] \in InFile, pc'[p] \notin InFile,
              text' = [text EXCEPT ![<<file[p], 0>>] = buffer[p].kept],
              \A q \in Pruner \ {p} : UNCHANGED <<pc[q], file[q], buffer[q]>>
       PROVE  OnceInv'
  <2>1. OnceAt(p) /\ file[p] \in Source /\ 0 \in 0..Days
    BY Here DEF OnceInv
  <2>2. AllBelong(file[p], buffer[p].kept)
    BY <1>12, <2>1 DEF OnceAt
  <2>3. OnceFiles'
    BY <1>12, <2>1, <2>2, OnceWrite DEF OnceInv
  <2>4. \A q \in Pruner : OnceAt(q)'
    BY <1>2, <1>12
  <2> QED
    BY <2>3, <2>4 DEF OnceInv
<1>13. ASSUME NEW p \in Pruner, WriteSource(p) PROVE OnceInv'
  BY <1>0, <1>12, <1>13 DEF WriteSource, NextFile, InFile
<1>14. ASSUME NEW p \in Pruner, OpenScrub(p) PROVE OnceInv'
  <2> DEFINE old == text[<<file[p], 0>>]
  <2>1. /\ UNCHANGED file
        /\ buffer' = [buffer EXCEPT ![p].kept = old]
        /\ text' = [text EXCEPT ![<<file[p], 0>>] = <<>>]
        /\ pc' = [pc EXCEPT ![p] = "scrubbing"]
    BY <1>14 DEF OpenScrub
  <2>2. AllBelong(file[p], old) /\ file[p] \in Source /\ 0 \in 0..Days
    BY Here DEF OnceInv, OnceFiles
  <2> HIDE DEF old
  <2>3. buffer'[p].kept = old /\ \A q \in Pruner \ {p} : buffer'[q] = buffer[q]
    BY <1>0, <2>1 DEF Held
  <2>4. OnceAt(p)'
    BY <1>0, <2>1, <2>2, <2>3 DEF OnceAt, InFile
  <2>5. AllBelong(file[p], <<>>)
    BY DEF AllBelong, ToSet
  <2>6. \A q \in Pruner \ {p} : OnceAt(q)'
    BY <1>0, <1>2, <2>1, <2>3
  <2>7. OnceFiles'
    BY <2>1, <2>2, <2>5, OnceWrite DEF OnceInv
  <2> QED
    BY <2>4, <2>6, <2>7 DEF OnceInv
<1>15. ASSUME NEW p \in Pruner, WriteScrub(p) PROVE OnceInv'
  BY <1>0, <1>12, <1>15 DEF WriteScrub, NextFile, InFile
<1>16. ASSUME NEW p \in Pruner, WriteLastScrub(p) PROVE OnceInv'
  BY <1>0, <1>12, <1>16 DEF WriteLastScrub, Done, Leave, InFile
<1>17. ASSUME Day \/ UNCHANGED vars PROVE OnceInv'
  BY <1>1, <1>17 DEF Day, vars, pruner
<1> QED
  BY <1>3, <1>4, <1>5, <1>6, <1>7, <1>8, <1>9, <1>10, <1>11, <1>13, <1>14,
     <1>15, <1>16, <1>17
  DEF Next, Apply

LEMMA OnceHolds == Spec => []OnceInv
<1>1. ReconcileAssumption /\ Init => OnceInv
  <2> SUFFICES ASSUME ReconcileAssumption, Init PROVE OnceInv
    OBVIOUS
  <2>1. \A f \in Source, c \in 0..Days : text[<<f, c>>] = <<>>
    BY Files DEF Init
  <2>2. \A c \in 1..Days : c \in 0..Days
    BY Files
  <2>3. /\ \A f : AllBelong(f, <<>>)
        /\ Distinct(<<>>)
    BY DEF AllBelong, Distinct, ToSet
  <2>4. \A p \in Pruner : OnceAt(p)
    BY DEF Init, OnceAt, InFile
  <2> QED
    BY <2>1, <2>2, <2>3, <2>4 DEF OnceInv, OnceFiles
<1> QED
  BY <1>1, ReconcileAssumption, OnceStep, TypeInit, TypeStep, PTL DEF Spec

\* An archive has no entry twice, whatever prunes are repeated or overlap.
THEOREM PruneArchivesOnce == Spec => []ArchivedOnce
<1>1. ReconcileAssumption /\ TypeOK /\ OnceInv => ArchivedOnce
  <2> SUFFICES ASSUME ReconcileAssumption, TypeOK, OnceInv,
                      NEW f \in Source, NEW c \in 1..Days,
                      NEW j \in DOMAIN text[<<f, c>>],
                      NEW k \in DOMAIN text[<<f, c>>], j # k
               PROVE  text[<<f, c>>][j].body \cap text[<<f, c>>][k].body = {}
    BY DEF ArchivedOnce
  <2> DEFINE sections == text[<<f, c>>]
  <2>1. c \in 0..Days
    BY Files
  <2>2. sections \in Seq(Section) /\ AllBelong(f, sections) /\ Distinct(sections)
    BY <2>1, Parts, Files DEF OnceInv, OnceFiles, FilesOK
  <2> HIDE DEF sections
  <2>3. j \in 1..Len(sections) /\ k \in 1..Len(sections)
    BY <2>2, LenProperties DEF sections
  <2>4. /\ Belongs(f, sections[j]) /\ Belongs(f, sections[k])
        /\ sections[j].heading # sections[k].heading
    BY <2>2, <2>3, InSet DEF AllBelong, Distinct
  <2>5. sections[j].body \cap sections[k].body = {}
    BY <2>4 DEF Belongs
  <2> QED
    BY <2>5 DEF sections
<1> QED
  BY <1>1, ReconcileAssumption, OnceHolds, PruneTypeCorrect, PTL

-----------------------------------------------------------------------------
(* A plan that nothing has overtaken says what is moved out of the log. *)

TheLog == text[<<"log", 0>>]
Backlog == text[<<"backlog", 0>>]

\* The prune has yet to read the log.
AtLog(p) == pc[p] = "planned" \/ (pc[p] = "read" /\ file[p] = "log")

Picked(p) ==
    Entries(Rest(TheLog, Kept(TheLog, plan[p].claimed, plan[p].recent)))

\* A log that another prune has emptied has nothing that could be moved.
PreviewAt(p) ==
    /\ AtLog(p) /\ TheLog # <<>> => plan[p].picked = Picked(p)
    /\ pc[p] = "archive" /\ file[p] = "log" =>
         Entries(buffer[p].away) \subseteq plan[p].picked

PreviewInv == \A p \in Pruner \ stale : PreviewAt(p)

LEMMA PreviewStep ==
    ReconcileAssumption /\ TypeOK /\ PreviewInv /\ [Next]_vars => PreviewInv'
<1> SUFFICES ASSUME ReconcileAssumption, TypeOK, PreviewInv, [Next]_vars,
                    NEW q \in Pruner, q \notin stale'
             PROVE  PreviewAt(q)'
  BY DEF PreviewInv
<1>0. /\ pc \in [Pruner -> Places] /\ file \in [Pruner -> Source]
      /\ plan \in [Pruner -> Plan] /\ buffer \in [Pruner -> Held]
      /\ <<"log", 0>> \in File
  BY Parts, Files DEF PrunersOK
<1>1. ASSUME q \notin stale, TheLog' \in {TheLog, <<>>},
             UNCHANGED <<plan[q], pc[q], file[q], buffer[q]>>
      PROVE  PreviewAt(q)'
  <2>1. PreviewAt(q)
    BY <1>1 DEF PreviewInv
  <2>2. CASE TheLog' = TheLog
    BY <1>1, <2>1, <2>2 DEF PreviewAt, AtLog, Picked
  <2>3. CASE TheLog' = <<>>
    BY <1>1, <2>1, <2>3 DEF PreviewAt, AtLog
  <2> QED
    BY <1>1, <2>2, <2>3
<1>2. ASSUME pc'[q] \in Places \ {"planned", "read", "archive"} PROVE PreviewAt(q)'
  BY <1>2 DEF PreviewAt, AtLog
<1>3. ASSUME UNCHANGED pruner, stale' = Busy PROVE PreviewAt(q)'
  BY <1>3, <1>0, <1>2 DEF pruner, Busy, Places
<1>4. ASSUME NEW e \in Entry, Log(e) \/ Complete(e) PROVE PreviewAt(q)'
  BY <1>3, <1>4 DEF Log, Complete, Edit
<1>5. ASSUME NEW i \in Item, MarkDone(i) PROVE PreviewAt(q)'
  BY <1>3, <1>5 DEF MarkDone
\* A step of one pruner that writes to no source.
<1>6. ASSUME NEW p \in Pruner, p # q, stale \ {p} \subseteq stale',
             TheLog' \in {TheLog, <<>>},
             \A r \in Pruner \ {p} : UNCHANGED <<plan[r], pc[r], file[r], buffer[r]>>
      PROVE  PreviewAt(q)'
  BY <1>1, <1>6
<1>7. ASSUME NEW p \in Pruner, PlanPrune(p) PROVE PreviewAt(q)'
  <2>1. /\ UNCHANGED <<text, file, buffer, stale>>
        /\ pc' = [pc EXCEPT ![p] = "planned"]
        /\ \A r \in Pruner \ {p} : plan'[r] = plan[r]
    BY <1>0, <1>7 DEF PlanPrune
  <2>2. CASE p = q
    <3>1. PICK n \in Recent :
            /\ plan'[q].claimed = ClaimedIn(TheLog) /\ plan'[q].recent = n
            /\ plan'[q].picked = Entries(Rest(TheLog, Kept(TheLog, ClaimedIn(TheLog), n)))
      BY <1>0, <1>7, <2>2 DEF PlanPrune, TheLog
    <3>2. plan'[q].picked = Picked(q)'
      BY <2>1, <3>1 DEF Picked, TheLog
    <3> QED
      BY <1>0, <2>1, <2>2, <3>2 DEF PreviewAt
  <2>3. CASE p # q
    BY <1>0, <1>6, <2>1, <2>3 DEF TheLog
  <2> QED
    BY <2>2, <2>3
<1>8. ASSUME NEW p \in Pruner, Lock(p) PROVE PreviewAt(q)'
  <2>1. /\ UNCHANGED <<text, plan, buffer, stale>>
        /\ pc[p] = "planned" /\ file' = [file EXCEPT ![p] = "log"]
        /\ \E there \in {"scrub", "read"} : pc' = [pc EXCEPT ![p] = there]
    BY <1>8 DEF Lock
  <2>2. CASE p = q
    <3>1. PreviewAt(q) /\ AtLog(q)
      BY <2>1, <2>2 DEF PreviewInv, AtLog
    <3> QED
      BY <1>0, <2>1, <2>2, <3>1 DEF PreviewAt, AtLog, Picked, TheLog
  <2>3. CASE p # q
    BY <1>0, <1>6, <2>1, <2>3 DEF TheLog
  <2> QED
    BY <2>2, <2>3
<1>9. ASSUME NEW p \in Pruner, Leave(p), stale \ {p} \subseteq stale', UNCHANGED TheLog
      PROVE  PreviewAt(q)'
  <2>1. CASE p = q
    BY <1>0, <1>2, <1>9, <2>1 DEF Leave, Places
  <2>2. CASE p # q
    BY <1>0, <1>6, <1>9, <2>2 DEF Leave
  <2> QED
    BY <2>1, <2>2
<1>10. ASSUME NEW p \in Pruner, LockHeld(p) \/ Release(p) \/ Crash(p)
       PROVE  PreviewAt(q)'
  BY <1>9, <1>10 DEF LockHeld, Release, Done, Crash, TheLog
<1>11. ASSUME NEW p \in Pruner, Read(p) PROVE PreviewAt(q)'
  <2>1. UNCHANGED <<text, plan, stale>> /\ pc[p] = "read"
    BY <1>11 DEF Read
  <2>2. CASE p # q
    BY <1>0, <1>6, <1>11, <2>1, <2>2 DEF Read, NextFile, TheLog
  <2>3. CASE p = q /\ file[q] = "backlog"
    BY <1>0, <1>11, <2>3 DEF Read, NextFile, FirstWrite, PreviewAt, AtLog
  <2>4. CASE p = q /\ file[q] = "log"
    <3> DEFINE kept == Kept(TheLog, plan[q].claimed, plan[q].recent)
               away == Rest(TheLog, kept)
    <3>1. /\ pc' = [pc EXCEPT ![p] = "read"] /\ file' = [file EXCEPT ![p] = "backlog"]
          \/ /\ pc' = [pc EXCEPT ![p] = "archive"]
             /\ buffer'[q].away = away
      BY <1>0, <1>11, <2>4 DEF Read, NextFile, FirstWrite, Split,
                               EffectiveRecent, TheLog
    <3>2. Entries(away) \subseteq plan[q].picked
      <4>1. CASE TheLog # <<>>
        BY <2>1, <2>4, <4>1 DEF PreviewInv, PreviewAt, AtLog, Picked
      <4>2. CASE TheLog = <<>>
        <5>1. TheLog \in Seq(Section) /\ plan[q].recent \in Nat
          BY Parts, <1>0 DEF FilesOK, TheLog, Plan, ReconcileAssumption
        <5>2. kept \in Seq(Section)
          BY <5>1, KeptFacts
        <5> HIDE DEF kept
        <5>3. ToSet(away) = ToSet(TheLog) \ ToSet(kept)
          BY <5>1, <5>2, RestFacts
        <5>4. ToSet(TheLog) = {}
          BY <4>2 DEF ToSet
        <5> QED
          BY <5>3, <5>4 DEF Entries
      <4> QED
        BY <4>1, <4>2
    <3> HIDE DEF away
    <3> QED
      BY <1>0, <2>1, <2>4, <3>1, <3>2 DEF PreviewAt, AtLog
  <2> QED
    BY <1>0, <2>2, <2>3, <2>4, Files
<1>12. ASSUME NEW p \in Pruner, OpenArchive(p) \/ WriteArchive(p)
       PROVE  PreviewAt(q)'
  <2>1. TheLog' = TheLog /\ UNCHANGED <<plan, file, stale>>
    <3>1. Archive(p) # <<"log", 0>>
      <4>1. plan[p].cutoff # 0
        BY <1>0, Files DEF Plan
      <4> QED
        BY <4>1 DEF Archive
    <3> QED
      BY <1>0, <1>12, <3>1, Parts DEF OpenArchive, WriteArchive, TheLog, FilesOK
  <2>2. CASE p = q
    BY <1>0, <1>2, <1>12, <2>2 DEF OpenArchive, WriteArchive, Places, Writing
  <2>3. CASE p # q
    <3>1. \A r \in Pruner \ {p} : pc'[r] = pc[r] /\ buffer'[r] = buffer[r]
      BY <1>0, <1>12 DEF OpenArchive, WriteArchive
    <3> QED
      BY <1>6, <2>1, <2>3, <3>1
  <2> QED
    BY <2>2, <2>3
<1>13. ASSUME NEW p \in Pruner, OpenSource(p) \/ OpenScrub(p)
       PROVE  PreviewAt(q)'
  <2>1. TheLog' \in {TheLog, <<>>} /\ UNCHANGED <<plan, file, stale>>
    BY <1>0, <1>13, Parts DEF OpenSource, OpenScrub, TheLog, FilesOK
  <2>2. CASE p = q
    BY <1>0, <1>2, <1>13, <2>2 DEF OpenSource, OpenScrub, Places, Writing
  <2>3. CASE p # q
    <3>1. \A r \in Pruner \ {p} : pc'[r] = pc[r] /\ buffer'[r] = buffer[r]
      BY <1>0, <1>13 DEF OpenSource, OpenScrub
    <3> QED
      BY <1>6, <2>1, <2>3, <3>1
  <2> QED
    BY <2>2, <2>3
\* What is written to a source overtakes every other plan.
<1>14. ASSUME NEW p \in Pruner, Busy \ {p} \subseteq stale',
              \A r \in Pruner \ {p} : pc'[r] = pc[r],
              pc'[p] \notin {"planned", "archive"},
              pc'[p] = "read" => file'[p] = "backlog"
       PROVE  PreviewAt(q)'
  <2>1. CASE p = q
    BY <1>14, <2>1 DEF PreviewAt, AtLog
  <2>2. CASE p # q
    <3>1. pc'[q] = "idle"
      BY <1>14, <2>2 DEF Busy
    <3> QED
      BY <1>2, <3>1 DEF Places
  <2> QED
    BY <2>1, <2>2
<1>15. ASSUME NEW p \in Pruner, WriteSource(p) PROVE PreviewAt(q)'
  BY <1>0, <1>14, <1>15 DEF WriteSource, NextFile
<1>16. ASSUME NEW p \in Pruner, WriteScrub(p) PROVE PreviewAt(q)'
  BY <1>0, <1>14, <1>16 DEF WriteScrub, NextFile
<1>17. ASSUME NEW p \in Pruner, WriteLastScrub(p) PROVE PreviewAt(q)'
  BY <1>0, <1>14, <1>17 DEF WriteLastScrub, Done, Leave
<1>18. ASSUME NEW p \in Pruner, Changelog(p) \/ Clean(p) PROVE PreviewAt(q)'
  <2>1. CASE p = q
    BY <1>0, <1>2, <1>18, <2>1 DEF Changelog, Clean, NextFile, Places
  <2>2. CASE p # q
    BY <1>0, <1>6, <1>18, <2>2 DEF Changelog, Clean, NextFile, TheLog
  <2> QED
    BY <2>1, <2>2
<1>19. ASSUME Day \/ UNCHANGED vars PROVE PreviewAt(q)'
  BY <1>1, <1>19 DEF Day, vars, pruner, TheLog
<1> QED
  BY <1>4, <1>5, <1>7, <1>8, <1>10, <1>11, <1>12, <1>13, <1>15, <1>16, <1>17,
     <1>18, <1>19
  DEF Next, Apply, Entry

\* Out of the log a prune whose plan nothing has overtaken takes only what the
\* plan has shown.
THEOREM PruneHonoursPreview == Spec => []PreviewHonoured
<1>1. Init => PreviewInv
  BY DEF Init, PreviewInv, PreviewAt, AtLog
<1>2. PreviewInv => PreviewHonoured
  BY DEF PreviewInv, PreviewAt, PreviewHonoured
<1> QED
  BY <1>1, <1>2, ReconcileAssumption, PreviewStep, TypeInit, TypeStep, PTL DEF Spec

-----------------------------------------------------------------------------
(* After a prune there is nothing to prune. *)

\* What the items S claim of the sections of the log, and what the backlog
\* must not have left.
Claiming(sections, S) == {h \in Headings(sections) : \E i \in S : h \in Claims[i]}
Finished(sections, S) == S # {} => ~HasCompleted(sections)

\* The prune is done with both sources.
Swept == {"changelog", "scrub", "scrubbing"}

\* What a prune is about to write back has nothing left to prune.
KeptClean(p) ==
    pc[p] \in InFile =>
      IF file[p] = "log" THEN Claiming(buffer[p].kept, shipped) = {}
                         ELSE Finished(buffer[p].kept, shipped)

RerunAt(p) ==
    /\ AtLog(p) => Claiming(TheLog, shipped) \subseteq plan[p].claimed
    /\ pc[p] \notin Swept \cup {"idle"} /\ ~plan[p].backlog =>
         Finished(Backlog, shipped)
    /\ pc[p] \in Swept \/ (pc[p] \in Working /\ file[p] = "backlog") =>
         Claiming(TheLog, shipped) = {}
    /\ pc[p] \in Swept => Finished(Backlog, shipped)
    /\ KeptClean(p)

Settled ==
    settled => /\ Claiming(TheLog, shipped) = {} /\ Finished(Backlog, shipped)
               /\ \A p \in Pruner : KeptClean(p)

RerunInv == Settled /\ \A p \in Pruner \ stale : RerunAt(p)

LEMMA Nothing ==
    /\ \A S : Claiming(<<>>, S) = {} /\ Finished(<<>>, S)
    /\ \A sections : ClaimedIn(sections) = Claiming(sections, shipped)
BY DEF Claiming, ClaimedIn, Headings, ToSet, Finished, HasCompleted

\* A prune whose plan has every claim leaves nothing to prune.
LEMMA SplitClean ==
    ASSUME ReconcileAssumption, TypeOK, NEW p \in Pruner,
           NEW sections \in Seq(Section)
    PROVE  LET split == Split(p, sections)
           IN  /\ file[p] = "log"
                  /\ Claiming(sections, shipped) \subseteq plan[p].claimed =>
                    /\ Claiming(split.kept, shipped) = {}
                    /\ split.away = <<>> => Claiming(sections, shipped) = {}
               /\ file[p] = "backlog" /\ plan[p].backlog =>
                    /\ ~HasCompleted(split.kept)
                    /\ split.away = <<>> => ~HasCompleted(sections)
               /\ file[p] = "backlog" /\ ~plan[p].backlog => split.away = <<>>
<1> DEFINE split == Split(p, sections)
<1>0. /\ file[p] \in Source /\ plan[p].recent \in Nat
      /\ plan[p].claimed \in SUBSET Topic /\ ToSet(<<>>) = {}
  <2>1. ToSet(<<>>) = {}
    BY DEF ToSet
  <2> QED
    BY <2>1, Parts DEF PrunersOK, Plan, ReconcileAssumption
<1>1. ASSUME file[p] = "log", Claiming(sections, shipped) \subseteq plan[p].claimed
      PROVE  /\ Claiming(split.kept, shipped) = {}
             /\ split.away = <<>> => Claiming(sections, shipped) = {}
  <2> DEFINE kept == Kept(sections, plan[p].claimed, plan[p].recent)
  <2>1. split = [away |-> Rest(sections, kept), kept |-> WithPointer(kept)]
    BY <1>1 DEF Split, EffectiveRecent
  <2>2. /\ kept \in Seq(Section)
        /\ \A s \in ToSet(kept) :
             s \in ToSet(sections) /\ s.heading \notin plan[p].claimed
    BY <1>0, KeptFacts
  <2> HIDE DEF kept
  <2>3. /\ ToSet(Rest(sections, kept)) = ToSet(sections) \ ToSet(kept)
        /\ ToSet(WithPointer(kept)) \subseteq ToSet(kept) \cup {Pointer}
    BY <2>2, RestFacts, PointerFacts
  <2>4. \A i \in shipped : Claims[i] \subseteq Topic
    BY Parts DEF FilesOK, ReconcileAssumption
  <2>5. Pointer.heading \notin Topic
    BY DEF Pointer, ReconcileAssumption
  <2>6. \A s \in ToSet(kept) : s.heading \notin Claiming(sections, shipped)
    BY <1>1, <2>2
  <2>7. \A s \in ToSet(kept) \cup {Pointer} :
          \A i \in shipped : s.heading \notin Claims[i]
    BY <2>2, <2>4, <2>5, <2>6 DEF Claiming, Headings
  <2> HIDE DEF split
  <2>8. Claiming(split.kept, shipped) = {}
    BY <2>1, <2>3, <2>7 DEF Claiming, Headings
  <2>9. ASSUME split.away = <<>> PROVE Claiming(sections, shipped) = {}
    <3>1. ToSet(sections) \subseteq ToSet(kept)
      BY <1>0, <2>1, <2>3, <2>9
    <3> QED
      BY <2>7, <3>1 DEF Claiming, Headings
  <2> QED
    BY <2>8, <2>9
<1>2. ASSUME file[p] = "backlog", plan[p].backlog
      PROVE  /\ ~HasCompleted(split.kept)
             /\ split.away = <<>> => ~HasCompleted(sections)
  <2> DEFINE done == Select(sections, {s \in ToSet(sections) : Completed(s)})
             kept == [k \in DOMAIN sections |->
                        IF Completed(sections[k]) THEN Emptied(sections[k])
                                                  ELSE sections[k]]
  <2>1. split = [away |-> done, kept |-> kept]
    BY <1>2 DEF Split
  <2>2. ToSet(done) = {s \in ToSet(sections) : Completed(s)}
    BY SelectFacts
  <2>3. \A s : ~Completed(Emptied(s))
    BY DEF Completed, Emptied
  <2>4. \A s \in ToSet(kept) : ~Completed(s)
    BY <2>3 DEF ToSet
  <2> HIDE DEF done, kept, split
  <2> QED
    BY <1>0, <2>1, <2>2, <2>4 DEF HasCompleted
<1>3. ASSUME file[p] = "backlog", ~plan[p].backlog PROVE split.away = <<>>
  BY <1>3 DEF Split, Empty
<1> HIDE DEF split
<1> QED
  BY <1>1, <1>2, <1>3 DEF split

\* What a write to an archive, or to a source, changes.
LEMMA ArchiveWrite ==
    ASSUME ReconcileAssumption, TypeOK, NEW p \in Pruner, NEW sections,
           text' = [text EXCEPT ![Archive(p)] = sections]
    PROVE  TheLog' = TheLog /\ Backlog' = Backlog
<1>1. Archive(p) # <<"log", 0>> /\ Archive(p) # <<"backlog", 0>>
  <2>1. plan[p].cutoff # 0
    BY Parts, Files DEF PrunersOK, Plan
  <2> QED
    BY <2>1 DEF Archive
<1> QED
  BY <1>1, Parts, Files DEF TheLog, Backlog, FilesOK

LEMMA SourceWrite ==
    ASSUME ReconcileAssumption, TypeOK, NEW f \in Source, NEW sections,
           text' = [text EXCEPT ![<<f, 0>>] = sections]
    PROVE  /\ f = "log" => TheLog' = sections /\ Backlog' = Backlog
           /\ f = "backlog" => TheLog' = TheLog /\ Backlog' = sections
BY Parts, Files DEF TheLog, Backlog, FilesOK

LEMMA RerunAtStep ==
    ReconcileAssumption /\ TypeOK /\ RerunInv /\ [Next]_vars
      => \A q \in Pruner \ stale' : RerunAt(q)'
<1> SUFFICES ASSUME ReconcileAssumption, TypeOK, RerunInv, [Next]_vars,
                    NEW q \in Pruner, q \notin stale'
             PROVE  RerunAt(q)'
  OBVIOUS
<1>0. /\ pc \in [Pruner -> Places] /\ file \in [Pruner -> Source]
      /\ plan \in [Pruner -> Plan] /\ buffer \in [Pruner -> Held]
      /\ Source = {"log", "backlog"}
  BY Parts, Files DEF PrunersOK
<1>1. ASSUME q \notin stale, TheLog' \in {TheLog, <<>>},
             Backlog' \in {Backlog, <<>>}, UNCHANGED shipped,
             UNCHANGED <<plan[q], pc[q], file[q], buffer[q]>>
      PROVE  RerunAt(q)'
  <2>1. RerunAt(q)
    BY <1>1 DEF RerunInv
  <2>2. Claiming(TheLog', shipped') \in {Claiming(TheLog, shipped), {}}
    BY <1>1, Nothing
  <2>3. Finished(Backlog, shipped) => Finished(Backlog', shipped')
    BY <1>1, Nothing
  <2>4. KeptClean(q)'
    BY <1>1, <2>1 DEF RerunAt, KeptClean
  <2> QED
    BY <1>1, <2>1, <2>2, <2>3, <2>4 DEF RerunAt, AtLog
<1>2. ASSUME pc'[q] = "idle" PROVE RerunAt(q)'
  BY <1>2 DEF RerunAt, KeptClean, AtLog, Swept, Working, Writing, InFile
<1>3. ASSUME UNCHANGED pruner, stale' = Busy PROVE RerunAt(q)'
  BY <1>3, <1>0, <1>2 DEF pruner, Busy
<1>4. ASSUME NEW e \in Entry, Log(e) \/ Complete(e) PROVE RerunAt(q)'
  BY <1>3, <1>4 DEF Log, Complete, Edit
<1>5. ASSUME NEW i \in Item, MarkDone(i) PROVE RerunAt(q)'
  BY <1>3, <1>5 DEF MarkDone
<1>6. ASSUME NEW p \in Pruner, p # q, stale \ {p} \subseteq stale',
             TheLog' \in {TheLog, <<>>}, Backlog' \in {Backlog, <<>>},
             UNCHANGED shipped,
             \A r \in Pruner \ {p} : UNCHANGED <<plan[r], pc[r], file[r], buffer[r]>>
      PROVE  RerunAt(q)'
  BY <1>1, <1>6
<1>7. ASSUME NEW p \in Pruner, PlanPrune(p) PROVE RerunAt(q)'
  <2>1. /\ UNCHANGED <<text, shipped, file, buffer, stale>>
        /\ pc' = [pc EXCEPT ![p] = "planned"]
        /\ \A r \in Pruner \ {p} : plan'[r] = plan[r]
    BY <1>0, <1>7 DEF PlanPrune
  <2>2. CASE p = q
    <3>1. /\ plan'[q].claimed = ClaimedIn(TheLog)
          /\ ~plan'[q].backlog => ~(shipped # {} /\ HasCompleted(Backlog))
      <4> DEFINE due == shipped # {} /\ HasCompleted(Backlog)
      <4>1. \E items, picked, cutoff, n :
              plan' = [plan EXCEPT ![q] =
                [claimed |-> ClaimedIn(TheLog), items |-> items, backlog |-> due,
                 picked |-> picked, cutoff |-> cutoff, recent |-> n]]
        BY <1>7, <2>2 DEF PlanPrune, TheLog, Backlog
      <4> HIDE DEF due
      <4>2. plan'[q].claimed = ClaimedIn(TheLog) /\ plan'[q].backlog = due
        BY <1>0, <4>1
      <4> QED
        BY <4>2, Zenon DEF due
    <3>2. UNCHANGED <<TheLog, Backlog>> /\ pc'[q] = "planned"
      BY <1>0, <2>1, <2>2 DEF TheLog, Backlog
    <3>3. ClaimedIn(TheLog) = Claiming(TheLog, shipped)
      BY Nothing
    <3>4. KeptClean(q)'
      BY <3>2 DEF KeptClean, InFile
    <3>5. /\ Claiming(TheLog', shipped') \subseteq plan'[q].claimed
          /\ ~plan'[q].backlog => Finished(Backlog', shipped')
      BY <2>1, <3>1, <3>2, <3>3 DEF Finished
    <3> QED
      BY <3>2, <3>4, <3>5 DEF RerunAt, Swept, Working, Writing
  <2>3. CASE p # q
    BY <1>0, <1>6, <2>1, <2>3 DEF TheLog, Backlog
  <2> QED
    BY <2>2, <2>3
<1>8. ASSUME NEW p \in Pruner, Lock(p) PROVE RerunAt(q)'
  <2>1. /\ UNCHANGED <<text, shipped, plan, buffer, stale>>
        /\ pc[p] = "planned" /\ file' = [file EXCEPT ![p] = "log"]
        /\ pc' = [pc EXCEPT ![p] = IF NothingToMove(plan[p]) THEN "scrub"
                                                             ELSE "read"]
    BY <1>8 DEF Lock
  <2>2. CASE p = q
    <3>1. RerunAt(q) /\ AtLog(q) /\ pc[q] \notin Swept \cup {"idle"}
      BY <2>1, <2>2 DEF RerunInv, AtLog, Swept
    <3>2. UNCHANGED <<TheLog, Backlog, plan, shipped>> /\ file'[q] = "log"
      BY <1>0, <2>1, <2>2 DEF TheLog, Backlog
    <3>3. pc'[q] \in {"scrub", "read"}
          /\ (pc'[q] = "scrub" => plan[q].claimed = {} /\ ~plan[q].backlog)
      BY <1>0, <2>1, <2>2 DEF NothingToMove
    <3>4. KeptClean(q)'
      BY <3>3 DEF KeptClean, InFile
    <3>5. /\ Claiming(TheLog, shipped) \subseteq plan[q].claimed
          /\ ~plan[q].backlog => Finished(Backlog, shipped)
      BY <3>1 DEF RerunAt
    <3>6. CASE pc'[q] = "scrub"
      BY <3>2, <3>3, <3>4, <3>5, <3>6 DEF RerunAt, AtLog, Swept
    <3>7. CASE pc'[q] = "read"
      BY <3>2, <3>4, <3>5, <3>7 DEF RerunAt, Swept
    <3> QED
      BY <3>3, <3>6, <3>7
  <2>3. CASE p # q
    BY <1>0, <1>6, <2>1, <2>3 DEF TheLog, Backlog
  <2> QED
    BY <2>2, <2>3
<1>9. ASSUME NEW p \in Pruner, Leave(p), stale \ {p} \subseteq stale',
             UNCHANGED <<TheLog, Backlog, shipped>>
      PROVE  RerunAt(q)'
  <2>1. CASE p = q
    BY <1>0, <1>2, <1>9, <2>1 DEF Leave
  <2>2. CASE p # q
    BY <1>0, <1>6, <1>9, <2>2 DEF Leave
  <2> QED
    BY <2>1, <2>2
<1>10. ASSUME NEW p \in Pruner, LockHeld(p) \/ Release(p) \/ Crash(p)
       PROVE  RerunAt(q)'
  BY <1>9, <1>10 DEF LockHeld, Release, Done, Crash, TheLog, Backlog
<1>11. ASSUME NEW p \in Pruner, Read(p) PROVE RerunAt(q)'
  <2>1. UNCHANGED <<text, shipped, plan, stale>> /\ pc[p] = "read"
    BY <1>11 DEF Read
  <2>2. CASE p # q
    BY <1>0, <1>6, <1>11, <2>1, <2>2 DEF Read, NextFile, TheLog, Backlog
  <2>3. CASE p = q
    <3> DEFINE sections == text[<<file[q], 0>>]
               split == Split(q, sections)
    <3>1. /\ split.away = <<>>
          /\ file[q] = "log" => file'[q] = "backlog" /\ pc'[q] = "read"
          /\ file[q] = "backlog" => file'[q] = "log" /\ pc'[q] = "changelog"
          \/ /\ split.away # <<>> /\ buffer'[q] = split
             /\ pc'[q] = "archive" /\ file'[q] = file[q]
      BY <1>0, <1>11, <2>3 DEF Read, NextFile, FirstWrite
    <3>2. sections \in Seq(Section)
      BY Here
    <3>3. RerunAt(q) /\ pc[q] \notin Swept \cup {"idle"} /\ pc[q] \in Working
      BY <2>1, <2>3 DEF RerunInv, Swept, Working
    <3>4. UNCHANGED <<TheLog, Backlog, plan, shipped>>
          /\ sections = IF file[q] = "log" THEN TheLog ELSE Backlog
      BY <1>0, <2>1 DEF TheLog, Backlog
    <3>5. CASE file[q] = "log"
      <4>1. /\ Claiming(split.kept, shipped) = {}
            /\ split.away = <<>> => Claiming(TheLog, shipped) = {}
        <5>1. Claiming(sections, shipped) \subseteq plan[q].claimed
          BY <2>1, <2>3, <3>3, <3>4, <3>5 DEF RerunAt, AtLog
        <5> QED
          BY <3>2, <3>4, <3>5, <5>1, SplitClean
      <4>2. ~plan[q].backlog => Finished(Backlog, shipped)
        BY <3>3 DEF RerunAt
      <4> HIDE DEF split, sections
      <4>3. KeptClean(q)'
        BY <3>1, <3>4, <3>5, <4>1 DEF KeptClean, InFile
      <4> QED
        BY <3>1, <3>4, <3>5, <4>1, <4>2, <4>3 DEF RerunAt, AtLog, Swept
    <3>6. CASE file[q] = "backlog"
      <4>1. /\ plan[q].backlog =>
                 /\ ~HasCompleted(split.kept)
                 /\ split.away = <<>> => ~HasCompleted(Backlog)
            /\ ~plan[q].backlog => split.away = <<>>
        BY <3>2, <3>4, <3>6, SplitClean
      <4>2. /\ ~plan[q].backlog => Finished(Backlog, shipped)
            /\ Claiming(TheLog, shipped) = {}
        BY <3>3, <3>6 DEF RerunAt
      <4> HIDE DEF split, sections
      <4>3. KeptClean(q)'
        BY <3>1, <3>4, <3>6, <4>1 DEF KeptClean, InFile, Finished
      <4> QED
        BY <3>1, <3>4, <3>6, <4>1, <4>2, <4>3 DEF RerunAt, AtLog, Swept, Finished
    <3> QED
      BY <1>0, <3>5, <3>6
  <2> QED
    BY <2>2, <2>3
\* A step on an archive, or on a source that is written by and by.
<1>12. ASSUME NEW p \in Pruner, UNCHANGED <<plan, file, shipped, stale>>,
              TheLog' \in {TheLog, <<>>}, Backlog' \in {Backlog, <<>>},
              \A r \in Pruner \ {p} : pc'[r] = pc[r] /\ buffer'[r] = buffer[r],
              pc[p] \in {"archive", "archiving", "trim"},
              pc'[p] \in {"archiving", "trim", "trimming"},
              buffer'[p].kept = buffer[p].kept
       PROVE  RerunAt(q)'
  <2>1. CASE p # q
    BY <1>6, <1>12, <2>1
  <2>2. CASE p = q
    <3>1. RerunAt(q)
      BY <1>12, <2>2 DEF RerunInv
    <3>2. KeptClean(q)'
      BY <1>12, <2>2, <3>1 DEF RerunAt, KeptClean, InFile
    <3>3. /\ Claiming(TheLog', shipped') \in {Claiming(TheLog, shipped), {}}
          /\ Finished(Backlog, shipped) => Finished(Backlog', shipped')
      BY <1>12, Nothing
    <3>4. pc[q] \notin Swept \cup {"idle"} /\ pc[q] \in Working /\ ~AtLog(q)'
          /\ pc'[q] \notin Swept
      BY <1>12, <2>2 DEF Swept, Working, Writing, AtLog
    <3> QED
      BY <1>12, <2>2, <3>1, <3>2, <3>3, <3>4 DEF RerunAt
  <2> QED
    BY <2>1, <2>2
<1>13. ASSUME NEW p \in Pruner, OpenArchive(p) PROVE RerunAt(q)'
  <2> DEFINE new == AppendAll(text[Archive(p)], buffer[p].away)
  <2>1. buffer' = [buffer EXCEPT ![p].away = new]
    BY <1>13 DEF OpenArchive
  <2> HIDE DEF new
  <2>2. /\ \A r \in Pruner \ {p} : buffer'[r] = buffer[r]
        /\ buffer'[p].kept = buffer[p].kept
    BY <1>0, <2>1 DEF Held
  <2>3. TheLog' = TheLog /\ Backlog' = Backlog
    BY <1>13, ArchiveWrite DEF OpenArchive
  <2>4. /\ UNCHANGED <<plan, file, shipped, stale>>
        /\ pc[p] = "archive" /\ pc' = [pc EXCEPT ![p] = "archiving"]
    BY <1>13 DEF OpenArchive
  <2> QED
    BY <1>0, <1>12, <2>2, <2>3, <2>4
<1>14. ASSUME NEW p \in Pruner, WriteArchive(p) PROVE RerunAt(q)'
  <2>1. TheLog' = TheLog /\ Backlog' = Backlog
    BY <1>14, ArchiveWrite DEF WriteArchive
  <2> QED
    BY <1>0, <1>12, <1>14, <2>1 DEF WriteArchive
<1>15. ASSUME NEW p \in Pruner, OpenSource(p) PROVE RerunAt(q)'
  <2>1. TheLog' \in {TheLog, <<>>} /\ Backlog' \in {Backlog, <<>>}
    BY <1>0, <1>15, SourceWrite DEF OpenSource
  <2> QED
    BY <1>0, <1>12, <1>15, <2>1 DEF OpenSource
<1>16. ASSUME NEW p \in Pruner, WriteSource(p) PROVE RerunAt(q)'
  <2>1. /\ text' = [text EXCEPT ![<<file[p], 0>>] = buffer[p].kept]
        /\ stale' = stale \cup (Busy \ {p}) /\ UNCHANGED <<plan, shipped>>
        /\ pc[p] = "trimming"
        /\ \A r \in Pruner \ {p} : pc'[r] = pc[r]
        /\ file[p] = "log" => pc'[p] = "read" /\ file'[p] = "backlog"
        /\ file[p] = "backlog" => pc'[p] = "changelog" /\ file'[p] = "log"
    BY <1>0, <1>16 DEF WriteSource, NextFile
  <2>2. CASE p # q
    BY <1>2, <2>1, <2>2 DEF Busy
  <2>3. CASE p = q
    <3>1. RerunAt(q) /\ pc[q] \in Working \cap InFile /\ pc[q] \notin Swept
      BY <2>1, <2>3 DEF RerunInv, Working, Writing, InFile, Swept
    <3>2. KeptClean(q)'
      BY <1>0, <2>1, <2>3 DEF KeptClean, InFile
    <3>3. CASE file[q] = "log"
      <4>1. TheLog' = buffer[q].kept /\ Backlog' = Backlog
        BY <1>0, <2>1, <2>3, <3>3, SourceWrite
      <4>2. Claiming(TheLog', shipped') = {}
        BY <2>1, <3>1, <3>3, <4>1 DEF RerunAt, KeptClean
      <4> QED
        BY <2>1, <2>3, <3>1, <3>2, <3>3, <4>1, <4>2 DEF RerunAt, AtLog, Swept
    <3>4. CASE file[q] = "backlog"
      <4>1. TheLog' = TheLog /\ Backlog' = buffer[q].kept
        BY <1>0, <2>1, <2>3, <3>4, SourceWrite
      <4>2. Claiming(TheLog', shipped') = {} /\ Finished(Backlog', shipped')
        BY <2>1, <3>1, <3>4, <4>1 DEF RerunAt, KeptClean
      <4> QED
        BY <2>1, <2>3, <3>1, <3>2, <3>4, <4>1, <4>2 DEF RerunAt, AtLog, Swept
    <3> QED
      BY <1>0, <3>3, <3>4
  <2> QED
    BY <2>2, <2>3
<1>17. ASSUME NEW p \in Pruner, Changelog(p) \/ Clean(p) PROVE RerunAt(q)'
  <2>1. CASE p # q
    BY <1>0, <1>6, <1>17, <2>1 DEF Changelog, Clean, NextFile, TheLog, Backlog
  <2>2. CASE p = q
    <3>1. /\ pc[q] \in Swept /\ pc'[q] = "scrub"
          /\ UNCHANGED <<TheLog, Backlog, shipped, stale>>
      BY <1>0, <1>17, <2>2 DEF Changelog, Clean, NextFile, TheLog, Backlog, Swept
    <3>2. /\ Claiming(TheLog, shipped) = {} /\ Finished(Backlog, shipped)
      BY <3>1 DEF RerunInv, RerunAt
    <3> QED
      BY <3>1, <3>2 DEF RerunAt, AtLog, Swept, KeptClean, InFile
  <2> QED
    BY <2>1, <2>2
<1>18. ASSUME NEW p \in Pruner, OpenScrub(p) PROVE RerunAt(q)'
  <2> DEFINE old == text[<<file[p], 0>>]
  <2>1. /\ buffer' = [buffer EXCEPT ![p].kept = old]
        /\ text' = [text EXCEPT ![<<file[p], 0>>] = <<>>]
        /\ old = IF file[p] = "log" THEN TheLog ELSE Backlog
    BY <1>0, <1>18 DEF OpenScrub, TheLog, Backlog
  <2> HIDE DEF old
  <2>2. /\ \A r \in Pruner \ {p} : buffer'[r] = buffer[r]
        /\ buffer'[p].kept = old
    BY <1>0, <2>1 DEF Held
  <2>3. TheLog' \in {TheLog, <<>>} /\ Backlog' \in {Backlog, <<>>}
    BY <1>0, <2>1, SourceWrite
  <2>4. /\ UNCHANGED <<plan, file, shipped, stale>>
        /\ pc[p] = "scrub" /\ pc' = [pc EXCEPT ![p] = "scrubbing"]
    BY <1>18 DEF OpenScrub
  <2>5. CASE p # q
    BY <1>0, <1>6, <2>2, <2>3, <2>4, <2>5
  <2>6. CASE p = q
    <3>1. Claiming(TheLog, shipped) = {} /\ Finished(Backlog, shipped)
      BY <2>4, <2>6 DEF RerunInv, RerunAt, Swept
    <3>2. Claiming(TheLog', shipped') = {} /\ Finished(Backlog', shipped')
      BY <2>3, <2>4, <3>1, Nothing
    <3>3. KeptClean(q)'
      BY <1>0, <2>1, <2>2, <2>4, <2>6, <3>1 DEF KeptClean
    <3>4. pc'[q] = "scrubbing"
      BY <1>0, <2>4, <2>6
    <3> QED
      BY <3>2, <3>3, <3>4 DEF RerunAt, AtLog, Swept
  <2> QED
    BY <2>5, <2>6
<1>19. ASSUME NEW p \in Pruner, WriteScrub(p) PROVE RerunAt(q)'
  <2>1. /\ pc[p] = "scrubbing" /\ file[p] = "log"
        /\ text' = [text EXCEPT ![<<"log", 0>>] = buffer[p].kept]
        /\ pc' = [pc EXCEPT ![p] = "scrub"]
        /\ stale' = stale \cup (Busy \ {p}) /\ UNCHANGED shipped
    BY <1>0, <1>19 DEF WriteScrub, NextFile
  <2>2. CASE p # q
    BY <1>0, <1>2, <2>1, <2>2 DEF Busy
  <2>3. CASE p = q
    <3>1. TheLog' = buffer[q].kept /\ Backlog' = Backlog
      BY <1>0, <2>1, <2>3, SourceWrite
    <3>2. Claiming(TheLog', shipped') = {} /\ Finished(Backlog', shipped')
      BY <2>1, <2>3, <3>1 DEF RerunInv, RerunAt, KeptClean, InFile, Swept
    <3>3. pc'[q] = "scrub"
      BY <1>0, <2>1, <2>3
    <3> QED
      BY <3>2, <3>3 DEF RerunAt, AtLog, Swept, KeptClean, InFile
  <2> QED
    BY <2>2, <2>3
<1>20. ASSUME NEW p \in Pruner, WriteLastScrub(p) PROVE RerunAt(q)'
  BY <1>0, <1>2, <1>20 DEF WriteLastScrub, Done, Leave, Busy
<1>21. ASSUME Day \/ UNCHANGED vars PROVE RerunAt(q)'
  BY <1>1, <1>21 DEF Day, vars, pruner, TheLog, Backlog
<1> QED
  BY <1>4, <1>5, <1>7, <1>8, <1>10, <1>11, <1>13, <1>14, <1>15, <1>16, <1>17,
     <1>18, <1>19, <1>20, <1>21
  DEF Next, Apply, Entry

LEMMA SettledStep ==
    ReconcileAssumption /\ TypeOK /\ Serial /\ RerunInv /\ [Next]_vars
      => Settled'
<1> SUFFICES ASSUME ReconcileAssumption, TypeOK, Serial, RerunInv, [Next]_vars,
                    settled'
             PROVE  Settled'
  BY DEF Settled
<1>0. /\ pc \in [Pruner -> Places] /\ file \in [Pruner -> Source]
      /\ plan \in [Pruner -> Plan] /\ buffer \in [Pruner -> Held]
      /\ Source = {"log", "backlog"}
  BY Parts, Files DEF PrunersOK
\* A step of p after the end of the prune.
<1>1. ASSUME NEW p \in Pruner, settled' = settled, UNCHANGED shipped,
             Claiming(TheLog', shipped) \subseteq Claiming(TheLog, shipped),
             Finished(Backlog, shipped) => Finished(Backlog', shipped),
             \A r \in Pruner \ {p} : UNCHANGED <<pc[r], file[r], buffer[r]>>,
             pc'[p] \notin InFile
               \/ (UNCHANGED <<file[p], buffer[p].kept>> /\ pc[p] \in InFile)
      PROVE  Settled'
  <2>1. /\ Claiming(TheLog, shipped) = {} /\ Finished(Backlog, shipped)
        /\ \A r \in Pruner : KeptClean(r)
    BY <1>1 DEF RerunInv, Settled
  <2>2. \A r \in Pruner : KeptClean(r)'
    BY <1>1, <2>1 DEF KeptClean
  <2> QED
    BY <1>1, <2>1, <2>2 DEF Settled
<1>2. ASSUME NEW e \in Entry, Log(e) \/ Complete(e) PROVE FALSE
  BY <1>2 DEF Log, Complete, Edit
<1>3. ASSUME NEW i \in Item, MarkDone(i) PROVE FALSE
  BY <1>3 DEF MarkDone
<1>4. ASSUME NEW p \in Pruner,
             PlanPrune(p) \/ Lock(p) \/ Changelog(p) \/ Clean(p)
      PROVE  Settled'
  <2>1. TheLog' = TheLog /\ Backlog' = Backlog /\ settled' = settled
        /\ UNCHANGED shipped
    BY <1>4 DEF PlanPrune, Lock, Changelog, Clean, TheLog, Backlog
  <2>2. /\ \A r \in Pruner \ {p} : UNCHANGED <<pc[r], file[r], buffer[r]>>
        /\ pc'[p] \notin InFile
    BY <1>0, <1>4 DEF PlanPrune, Lock, Changelog, Clean, NextFile, InFile
  <2> QED
    BY <1>1, <2>1, <2>2
<1>5. ASSUME NEW p \in Pruner, LockHeld(p) \/ Crash(p) PROVE Settled'
  <2>1. TheLog' = TheLog /\ Backlog' = Backlog /\ settled' = settled
        /\ UNCHANGED shipped
    BY <1>5 DEF LockHeld, Crash, TheLog, Backlog
  <2>2. /\ \A r \in Pruner \ {p} : UNCHANGED <<pc[r], file[r], buffer[r]>>
        /\ pc'[p] \notin InFile
    BY <1>0, <1>5 DEF LockHeld, Crash, Leave, InFile
  <2> QED
    BY <1>1, <2>1, <2>2
<1>6. ASSUME NEW p \in Pruner, Read(p) PROVE Settled'
  <2> DEFINE sections == text[<<file[p], 0>>]
             split == Split(p, sections)
  <2>1. /\ UNCHANGED <<text, shipped, settled>>
        /\ \A r \in Pruner \ {p} : UNCHANGED <<pc[r], file[r], buffer[r]>>
        /\ \/ split.away = <<>> /\ pc'[p] \notin InFile
           \/ /\ split.away # <<>>
              /\ buffer'[p] = split /\ pc'[p] = "archive" /\ file'[p] = file[p]
    BY <1>0, <1>6 DEF Read, NextFile, FirstWrite, InFile
  <2>2. /\ Claiming(TheLog, shipped) = {} /\ Finished(Backlog, shipped)
        /\ \A r \in Pruner : KeptClean(r)
    BY <2>1 DEF RerunInv, Settled
  <2>3. TheLog' = TheLog /\ Backlog' = Backlog
    BY <2>1 DEF TheLog, Backlog
  <2>4. sections \in Seq(Section) /\ (file[p] = "log" => sections = TheLog)
    BY Here DEF TheLog
  <2>5. file[p] = "log" => Claiming(split.kept, shipped) = {}
    BY <2>2, <2>4, SplitClean
  <2>6. file[p] = "backlog" /\ split.away # <<>> => Finished(split.kept, shipped)
    BY <2>4, SplitClean DEF Finished
  <2> HIDE DEF split, sections
  <2>7. KeptClean(p)'
    BY <1>0, <2>1, <2>5, <2>6 DEF KeptClean
  <2>8. \A r \in Pruner \ {p} : KeptClean(r)'
    BY <2>1, <2>2 DEF KeptClean
  <2> QED
    BY <2>1, <2>2, <2>3, <2>7, <2>8 DEF Settled
<1>7. ASSUME NEW p \in Pruner, OpenArchive(p) PROVE Settled'
  <2> DEFINE new == AppendAll(text[Archive(p)], buffer[p].away)
  <2>1. buffer' = [buffer EXCEPT ![p].away = new]
    BY <1>7 DEF OpenArchive
  <2> HIDE DEF new
  <2>2. /\ \A r \in Pruner \ {p} : buffer'[r] = buffer[r]
        /\ buffer'[p].kept = buffer[p].kept
    BY <1>0, <2>1 DEF Held
  <2>3. TheLog' = TheLog /\ Backlog' = Backlog
    BY <1>7, ArchiveWrite DEF OpenArchive
  <2>4. /\ UNCHANGED <<file, shipped, settled>>
        /\ pc[p] = "archive" /\ pc' = [pc EXCEPT ![p] = "archiving"]
    BY <1>7 DEF OpenArchive
  <2> QED
    BY <1>0, <1>1, <2>2, <2>3, <2>4 DEF InFile
<1>8. ASSUME NEW p \in Pruner, WriteArchive(p) PROVE Settled'
  <2>1. TheLog' = TheLog /\ Backlog' = Backlog
    BY <1>8, ArchiveWrite DEF WriteArchive
  <2> QED
    BY <1>0, <1>1, <1>8, <2>1 DEF WriteArchive, InFile
<1>9. ASSUME NEW p \in Pruner, OpenSource(p) PROVE Settled'
  <2>1. TheLog' \in {TheLog, <<>>} /\ Backlog' \in {Backlog, <<>>}
    BY <1>0, <1>9, SourceWrite DEF OpenSource
  <2>2. /\ Claiming(TheLog', shipped) \subseteq Claiming(TheLog, shipped)
        /\ Finished(Backlog, shipped) => Finished(Backlog', shipped)
    BY <2>1, Nothing
  <2> QED
    BY <1>0, <1>1, <1>9, <2>2 DEF OpenSource, InFile
<1>10. ASSUME NEW p \in Pruner, pc[p] \in InFile, pc'[p] \notin InFile,
              text' = [text EXCEPT ![<<file[p], 0>>] = buffer[p].kept],
              \A r \in Pruner \ {p} : UNCHANGED <<pc[r], file[r], buffer[r]>>,
              UNCHANGED <<shipped, settled>>
       PROVE  Settled'
  <2>1. KeptClean(p)
    BY <1>10 DEF RerunInv, Settled
  <2>2. /\ Claiming(TheLog, shipped) = {} /\ Finished(Backlog, shipped)
    BY <1>10 DEF RerunInv, Settled
  <2>3. \/ /\ file[p] = "log" /\ TheLog' = buffer[p].kept /\ Backlog' = Backlog
        \/ /\ file[p] = "backlog" /\ TheLog' = TheLog /\ Backlog' = buffer[p].kept
    BY <1>0, <1>10, SourceWrite
  <2>4. /\ Claiming(TheLog', shipped) = {} /\ Finished(Backlog', shipped)
    BY <1>10, <2>1, <2>2, <2>3 DEF KeptClean
  <2> QED
    BY <1>1, <1>10, <2>2, <2>4
<1>11. ASSUME NEW p \in Pruner, WriteSource(p) PROVE Settled'
  BY <1>0, <1>10, <1>11 DEF WriteSource, NextFile, InFile
<1>12. ASSUME NEW p \in Pruner, WriteScrub(p) PROVE Settled'
  BY <1>0, <1>10, <1>12 DEF WriteScrub, NextFile, InFile
<1>13. ASSUME NEW p \in Pruner, OpenScrub(p) PROVE Settled'
  <2> DEFINE old == text[<<file[p], 0>>]
  <2>1. /\ buffer' = [buffer EXCEPT ![p].kept = old]
        /\ text' = [text EXCEPT ![<<file[p], 0>>] = <<>>]
        /\ old = IF file[p] = "log" THEN TheLog ELSE Backlog
    BY <1>0, <1>13 DEF OpenScrub, TheLog, Backlog
  <2> HIDE DEF old
  <2>2. /\ \A r \in Pruner \ {p} : buffer'[r] = buffer[r]
        /\ buffer'[p].kept = old
    BY <1>0, <2>1 DEF Held
  <2>3. TheLog' \in {TheLog, <<>>} /\ Backlog' \in {Backlog, <<>>}
    BY <1>0, <2>1, SourceWrite
  <2>4. /\ UNCHANGED <<file, shipped, settled>>
        /\ pc[p] = "scrub" /\ pc' = [pc EXCEPT ![p] = "scrubbing"]
    BY <1>13 DEF OpenScrub
  <2>5. /\ Claiming(TheLog, shipped) = {} /\ Finished(Backlog, shipped)
        /\ \A r \in Pruner : KeptClean(r)
    BY <2>4 DEF RerunInv, Settled
  <2>6. Claiming(TheLog', shipped') = {} /\ Finished(Backlog', shipped')
    BY <2>3, <2>4, <2>5, Nothing
  <2>7. KeptClean(p)'
    BY <1>0, <2>1, <2>2, <2>4, <2>5 DEF KeptClean
  <2>8. \A r \in Pruner \ {p} : KeptClean(r)'
    BY <1>0, <2>2, <2>4, <2>5 DEF KeptClean
  <2> QED
    BY <2>6, <2>7, <2>8 DEF Settled
\* The end of a prune whose plan was right to the last: no other is at work.
<1>14. ASSUME NEW p \in Pruner, pc[p] \in {"scrub", "scrubbing"},
              file[p] = "backlog", p \notin stale, Leave(p),
              Backlog' = Backlog \/ (pc[p] = "scrubbing" /\ Backlog' = buffer[p].kept),
              TheLog' = TheLog, UNCHANGED shipped
       PROVE  Settled'
  <2>1. RerunAt(p)
    BY <1>14 DEF RerunInv
  <2>2. /\ Claiming(TheLog, shipped) = {} /\ Finished(Backlog, shipped)
        /\ pc[p] = "scrubbing" => Finished(buffer[p].kept, shipped)
    BY <1>14, <2>1 DEF RerunAt, Swept, KeptClean, InFile
  <2>3. Finished(Backlog', shipped)
    BY <1>14, <2>2
  <2>4. lock = p
    BY <1>14 DEF Serial, Working, Writing
  <2>5. \A r \in Pruner \ {p} : pc[r] \notin InFile
    BY <2>4 DEF Serial, Working, Writing, InFile
  <2>6. \A r \in Pruner : pc'[r] \notin InFile
    BY <1>0, <1>14, <2>5 DEF Leave, InFile
  <2> QED
    BY <1>14, <2>2, <2>3, <2>6 DEF Settled, KeptClean
<1>15. ASSUME NEW p \in Pruner, WriteLastScrub(p) PROVE Settled'
  <2>1. /\ text' = [text EXCEPT ![<<"backlog", 0>>] = buffer[p].kept]
        /\ pc[p] = "scrubbing" /\ file[p] = "backlog" /\ p \notin stale
        /\ Leave(p) /\ UNCHANGED shipped
    BY <1>15 DEF WriteLastScrub, Done
  <2>2. TheLog' = TheLog /\ Backlog' = buffer[p].kept
    BY <1>0, <2>1, SourceWrite
  <2> QED
    BY <1>14, <2>1, <2>2
<1>16. ASSUME NEW p \in Pruner, Release(p) PROVE Settled'
  BY <1>14, <1>16 DEF Release, Done, TheLog, Backlog
<1>17. ASSUME Day \/ UNCHANGED vars PROVE Settled'
  <2>1. UNCHANGED <<TheLog, Backlog, shipped, settled, pc, file, buffer>>
    BY <1>17 DEF Day, vars, pruner, TheLog, Backlog
  <2> QED
    BY <2>1 DEF RerunInv, Settled, KeptClean
<1> QED
  BY <1>2, <1>3, <1>4, <1>5, <1>6, <1>7, <1>8, <1>9, <1>11, <1>12, <1>13,
     <1>15, <1>16, <1>17
  DEF Next, Apply, Entry

\* When a prune that nothing has overtaken is over, another would find nothing
\* to do, until something is written or another item is done.
THEOREM PruneRerunNoop == Spec => []RerunNoop
<1>1. ReconcileAssumption /\ Init => RerunInv
  BY DEF Init, RerunInv, Settled, RerunAt, KeptClean, AtLog, Swept, Working,
         Writing, InFile
<1>2. RerunInv => RerunNoop
  <2>1. ClaimedIn(text[<<"log", 0>>]) = Claiming(text[<<"log", 0>>], shipped)
    BY Nothing
  <2> QED
    BY <2>1 DEF RerunInv, Settled, RerunNoop, Finished, TheLog, Backlog
<1>3. ReconcileAssumption /\ TypeOK /\ Serial /\ RerunInv /\ [Next]_vars
        => RerunInv'
  BY RerunAtStep, SettledStep DEF RerunInv
<1> QED
  BY <1>1, <1>2, <1>3, ReconcileAssumption, SerialHolds, PTL DEF Spec

-----------------------------------------------------------------------------
(* Archives, day by day. *)

\* No prune is for a day to come, and no archive of one has anything.
Dated ==
    /\ \A p \in Pruner : plan[p].cutoff <= today
    /\ \A f \in Source, c \in 1..Days : c > today => text[<<f, c>>] = <<>>

\* The archive of the day c may still be written to.
Live(c) == c = today \/ \E p \in Pruner : pc[p] # "idle" /\ plan[p].cutoff = c

Archives ==
    [f \in Source |-> {text[<<f, c>>] : c \in {d \in 1..Days : Live(d)}}]

LEMMA DaysStep ==
    ASSUME ReconcileAssumption, TypeOK, [Next]_vars
    PROVE  /\ today' \in Nat /\ today \in Nat /\ today <= today'
           /\ \A q \in Pruner :
                \/ plan'[q] = plan[q] /\ (pc[q] = "idle" => pc'[q] = "idle")
                \/ pc'[q] = "idle" /\ plan'[q] = NoPlan
                \/ plan'[q].cutoff = today /\ today' = today
<1> DEFINE G == \A q \in Pruner :
                  \/ plan'[q] = plan[q] /\ (pc[q] = "idle" => pc'[q] = "idle")
                  \/ pc'[q] = "idle" /\ plan'[q] = NoPlan
                  \/ plan'[q].cutoff = today /\ today' = today
<1>0. /\ pc \in [Pruner -> Places] /\ plan \in [Pruner -> Plan] /\ today \in Nat
  BY Parts, Files DEF PrunersOK, FilesOK
<1>1. ASSUME UNCHANGED <<plan, pc>>, today' \in {today, today + 1}
      PROVE  today' \in Nat /\ today <= today' /\ G
  BY <1>0, <1>1
<1>2. ASSUME NEW p \in Pruner, UNCHANGED <<plan, today>>, pc[p] # "idle",
             \A r \in Pruner \ {p} : pc'[r] = pc[r]
      PROVE  today' \in Nat /\ today <= today' /\ G
  BY <1>0, <1>2
<1>3. ASSUME NEW p \in Pruner, Leave(p), UNCHANGED today
      PROVE  today' \in Nat /\ today <= today' /\ G
  BY <1>0, <1>3 DEF Leave
<1>4. ASSUME NEW e \in Entry, Log(e) \/ Complete(e)
      PROVE  today' \in Nat /\ today <= today' /\ G
  BY <1>1, <1>4 DEF Log, Complete, Edit, pruner
<1>5. ASSUME NEW i \in Item, MarkDone(i)
      PROVE  today' \in Nat /\ today <= today' /\ G
  BY <1>1, <1>5 DEF MarkDone, pruner
<1>6. ASSUME NEW p \in Pruner, PlanPrune(p)
      PROVE  today' \in Nat /\ today <= today' /\ G
  <2>1. /\ plan'[p].cutoff = today /\ UNCHANGED today
        /\ \A q \in Pruner \ {p} : plan'[q] = plan[q] /\ pc'[q] = pc[q]
    BY <1>0, <1>6 DEF PlanPrune, Cutoff
  <2> QED
    BY <1>0, <2>1
<1>7. ASSUME NEW p \in Pruner,
             \/ Lock(p) \/ Read(p) \/ OpenArchive(p) \/ WriteArchive(p)
             \/ OpenSource(p) \/ WriteSource(p) \/ Changelog(p) \/ Clean(p)
             \/ OpenScrub(p) \/ WriteScrub(p)
      PROVE  today' \in Nat /\ today <= today' /\ G
  <2>1. /\ UNCHANGED <<plan, today>> /\ pc[p] # "idle"
        /\ \A r \in Pruner \ {p} : pc'[r] = pc[r]
    BY <1>0, <1>7 DEF Lock, Read, OpenArchive, WriteArchive, OpenSource,
         WriteSource, Changelog, Clean, OpenScrub, WriteScrub, NextFile
  <2> QED
    BY <1>2, <2>1
<1>8. ASSUME NEW p \in Pruner,
             LockHeld(p) \/ WriteLastScrub(p) \/ Release(p) \/ Crash(p)
      PROVE  today' \in Nat /\ today <= today' /\ G
  BY <1>3, <1>8 DEF LockHeld, WriteLastScrub, Release, Crash, Done
<1>9. ASSUME Day \/ UNCHANGED vars
      PROVE  today' \in Nat /\ today <= today' /\ G
  BY <1>0, <1>1, <1>9 DEF Day, vars, pruner
<1> HIDE DEF G
<1>10. today' \in Nat /\ today <= today' /\ G
  BY <1>4, <1>5, <1>6, <1>7, <1>8, <1>9 DEF Next, Apply, Entry
<1> QED
  BY <1>0, <1>10 DEF G

\* An archive is left as it is, emptied, or written by a prune of its day.
LEMMA ArchiveStep ==
    ASSUME ReconcileAssumption, TypeOK, [Next]_vars,
           NEW f \in Source, NEW c \in 1..Days
    PROVE  \/ text'[<<f, c>>] = text[<<f, c>>] \/ text'[<<f, c>>] = <<>>
           \/ \E p \in Pruner : /\ WriteArchive(p)
                                /\ f = file[p] /\ c = plan[p].cutoff
                                /\ text'[<<f, c>>] = buffer[p].away
<1> DEFINE G == \/ text'[<<f, c>>] = text[<<f, c>>] \/ text'[<<f, c>>] = <<>>
                \/ \E p \in Pruner : /\ WriteArchive(p)
                                     /\ f = file[p] /\ c = plan[p].cutoff
                                     /\ text'[<<f, c>>] = buffer[p].away
<1>0. /\ text \in [File -> Seq(Section)] /\ <<f, c>> \in File /\ c # 0
      /\ \A p \in Pruner : Archive(p) = <<file[p], plan[p].cutoff>>
  <2>1. c \in 0..Days /\ c # 0
    BY Files
  <2> QED
    BY <2>1, Parts, Files DEF FilesOK, Archive
<1>1. ASSUME UNCHANGED text PROVE G
  BY <1>1
<1>2. ASSUME NEW g, NEW sections, text' = [text EXCEPT ![<<g, 0>>] = sections]
      PROVE  G
  BY <1>0, <1>2
<1>3. ASSUME NEW e \in Entry, Log(e) \/ Complete(e) PROVE G
  BY <1>2, <1>3 DEF Log, Complete, Edit
<1>4. ASSUME NEW p \in Pruner,
             \/ PlanPrune(p) \/ Lock(p) \/ LockHeld(p) \/ Read(p)
             \/ Changelog(p) \/ Clean(p) \/ Release(p) \/ Crash(p)
      PROVE  G
  BY <1>1, <1>4 DEF PlanPrune, Lock, LockHeld, Read, Changelog, Clean,
                    Release, Crash
<1>5. ASSUME NEW p \in Pruner,
             \/ OpenSource(p) \/ WriteSource(p) \/ OpenScrub(p)
             \/ WriteScrub(p) \/ WriteLastScrub(p)
      PROVE  G
  BY <1>2, <1>5 DEF OpenSource, WriteSource, OpenScrub, WriteScrub,
                    WriteLastScrub
<1>6. ASSUME NEW p \in Pruner, OpenArchive(p) PROVE G
  <2>1. text' = [text EXCEPT ![Archive(p)] = <<>>]
    BY <1>6 DEF OpenArchive
  <2> QED
    BY <1>0, <2>1
<1>7. ASSUME NEW p \in Pruner, WriteArchive(p) PROVE G
  <2>1. text' = [text EXCEPT ![<<file[p], plan[p].cutoff>>] = buffer[p].away]
    BY <1>7 DEF WriteArchive, Archive
  <2>2. CASE f = file[p] /\ c = plan[p].cutoff
    BY <1>0, <1>7, <2>1, <2>2
  <2>3. CASE f # file[p] \/ c # plan[p].cutoff
    BY <1>0, <2>1, <2>3
  <2> QED
    BY <2>2, <2>3
<1>8. ASSUME (\E i \in Item : MarkDone(i)) \/ Day \/ UNCHANGED vars PROVE G
  BY <1>1, <1>8 DEF MarkDone, Day, vars
<1> HIDE DEF G
<1>9. G
  BY <1>3, <1>4, <1>5, <1>6, <1>7, <1>8 DEF Next, Apply, Entry
<1> QED
  BY <1>9 DEF G

LEMMA DatedStep ==
    ReconcileAssumption /\ TypeOK /\ Dated /\ [Next]_vars => Dated'
<1> SUFFICES ASSUME ReconcileAssumption, TypeOK, Dated, [Next]_vars PROVE Dated'
  OBVIOUS
<1>1. \A p \in Pruner : plan'[p].cutoff <= today'
  <2> SUFFICES ASSUME NEW p \in Pruner PROVE plan'[p].cutoff <= today'
    OBVIOUS
  <2>1. plan[p].cutoff \in Nat /\ plan[p].cutoff <= today /\ 1 <= today
    BY Parts, Files DEF PrunersOK, Plan, Dated, FilesOK
  <2>2. NoPlan.cutoff = 1
    BY NothingInHand
  <2>3. today' \in Nat /\ today \in Nat /\ today <= today'
    BY DaysStep
  <2>4. plan'[p] = plan[p] \/ plan'[p] = NoPlan \/ plan'[p].cutoff = today
    BY DaysStep
  <2> QED
    BY <2>1, <2>2, <2>3, <2>4
<1>2. ASSUME NEW f \in Source, NEW c \in 1..Days, c > today'
      PROVE  text'[<<f, c>>] = <<>>
  <2>1. today' \in Nat /\ today \in Nat /\ today <= today' /\ Days \in Nat
    BY DaysStep, Files
  <2>2. c > today
    BY <1>2, <2>1
  <2>3. text[<<f, c>>] = <<>>
    BY <2>2 DEF Dated
  <2>4. \A p \in Pruner : c # plan[p].cutoff
    <3> SUFFICES ASSUME NEW p \in Pruner PROVE c # plan[p].cutoff
      OBVIOUS
    <3>1. plan[p].cutoff \in Nat /\ plan[p].cutoff <= today
      BY Parts, Files DEF PrunersOK, Plan, Dated
    <3> QED
      BY <2>1, <2>2, <3>1
  <2> QED
    BY <2>3, <2>4, ArchiveStep
<1> QED
  BY <1>1, <1>2 DEF Dated

\* A live archive was live before, or it is new, or it was just written.
LEMMA ArchivesStep ==
    ASSUME ReconcileAssumption, TypeOK, Dated, [Next]_vars, NEW f \in Source
    PROVE  \A a \in Archives'[f] :
             \/ a \in Archives[f] \/ a = <<>>
             \/ \E p \in Pruner : /\ WriteArchive(p)
                                  /\ f = file[p] /\ a = buffer[p].away
<1> SUFFICES ASSUME NEW c \in 1..Days, Live(c)'
             PROVE  \/ text'[<<f, c>>] \in Archives[f] \/ text'[<<f, c>>] = <<>>
                    \/ \E p \in Pruner : /\ WriteArchive(p) /\ f = file[p]
                                         /\ text'[<<f, c>>] = buffer[p].away
  BY DEF Archives
<1>1. CASE Live(c)
  <2>1. text[<<f, c>>] \in Archives[f]
    BY <1>1 DEF Archives
  <2> QED
    BY <2>1, ArchiveStep
<1>2. CASE ~Live(c)
  <2>1. c = today' /\ today' # today
    <3>1. c # today /\ \A p \in Pruner : pc[p] = "idle" \/ plan[p].cutoff # c
      BY <1>2 DEF Live
    <3>2. ASSUME NEW p \in Pruner, pc'[p] # "idle", plan'[p].cutoff = c
          PROVE  FALSE
      BY <3>1, <3>2, DaysStep
    <3> QED
      BY <3>1, <3>2 DEF Live
  <2>2. c > today
    BY <2>1, DaysStep
  <2>3. text[<<f, c>>] = <<>>
    BY <2>2 DEF Dated
  <2> QED
    BY <2>3, ArchiveStep
<1> QED
  BY <1>1, <1>2

-----------------------------------------------------------------------------
(* Nothing is lost. *)

\* What the archive has under the heading of a section is all of the section.
FiledIn(sections, archive) ==
    \A s \in ToSet(sections) :
      s.heading \in Headings(archive) => s.body \subseteq Entries(archive)
FiledAll(sections, archives) == \A a \in archives : FiledIn(sections, a)

\* A prune has emptied a file and has the entry in memory.
InHand(e) ==
    \E p \in Pruner :
      \/ pc[p] = "archiving" /\ e \in Entries(buffer[p].away)
      \/ pc[p] \in {"trimming", "scrubbing"} /\ e \in Entries(buffer[p].kept)

EntriesKept == \A e \in written : Found(e) \/ InHand(e)

SourcesFiled ==
    \A f \in Source : /\ Distinct(text[<<f, 0>>])
                      /\ FiledAll(text[<<f, 0>>], Archives[f])

\* What a prune has in memory makes up for what it takes from the source.
HeldAt(p) ==
    LET source == text[<<file[p], 0>>]
        archive == text[Archive(p)]
        kept == buffer[p].kept
        away == buffer[p].away
    IN  /\ pc[p] \in InFile => Distinct(kept) /\ FiledAll(kept, Archives[file[p]])
        /\ pc[p] = "archive" =>
             /\ ToSet(away) \subseteq ToSet(source)
             /\ \A s \in ToSet(kept) : s \in ToSet(source) \/ s.body = {}
             /\ Entries(source) \subseteq Entries(kept) \cup Entries(away)
        /\ pc[p] = "archiving" =>
             /\ archive = <<>>
             /\ FiledIn(source, away) /\ FiledIn(kept, away)
             /\ Entries(source) \subseteq Entries(kept) \cup Entries(away)
        /\ pc[p] = "trim" => Entries(source) \subseteq Entries(kept) \cup Entries(archive)
        /\ pc[p] \in {"trimming", "scrubbing"} => source = <<>>

HistoryNow == EntriesKept /\ SourcesFiled /\ \A p \in Pruner : HeldAt(p)
HistoryInv == ~reused /\ ~raced /\ ~torn => HistoryNow

LEMMA NothingFiled ==
    /\ Entries(<<>>) = {} /\ Distinct(<<>>)
    /\ \A sections : FiledIn(sections, <<>>) /\ FiledIn(<<>>, sections)
BY DEF FiledIn, Headings, Entries, Distinct, ToSet

LEMMA SameSection ==
    ASSUME NEW sections \in Seq(Section), Distinct(sections),
           NEW s \in ToSet(sections), NEW t \in ToSet(sections),
           s.heading = t.heading
    PROVE  s = t
<1>1. PICK j \in 1..Len(sections) : s = sections[j]
  BY InSet
<1>2. PICK k \in 1..Len(sections) : t = sections[k]
  BY InSet
<1>3. j = k
  BY <1>1, <1>2 DEF Distinct
<1> QED
  BY <1>1, <1>2, <1>3

\* What an archive leaves out of the sections of a source, it has already.
LEMMA ArchivedAll ==
    ASSUME NEW archive \in Seq(Section), NEW away \in Seq(Section),
           NEW source \in Seq(Section), ToSet(away) \subseteq ToSet(source),
           Distinct(source), FiledIn(source, archive)
    PROVE  LET new == AppendAll(archive, away)
           IN  /\ Entries(archive) \subseteq Entries(new)
               /\ Entries(away) \subseteq Entries(new)
               /\ FiledIn(source, new)
<1> DEFINE new == AppendAll(archive, away)
<1>1. /\ ToSet(archive) \subseteq ToSet(new)
      /\ ToSet(new) \subseteq ToSet(archive) \cup ToSet(away)
      /\ Headings(away) \subseteq Headings(new)
  BY AppendAllFacts
<1> HIDE DEF new
<1>2. Entries(archive) \subseteq Entries(new)
  BY <1>1 DEF Entries
<1>3. ASSUME NEW s \in ToSet(source), s.heading \in Headings(new)
      PROVE  s.body \subseteq Entries(new)
  <2>1. PICK t \in ToSet(new) : t.heading = s.heading
    BY <1>3 DEF Headings
  <2>2. CASE t \in ToSet(archive)
    <3>1. s.heading \in Headings(archive)
      BY <2>1, <2>2 DEF Headings
    <3> QED
      BY <1>2, <1>3, <3>1 DEF FiledIn
  <2>3. CASE t \in ToSet(away)
    <3>1. s = t
      BY <1>3, <2>1, <2>3, SameSection
    <3> QED
      BY <2>1, <3>1 DEF Entries
  <2> QED
    BY <1>1, <2>1, <2>2, <2>3
<1>4. Entries(away) \subseteq Entries(new)
  <2> SUFFICES ASSUME NEW s \in ToSet(away) PROVE s.body \subseteq Entries(new)
    BY DEF Entries
  <2>1. s \in ToSet(source) /\ s.heading \in Headings(new)
    BY <1>1 DEF Headings
  <2> QED
    BY <1>3, <2>1
<1> QED
  BY <1>2, <1>3, <1>4 DEF FiledIn, new

\* When a prune is at work no other has anything in memory.
LEMMA Alone ==
    ASSUME Serial, NEW p \in Pruner, pc[p] \in Working
    PROVE  \A q \in Pruner \ {p} : pc[q] \notin InFile
BY DEF Serial, Working, Writing, InFile

LEMMA HeldFree ==
    ASSUME NEW q \in Pruner, pc'[q] \notin InFile
    PROVE  HeldAt(q)'
BY DEF HeldAt, InFile

\* What a write may take away, and what it brings.
LEMMA FoundStep ==
    ASSUME ReconcileAssumption, TypeOK, NEW k \in File, NEW sections,
           text' = [text EXCEPT ![k] = sections]
    PROVE  /\ \A e : Found(e) => e \in Entries(text[k]) \/ Found(e)'
           /\ \A e \in Entries(sections) : Found(e)'
<1>1. text'[k] = sections /\ \A j \in File : j = k \/ text'[j] = text[j]
  BY Parts DEF FilesOK
<1>2. ASSUME NEW e, Found(e), e \notin Entries(text[k]) PROVE Found(e)'
  <2>1. PICK j \in File : e \in Entries(text[j])
    BY <1>2 DEF Found
  <2>2. text'[j] = text[j]
    BY <1>1, <1>2, <2>1
  <2> QED
    BY <2>1, <2>2 DEF Found
<1>3. ASSUME NEW e \in Entries(sections) PROVE Found(e)'
  BY <1>1, <1>3 DEF Found
<1> QED
  BY <1>2, <1>3

\* Sources stay filed, with what is left in them and with what is written.
LEMMA SourcesWritten ==
    ASSUME SourcesFiled, NEW g \in Source, NEW sections,
           \A f \in Source : \/ text'[<<f, 0>>] = text[<<f, 0>>]
                             \/ f = g /\ text'[<<f, 0>>] = sections,
           Distinct(sections), FiledAll(sections, Archives[g]),
           \A f \in Source : Archives'[f] \subseteq Archives[f] \cup {<<>>}
    PROVE  SourcesFiled'
<1> SUFFICES ASSUME NEW f \in Source
             PROVE  /\ Distinct(text'[<<f, 0>>])
                    /\ FiledAll(text'[<<f, 0>>], Archives'[f])
  BY DEF SourcesFiled
<1>1. Distinct(text'[<<f, 0>>]) /\ FiledAll(text'[<<f, 0>>], Archives[f])
  BY DEF SourcesFiled
<1> QED
  BY <1>1, NothingFiled DEF FiledAll

LEMMA SourcesSame ==
    ASSUME SourcesFiled,
           \A f \in Source : text'[<<f, 0>>] = text[<<f, 0>>],
           \A f \in Source : Archives'[f] \subseteq Archives[f] \cup {<<>>}
    PROVE  SourcesFiled'
BY NothingFiled DEF SourcesFiled, FiledAll

\* A step that writes to no file.
LEMMA HistoryQuiet ==
    ASSUME ReconcileAssumption, TypeOK, Dated, [Next]_vars, HistoryNow,
           UNCHANGED <<text, written>>,
           \A q \in Pruner :
             \/ pc'[q] \notin InFile /\ pc[q] \notin Writing
             \/ UNCHANGED <<pc[q], file[q], plan[q], buffer[q]>>
    PROVE  HistoryNow'
<1>1. \A f \in Source : Archives'[f] \subseteq Archives[f] \cup {<<>>}
  <2>1. \A q \in Pruner : ~WriteArchive(q)
    <3> SUFFICES ASSUME NEW q \in Pruner, WriteArchive(q) PROVE FALSE
      OBVIOUS
    <3>1. pc[q] = "archiving" /\ pc'[q] = "trim"
      BY Parts DEF WriteArchive, PrunersOK
    <3> QED
      BY <3>1 DEF InFile, Writing
  <2> QED
    BY <2>1, ArchivesStep
<1>2. SourcesFiled'
  BY <1>1, SourcesSame DEF HistoryNow
<1>3. EntriesKept'
  <2> SUFFICES ASSUME NEW e \in written, ~InHand(e)' PROVE Found(e)'
    BY DEF EntriesKept
  <2>1. ~InHand(e)
    BY DEF InHand, Writing
  <2>2. Found(e)
    BY <2>1 DEF HistoryNow, EntriesKept
  <2> QED
    BY <2>2 DEF Found
<1>4. ASSUME NEW q \in Pruner PROVE HeldAt(q)'
  <2>1. CASE pc'[q] \notin InFile
    BY <2>1, HeldFree
  <2>2. CASE pc'[q] \in InFile
    <3>1. UNCHANGED <<pc[q], file[q], plan[q], buffer[q]>>
      BY <2>2
    <3>2. HeldAt(q)
      BY DEF HistoryNow
    <3>3. FiledAll(buffer[q].kept, Archives[file[q]])
            => FiledAll(buffer[q].kept, Archives'[file[q]])
      <4>1. file[q] \in Source
        BY Here
      <4> QED
        BY <1>1, <4>1, NothingFiled DEF FiledAll
    <3>4. Archive(q)' = Archive(q)
      BY <3>1 DEF Archive
    <3> QED
      BY <3>1, <3>2, <3>3, <3>4 DEF HeldAt
  <2> QED
    BY <2>1, <2>2
<1> QED
  BY <1>2, <1>3, <1>4 DEF HistoryNow

\* People and agents write to a source that no prune has in memory.
LEMMA HistoryEdit ==
    ASSUME ReconcileAssumption, TypeOK, Dated, [Next]_vars, HistoryNow,
           NEW f \in Source, NEW e, NEW sections \in Seq(Section), NEW again,
           Edit(f, e, sections, again), ~raced',
           Entries(text[<<f, 0>>]) \cup {e} \subseteq Entries(sections),
           Distinct(sections), FiledAll(sections, Archives[f])
    PROVE  HistoryNow'
<1>0. /\ text' = [text EXCEPT ![<<f, 0>>] = sections]
      /\ UNCHANGED <<pc, file, plan, buffer>> /\ written' = written \cup {e}
      /\ \A q \in Pruner : ~Holding(q, f)
      /\ <<f, 0>> \in File
  BY Files DEF Edit, pruner
<1>1. \A q \in Source : Archives'[q] \subseteq Archives[q] \cup {<<>>}
  <2>1. \A q \in Pruner : ~WriteArchive(q)
    <3> SUFFICES ASSUME NEW q \in Pruner, WriteArchive(q) PROVE FALSE
      OBVIOUS
    <3>1. pc[q] = "archiving" /\ pc'[q] = "trim"
      BY Parts DEF WriteArchive, PrunersOK
    <3> QED
      BY <1>0, <3>1
  <2> QED
    BY <2>1, ArchivesStep
<1>2. \A g \in Source : \/ text'[<<g, 0>>] = text[<<g, 0>>]
                        \/ g = f /\ text'[<<g, 0>>] = sections
  BY <1>0, Parts, Files DEF FilesOK
<1>3. SourcesFiled'
  BY <1>0, <1>1, <1>2, SourcesWritten DEF HistoryNow
<1>4. EntriesKept'
  <2> SUFFICES ASSUME NEW x \in written \cup {e}, ~InHand(x)' PROVE Found(x)'
    BY <1>0 DEF EntriesKept
  <2>1. CASE x \in Entries(sections)
    BY <1>0, <2>1, FoundStep
  <2>2. CASE x \notin Entries(sections)
    <3>1. x \in written /\ x \notin Entries(text[<<f, 0>>]) /\ ~InHand(x)
      BY <1>0, <2>2 DEF InHand
    <3>2. Found(x)
      BY <3>1 DEF HistoryNow, EntriesKept
    <3> QED
      BY <1>0, <3>1, <3>2, FoundStep
  <2> QED
    BY <2>1, <2>2
<1>5. ASSUME NEW q \in Pruner PROVE HeldAt(q)'
  <2>1. CASE pc'[q] \notin InFile
    BY <2>1, HeldFree
  <2>2. CASE pc'[q] \in InFile
    <3>1. file[q] # f
      BY <1>0, <2>2 DEF Holding, InFile
    <3>2. HeldAt(q)
      BY DEF HistoryNow
    <3>3. /\ file[q] \in Source /\ plan[q].cutoff \in 1..Days
          /\ Archive(q) = <<file[q], plan[q].cutoff>> /\ Archive(q) \in File
      BY Here
    <3>4. /\ text'[<<file[q], 0>>] = text[<<file[q], 0>>]
          /\ text'[Archive(q)] = text[Archive(q)]
      BY <1>0, <3>1, <3>3, Parts, Files DEF FilesOK
    <3>5. Archive(q)' = Archive(q)
      BY <1>0 DEF Archive
    <3>6. FiledAll(buffer[q].kept, Archives[file[q]])
            => FiledAll(buffer[q].kept, Archives'[file[q]])
      BY <1>1, <3>3, NothingFiled DEF FiledAll
    <3>7. text'[Archive(q)'] = text[Archive(q)]
      BY <3>4, <3>5
    <3> QED
      BY <1>0, <3>2, <3>4, <3>6, <3>7 DEF HeldAt
  <2> QED
    BY <2>1, <2>2
<1> QED
  BY <1>3, <1>4, <1>5 DEF HistoryNow

\* Of a heading that does not come again nothing is archived.
LEMMA NewHeading ==
    ASSUME ReconcileAssumption, TypeOK, NEW f \in Source, NEW h, ~Archived(f, h)
    PROVE  \A a \in Archives[f] : h \notin Headings(a)
BY DEF Archived, Archives, Live

LEMMA HistoryLog ==
    ASSUME ReconcileAssumption, TypeOK, Dated, [Next]_vars, HistoryNow,
           NEW e \in LogEntry, Log(e), ~reused', ~raced'
    PROVE  HistoryNow'
<1> DEFINE s == Titled(HeadingOf[e], {e})
           old == text[<<"log", 0>>]
           new == <<s>> \o old
<1>1. /\ s.heading = HeadingOf[e] /\ s.body = {e}
      /\ Edit("log", e, new, HeadingOf[e] \in Headings(old) \/ Archived("log", HeadingOf[e]))
  BY DEF Log, Titled
<1>2. HeadingOf[e] \notin Headings(old) /\ ~Archived("log", HeadingOf[e])
  BY <1>1 DEF Edit
<1>3. "log" \in Source
  BY Files
<1>4. /\ new \in Seq(Section) /\ ToSet(new) = {s} \cup ToSet(old)
      /\ Distinct(old) /\ s.heading \notin Headings(old) => Distinct(new)
  BY LogText
<1>5. Distinct(old) /\ FiledAll(old, Archives["log"])
  BY <1>3 DEF HistoryNow, SourcesFiled
<1> HIDE DEF s, old, new
<1>6. Entries(new) = Entries(old) \cup {e}
  BY <1>1, <1>4 DEF Entries
<1>7. FiledAll(new, Archives["log"])
  <2> SUFFICES ASSUME NEW a \in Archives["log"] PROVE FiledIn(new, a)
    BY DEF FiledAll
  <2>1. HeadingOf[e] \notin Headings(a)
    BY <1>2, <1>3, NewHeading
  <2> QED
    BY <1>1, <1>4, <1>5, <2>1 DEF FiledAll, FiledIn
<1>8. Entries(text[<<"log", 0>>]) \cup {e} \subseteq Entries(new)
  BY <1>6 DEF old
<1> QED
  BY <1>1, <1>2, <1>3, <1>4, <1>5, <1>7, <1>8, HistoryEdit

LEMMA HistoryComplete ==
    ASSUME ReconcileAssumption, TypeOK, Dated, [Next]_vars, HistoryNow,
           OnceFiles, NEW e \in DoneEntry, Complete(e), ~reused', ~raced'
    PROVE  HistoryNow'
<1> DEFINE old == text[<<"backlog", 0>>]
<1>1. PICK s \in Section :
        /\ Edit("backlog", e, <<s>>, Archived("backlog", "Done"))
        /\ <<s>> \in Seq(Section) /\ Len(<<s>>) = 1
        /\ ToSet(<<s>>) = {s} /\ s.heading = "Done"
        /\ old # <<>> => old[1] \in ToSet(old) /\ s.body = old[1].body \cup {e}
        /\ old = <<>> => s.body = {e}
  BY CompleteText
<1>2. ~Archived("backlog", "Done")
  BY <1>1 DEF Edit
<1>3. /\ "backlog" \in Source /\ old \in Seq(Section)
      /\ Distinct(old) /\ AllBelong("backlog", old)
  BY Parts, Files DEF HistoryNow, SourcesFiled, OnceFiles, FilesOK
<1> DEFINE new == <<s>>
<1>4. new \in Seq(Section) /\ Len(new) = 1 /\ ToSet(new) = {s}
      /\ Edit("backlog", e, new, Archived("backlog", "Done"))
  BY <1>1
<1> HIDE DEF old, new
<1>5. Entries(old) \cup {e} \subseteq Entries(new)
  <2>1. CASE old = <<>>
    BY <1>1, <1>4, <2>1, NothingFiled DEF Entries
  <2>2. CASE old # <<>>
    <3>1. \A t \in ToSet(old) : t = old[1]
      <4>1. \A t \in ToSet(old) : t.heading = "Done"
        BY <1>3 DEF AllBelong, Belongs
      <4> QED
        BY <1>1, <1>3, <2>2, <4>1, SameSection
    <3> QED
      BY <1>1, <1>4, <2>2, <3>1 DEF Entries
  <2> QED
    BY <2>1, <2>2
<1>6. Distinct(new)
  BY <1>4 DEF Distinct
<1>7. FiledAll(new, Archives["backlog"])
  <2> SUFFICES ASSUME NEW a \in Archives["backlog"] PROVE FiledIn(new, a)
    BY DEF FiledAll
  <2>1. "Done" \notin Headings(a)
    BY <1>2, <1>3, NewHeading
  <2> QED
    BY <1>1, <1>4, <2>1 DEF FiledIn
<1>8. Entries(text[<<"backlog", 0>>]) \cup {e} \subseteq Entries(new)
  BY <1>5 DEF old
<1> QED
  BY <1>3, <1>4, <1>6, <1>7, <1>8, HistoryEdit

\* The steps of the prune that is at work.
LEMMA ArchivesSame ==
    ASSUME ReconcileAssumption, TypeOK, Dated, [Next]_vars,
           NEW p \in Pruner, NEW there, there # "trim",
           pc' = [pc EXCEPT ![p] = there]
    PROVE  \A f \in Source : Archives'[f] \subseteq Archives[f] \cup {<<>>}
<1>1. \A q \in Pruner : ~WriteArchive(q)
  <2> SUFFICES ASSUME NEW q \in Pruner, WriteArchive(q) PROVE FALSE
    OBVIOUS
  <2>1. pc[q] = "archiving" /\ pc'[q] = "trim"
    BY Parts DEF WriteArchive, PrunersOK
  <2>2. pc'[q] = pc[q] \/ pc'[q] = there
    BY Parts DEF PrunersOK
  <2> QED
    BY <2>1, <2>2
<1> QED
  BY <1>1, ArchivesStep

LEMMA OneHeld ==
    ASSUME Serial, NEW p \in Pruner, pc[p] \in Working,
           \A q \in Pruner \ {p} : pc'[q] = pc[q], HeldAt(p)'
    PROVE  \A q \in Pruner : HeldAt(q)'
<1>1. ASSUME NEW q \in Pruner \ {p} PROVE HeldAt(q)'
  <2>1. pc'[q] \notin InFile
    BY Alone
  <2> QED
    BY <2>1, HeldFree
<1> QED
  BY <1>1

\* Without a prune that is writing every entry is found.
LEMMA AllFoundNow ==
    ASSUME Serial, NEW p \in Pruner, pc[p] \in Working, EntriesKept,
           NEW e \in written
    PROVE  \/ Found(e)
           \/ pc[p] = "archiving" /\ e \in Entries(buffer[p].away)
           \/ pc[p] \in {"trimming", "scrubbing"} /\ e \in Entries(buffer[p].kept)
<1>1. \A q \in Pruner \ {p} : pc[q] \notin InFile
  BY Alone
<1> QED
  BY <1>1 DEF EntriesKept, InHand, InFile

LEMMA HistoryRead ==
    ASSUME ReconcileAssumption, TypeOK, Dated, Serial, [Next]_vars, HistoryNow,
           NEW p \in Pruner, Read(p)
    PROVE  HistoryNow'
<1> DEFINE source == text[<<file[p], 0>>]
           split == Split(p, source)
<1>1. /\ UNCHANGED <<text, written, plan>> /\ pc[p] = "read"
      /\ IF split.away = <<>>
         THEN NextFile(p, "read", "changelog") /\ UNCHANGED buffer
         ELSE /\ buffer' = [buffer EXCEPT ![p] = split]
              /\ pc' = [pc EXCEPT ![p] = "archive"]
              /\ UNCHANGED file
  BY DEF Read, FirstWrite
<1>2. pc \in [Pruner -> Places] /\ file \in [Pruner -> Source]
      /\ buffer \in [Pruner -> Held]
  BY Parts DEF PrunersOK
<1>3. /\ source \in Seq(Section) /\ file[p] \in Source
      /\ (file[p] # "log" /\ ~plan[p].backlog => split.away = <<>>)
  BY Here DEF Split, Empty
<1>4. /\ ToSet(split.away) \subseteq ToSet(source)
      /\ file[p] = "log" \/ plan[p].backlog =>
           \A s \in ToSet(source) : s \in ToSet(split.kept) \/ s \in ToSet(split.away)
      /\ \A s \in ToSet(split.kept) : s \in ToSet(source) \/ s.body = {}
      /\ Distinct(source) => Distinct(split.kept)
  BY <1>3, SplitFacts
<1>5. Distinct(source) /\ FiledAll(source, Archives[file[p]])
  BY <1>3 DEF HistoryNow, SourcesFiled
<1> HIDE DEF split
<1>7. CASE split.away = <<>>
  <2>1. /\ pc'[p] \notin InFile /\ pc[p] \notin Writing
        /\ \A q \in Pruner \ {p} : UNCHANGED <<pc[q], file[q], plan[q], buffer[q]>>
    BY <1>1, <1>2, <1>7 DEF NextFile, InFile, Writing
  <2> QED
    BY <1>1, <2>1, HistoryQuiet
<1>8. CASE split.away # <<>>
  <2>1. /\ buffer' = [buffer EXCEPT ![p] = split]
        /\ pc' = [pc EXCEPT ![p] = "archive"]
        /\ UNCHANGED file
    BY <1>1, <1>8
  <2>2. /\ buffer'[p] = split /\ pc'[p] = "archive"
        /\ \A q \in Pruner \ {p} : pc'[q] = pc[q] /\ buffer'[q] = buffer[q]
    BY <1>2, <2>1
  <2>3. \A f \in Source : Archives'[f] \subseteq Archives[f] \cup {<<>>}
    BY <2>1, ArchivesSame
  <2>4. SourcesFiled'
    BY <1>1, <2>3, SourcesSame DEF HistoryNow
  <2>5. EntriesKept'
    <3> SUFFICES ASSUME NEW e \in written PROVE Found(e)'
      BY <1>1 DEF EntriesKept
    <3>1. Found(e)
      BY <1>1, AllFoundNow DEF HistoryNow, Working
    <3> QED
      BY <1>1, <3>1 DEF Found
  <2>6. HeldAt(p)'
    <3>1. FiledAll(split.kept, Archives'[file[p]])
      <4> SUFFICES ASSUME NEW a \in Archives'[file[p]] PROVE FiledIn(split.kept, a)
        BY DEF FiledAll
      <4>1. FiledIn(source, a)
        BY <1>3, <1>5, <2>3, NothingFiled DEF FiledAll
      <4> HIDE DEF source
      <4> QED
        BY <1>4, <4>1 DEF FiledIn
    <3>2. Entries(source) \subseteq Entries(split.kept) \cup Entries(split.away)
      <4>1. \A s \in ToSet(source) : s \in ToSet(split.kept) \/ s \in ToSet(split.away)
        BY <1>3, <1>4, <1>8
      <4> HIDE DEF source
      <4> QED
        BY <4>1 DEF Entries
    <3>3. text'[<<file'[p], 0>>] = source
      BY <1>1, <2>1
    <3> HIDE DEF source
    <3> QED
      BY <1>4, <1>5, <2>1, <2>2, <3>1, <3>2, <3>3 DEF HeldAt
  <2>7. pc[p] \in Working
    BY <1>1 DEF Working
  <2> QED
    BY <2>2, <2>4, <2>5, <2>6, <2>7, OneHeld DEF HistoryNow
<1> QED
  BY <1>7, <1>8

LEMMA HistoryOpenArchive ==
    ASSUME ReconcileAssumption, TypeOK, Dated, Serial, [Next]_vars, HistoryNow,
           NEW p \in Pruner, OpenArchive(p)
    PROVE  HistoryNow'
<1> DEFINE source == text[<<file[p], 0>>]
           archive == text[Archive(p)]
           away == buffer[p].away
           kept == buffer[p].kept
           new == AppendAll(archive, away)
<1>1. /\ pc[p] = "archive" /\ pc' = [pc EXCEPT ![p] = "archiving"]
      /\ buffer' = [buffer EXCEPT ![p].away = new]
      /\ text' = [text EXCEPT ![Archive(p)] = <<>>]
      /\ UNCHANGED <<file, plan, written>>
  BY DEF OpenArchive
<1>2. pc \in [Pruner -> Places] /\ buffer \in [Pruner -> Held]
      /\ text \in [File -> Seq(Section)]
  BY Parts DEF PrunersOK, FilesOK
<1>3. /\ file[p] \in Source /\ plan[p].cutoff \in 1..Days
      /\ Archive(p) = <<file[p], plan[p].cutoff>> /\ Archive(p) \in File
      /\ source \in Seq(Section) /\ archive \in Seq(Section) /\ away \in Seq(Section)
  BY Here
<1>4. /\ Distinct(source) /\ FiledAll(source, Archives[file[p]])
      /\ Distinct(kept) /\ FiledAll(kept, Archives[file[p]])
      /\ ToSet(away) \subseteq ToSet(source)
      /\ \A s \in ToSet(kept) : s \in ToSet(source) \/ s.body = {}
      /\ Entries(source) \subseteq Entries(kept) \cup Entries(away)
  <2>1. HeldAt(p)
    BY DEF HistoryNow
  <2> QED
    BY <1>1, <1>3, <2>1 DEF HistoryNow, SourcesFiled, HeldAt, InFile
<1>5. FiledIn(source, archive)
  <2>1. Live(plan[p].cutoff)
    BY <1>1 DEF Live
  <2>2. archive \in Archives[file[p]]
    BY <1>3, <2>1 DEF Archives
  <2> QED
    BY <1>4, <2>2 DEF FiledAll
<1> HIDE DEF source, archive, away, kept
<1>6. /\ Entries(archive) \subseteq Entries(new)
      /\ Entries(away) \subseteq Entries(new)
      /\ FiledIn(source, new)
  BY <1>3, <1>4, <1>5, ArchivedAll
<1> HIDE DEF new
<1>7. /\ buffer'[p].away = new /\ buffer'[p].kept = kept
      /\ pc'[p] = "archiving"
      /\ \A q \in Pruner \ {p} : pc'[q] = pc[q]
  BY <1>1, <1>2 DEF Held, kept
<1>8. /\ text'[Archive(p)] = <<>>
      /\ \A f \in Source : text'[<<f, 0>>] = text[<<f, 0>>]
  BY <1>1, <1>2, <1>3, Files
<1>9. \A f \in Source : Archives'[f] \subseteq Archives[f] \cup {<<>>}
  BY <1>1, ArchivesSame
<1>10. SourcesFiled'
  BY <1>8, <1>9, SourcesSame DEF HistoryNow
<1>11. EntriesKept'
  <2> SUFFICES ASSUME NEW e \in written, ~InHand(e)' PROVE Found(e)'
    BY <1>1 DEF EntriesKept
  <2>1. Found(e)
    BY <1>1, AllFoundNow DEF HistoryNow, Working
  <2>2. e \notin Entries(new)
    BY <1>7 DEF InHand
  <2>3. e \notin Entries(text[Archive(p)])
    BY <1>6, <2>2 DEF archive
  <2> QED
    BY <1>1, <1>3, <2>1, <2>3, FoundStep
<1>12. HeldAt(p)'
  <2>1. text'[<<file[p], 0>>] = source /\ Archive(p)' = Archive(p)
    BY <1>1, <1>3, <1>8 DEF source, Archive
  <2>2. FiledIn(kept, new)
    BY <1>4, <1>6 DEF FiledIn
  <2>3. FiledAll(kept, Archives'[file[p]])
    BY <1>3, <1>4, <1>9, NothingFiled DEF FiledAll
  <2>4. Entries(source) \subseteq Entries(kept) \cup Entries(new)
    BY <1>4, <1>6
  <2>5. text'[Archive(p)'] = <<>>
    BY <1>8, <2>1
  <2> QED
    BY <1>1, <1>4, <1>6, <1>7, <2>1, <2>2, <2>3, <2>4, <2>5 DEF HeldAt
<1>13. pc[p] \in Working
  BY <1>1 DEF Working
<1> QED
  BY <1>7, <1>10, <1>11, <1>12, <1>13, OneHeld DEF HistoryNow

LEMMA HistoryWriteArchive ==
    ASSUME ReconcileAssumption, TypeOK, Dated, Serial, [Next]_vars, HistoryNow,
           NEW p \in Pruner, WriteArchive(p)
    PROVE  HistoryNow'
<1> DEFINE source == text[<<file[p], 0>>]
           away == buffer[p].away
           kept == buffer[p].kept
<1>1. /\ pc[p] = "archiving" /\ pc' = [pc EXCEPT ![p] = "trim"]
      /\ text' = [text EXCEPT ![Archive(p)] = away]
      /\ UNCHANGED <<file, plan, buffer, written>>
  BY DEF WriteArchive
<1>2. pc \in [Pruner -> Places] /\ text \in [File -> Seq(Section)]
  BY Parts DEF PrunersOK, FilesOK
<1>3. /\ file[p] \in Source /\ plan[p].cutoff \in 1..Days
      /\ Archive(p) = <<file[p], plan[p].cutoff>> /\ Archive(p) \in File
  BY Here
<1>4. /\ Distinct(source) /\ Distinct(kept) /\ FiledAll(kept, Archives[file[p]])
      /\ text[Archive(p)] = <<>>
      /\ FiledIn(source, away) /\ FiledIn(kept, away)
      /\ Entries(source) \subseteq Entries(kept) \cup Entries(away)
  <2>1. HeldAt(p)
    BY DEF HistoryNow
  <2> QED
    BY <1>1, <1>3, <2>1 DEF HistoryNow, SourcesFiled, HeldAt, InFile
<1>5. pc[p] \in Working
  BY <1>1 DEF Working, Writing
<1>6. /\ pc'[p] = "trim" /\ \A q \in Pruner \ {p} : pc'[q] = pc[q]
      /\ text'[Archive(p)] = away
      /\ \A f \in Source : text'[<<f, 0>>] = text[<<f, 0>>]
  BY <1>1, <1>2, <1>3, Files
<1>7. \A q \in Pruner : WriteArchive(q) => q = p
  <2> SUFFICES ASSUME NEW q \in Pruner, WriteArchive(q), q # p PROVE FALSE
    OBVIOUS
  <2>1. pc[q] = "archiving"
    BY DEF WriteArchive
  <2> QED
    BY <1>5, <2>1, Alone DEF InFile
<1> HIDE DEF source, away, kept
<1>8. ASSUME NEW f \in Source, NEW a \in Archives'[f]
      PROVE  a \in Archives[f] \/ a = <<>> \/ (f = file[p] /\ a = away)
  BY <1>7, <1>8, ArchivesStep DEF away
<1>9. SourcesFiled'
  <2> SUFFICES ASSUME NEW f \in Source, NEW a \in Archives'[f]
               PROVE  /\ Distinct(text'[<<f, 0>>])
                      /\ FiledIn(text'[<<f, 0>>], a)
    <3>1. \A f \in Source : Distinct(text'[<<f, 0>>])
      BY <1>6 DEF HistoryNow, SourcesFiled
    <3> QED
      BY <3>1 DEF SourcesFiled, FiledAll
  <2>1. /\ text'[<<f, 0>>] = text[<<f, 0>>] /\ Distinct(text[<<f, 0>>])
        /\ FiledAll(text[<<f, 0>>], Archives[f])
    BY <1>6 DEF HistoryNow, SourcesFiled
  <2>2. CASE a \in Archives[f] \/ a = <<>>
    BY <2>1, <2>2, NothingFiled DEF FiledAll
  <2>3. CASE f = file[p] /\ a = away
    BY <1>4, <2>1, <2>3 DEF source
  <2> QED
    BY <1>8, <2>2, <2>3
<1>10. EntriesKept'
  <2> SUFFICES ASSUME NEW e \in written PROVE Found(e)'
    BY <1>1 DEF EntriesKept
  <2>1. Found(e) \/ e \in Entries(away)
    BY <1>1, <1>5, AllFoundNow DEF HistoryNow, away
  <2>2. e \notin Entries(text[Archive(p)])
    BY <1>4, NothingFiled
  <2> QED
    BY <1>1, <1>3, <2>1, <2>2, FoundStep
<1>11. HeldAt(p)'
  <2>1. text'[<<file[p], 0>>] = source /\ Archive(p)' = Archive(p)
    BY <1>1, <1>3, <1>6 DEF source, Archive
  <2>2. FiledAll(kept, Archives'[file[p]])
    BY <1>3, <1>4, <1>8, NothingFiled DEF FiledAll
  <2>3. text'[Archive(p)'] = away
    BY <1>6, <2>1
  <2>4. buffer'[p].kept = kept
    BY <1>1 DEF kept
  <2> QED
    BY <1>1, <1>4, <1>6, <2>1, <2>2, <2>3, <2>4 DEF HeldAt
<1> QED
  BY <1>5, <1>6, <1>9, <1>10, <1>11, OneHeld DEF HistoryNow

\* A prune that opens a source to write it has what is in it.
LEMMA HistoryOpenSource ==
    ASSUME ReconcileAssumption, TypeOK, Dated, Serial, [Next]_vars, HistoryNow,
           NEW p \in Pruner, OpenSource(p) \/ OpenScrub(p)
    PROVE  HistoryNow'
<1> DEFINE source == text[<<file[p], 0>>]
           kept == buffer'[p].kept
           archive == text[Archive(p)]
           there == IF pc[p] = "trim" THEN "trimming" ELSE "scrubbing"
<1>1. /\ pc[p] \in {"trim", "scrub"} /\ pc' = [pc EXCEPT ![p] = there]
      /\ text' = [text EXCEPT ![<<file[p], 0>>] = <<>>]
      /\ UNCHANGED <<file, plan, written>>
  BY DEF OpenSource, OpenScrub
<1>2. pc \in [Pruner -> Places] /\ text \in [File -> Seq(Section)]
      /\ buffer \in [Pruner -> Held]
  BY Parts DEF PrunersOK, FilesOK
<1>3. /\ file[p] \in Source /\ plan[p].cutoff \in 1..Days
      /\ Archive(p) = <<file[p], plan[p].cutoff>> /\ Archive(p) \in File
      /\ <<file[p], 0>> \in File
  BY Here
<1>4. /\ Distinct(kept) /\ FiledAll(kept, Archives[file[p]])
      /\ Entries(source) \subseteq Entries(kept) \cup Entries(archive)
  <2>1. HeldAt(p)
    BY DEF HistoryNow
  <2>2. CASE OpenSource(p)
    <3>1. pc[p] = "trim" /\ buffer' = buffer
      BY <2>2 DEF OpenSource
    <3> QED
      BY <2>1, <3>1 DEF HeldAt, InFile
  <2>3. CASE OpenScrub(p)
    <3>1. buffer' = [buffer EXCEPT ![p].kept = source]
      BY <2>3 DEF OpenScrub
    <3>2. Distinct(source) /\ FiledAll(source, Archives[file[p]])
      BY <1>3 DEF HistoryNow, SourcesFiled
    <3> HIDE DEF source
    <3>3. kept = source
      BY <1>2, <3>1 DEF Held
    <3> QED
      BY <3>2, <3>3
  <2> QED
    BY <2>2, <2>3
<1>5. pc[p] \in Working /\ there # "trim" /\ there \in {"trimming", "scrubbing"}
  BY <1>1 DEF Working
<1> HIDE DEF source, kept, archive, there
<1>6. /\ pc'[p] = there /\ \A q \in Pruner \ {p} : pc'[q] = pc[q]
      /\ text'[<<file[p], 0>>] = <<>>
      /\ \A f \in Source : \/ text'[<<f, 0>>] = text[<<f, 0>>]
                           \/ f = file[p] /\ text'[<<f, 0>>] = <<>>
      /\ text'[Archive(p)] = archive
  BY <1>1, <1>2, <1>3, Files DEF archive
<1>7. \A f \in Source : Archives'[f] \subseteq Archives[f] \cup {<<>>}
  BY <1>1, <1>5, ArchivesSame
<1>8. SourcesFiled'
  <2>1. FiledAll(<<>>, Archives[file[p]]) /\ Distinct(<<>>)
    BY NothingFiled DEF FiledAll
  <2> QED
    BY <1>3, <1>6, <1>7, <2>1, SourcesWritten DEF HistoryNow
<1>9. EntriesKept'
  <2> SUFFICES ASSUME NEW e \in written, ~InHand(e)' PROVE Found(e)'
    BY <1>1 DEF EntriesKept
  <2>1. Found(e)
    BY <1>1, <1>5, AllFoundNow DEF HistoryNow
  <2>2. e \notin Entries(kept)
    BY <1>5, <1>6 DEF InHand, kept
  <2>3. CASE e \in Entries(source)
    <3>1. e \in Entries(text'[Archive(p)])
      BY <1>4, <1>6, <2>2, <2>3
    <3> QED
      BY <1>3, <3>1 DEF Found
  <2>4. CASE e \notin Entries(source)
    BY <1>1, <1>3, <2>1, <2>4, FoundStep DEF source
  <2> QED
    BY <2>3, <2>4
<1>10. HeldAt(p)'
  <2>1. FiledAll(kept, Archives'[file[p]])
    BY <1>3, <1>4, <1>7, NothingFiled DEF FiledAll
  <2>2. text'[<<file'[p], 0>>] = <<>>
    BY <1>1, <1>6
  <2>3. pc'[p] \in {"trimming", "scrubbing"}
    BY <1>5, <1>6
  <2> QED
    BY <1>1, <1>4, <2>1, <2>2, <2>3 DEF HeldAt, kept
<1> QED
  BY <1>5, <1>6, <1>8, <1>9, <1>10, OneHeld DEF HistoryNow

\* It writes the source back.
LEMMA HistoryWriteBack ==
    ASSUME ReconcileAssumption, TypeOK, Dated, Serial, [Next]_vars, HistoryNow,
           NEW p \in Pruner, WriteSource(p) \/ WriteScrub(p) \/ WriteLastScrub(p)
    PROVE  HistoryNow'
<1> DEFINE source == text[<<file[p], 0>>]
           kept == buffer[p].kept
<1>1. /\ pc[p] \in {"trimming", "scrubbing"}
      /\ text' = [text EXCEPT ![<<file[p], 0>>] = kept]
      /\ UNCHANGED written
      /\ \E there \in {"read", "changelog", "scrub", "idle"} :
           pc' = [pc EXCEPT ![p] = there]
  BY DEF WriteSource, WriteScrub, WriteLastScrub, NextFile, Done, Leave
<1>2. pc \in [Pruner -> Places] /\ text \in [File -> Seq(Section)]
  BY Parts DEF PrunersOK, FilesOK
<1>3. file[p] \in Source /\ <<file[p], 0>> \in File
  BY Here
<1>4. source = <<>> /\ Distinct(kept) /\ FiledAll(kept, Archives[file[p]])
  <2>1. HeldAt(p)
    BY DEF HistoryNow
  <2> QED
    BY <1>1, <2>1 DEF HeldAt, InFile
<1>5. pc[p] \in Working
  BY <1>1 DEF Working, Writing
<1> HIDE DEF source, kept
<1>6. /\ pc'[p] \notin InFile /\ \A q \in Pruner \ {p} : pc'[q] = pc[q]
      /\ \A f \in Source : \/ text'[<<f, 0>>] = text[<<f, 0>>]
                           \/ f = file[p] /\ text'[<<f, 0>>] = kept
  BY <1>1, <1>2, <1>3, Files DEF InFile
<1>7. \A f \in Source : Archives'[f] \subseteq Archives[f] \cup {<<>>}
  BY <1>1, ArchivesSame
<1>8. SourcesFiled'
  BY <1>3, <1>4, <1>6, <1>7, SourcesWritten DEF HistoryNow
<1>9. EntriesKept'
  <2> SUFFICES ASSUME NEW e \in written PROVE Found(e)'
    BY <1>1 DEF EntriesKept
  <2>1. Found(e) \/ e \in Entries(kept)
    BY <1>1, <1>5, AllFoundNow DEF HistoryNow, kept
  <2>2. e \notin Entries(text[<<file[p], 0>>])
    BY <1>4, NothingFiled DEF source
  <2> QED
    BY <1>1, <1>3, <2>1, <2>2, FoundStep
<1>10. HeldAt(p)'
  BY <1>6, HeldFree
<1> QED
  BY <1>5, <1>6, <1>8, <1>9, <1>10, OneHeld DEF HistoryNow

LEMMA HistoryStep ==
    ReconcileAssumption /\ TypeOK /\ Serial /\ OnceInv /\ Dated /\ HistoryInv
      /\ [Next]_vars => HistoryInv'
<1> SUFFICES ASSUME ReconcileAssumption, TypeOK, Serial, OnceInv, Dated,
                    HistoryInv, [Next]_vars, ~reused', ~raced', ~torn'
             PROVE  HistoryNow'
  BY DEF HistoryInv
<1>0. /\ pc \in [Pruner -> Places] /\ file \in [Pruner -> Source]
      /\ plan \in [Pruner -> Plan] /\ buffer \in [Pruner -> Held]
  BY Parts DEF PrunersOK
<1>1. ASSUME NEW e \in LogEntry, Log(e) PROVE HistoryNow'
  <2>1. ~reused /\ ~raced /\ ~torn
    BY <1>1 DEF Log, Edit
  <2> QED
    BY <1>1, <2>1, HistoryLog DEF HistoryInv
<1>2. ASSUME NEW e \in DoneEntry, Complete(e) PROVE HistoryNow'
  <2>1. ~reused /\ ~raced /\ ~torn
    <3>1. PICK s \in Section :
            Edit("backlog", e, <<s>>, Archived("backlog", "Done"))
      BY <1>2, CompleteText
    <3> QED
      BY <3>1 DEF Edit
  <2>2. OnceFiles /\ HistoryNow
    BY <2>1 DEF OnceInv, HistoryInv
  <2> QED
    BY <1>2, <2>2, HistoryComplete
<1>3. ASSUME UNCHANGED <<text, written, reused, raced, torn>>,
             \A q \in Pruner :
               \/ pc'[q] \notin InFile /\ pc[q] \notin Writing
               \/ UNCHANGED <<pc[q], file[q], plan[q], buffer[q]>>
      PROVE  HistoryNow'
  BY <1>3, HistoryQuiet DEF HistoryInv
<1>4. ASSUME NEW i \in Item, MarkDone(i) PROVE HistoryNow'
  BY <1>3, <1>4 DEF MarkDone, pruner
<1>5. ASSUME NEW p \in Pruner,
             PlanPrune(p) \/ Lock(p) \/ Changelog(p) \/ Clean(p)
      PROVE  HistoryNow'
  <2>1. UNCHANGED <<text, written, reused, raced, torn>>
    BY <1>5 DEF PlanPrune, Lock, Changelog, Clean
  <2>2. /\ pc'[p] \notin InFile /\ pc[p] \notin Writing
        /\ \A q \in Pruner \ {p} :
             UNCHANGED <<pc[q], file[q], plan[q], buffer[q]>>
    BY <1>0, <1>5 DEF PlanPrune, Lock, Changelog, Clean, NextFile, InFile, Writing
  <2> QED
    BY <1>3, <2>1, <2>2
<1>6. ASSUME NEW p \in Pruner, LockHeld(p) \/ Release(p) PROVE HistoryNow'
  <2>1. UNCHANGED <<text, written, reused, raced, torn>>
    BY <1>6 DEF LockHeld, Release
  <2>2. /\ pc'[p] \notin InFile /\ pc[p] \notin Writing
        /\ \A q \in Pruner \ {p} :
             UNCHANGED <<pc[q], file[q], plan[q], buffer[q]>>
    BY <1>0, <1>6 DEF LockHeld, Release, Done, Leave, InFile, Writing
  <2> QED
    BY <1>3, <2>1, <2>2
<1>7. ASSUME NEW p \in Pruner, Crash(p) PROVE HistoryNow'
  <2>1. /\ UNCHANGED <<text, written, reused, raced>> /\ ~torn
        /\ pc[p] \notin Writing
    BY <1>7 DEF Crash
  <2>2. /\ pc'[p] \notin InFile
        /\ \A q \in Pruner \ {p} :
             UNCHANGED <<pc[q], file[q], plan[q], buffer[q]>>
    BY <1>0, <1>7 DEF Crash, Leave, InFile
  <2>3. HistoryNow
    BY <2>1 DEF HistoryInv
  <2> QED
    BY <2>1, <2>2, <2>3, HistoryQuiet
<1>8. ASSUME NEW p \in Pruner,
             \/ Read(p) \/ OpenArchive(p) \/ WriteArchive(p) \/ OpenSource(p)
             \/ OpenScrub(p) \/ WriteSource(p) \/ WriteScrub(p)
             \/ WriteLastScrub(p)
      PROVE  HistoryNow'
  <2>1. ~reused /\ ~raced /\ ~torn
    BY <1>8 DEF Read, OpenArchive, WriteArchive, OpenSource, OpenScrub,
                WriteSource, WriteScrub, WriteLastScrub
  <2>2. HistoryNow
    BY <2>1 DEF HistoryInv
  <2> QED
    BY <1>8, <2>2, HistoryRead, HistoryOpenArchive, HistoryWriteArchive,
       HistoryOpenSource, HistoryWriteBack
<1>9. ASSUME Day \/ UNCHANGED vars PROVE HistoryNow'
  BY <1>3, <1>9 DEF Day, vars, pruner
<1> QED
  BY <1>1, <1>2, <1>4, <1>5, <1>6, <1>7, <1>8, <1>9 DEF Next, Apply

\* While headings do not come again, nobody writes between the read and the
\* write of a file and no crash tears one, every entry that was ever written
\* is in a source or in an archive.
THEOREM PruneKeepsHistory == Spec => []HistoryKept
<1>1. ReconcileAssumption /\ Init => Dated /\ HistoryInv
  <2> SUFFICES ASSUME ReconcileAssumption, Init PROVE Dated /\ HistoryInv
    OBVIOUS
  <2>1. \A f \in Source, c \in 0..Days : text[<<f, c>>] = <<>>
    BY Files DEF Init
  <2>2. \A c \in 1..Days : c \in 0..Days
    BY Files
  <2>3. Dated
    BY <2>1, <2>2, NothingInHand DEF Init, Dated
  <2>4. SourcesFiled
    <3>1. \A f \in Source : text[<<f, 0>>] = <<>>
      BY Files DEF Init
    <3> QED
      BY <3>1, NothingFiled DEF SourcesFiled, FiledAll
  <2>5. \A p \in Pruner : HeldAt(p)
    BY DEF Init, HeldAt, InFile
  <2>6. EntriesKept
    BY DEF Init, EntriesKept
  <2> QED
    BY <2>3, <2>4, <2>5, <2>6 DEF HistoryInv, HistoryNow
<1>2. HistoryInv => HistoryKept
  BY DEF HistoryInv, HistoryNow, EntriesKept, InHand, HistoryKept, AllFound,
         Writing
<1> QED
  BY <1>1, <1>2, ReconcileAssumption, SerialHolds, OnceHolds, DatedStep,
     HistoryStep, PTL DEF Spec

=============================================================================
