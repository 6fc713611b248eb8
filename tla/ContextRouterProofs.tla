------------------------- MODULE ContextRouterProofs -------------------------
(***************************************************************************)
(* Proofs about the selection of the router, for any docs and globs and    *)
(* for tables of any length.                                               *)
(***************************************************************************)
EXTENDS ContextRouter, SequenceTheorems, FiniteSetTheorems,
        WellFoundedInduction, TLAPS

-----------------------------------------------------------------------------
(* Numbers.                                                                *)

\* A set of numbers has its minimum.
LEMMA MinFacts ==
    ASSUME NEW S \in SUBSET Nat, S # {}
    PROVE  Min(S) \in S /\ \A n \in S : Min(S) <= n
<1>1. PICK n \in S : \A m \in S : <<m, n>> \notin OpToRel(<, Nat)
  BY NatLessThanWellFounded, WFMin
<1>2. \A m \in S : ~ (m < n)
  BY <1>1 DEF OpToRel
<1>3. \A m \in S : n <= m
  BY <1>2
<1> QED
  BY <1>3 DEF Min

\* Induction up to n, for a set of numbers.
LEMMA Upward ==
    ASSUME NEW n \in Nat, NEW P, 0 \in P,
           \A i \in 1..n : i - 1 \in P => i \in P
    PROVE  \A i \in 0..n : i \in P
<1> DEFINE T == (0..n) \ P
<1> SUFFICES ASSUME T # {} PROVE FALSE
  OBVIOUS
<1>1. Min(T) \in T /\ \A m \in T : Min(T) <= m
  <2>1. T \in SUBSET Nat
    OBVIOUS
  <2> HIDE DEF T
  <2> QED
    BY <2>1, MinFacts
<1>2. Min(T) - 1 \in T
  BY <1>1
<1> QED
  BY <1>1, <1>2

-----------------------------------------------------------------------------
(* A finite set with a total order can be listed in that order.            *)

IsOrder(R, S) ==
    /\ \A x \in S : <<x, x>> \notin R
    /\ \A x, y \in S : x # y => <<x, y>> \in R \/ <<y, x>> \in R
    /\ \A x, y, z \in S : <<x, y>> \in R /\ <<y, z>> \in R => <<x, z>> \in R

LEMMA OneIsLast ==
    ASSUME NEW S, NEW R, IsOrder(R, S), IsFiniteSet(S), S # {}
    PROVE  \E m \in S : \A x \in S \ {m} : <<x, m>> \in R
<1> DEFINE IsLast(T) == \E m \in T : \A x \in T \ {m} : <<x, m>> \in R
           P == {n \in Nat : \A T \in SUBSET S :
                               T # {} /\ Cardinality(T) = n => IsLast(T)}
<1>1. \A T \in SUBSET S : IsFiniteSet(T) /\ Cardinality(T) \in Nat
  BY FS_Subset, FS_CardinalityType
<1>2. 0 \in P
  BY <1>1, FS_EmptySet
<1>3. ASSUME NEW i \in 1..Cardinality(S), i - 1 \in P PROVE i \in P
  <2>1. i \in Nat
    BY <1>1
  <2>2. SUFFICES ASSUME NEW T \in SUBSET S, T # {}, Cardinality(T) = i
                 PROVE  IsLast(T)
    BY <2>1
  <2>3. PICK x \in T : TRUE
    BY <2>2
  <2>4. T \ {x} \in SUBSET S /\ Cardinality(T \ {x}) = i - 1
    BY <1>1, <2>2, <2>3, FS_RemoveElement
  <2>5. CASE T \ {x} = {}
    BY <2>3, <2>5
  <2>6. CASE T \ {x} # {}
    <3>1. PICK m \in T \ {x} : \A y \in (T \ {x}) \ {m} : <<y, m>> \in R
      BY <1>3, <2>4, <2>6
    <3>2. CASE <<x, m>> \in R
      BY <3>1, <3>2
    <3>3. CASE <<m, x>> \in R
      <4>1. \A y \in T \ {x} : <<y, x>> \in R
        BY <3>1, <3>3 DEF IsOrder
      <4> QED
        BY <4>1
    <3> QED
      BY <3>1, <3>2, <3>3 DEF IsOrder
  <2> QED
    BY <2>5, <2>6
<1> HIDE DEF P
<1>4. Cardinality(S) \in P
  BY <1>1, <1>2, <1>3, Upward
<1> QED
  BY <1>4 DEF P

Sorted(f, n, R) ==
    \A i, j \in 1..n : i < j => <<f[i], f[j]>> \in R

LEMMA SortedExists ==
    ASSUME NEW S, NEW R, IsOrder(R, S), IsFiniteSet(S)
    PROVE  \E f \in [1..Cardinality(S) -> S] : Sorted(f, Cardinality(S), R)
<1> DEFINE Listed(T, n) == \E f \in [1..n -> T] : Sorted(f, n, R)
           P == {n \in Nat : \A T \in SUBSET S :
                               Cardinality(T) = n => Listed(T, n)}
<1>1. \A T \in SUBSET S : IsFiniteSet(T) /\ Cardinality(T) \in Nat
  BY FS_Subset, FS_CardinalityType
<1>2. 0 \in P
  <2>1. ASSUME NEW T PROVE Listed(T, 0)
    <3>1. [k \in 1..0 |-> k] \in [1..0 -> T]
      OBVIOUS
    <3>2. Sorted([k \in 1..0 |-> k], 0, R)
      BY DEF Sorted
    <3> QED
      BY <3>1, <3>2
  <2> QED
    BY <2>1
<1>3. ASSUME NEW n \in 1..Cardinality(S), n - 1 \in P PROVE n \in P
  <2>1. n \in Nat
    BY <1>1
  <2>2. SUFFICES ASSUME NEW T \in SUBSET S, Cardinality(T) = n
                 PROVE  Listed(T, n)
    BY <2>1
  <2>3. T # {} /\ IsOrder(R, T)
    BY <1>1, <2>1, <2>2, FS_EmptySet DEF IsOrder
  <2>4. PICK m \in T : \A x \in T \ {m} : <<x, m>> \in R
    BY <1>1, <2>3, OneIsLast
  <2>5. T \ {m} \in SUBSET S /\ Cardinality(T \ {m}) = n - 1
    BY <1>1, <2>2, <2>4, FS_RemoveElement
  <2>6. PICK f \in [1..(n - 1) -> T \ {m}] : Sorted(f, n - 1, R)
    BY <1>3, <2>5
  <2> DEFINE g == [k \in 1..n |-> IF k = n THEN m ELSE f[k]]
  <2>7. g \in [1..n -> T]
    BY <2>1, <2>6
  <2>8. ASSUME NEW i \in 1..n, NEW j \in 1..n, i < j
        PROVE  <<g[i], g[j]>> \in R
    <3>1. i \in 1..(n - 1) /\ g[i] = f[i]
      BY <2>8
    <3>2. CASE j = n
      BY <2>4, <2>6, <3>1, <3>2
    <3>3. CASE j # n
      BY <2>6, <2>8, <3>1, <3>3 DEF Sorted
    <3> QED
      BY <3>2, <3>3
  <2> HIDE DEF g
  <2> QED
    BY <2>7, <2>8 DEF Sorted
<1> HIDE DEF P
<1>4. Cardinality(S) \in P
  BY <1>1, <1>2, <1>3, Upward
<1> QED
  BY <1>4 DEF P

-----------------------------------------------------------------------------
(* Lists.                                                                  *)

\* The elements of a list, by their places; what is an image of a finite set
\* is finite.
LEMMA Places ==
    ASSUME NEW S, NEW seq \in Seq(S)
    PROVE  /\ \A x : x \in ToSet(seq) <=> \E i \in 1..Len(seq) : seq[i] = x
           /\ IsInjective(seq) <=> \A i, j \in 1..Len(seq) : seq[i] = seq[j] => i = j
           /\ \A i \in 1..Len(seq) : seq[i] \in S
           /\ Len(seq) \in Nat
BY LenProperties, ElementOfSeq DEF ToSet, IsInjective

LEMMA ImageFinite ==
    ASSUME NEW S, IsFiniteSet(S), NEW f, DOMAIN f = S, f = [x \in S |-> f[x]]
    PROVE  IsFiniteSet({f[x] : x \in S})
<1> DEFINE T == {f[x] : x \in S}
<1>1. f \in Surjection(S, T)
  BY DEF Surjection
<1> QED
  BY <1>1, FS_Surjection

LEMMA ElementsFinite ==
    ASSUME NEW S, NEW seq \in Seq(S)
    PROVE  IsFiniteSet(ToSet(seq))
<1>1. IsFiniteSet(1..Len(seq)) /\ DOMAIN seq = 1..Len(seq)
      /\ seq \in [1..Len(seq) -> S]
  BY LenProperties, FS_Interval
<1>2. IsFiniteSet({seq[i] : i \in 1..Len(seq)})
  BY <1>1, ImageFinite
<1> QED
  BY <1>1, <1>2 DEF ToSet

\* A list without repetitions is as long as its set is large.
LEMMA LengthIsSize ==
    ASSUME NEW S, NEW seq \in Seq(S), IsInjective(seq)
    PROVE  Len(seq) = Cardinality(ToSet(seq))
<1>1. /\ Len(seq) \in Nat /\ DOMAIN seq = 1..Len(seq)
      /\ seq \in [1..Len(seq) -> ToSet(seq)]
  BY LenProperties DEF ToSet
<1>2. seq \in Bijection(1..Len(seq), ToSet(seq))
  BY <1>1, Places DEF Bijection, Injection, Surjection, ToSet
<1> QED
  BY <1>1, <1>2, FS_CountingElements DEF ExistsBijection

\* Two lists without repetitions and without common elements, one after the
\* other.
LEMMA Joining ==
    ASSUME NEW S, NEW s \in Seq(S), NEW t \in Seq(S)
    PROVE  /\ s \o t \in Seq(S)
           /\ ToSet(s \o t) = ToSet(s) \cup ToSet(t)
           /\ IsInjective(s) /\ IsInjective(t) /\ ToSet(s) \cap ToSet(t) = {}
                => IsInjective(s \o t)
<1> DEFINE u == s \o t
<1>1. /\ u \in Seq(S) /\ Len(u) = Len(s) + Len(t)
      /\ Len(s) \in Nat /\ Len(t) \in Nat
      /\ \A i \in 1..Len(u) : u[i] = IF i <= Len(s) THEN s[i] ELSE t[i - Len(s)]
  BY ConcatProperties, LenProperties
<1> HIDE DEF u
<1>2. ToSet(u) = ToSet(s) \cup ToSet(t)
  <2>1. ASSUME NEW x \in ToSet(u) PROVE x \in ToSet(s) \cup ToSet(t)
    <3>1. PICK i \in 1..Len(u) : u[i] = x
      BY <1>1, <2>1, Places
    <3>2. CASE i <= Len(s)
      <4>1. i \in 1..Len(s) /\ s[i] = x
        BY <1>1, <3>1, <3>2
      <4> QED
        BY <4>1, Places
    <3>3. CASE i > Len(s)
      <4>1. i - Len(s) \in 1..Len(t) /\ t[i - Len(s)] = x
        BY <1>1, <3>1, <3>3
      <4> QED
        BY <4>1, Places
    <3> QED
      BY <1>1, <3>2, <3>3
  <2>2. ASSUME NEW x \in ToSet(s) PROVE x \in ToSet(u)
    <3>1. PICK i \in 1..Len(s) : s[i] = x
      BY <2>2, Places
    <3>2. i \in 1..Len(u) /\ u[i] = x
      BY <1>1, <3>1
    <3> QED
      BY <1>1, <3>2, Places
  <2>3. ASSUME NEW x \in ToSet(t) PROVE x \in ToSet(u)
    <3>1. PICK i \in 1..Len(t) : t[i] = x
      BY <2>3, Places
    <3>2. i + Len(s) \in 1..Len(u) /\ ~ i + Len(s) <= Len(s)
          /\ i + Len(s) - Len(s) = i
      BY <1>1
    <3>3. u[i + Len(s)] = x
      BY <1>1, <3>1, <3>2
    <3> QED
      BY <1>1, <3>2, <3>3, Places
  <2> QED
    BY <2>1, <2>2, <2>3
<1>3. ASSUME IsInjective(s), IsInjective(t), ToSet(s) \cap ToSet(t) = {}
      PROVE  IsInjective(u)
  <2>1. SUFFICES ASSUME NEW i \in 1..Len(u), NEW j \in 1..Len(u), u[i] = u[j]
                 PROVE  i = j
    BY <1>1, Places
  <2>2. \A k \in 1..Len(u) :
          IF k <= Len(s) THEN k \in 1..Len(s) /\ u[k] = s[k] /\ u[k] \in ToSet(s)
          ELSE /\ k - Len(s) \in 1..Len(t) /\ u[k] = t[k - Len(s)]
               /\ u[k] \in ToSet(t)
    <3>1. SUFFICES ASSUME NEW k \in 1..Len(u)
                   PROVE  IF k <= Len(s)
                          THEN k \in 1..Len(s) /\ u[k] = s[k] /\ u[k] \in ToSet(s)
                          ELSE /\ k - Len(s) \in 1..Len(t)
                               /\ u[k] = t[k - Len(s)] /\ u[k] \in ToSet(t)
      OBVIOUS
    <3>2. k <= Len(s) => k \in 1..Len(s) /\ u[k] = s[k]
      BY <1>1
    <3>3. ~ k <= Len(s) => k - Len(s) \in 1..Len(t) /\ u[k] = t[k - Len(s)]
      BY <1>1
    <3> QED
      BY <3>2, <3>3, Places
  <2>3. CASE i <= Len(s)
    <3>1. u[j] \notin ToSet(t)
      BY <1>3, <2>1, <2>2, <2>3
    <3>2. j <= Len(s)
      BY <2>2, <3>1
    <3>3. /\ i \in 1..Len(s) /\ j \in 1..Len(s) /\ s[i] = s[j]
      BY <2>1, <2>2, <2>3, <3>2
    <3> QED
      BY <1>3, <3>3, Places
  <2>4. CASE ~ i <= Len(s)
    <3>1. u[j] \notin ToSet(s)
      BY <1>3, <2>1, <2>2, <2>4
    <3>2. ~ j <= Len(s)
      BY <2>2, <3>1
    <3>3. /\ i - Len(s) \in 1..Len(t) /\ j - Len(s) \in 1..Len(t)
          /\ t[i - Len(s)] = t[j - Len(s)]
      BY <2>1, <2>2, <2>4, <3>2
    <3>4. i - Len(s) = j - Len(s)
      BY <1>3, <3>3, Places
    <3> QED
      BY <1>1, <3>4
  <2> QED
    BY <2>3, <2>4
<1> QED
  BY <1>1, <1>2, <1>3 DEF u

\* A piece of a list.
LEMMA Piece ==
    ASSUME NEW S, NEW seq \in Seq(S), IsInjective(seq),
           NEW m \in 1..(Len(seq) + 1), NEW n \in 0..Len(seq), m <= n + 1
    PROVE  LET piece == SubSeq(seq, m, n)
           IN  /\ piece \in Seq(S) /\ Len(piece) = n - m + 1
               /\ IsInjective(piece)
               /\ \A x : x \in ToSet(piece) <=> \E i \in m..n : seq[i] = x
<1> DEFINE piece == SubSeq(seq, m, n)
<1>1. \A i \in m..n : i \in 1..Len(seq) /\ seq[i] \in S
  BY Places
<1>2. /\ piece \in Seq(S) /\ Len(piece) = n - m + 1
      /\ \A i \in 1..(n - m + 1) : piece[i] = seq[m + i - 1]
  <2>1. m \in Int /\ n \in Int /\ (m <= n \/ n - m + 1 = 0)
    OBVIOUS
  <2> QED
    BY <1>1, <2>1, SubSeqProperties
<1> HIDE DEF piece
<1>3. IsInjective(piece)
  <2>1. SUFFICES ASSUME NEW i \in 1..Len(piece), NEW j \in 1..Len(piece),
                        piece[i] = piece[j]
                 PROVE  i = j
    BY <1>2, Places
  <2>2. m + i - 1 \in 1..Len(seq) /\ m + j - 1 \in 1..Len(seq)
    BY <1>2
  <2>3. seq[m + i - 1] = seq[m + j - 1]
    BY <1>2, <2>1
  <2>4. m + i - 1 = m + j - 1
    BY <2>2, <2>3, Places
  <2> QED
    BY <1>2, <2>4
<1>4. ASSUME NEW x
      PROVE  x \in ToSet(piece) <=> \E i \in m..n : seq[i] = x
  <2>1. ASSUME NEW k \in 1..Len(piece), piece[k] = x
        PROVE  \E i \in m..n : seq[i] = x
    <3>1. m + k - 1 \in m..n /\ seq[m + k - 1] = x
      BY <1>2, <2>1
    <3> QED
      BY <3>1
  <2>2. ASSUME NEW i \in m..n, seq[i] = x
        PROVE  \E k \in 1..Len(piece) : piece[k] = x
    <3>1. i - m + 1 \in 1..Len(piece) /\ piece[i - m + 1] = x
      BY <1>2, <2>2
    <3> QED
      BY <3>1
  <2> QED
    BY <1>2, <2>1, <2>2, Places
<1> QED
  BY <1>2, <1>3, <1>4 DEF piece

-----------------------------------------------------------------------------
(* The docs of the routes that match, in order.                            *)

\* The docs that the routes of a target name.
Named(target) == UNION {ToSet(table.routes[i].inject) : i \in Hits(target)}

LEMMA TableFacts ==
    ASSUME RouterTypeOK, NEW target
    PROVE  /\ Hits(target) \in SUBSET Nat /\ IsFiniteSet(Hits(target))
           /\ \A i \in Hits(target) : /\ table.routes[i].inject \in Seq(Doc)
                                      /\ table.routes[i].priority \in Nat
           /\ Named(target) \subseteq Doc /\ IsFiniteSet(Named(target))
<1>1. table.routes \in Seq(Route) /\ Len(table.routes) \in Nat
  BY LenProperties DEF RouterTypeOK
<1>2. Hits(target) \subseteq 1..Len(table.routes)
  BY DEF Hits
<1>3. IsFiniteSet(Hits(target))
  <2>1. IsFiniteSet(1..Len(table.routes))
    BY <1>1, FS_Interval
  <2> QED
    BY <1>2, <2>1, FS_Subset
<1>4. ASSUME NEW i \in Hits(target)
      PROVE  table.routes[i].inject \in Seq(Doc) /\ table.routes[i].priority \in Nat
  <2>1. table.routes[i] \in Route
    BY <1>1, <1>2, ElementOfSeq
  <2>2. table.routes[i].inject \in Injects /\ table.routes[i].priority \in 0..MaxPriority
    BY <2>1 DEF Route
  <2> QED
    BY <2>2, RouterAssumption
<1> DEFINE docs == [i \in Hits(target) |-> ToSet(table.routes[i].inject)]
<1>5. IsFiniteSet({docs[i] : i \in Hits(target)})
  <2> HIDE DEF docs
  <2>1. DOMAIN docs = Hits(target) /\ docs = [i \in Hits(target) |-> docs[i]]
    BY DEF docs
  <2> QED
    BY <1>3, <2>1, ImageFinite
<1>6. Named(target) = UNION {docs[i] : i \in Hits(target)}
  BY DEF Named
<1>7. \A i \in Hits(target) : docs[i] \subseteq Doc /\ IsFiniteSet(docs[i])
  BY <1>4, ElementsFinite, Places
<1> HIDE DEF docs
<1>8. IsFiniteSet(UNION {docs[i] : i \in Hits(target)})
  BY <1>5, <1>7, FS_UNION
<1> QED
  BY <1>1, <1>2, <1>3, <1>4, <1>6, <1>7, <1>8

\* Where a doc is seen first: the route, and the place in it.
First(doc, target) == Min(HitsOf(doc, target))
PlaceIn(list, doc) == Min({k \in 1..Len(list) : list[k] = doc})

LEMMA FirstFacts ==
    ASSUME RouterTypeOK, NEW target, NEW d \in Named(target)
    PROVE  /\ First(d, target) \in HitsOf(d, target)
           /\ First(d, target) \in Nat
           /\ BestPriority(d, target) \in Nat
           /\ \E i \in HitsOf(d, target) :
                table.routes[i].priority = BestPriority(d, target)
           /\ \A i \in HitsOf(d, target) :
                BestPriority(d, target) <= table.routes[i].priority
<1> DEFINE H == HitsOf(d, target)
           Ps == {table.routes[i].priority : i \in H}
<1>1. H \in SUBSET Nat /\ H # {}
  BY TableFacts DEF HitsOf, Named
<1>2. Ps \in SUBSET Nat /\ Ps # {}
  BY <1>1, TableFacts DEF HitsOf
<1>3. Min(H) \in H
  <2> HIDE DEF H
  <2> QED
    BY <1>1, MinFacts
<1>4. Min(Ps) \in Ps /\ \A p \in Ps : Min(Ps) <= p
  <2> HIDE DEF Ps
  <2> QED
    BY <1>2, MinFacts
<1> QED
  BY <1>1, <1>2, <1>3, <1>4 DEF First, BestPriority

LEMMA PlaceFacts ==
    ASSUME NEW list \in Seq(Doc), NEW d \in ToSet(list)
    PROVE  /\ PlaceIn(list, d) \in 1..Len(list) /\ PlaceIn(list, d) \in Nat
           /\ list[PlaceIn(list, d)] = d
<1> DEFINE T == {k \in 1..Len(list) : list[k] = d}
<1>1. T \in SUBSET Nat /\ T # {}
  BY Places
<1>2. Min(T) \in T
  <2> HIDE DEF T
  <2> QED
    BY <1>1, MinFacts
<1> QED
  BY <1>1, <1>2 DEF PlaceIn

\* Ahead of another doc are those with a better priority, then those of an
\* earlier route, then those that are named earlier.
Order(target) ==
    {q \in Named(target) \X Named(target) : Precedes(q[1], q[2], target)}

LEMMA PrecedesFacts ==
    ASSUME RouterTypeOK, NEW target, NEW d \in Named(target), NEW e \in Named(target)
    PROVE  LET p == BestPriority(d, target)
               q == BestPriority(e, target)
               i == First(d, target)
               j == First(e, target)
               list == table.routes[i].inject
           IN  <<d, e>> \in Order(target) <=>
                 \/ p < q
                 \/ p = q /\ i < j
                 \/ p = q /\ i = j /\ PlaceIn(list, d) < PlaceIn(list, e)
BY DEF Order, Precedes, First, PlaceIn

LEMMA DocsOrdered ==
    ASSUME RouterTypeOK, NEW target
    PROVE  IsOrder(Order(target), Named(target))
<1> DEFINE p(d) == BestPriority(d, target)
           i(d) == First(d, target)
           k(d) == PlaceIn(table.routes[First(d, target)].inject, d)
<1>1. \A d \in Named(target) :
        /\ p(d) \in Nat /\ i(d) \in Nat /\ k(d) \in Nat
        /\ i(d) \in HitsOf(d, target)
        /\ table.routes[i(d)].inject[k(d)] = d
  <2> SUFFICES ASSUME NEW d \in Named(target)
               PROVE  /\ p(d) \in Nat /\ i(d) \in Nat /\ k(d) \in Nat
                      /\ i(d) \in HitsOf(d, target)
                      /\ table.routes[i(d)].inject[k(d)] = d
    OBVIOUS
  <2>1. p(d) \in Nat /\ i(d) \in Nat /\ i(d) \in HitsOf(d, target)
    BY FirstFacts
  <2>2. /\ table.routes[i(d)].inject \in Seq(Doc)
        /\ d \in ToSet(table.routes[i(d)].inject)
    BY <2>1, TableFacts DEF HitsOf
  <2> QED
    BY <2>1, <2>2, PlaceFacts
<1>2. \A d, e \in Named(target) :
        <<d, e>> \in Order(target) <=>
          \/ p(d) < p(e)
          \/ p(d) = p(e) /\ i(d) < i(e)
          \/ p(d) = p(e) /\ i(d) = i(e) /\ k(d) < k(e)
  <2> SUFFICES ASSUME NEW d \in Named(target), NEW e \in Named(target)
               PROVE  <<d, e>> \in Order(target) <=>
                        \/ p(d) < p(e)
                        \/ p(d) = p(e) /\ i(d) < i(e)
                        \/ p(d) = p(e) /\ i(d) = i(e) /\ k(d) < k(e)
    OBVIOUS
  <2>1. <<d, e>> \in Order(target) <=>
          \/ p(d) < p(e)
          \/ p(d) = p(e) /\ i(d) < i(e)
          \/ /\ p(d) = p(e) /\ i(d) = i(e)
             /\ k(d) < PlaceIn(table.routes[i(d)].inject, e)
    BY PrecedesFacts
  <2> QED
    BY <2>1
<1>3. \A d, e \in Named(target) : i(d) = i(e) /\ k(d) = k(e) => d = e
  BY <1>1
<1> HIDE DEF p, i, k
<1>4. \A d \in Named(target) : <<d, d>> \notin Order(target)
  BY <1>1, <1>2
<1>5. ASSUME NEW d \in Named(target), NEW e \in Named(target), d # e
      PROVE  <<d, e>> \in Order(target) \/ <<e, d>> \in Order(target)
  <2>1. i(d) # i(e) \/ k(d) # k(e)
    BY <1>3, <1>5
  <2> QED
    BY <1>1, <1>2, <2>1
<1>6. ASSUME NEW d \in Named(target), NEW e \in Named(target),
             NEW f \in Named(target),
             <<d, e>> \in Order(target), <<e, f>> \in Order(target)
      PROVE  <<d, f>> \in Order(target)
  BY <1>1, <1>2, <1>6
<1> QED
  BY <1>4, <1>5, <1>6 DEF IsOrder

LEMMA OrderedFacts ==
    ASSUME RouterTypeOK, NEW target
    PROVE  LET list == OrderedDocs(target)
           IN  /\ list \in Seq(Doc) /\ IsInjective(list)
               /\ ToSet(list) = Named(target)
               /\ \A i, j \in 1..Len(list) :
                    i < j => Precedes(list[i], list[j], target)
<1> DEFINE S == Named(target)
           R == Order(target)
           n == Cardinality(S)
           Right(list) == \A i, j \in 1..Len(list) :
                            i < j => Precedes(list[i], list[j], target)
           list == OrderedDocs(target)
<1>1. S \subseteq Doc /\ IsFiniteSet(S) /\ n \in Nat /\ IsOrder(R, S)
  BY TableFacts, FS_CardinalityType, DocsOrdered
<1> HIDE DEF n
<1>2. PICK f \in [1..n -> S] : Sorted(f, n, R)
  BY <1>1, SortedExists DEF n
<1>3. f \in SetToSeqs(S)
  <2>1. ASSUME NEW i \in 1..n, NEW j \in 1..n, i # j PROVE f[i] # f[j]
    <3>1. i < j \/ j < i
      BY <1>1, <2>1
    <3>2. <<f[i], f[j]>> \in R \/ <<f[j], f[i]>> \in R
      BY <1>2, <3>1 DEF Sorted
    <3> QED
      BY <1>1, <1>2, <3>2 DEF IsOrder
  <2> QED
    BY <1>2, <2>1 DEF SetToSeqs, n
<1>4. \A g \in SetToSeqs(S) : /\ g \in [1..n -> S] /\ g \in Seq(S) /\ Len(g) = n
                              /\ IsInjective(g)
  BY <1>1 DEF SetToSeqs, n, IsInjective
<1>5. Right(f)
  <2>1. Len(f) = n
    BY <1>3, <1>4
  <2> QED
    BY <1>2, <2>1 DEF Sorted, Order
<1>6. list = CHOOSE g \in SetToSeqs(S) : Right(g)
  BY DEF OrderedDocs, Named
<1>7. list \in SetToSeqs(S) /\ Right(list)
  <2> HIDE DEF Right, list, S
  <2> QED
    BY <1>3, <1>5, <1>6
<1>8. list \in Seq(Doc)
  BY <1>1, <1>4, <1>7, SeqMonotonic
<1>9. ToSet(list) = S
  <2>1. list \in Injection(1..n, S) /\ IsFiniteSet(1..n) /\ Cardinality(1..n) = n
    BY <1>1, <1>4, <1>7, FS_Interval DEF Injection
  <2>2. list \in Surjection(1..n, S)
    BY <1>1, <2>1, FS_Injection DEF n
  <2>3. list \in [1..n -> S] /\ \A d \in S : \E i \in 1..n : list[i] = d
    BY <2>2 DEF Surjection
  <2>4. DOMAIN list = 1..n
    BY <2>3
  <2> HIDE DEF list
  <2> QED
    BY <2>3, <2>4 DEF ToSet
<1> QED
  BY <1>4, <1>7, <1>8, <1>9

-----------------------------------------------------------------------------
(* What becomes of the docs that are kept.                                 *)

\* The steps by which InState goes along a list.
LEMMA Choosing ==
    ASSUME NEW docs \in Seq(Doc), NEW state
    PROVE  \E f \in [0..Len(docs) -> Seq(Doc)] :
             /\ f[0] = <<>>
             /\ \A k \in 1..Len(docs) :
                  f[k] = IF DocState[docs[k]] = state
                         THEN Append(f[k - 1], docs[k]) ELSE f[k - 1]
             /\ InState(docs, state) = f[Len(docs)]
<1> DEFINE n == Len(docs)
           Next(s, k) == IF DocState[docs[k]] = state THEN Append(s, docs[k]) ELSE s
           Is(f) == f = [k \in 0..n |-> IF k = 0 THEN <<>>
                           ELSE IF DocState[docs[k]] = state
                                THEN Append(f[k - 1], docs[k])
                                ELSE f[k - 1]]
           UpTo(f, k) == /\ f \in [0..k -> Seq(Doc)] /\ f[0] = <<>>
                         /\ \A m \in 1..k : f[m] = Next(f[m - 1], m)
           P == {k \in 0..n : \E f : UpTo(f, k)}
<1>1. n \in Nat /\ \A k \in 1..n : docs[k] \in Doc
  BY Places
<1>2. \A s \in Seq(Doc), k \in 1..n : Next(s, k) \in Seq(Doc)
  BY <1>1, AppendProperties
<1>3. \A f, k : Next(f[k - 1], k) = IF DocState[docs[k]] = state
                                    THEN Append(f[k - 1], docs[k]) ELSE f[k - 1]
  OBVIOUS
<1>4. <<>> \in Seq(Doc)
  OBVIOUS
<1> HIDE DEF n, Next
<1>5. 0 \in P
  <2>1. UpTo([m \in 0..0 |-> <<>>], 0)
    BY <1>4
  <2>2. 0 \in 0..n
    BY <1>1
  <2> HIDE DEF UpTo
  <2> QED
    BY <2>1, <2>2
<1>6. ASSUME NEW k \in 1..n, k - 1 \in P PROVE k \in P
  <2>1. PICK f : UpTo(f, k - 1)
    BY <1>6
  <2> DEFINE g == [m \in 0..k |-> IF m = k THEN Next(f[k - 1], k) ELSE f[m]]
  <2>2. f[k - 1] \in Seq(Doc)
    BY <1>1, <2>1
  <2>3. Next(f[k - 1], k) \in Seq(Doc)
    BY <1>2, <2>2
  <2>4. g \in [0..k -> Seq(Doc)] /\ g[0] = <<>>
    <3>1. k \in Nat /\ 0 # k /\ 0 \in 0..k /\ 0 \in 0..(k - 1)
      BY <1>1
    <3>2. \A m \in 0..k : m # k => m \in 0..(k - 1)
      BY <1>1
    <3>3. \A m \in 0..(k - 1) : f[m] \in Seq(Doc)
      BY <2>1
    <3>4. f[0] = <<>>
      BY <2>1
    <3> QED
      BY <2>3, <3>1, <3>2, <3>3, <3>4
  <2>5. \A m \in 1..k : g[m] = Next(g[m - 1], m)
    <3> SUFFICES ASSUME NEW m \in 1..k PROVE g[m] = Next(g[m - 1], m)
      OBVIOUS
    <3>1. g[m - 1] = f[m - 1]
      BY <1>1, <2>1
    <3>2. CASE m = k
      BY <1>1, <3>1, <3>2
    <3>3. CASE m # k
      <4>1. m \in 1..(k - 1) /\ g[m] = f[m]
        BY <1>1, <3>3
      <4> QED
        BY <2>1, <3>1, <4>1
    <3> QED
      BY <3>2, <3>3
  <2>6. UpTo(g, k)
    BY <2>4, <2>5
  <2> HIDE DEF g, UpTo
  <2> QED
    BY <2>6
<1>7. PICK f : UpTo(f, n)
  <2> HIDE DEF P
  <2>1. \A k \in 1..n : k - 1 \in P => k \in P
    BY <1>6
  <2>2. \A k \in 0..n : k \in P
    BY <1>1, <1>5, <2>1, Upward
  <2>3. n \in 0..n
    BY <1>1
  <2>4. n \in P
    BY <2>2, <2>3
  <2> QED
    BY <2>4 DEF P
<1>8. Is(f)
  <2>1. f = [k \in 0..n |-> f[k]] /\ f[0] = <<>>
    BY <1>7
  <2>2. \A k \in 1..n : f[k] = IF DocState[docs[k]] = state
                               THEN Append(f[k - 1], docs[k]) ELSE f[k - 1]
    BY <1>3, <1>7
  <2>3. \A k \in 0..n : k = 0 \/ k \in 1..n
    BY <1>1
  <2> QED
    BY <2>1, <2>2, <2>3
<1> DEFINE g == CHOOSE h : Is(h)
<1>9. Is(g)
  BY <1>8
<1>10. InState(docs, state) = g[n]
  BY DEF InState, n
<1> HIDE DEF g
<1>11. /\ g[0] = <<>>
       /\ \A k \in 1..n : g[k] = IF DocState[docs[k]] = state
                                THEN Append(g[k - 1], docs[k]) ELSE g[k - 1]
  <2>1. \A k \in 0..n : g[k] = IF k = 0 THEN <<>>
                              ELSE IF DocState[docs[k]] = state
                              THEN Append(g[k - 1], docs[k]) ELSE g[k - 1]
    BY <1>9
  <2> QED
    BY <1>1, <2>1
<1>12. g \in [0..n -> Seq(Doc)]
  <2> DEFINE Q == {k \in 0..n : g[k] \in Seq(Doc)}
  <2>1. 0 \in Q
    <3>1. g[0] \in Seq(Doc)
      BY <1>4, <1>11, Zenon
    <3> QED
      BY <1>1, <3>1
  <2>2. ASSUME NEW k \in 1..n, k - 1 \in Q PROVE k \in Q
    <3>1. g[k - 1] \in Seq(Doc)
      BY <2>2
    <3>2. Append(g[k - 1], docs[k]) \in Seq(Doc)
      BY <1>1, <3>1, AppendProperties
    <3>3. g[k] \in Seq(Doc)
      BY <1>11, <3>1, <3>2
    <3> QED
      BY <1>1, <3>3
  <2> HIDE DEF Q
  <2>3. \A k \in 0..n : k \in Q
    BY <1>1, <2>1, <2>2, Upward
  <2>4. \A k \in 0..n : g[k] \in Seq(Doc)
    BY <2>3 DEF Q
  <2> QED
    BY <1>9, <2>4
<1> QED
  BY <1>10, <1>11, <1>12 DEF n

\* InState keeps just the docs of the state, each of them once.
LEMMA InStateFacts ==
    ASSUME NEW docs \in Seq(Doc), NEW state, IsInjective(docs)
    PROVE  LET list == InState(docs, state)
           IN  /\ list \in Seq(Doc) /\ IsInjective(list)
               /\ ToSet(list) = {d \in ToSet(docs) : DocState[d] = state}
<1> DEFINE n == Len(docs)
           Upto(k) == {d \in Doc : DocState[d] = state /\ \E j \in 1..k : docs[j] = d}
<1>1. n \in Nat /\ \A k \in 1..n : docs[k] \in Doc
  BY Places
<1>2. PICK f \in [0..n -> Seq(Doc)] :
        /\ f[0] = <<>>
        /\ \A k \in 1..n : f[k] = IF DocState[docs[k]] = state
                                  THEN Append(f[k - 1], docs[k]) ELSE f[k - 1]
        /\ InState(docs, state) = f[n]
  BY Choosing
<1> DEFINE P == {k \in 0..n : IsInjective(f[k]) /\ ToSet(f[k]) = Upto(k)}
<1>3. 0 \in P
  <2>1. IsInjective(<<>>) /\ ToSet(<<>>) = {}
    BY DEF IsInjective, ToSet
  <2>2. Upto(0) = {}
    OBVIOUS
  <2> QED
    BY <1>1, <1>2, <2>1, <2>2
<1>4. ASSUME NEW k \in 1..n, k - 1 \in P PROVE k \in P
  <2> DEFINE s == f[k - 1]
             d == docs[k]
  <2>1. /\ s \in Seq(Doc) /\ d \in Doc /\ k \in 0..n
        /\ IsInjective(s) /\ ToSet(s) = Upto(k - 1)
    BY <1>1, <1>2, <1>4
  <2>2. CASE DocState[d] # state
    <3>1. f[k] = s
      BY <1>2, <2>2
    <3>2. Upto(k) = Upto(k - 1)
      BY <1>1, <2>2
    <3> QED
      BY <2>1, <3>1, <3>2
  <2>3. CASE DocState[d] = state
    <3>1. f[k] = Append(s, d)
      BY <1>2, <2>3
    <3>2. /\ <<d>> \in Seq(Doc) /\ Append(s, d) = s \o <<d>>
          /\ IsInjective(<<d>>) /\ ToSet(<<d>>) = {d}
      <4>1. <<d>> \in Seq(Doc) /\ Len(<<d>>) = 1 /\ <<d>>[1] = d
        BY <2>1
      <4>2. IsInjective(<<d>>) /\ ToSet(<<d>>) = {d}
        BY DEF IsInjective, ToSet
      <4>3. Append(s, d) = s \o <<d>>
        BY <2>1, AppendIsConcat
      <4> QED
        BY <4>1, <4>2, <4>3
    <3>3. d \notin Upto(k - 1)
      <4>1. \A j \in 1..(k - 1) : docs[j] # docs[k]
        BY <1>1, Places
      <4> QED
        BY <4>1
    <3>4. Upto(k) = Upto(k - 1) \cup {d}
      <4>1. \A j \in 1..k : j = k \/ j \in 1..(k - 1)
        BY <1>1
      <4>2. 1..(k - 1) \subseteq 1..k /\ k \in 1..k
        BY <1>1
      <4> QED
        BY <2>1, <2>3, <4>1, <4>2
    <3> HIDE DEF Upto, s, d
    <3>5. IsInjective(f[k]) /\ ToSet(f[k]) = Upto(k)
      <4>1. ToSet(s) \cap ToSet(<<d>>) = {}
        BY <2>1, <3>2, <3>3
      <4>2. IsInjective(s \o <<d>>) /\ ToSet(s \o <<d>>) = ToSet(s) \cup ToSet(<<d>>)
        <5>1. \A t \in Seq(Doc) :
                IsInjective(t) /\ ToSet(s) \cap ToSet(t) = {}
                  => /\ IsInjective(s \o t)
                     /\ ToSet(s \o t) = ToSet(s) \cup ToSet(t)
          BY <2>1, Joining
        <5> QED
          BY <3>2, <4>1, <5>1
      <4> QED
        BY <2>1, <3>1, <3>2, <3>4, <4>2
    <3> QED
      BY <2>1, <3>5
  <2> QED
    BY <2>2, <2>3
<1> HIDE DEF P
<1>5. n \in P
  <2> HIDE DEF n
  <2>1. \A k \in 1..n : k - 1 \in P => k \in P
    BY <1>4
  <2>2. \A k \in 0..n : k \in P
    BY <1>1, <1>3, <2>1, Upward
  <2> QED
    BY <1>1, <2>2
<1>6. IsInjective(f[n]) /\ ToSet(f[n]) = Upto(n) /\ f[n] \in Seq(Doc)
  BY <1>1, <1>2, <1>5 DEF P
<1>7. Upto(n) = {d \in ToSet(docs) : DocState[d] = state}
  BY <1>1, Places
<1> QED
  BY <1>2, <1>6, <1>7

-----------------------------------------------------------------------------
(* The block.                                                              *)

KeptDocs(b) == b.injected \o b.empty \o b.missing

\* What build_context makes of the docs of the matching routes.
LEMMA BlockFacts ==
    ASSUME RouterTypeOK, NEW target, NEW budget \in Nat
    PROVE  LET b == ContextBlock(target, budget)
           IN  /\ b \in [{"injected", "empty", "missing", "over"} -> Seq(Doc)]
               /\ IsInjective(KeptDocs(b) \o b.over)
               /\ ToSet(KeptDocs(b) \o b.over) = Named(target)
               /\ b.over # <<>> => Len(KeptDocs(b)) = budget
               /\ \A d \in ToSet(b.over), e \in ToSet(KeptDocs(b)) :
                    /\ d \in Named(target) /\ e \in Named(target)
                    /\ BestPriority(e, target) <= BestPriority(d, target)
<1> DEFINE order == OrderedDocs(target)
           n == Len(order)
           cut == IF budget > 0 /\ n > budget THEN budget ELSE n
           kept == SubSeq(order, 1, cut)
           over == SubSeq(order, cut + 1, n)
           s(state) == InState(kept, state)
           st == s("body") \o s("empty")
           u == st \o s("missing")
           b == ContextBlock(target, budget)
<1>0. \A p, q \in Seq(Doc) :
        /\ p \o q \in Seq(Doc) /\ ToSet(p \o q) = ToSet(p) \cup ToSet(q)
        /\ IsInjective(p) /\ IsInjective(q) /\ ToSet(p) \cap ToSet(q) = {}
             => IsInjective(p \o q)
  BY Joining
<1>1. /\ order \in Seq(Doc) /\ IsInjective(order) /\ ToSet(order) = Named(target)
      /\ \A i, j \in 1..n : i < j => Precedes(order[i], order[j], target)
  BY OrderedFacts
<1>2. n \in Nat
  BY <1>1, LenProperties
<1>3. b = [injected |-> s("body"), empty |-> s("empty"), missing |-> s("missing"),
           over |-> over]
  BY DEF ContextBlock
<1> HIDE DEF order, n, b
<1>4. /\ cut \in 0..n /\ cut \in Nat /\ (cut < n => cut = budget)
      /\ cut + 1 \in 1..(n + 1) /\ n \in 0..n /\ cut + 1 <= n + 1
      /\ 1 \in 1..(n + 1) /\ 1 <= cut + 1
  BY <1>2
<1> HIDE DEF cut
<1>5. /\ kept \in Seq(Doc) /\ Len(kept) = cut /\ IsInjective(kept)
      /\ \A x : x \in ToSet(kept) <=> \E i \in 1..cut : order[i] = x
  BY <1>1, <1>4, Piece DEF n
<1>6. /\ over \in Seq(Doc) /\ Len(over) = n - cut /\ IsInjective(over)
      /\ \A x : x \in ToSet(over) <=> \E i \in (cut + 1)..n : order[i] = x
  BY <1>1, <1>2, <1>4, Piece DEF n
<1> HIDE DEF kept, over
<1>7. \A x : x \in ToSet(order) <=> \E i \in 1..n : order[i] = x
  BY <1>1, Places DEF n
<1>8. ToSet(kept) \cup ToSet(over) = ToSet(order)
  <2>1. \A i \in 1..n : i \in 1..cut \/ i \in (cut + 1)..n
    BY <1>2, <1>4
  <2>2. 1..cut \subseteq 1..n /\ (cut + 1)..n \subseteq 1..n
    BY <1>2, <1>4
  <2> QED
    BY <1>5, <1>6, <1>7, <2>1, <2>2
<1>9. ASSUME NEW d \in ToSet(over), NEW e \in ToSet(kept)
      PROVE  /\ d \in Named(target) /\ e \in Named(target) /\ d # e
             /\ Precedes(e, d, target)
  <2>1. PICK j \in (cut + 1)..n : order[j] = d
    BY <1>6
  <2>2. PICK i \in 1..cut : order[i] = e
    BY <1>5
  <2>3. i \in 1..n /\ j \in 1..n /\ i < j
    BY <1>2, <1>4
  <2>4. d # e
    BY <1>1, <2>1, <2>2, <2>3, Places DEF n
  <2> QED
    BY <1>1, <1>8, <2>1, <2>2, <2>3, <2>4
<1>10. \A state : /\ s(state) \in Seq(Doc) /\ IsInjective(s(state))
                  /\ ToSet(s(state)) = {d \in ToSet(kept) : DocState[d] = state}
  BY <1>5, InStateFacts
<1> HIDE DEF s
<1>11. \A d \in ToSet(kept) : DocState[d] \in {"body", "empty", "missing"}
  BY <1>5, Places, RouterAssumption
<1>12. /\ st \in Seq(Doc) /\ IsInjective(st)
       /\ ToSet(st) = ToSet(s("body")) \cup ToSet(s("empty"))
  <2>1. ToSet(s("body")) \cap ToSet(s("empty")) = {}
    BY <1>10
  <2> QED
    BY <1>10, <2>1, Joining
<1> HIDE DEF st
<1>13. u \in Seq(Doc) /\ IsInjective(u) /\ ToSet(u) = ToSet(kept)
  <2>1. ToSet(st) \cap ToSet(s("missing")) = {}
    BY <1>10, <1>12
  <2>2. ToSet(st) \cup ToSet(s("missing")) = ToSet(kept)
    BY <1>10, <1>11, <1>12
  <2> QED
    BY <1>0, <1>10, <1>12, <2>1, <2>2 DEF u
<1> HIDE DEF u
<1>14. KeptDocs(b) = u /\ b.over = over
  BY <1>3 DEF KeptDocs, u, st
<1>15. Len(u) = cut
  BY <1>5, <1>13, LengthIsSize
<1>16. IsInjective(u \o over) /\ ToSet(u \o over) = Named(target)
  <2>1. ToSet(u) \cap ToSet(over) = {}
    BY <1>9, <1>13
  <2> QED
    BY <1>0, <1>1, <1>6, <1>8, <1>13, <2>1
<1>17. over # <<>> => Len(u) = budget
  <2>1. over # <<>> => Len(over) # 0
    BY <1>6, EmptySeq
  <2> QED
    BY <1>2, <1>4, <1>6, <1>15, <2>1
<1>18. ASSUME NEW d \in ToSet(over), NEW e \in ToSet(u)
       PROVE  /\ d \in Named(target) /\ e \in Named(target)
              /\ BestPriority(e, target) <= BestPriority(d, target)
  <2>1. /\ d \in Named(target) /\ e \in Named(target)
        /\ Precedes(e, d, target)
    BY <1>9, <1>13
  <2>2. BestPriority(d, target) \in Nat /\ BestPriority(e, target) \in Nat
    BY <2>1, FirstFacts
  <2>3. BestPriority(e, target) <= BestPriority(d, target)
    BY <2>1, <2>2 DEF Precedes
  <2> QED
    BY <2>1, <2>3
<1>19. b \in [{"injected", "empty", "missing", "over"} -> Seq(Doc)]
  BY <1>3, <1>6, <1>10
<1> QED
  BY <1>14, <1>16, <1>17, <1>18, <1>19 DEF b

-----------------------------------------------------------------------------
(* The router's steps.                                                     *)

\* What SelectionRight says of a block that is made for a target.
Selects(b, routes, budget) ==
    LET kept == KeptDocs(b)
        all == kept \o b.over
    IN  /\ IsInjective(all)
        /\ ToSet(all) = UNION {ToSet(r.inject) : r \in routes}
        /\ b.over # <<>> => Len(kept) = budget
        /\ \A d \in ToSet(b.over), e \in ToSet(kept) :
            \A r \in routes : d \in ToSet(r.inject) =>
                \E q \in routes :
                    e \in ToSet(q.inject) /\ q.priority <= r.priority

RoutesOf(target) == {table.routes[i] : i \in Hits(target)}

LEMMA SelectionSelects ==
    SelectionRight <=>
        (request.target # <<>> =>
            Selects(block, RoutesOf(request.target), request.budget))
BY DEF SelectionRight, Selects, KeptDocs, RoutesOf

LEMMA BlockSelects ==
    ASSUME RouterTypeOK, NEW target, NEW budget \in Nat
    PROVE  Selects(ContextBlock(target, budget), RoutesOf(target), budget)
<1> DEFINE b == ContextBlock(target, budget)
           routes == {table.routes[i] : i \in Hits(target)}
<1>1. /\ IsInjective(KeptDocs(b) \o b.over)
      /\ ToSet(KeptDocs(b) \o b.over) = Named(target)
      /\ b.over # <<>> => Len(KeptDocs(b)) = budget
      /\ \A d \in ToSet(b.over), e \in ToSet(KeptDocs(b)) :
           /\ d \in Named(target) /\ e \in Named(target)
           /\ BestPriority(e, target) <= BestPriority(d, target)
  BY BlockFacts
<1> HIDE DEF b
<1>2. Named(target) = UNION {ToSet(r.inject) : r \in routes}
  BY DEF Named
<1>3. ASSUME NEW d \in ToSet(b.over), NEW e \in ToSet(KeptDocs(b)),
             NEW r \in routes, d \in ToSet(r.inject)
      PROVE  \E q \in routes : e \in ToSet(q.inject) /\ q.priority <= r.priority
  <2>1. PICK i \in Hits(target) : r = table.routes[i]
    OBVIOUS
  <2>2. i \in HitsOf(d, target)
    BY <1>3, <2>1 DEF HitsOf
  <2>3. /\ BestPriority(d, target) <= r.priority
        /\ BestPriority(d, target) \in Nat /\ r.priority \in Nat
    BY <1>1, <2>1, <2>2, FirstFacts, TableFacts
  <2>4. PICK j \in HitsOf(e, target) :
               table.routes[j].priority = BestPriority(e, target)
    BY <1>1, FirstFacts
  <2>5. /\ table.routes[j] \in routes /\ e \in ToSet(table.routes[j].inject)
        /\ BestPriority(e, target) \in Nat
    BY <1>1, FirstFacts DEF HitsOf
  <2>6. BestPriority(e, target) <= BestPriority(d, target)
    BY <1>1
  <2>7. table.routes[j].priority <= r.priority
    BY <2>3, <2>4, <2>5, <2>6
  <2> QED
    BY <2>5, <2>7
<1> QED
  BY <1>1, <1>2, <1>3 DEF Selects, RoutesOf, b

RouterInv == RouterTypeOK /\ SelectionRight

BlockType == [{"injected", "empty", "missing", "over"} -> Seq(Doc)]

LEMMA NoBlockType == NoBlock \in BlockType
<1>1. \A s \in Seq(Doc) : [injected |-> s, empty |-> s, missing |-> s, over |-> s]
                            \in BlockType
  BY DEF BlockType
<1>2. PICK s : s = <<>>
  OBVIOUS
<1>3. s \in Seq(Doc)
  BY <1>2
<1> QED
  BY <1>1, <1>2, <1>3 DEF NoBlock

LEMMA RouterInvInit == RouterInit => RouterInv
<1> SUFFICES ASSUME RouterInit PROVE RouterInv
  OBVIOUS
<1>1. table = [compat |-> {}, routes |-> <<>>] /\ <<>> \in Seq(Route)
      /\ Len(<<>>) = 0
  BY DEF RouterInit
<1>2. table \in [compat : EngineCompat \cup {{}}, routes : Seq(Route)]
      /\ Len(table.routes) <= MaxRoutes
  BY <1>1, RouterAssumption
<1>3. request \in [target : Target \cup {<<>>}, budget : 0..MaxBudget]
      /\ request.target = <<>>
  BY RouterAssumption DEF RouterInit
<1>4. block \in BlockType
  BY NoBlockType DEF RouterInit
<1> QED
  BY <1>2, <1>3, <1>4 DEF RouterInv, RouterTypeOK, SelectionRight, BlockType

LEMMA RouterInvStep == RouterInv /\ [RouterNext]_routerVars => RouterInv'
<1> SUFFICES ASSUME RouterInv, [RouterNext]_routerVars PROVE RouterInv'
  OBVIOUS
<1>0. (SelectionRight <=>
          (request.target # <<>> =>
              Selects(block, RoutesOf(request.target), request.budget)))'
  BY SelectionSelects, PTL
<1>1. CASE EditTable
  <2>1. request' = [target |-> <<>>, budget |-> 0] /\ block' = NoBlock
    BY <1>1 DEF EditTable
  <2>2. /\ request' \in [target : Target \cup {<<>>}, budget : 0..MaxBudget]
        /\ request'.target = <<>>
    BY <2>1, RouterAssumption
  <2>3. block' \in BlockType
    BY <2>1, NoBlockType
  <2>4. /\ table \in [compat : EngineCompat \cup {{}}, routes : Seq(Route)]
        /\ Len(table.routes) <= MaxRoutes
    BY DEF RouterInv, RouterTypeOK
  <2>5. /\ table' \in [compat : EngineCompat \cup {{}}, routes : Seq(Route)]
        /\ Len(table'.routes) <= MaxRoutes
    <3>1. ASSUME NEW compat \in EngineCompat,
                 table' = [table EXCEPT !.compat = compat]
          PROVE  <2>5!1 /\ <2>5!2
      BY <2>4, <3>1
    <3>2. ASSUME Len(table.routes) < MaxRoutes, NEW r \in Route,
                 table' = [table EXCEPT !.routes = Append(@, r)]
          PROVE  <2>5!1 /\ <2>5!2
      <4>1. /\ Append(table.routes, r) \in Seq(Route)
            /\ Len(Append(table.routes, r)) = Len(table.routes) + 1
            /\ Len(table.routes) \in Nat
        BY <2>4, AppendProperties, LenProperties
      <4>2. Len(Append(table.routes, r)) <= MaxRoutes
        BY <3>2, <4>1, RouterAssumption
      <4> QED
        BY <2>4, <3>2, <4>1, <4>2
    <3> QED
      BY <1>1, <3>1, <3>2 DEF EditTable
  <2> QED
    BY <2>2, <2>3, <2>5 DEF RouterInv, RouterTypeOK, SelectionRight, BlockType
<1>2. ASSUME NEW target \in Target, NEW budget \in 0..MaxBudget,
             BuildContext(target, budget)
      PROVE  RouterInv'
  <2>1. /\ request' = [target |-> target, budget |-> budget]
        /\ block' = ContextBlock(target, budget) /\ table' = table
    BY <1>2 DEF BuildContext
  <2>2. budget \in Nat
    BY RouterAssumption
  <2>3. block' \in BlockType
    BY <2>1, <2>2, BlockFacts DEF RouterInv, BlockType
  <2>4. RouterTypeOK'
    BY <2>1, <2>3 DEF RouterInv, RouterTypeOK, BlockType
  <2>5. Selects(block', RoutesOf(target), budget)
    BY <2>1, <2>2, BlockSelects DEF RouterInv
  <2>6. RoutesOf(request.target)' = RoutesOf(target) /\ request'.budget = budget
    BY <2>1 DEF Hits, RoutesOf
  <2>7. SelectionRight'
    BY <1>0, <2>1, <2>5, <2>6
  <2> QED
    BY <2>4, <2>7 DEF RouterInv
<1>3. CASE UNCHANGED routerVars
  <2>1. UNCHANGED <<table, request, block>>
    BY <1>3 DEF routerVars
  <2>2. RoutesOf(request.target)' = RoutesOf(request.target)
    BY <2>1 DEF Hits, RoutesOf
  <2>3. Selects(block, RoutesOf(request.target), request.budget)'
          <=> Selects(block, RoutesOf(request.target), request.budget)
    BY <2>1, <2>2
  <2>4. SelectionRight'
    BY <1>0, <2>1, <2>3, SelectionSelects DEF RouterInv
  <2> QED
    BY <2>1, <2>4 DEF RouterInv, RouterTypeOK
<1> QED
  BY <1>1, <1>2, <1>3 DEF RouterNext

\* The table, the request and the block keep their types: build_context always
\* makes a block of lists of docs.
THEOREM RouterTypeCorrect == RouterSpec => []RouterTypeOK
<1>1. RouterInv => RouterTypeOK
  BY DEF RouterInv
<1> QED
  BY <1>1, RouterInvInit, RouterInvStep, PTL DEF RouterSpec

\* For any docs, globs and routes, and any budget: build_context loses no doc
\* of a matching route and brings none twice, it fills the budget before it
\* cuts, and what it cuts has no better priority than what it keeps.
THEOREM RouterSelectionRight == RouterSpec => []SelectionRight
<1>1. RouterInv => SelectionRight
  BY DEF RouterInv
<1> QED
  BY <1>1, RouterInvInit, RouterInvStep, PTL DEF RouterSpec

=============================================================================
