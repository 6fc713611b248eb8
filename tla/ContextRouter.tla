--------------------------- MODULE ContextRouter ---------------------------
(***************************************************************************)
(* The router of context_engine/route.py: which leaf docs an edit of a     *)
(* path brings into the context.  A path, and a glob, is a sequence of     *)
(* segments, a segment a sequence of characters; the code sees them joined *)
(* by slashes.  A segment <<"*", "*">> is the wildcard over segments.      *)
(***************************************************************************)
EXTENDS Naturals, Sequences, FiniteSets, SequencesExt, FiniteSetsExt

CONSTANTS
    Glob,           \* the globs that routes may have
    Target,         \* the paths that are edited
    Doc,            \* the leaf docs
    Injects,        \* the lists of docs that routes may name
    DocState,       \* of each doc: "body", "empty" or "missing"
    EngineCompat,   \* the version ranges that routes.yaml may state
    SchemaVersion,  \* the version of the engine, <<major, minor>>
    MaxPriority,    \* bound: priorities are 0..MaxPriority
    MaxRoutes,      \* bound: the routes
    MaxBudget       \* bound: max_docs_per_edit is 0..MaxBudget

ASSUME RouterAssumption ==
    /\ Injects \subseteq Seq(Doc)
    /\ DocState \in [Doc -> {"body", "empty", "missing"}]
    /\ MaxPriority \in Nat /\ MaxRoutes \in Nat /\ MaxBudget \in Nat
    /\ <<>> \notin Target

VARIABLES
    table,          \* routes.yaml: its range and its routes, in order
    request,        \* the path and the budget of the last edit
    block           \* what was made of its docs

routerVars == <<table, request, block>>

Route == [match : Glob, inject : Injects, priority : 0..MaxPriority]
NoBlock == [injected |-> <<>>, empty |-> <<>>, missing |-> <<>>, over |-> <<>>]

-----------------------------------------------------------------------------
(* Globs.                                                                  *)

Joined(segments) ==
    FlattenSeq([i \in 1..Len(segments) |->
        IF i = 1 THEN segments[1] ELSE <<"/">> \o segments[i]])

\* Mutant: an interior wildcard does not stand for nothing.
RegexStrict(glob) ==
    LET n == Len(glob)
        From[i \in 1..n + 1] ==
            IF i > n THEN <<>>
            ELSE IF i + 2 <= n /\ SubSeq(glob, i, i + 2) = <<"/", "*", "*">>
                 THEN IF i + 3 <= n /\ glob[i + 3] = "/"
                      THEN <<"/", "any", "/">> \o From[i + 4]
                      ELSE <<"subtree">> \o From[i + 3]
            ELSE IF glob[i] = "*" /\ i < n /\ glob[i + 1] = "*"
                 THEN <<"any">> \o From[IF i + 2 <= n /\ glob[i + 2] = "/"
                                        THEN i + 3 ELSE i + 2]
            ELSE IF glob[i] = "*" THEN <<"run">> \o From[i + 1]
            ELSE <<glob[i]>> \o From[i + 1]
    IN  From[1]

\* _glob_to_regex: "subtree" is (/.*)?, "between" is /(.*/)?, "any" is .* and
\* "run" is [^/]*; whatever else stands for itself.
Regex(glob) ==
    LET n == Len(glob)
        From[i \in 1..n + 1] ==
            IF i > n THEN <<>>
            ELSE IF i + 2 <= n /\ SubSeq(glob, i, i + 2) = <<"/", "*", "*">>
                 THEN IF i + 3 <= n /\ glob[i + 3] = "/"
                      THEN <<"between">> \o From[i + 4]
                      ELSE <<"subtree">> \o From[i + 3]
            ELSE IF glob[i] = "*" /\ i < n /\ glob[i + 1] = "*"
                 THEN <<"any">> \o From[IF i + 2 <= n /\ glob[i + 2] = "/"
                                        THEN i + 3 ELSE i + 2]
            ELSE IF glob[i] = "*" THEN <<"run">> \o From[i + 1]
            ELSE <<glob[i]>> \o From[i + 1]
    IN  From[1]

\* The regex matches the whole of the text.
Matches(regex, text) ==
    LET n == Len(text)
        Here(j) == j <= n /\ text[j] = "/"
        M[i \in 1..Len(regex) + 1, j \in 1..n + 1] ==
            IF i > Len(regex) THEN j > n
            ELSE CASE regex[i] = "any" -> \E k \in j..n + 1 : M[i + 1, k]
                   [] regex[i] = "run" -> \E k \in j..n + 1 :
                        /\ \A x \in j..k - 1 : text[x] # "/"
                        /\ M[i + 1, k]
                   [] regex[i] = "subtree" ->
                        \/ M[i + 1, j]
                        \/ Here(j) /\ \E k \in j + 1..n + 1 : M[i + 1, k]
                   [] regex[i] = "between" ->
                        /\ Here(j)
                        /\ \/ M[i + 1, j + 1]
                           \/ \E k \in j + 2..n + 1 : Here(k - 1) /\ M[i + 1, k]
                   [] OTHER -> j <= n /\ text[j] = regex[i] /\ M[i + 1, j + 1]
    IN  M[1, 1]

GlobMatches(glob, target) == Matches(Regex(Joined(glob)), Joined(target))

-----------------------------------------------------------------------------
(* Selection.                                                              *)

Atleast(v, w) == v[1] > w[1] \/ (v[1] = w[1] /\ v[2] >= w[2])

\* A range is a set of clauses; one that cannot be parsed, or none, is {}.
VersionInRange(clauses) ==
    /\ clauses # {}
    /\ \A c \in clauses :
        CASE c.op = ">=" -> Atleast(SchemaVersion, c.bound)
          [] c.op = "<=" -> Atleast(c.bound, SchemaVersion)
          [] c.op = ">" -> ~ Atleast(c.bound, SchemaVersion)
          [] c.op = "<" -> ~ Atleast(SchemaVersion, c.bound)
          [] c.op = "==" -> SchemaVersion = c.bound

\* The routes that match, by their place in the file.
Hits(target) ==
    IF VersionInRange(table.compat)
    THEN {i \in 1..Len(table.routes) : GlobMatches(table.routes[i].match, target)}
    ELSE {}

HitsOf(doc, target) ==
    {i \in Hits(target) : doc \in ToSet(table.routes[i].inject)}

\* Mutant: the first route decides.
PriorityOfFirst(doc, target) == table.routes[Min(HitsOf(doc, target))].priority

\* The best of the routes that bring a doc.
BestPriority(doc, target) ==
    Min({table.routes[i].priority : i \in HitsOf(doc, target)})

\* By priority, then by first sight.
Precedes(doc, other, target) ==
    LET p == BestPriority(doc, target)
        q == BestPriority(other, target)
        i == Min(HitsOf(doc, target))
        j == Min(HitsOf(other, target))
        list == table.routes[i].inject
    IN  \/ p < q
        \/ p = q /\ i < j
        \/ p = q /\ i = j
            /\ Min({k \in 1..Len(list) : list[k] = doc})
                < Min({k \in 1..Len(list) : list[k] = other})

\* Every doc of a route that matches, once.
OrderedDocs(target) ==
    LET docs == UNION {ToSet(table.routes[i].inject) : i \in Hits(target)}
    IN  CHOOSE list \in SetToSeqs(docs) :
            \A i, j \in 1..Len(list) :
                i < j => Precedes(list[i], list[j], target)

\* The docs of a list that are in some state, in its order.
InState(docs, state) ==
    LET chosen[n \in 0..Len(docs)] ==
            IF n = 0 THEN <<>>
            ELSE IF DocState[docs[n]] = state THEN Append(chosen[n - 1], docs[n])
            ELSE chosen[n - 1]
    IN  chosen[Len(docs)]

\* build_context, as far as leaf docs go.
ContextBlock(target, budget) ==
    LET order == OrderedDocs(target)
        cut == IF budget > 0 /\ Len(order) > budget THEN budget ELSE Len(order)
        kept == SubSeq(order, 1, cut)
    IN  [injected |-> InState(kept, "body"), empty |-> InState(kept, "empty"),
         missing |-> InState(kept, "missing"),
         over |-> SubSeq(order, cut + 1, Len(order))]

-----------------------------------------------------------------------------
RouterInit ==
    /\ table = [compat |-> {}, routes |-> <<>>]
    /\ request = [target |-> <<>>, budget |-> 0]
    /\ block = NoBlock

\* routes.yaml is edited: the version range, or one route more.
EditTable ==
    /\ \/ \E compat \in EngineCompat : table' = [table EXCEPT !.compat = compat]
       \/ /\ Len(table.routes) < MaxRoutes
          /\ \E r \in Route : table' = [table EXCEPT !.routes = Append(@, r)]
    /\ request' = [target |-> <<>>, budget |-> 0]
    /\ block' = NoBlock

\* An agent is about to edit the target.
BuildContext(target, budget) ==
    /\ request.target = <<>>
    /\ request' = [target |-> target, budget |-> budget]
    /\ block' = ContextBlock(target, budget)
    /\ UNCHANGED table

RouterNext ==
    \/ EditTable
    \/ \E target \in Target, budget \in 0..MaxBudget : BuildContext(target, budget)

RouterSpec == RouterInit /\ [][RouterNext]_routerVars

RouterTypeOK ==
    /\ table \in [compat : EngineCompat \cup {{}}, routes : Seq(Route)]
    /\ Len(table.routes) <= MaxRoutes
    /\ request \in [target : Target \cup {<<>>}, budget : 0..MaxBudget]
    /\ block \in [{"injected", "empty", "missing", "over"} -> Seq(Doc)]

-----------------------------------------------------------------------------
\* The documented meaning, segment by segment: ** is any number of segments,
\* * any run of characters within one.
GlobMeaning(glob, target) ==
    LET Within(g, s) == Matches([i \in 1..Len(g) |->
                            IF g[i] = "*" THEN "run" ELSE g[i]], s)
        M[i \in 1..Len(glob) + 1, j \in 1..Len(target) + 1] ==
            IF i > Len(glob) THEN j > Len(target)
            ELSE IF glob[i] = <<"*", "*">>
                 THEN \E k \in j..Len(target) + 1 : M[i + 1, k]
                 ELSE /\ j <= Len(target)
                      /\ Within(glob[i], target[j])
                      /\ M[i + 1, j + 1]
    IN  M[1, 1]

\* One wildcard over segments at the most, and none at the start of more.
Plain(glob) ==
    LET wild == {i \in 1..Len(glob) : glob[i] = <<"*", "*">>}
    IN  Cardinality(wild) <= 1 /\ (1 \in wild => Len(glob) = 1)

\* The regex means what the docstring says, for globs without a leading `**/`
\* and with one ** at the most.
GlobMeansWhatItSays ==
    request.target # <<>> =>
        \A i \in 1..Len(table.routes) :
            LET glob == table.routes[i].match
            IN  Plain(glob) => (GlobMatches(glob, request.target)
                                <=> GlobMeaning(glob, request.target))

\* No doc of a matching route is lost or brought twice: it is injected, or
\* reported as empty, missing or over the budget; and what is cut has no route
\* with a better priority than every route of something that was kept.
SelectionRight ==
    request.target # <<>> =>
        LET kept == block.injected \o block.empty \o block.missing
            all == kept \o block.over
            routes == {table.routes[i] : i \in Hits(request.target)}
        IN  /\ IsInjective(all)
            /\ ToSet(all) = UNION {ToSet(r.inject) : r \in routes}
            /\ block.over # <<>> => Len(kept) = request.budget
            /\ \A d \in ToSet(block.over), e \in ToSet(kept) :
                \A r \in routes : d \in ToSet(r.inject) =>
                    \E q \in routes :
                        e \in ToSet(q.inject) /\ q.priority <= r.priority

=============================================================================
