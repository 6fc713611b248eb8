-------------------------- MODULE MCReconcilePrune --------------------------
(***************************************************************************)
(* Two pruners over two entries of the log, one of which an item claims,   *)
(* and two of the backlog.                                                 *)
(***************************************************************************)
EXTENDS ReconcilePrune

CONSTANTS e1, e2, d1, d2, h1, h2, p1, p2

MCLogEntry == {e1, e2}
MCDoneEntry == {d1, d2}
MCTopic == {h1, h2}
MCHeadingOf == [e \in MCLogEntry |-> IF e = e1 THEN h1 ELSE h2]
MCClaims == <<{h1}>>
MCPruner == {p1, p2}
MCRecent == {1}
MCSymmetry == Permutations(MCPruner)

=============================================================================
