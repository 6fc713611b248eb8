-------------------------- MODULE MCPseudoOperator --------------------------
(***************************************************************************)
(* Backends in order of priority: two of the claude CLI and one of codex,  *)
(* or one of each.                                                         *)
(***************************************************************************)
EXTENDS PseudoOperator

ClaudeTwo == {1, 2}
ClaudeOne == {1}

=============================================================================
