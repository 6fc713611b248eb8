------------------------- MODULE MCSessionRetention -------------------------
(***************************************************************************)
(* One session and two processes that sweep at once, or one.               *)
(***************************************************************************)
EXTENDS SessionRetention, TLC

CONSTANTS s1, p1, p2

MCSid == {s1}
MCStarter == {p1, p2}
MCOneStarter == {p1}
MCSymmetry == Permutations(MCStarter)

=============================================================================
