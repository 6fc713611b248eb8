----------------------------- MODULE MCLoopLock -----------------------------
(***************************************************************************)
(* Three launches on one host and a fourth on another: the smallest        *)
(* instance in which a launch uses up its three attempts.                  *)
(***************************************************************************)
EXTENDS LoopLock, TLC

CONSTANTS l1, l2, l3, l4, hostA, hostB

MCLaunch == {l1, l2, l3, l4}
MCHost == {hostA, hostB}
MCHostOf == [l \in MCLaunch |-> IF l = l4 THEN hostB ELSE hostA]

\* The launches of one host are interchangeable.
MCSymmetry == Permutations({l1, l2, l3})

=============================================================================
