------------------------------ MODULE MCStores ------------------------------
(***************************************************************************)
(* The stores outside the loop: cold store, router, ledger, trust anchor   *)
(* and guard.  They share no variable, so their product has no behaviour   *)
(* that they do not have one at a time: `part` says whose behaviour this   *)
(* is, the others stand still.                                             *)
(***************************************************************************)
EXTENDS MCColdStore, ContextRouter, Ledger, TrustAnchor, ContextGuard,
        TLC

VARIABLE part

storesVars == <<coldVars, routerVars, ledgerVars, anchorVars, guardVars, part>>

-----------------------------------------------------------------------------
(* The router: globs of one, two and three segments, with each wildcard in *)
(* each place, against paths that they match and that they nearly match.   *)

AnySegments == <<"*", "*">>
A == <<"a">>
B == <<"b">>

MCGlob == {<<A, AnySegments, B>>, <<A, AnySegments>>, <<A, <<"*">>>>,
           <<AnySegments>>, <<A, <<"b", "*">>>>, <<AnySegments, B>>}
MCTarget == {<<A>>, <<B>>, <<A, B>>, <<<<"a", "b">>>>, <<A, <<"b", "a">>>>,
             <<A, A, B>>, <<A, B, A>>, <<A, A, A, B>>, <<<<"a", "b">>, B>>}
MCDoc == {"d1", "d2"}
MCDocState == [d \in MCDoc |-> IF d = "d1" THEN "body" ELSE "missing"]
MCInjects == {<<"d1">>, <<"d2">>, <<"d1", "d2">>}
MCEngineCompat ==
    {{[op |-> ">=", bound |-> <<0, 1>>], [op |-> "<", bound |-> <<1, 0>>]},
     {[op |-> "==", bound |-> <<0, 3>>]}}
MCSchemaVersion == <<0, 2>>

-----------------------------------------------------------------------------
(* The ledger: two clerks, two signals, of which one ends like the other.  *)

CONSTANTS c1, c2, override, greenGateOverride, x1, r1

MCClerk == {c1, c2}
MCSignal == {override, greenGateOverride}
MCContext == {x1}
MCRef == {r1}
\* Judgements of one of the signals.
LedgerSlice == judged' \subseteq {override} \X MCRef
MCEndsIn == {<<s, s>> : s \in MCSignal} \cup {<<greenGateOverride, override>>}

-----------------------------------------------------------------------------
(* The anchor: two sections.                                               *)

CONSTANTS v1, v2

MCSection == {v1, v2}

-----------------------------------------------------------------------------
(* The guard: a handoff that expires and forbids, one that allows nothing; *)
(* in one slice what is refused, in the other what the stop hook says.     *)

CONSTANTS p1, alien, seed1, seed2

MCPath == {p1}
MCRepo == {alien}
MCHostable == {}
MCHandoffs ==
    {[expires |-> 1, forbidden |-> {p1}, allowed |-> MCPath,
      readOnly |-> FALSE, noSubagents |-> FALSE],
     [expires |-> 0, forbidden |-> {}, allowed |-> {},
      readOnly |-> FALSE, noSubagents |-> TRUE]}
MCRisks == {{}, {"checkpoint_stale"}, {"high_parallelism"}}
MCSeed == {seed1, seed2}

RefusalSlice ==
    /\ guard'.requireCapsule
    /\ marker'[seed2] = 0 /\ stopped' = "not yet"
    /\ capsule' # "done"
    /\ checkpoint' # checkpoint => clock = 1
    /\ checkpoint'[1] # Nothing => checkpoint'[1].risk = {"checkpoint_stale"}

StopSlice ==
    /\ capsule' = "active" /\ handoff' = handoff /\ guard' = guard
    /\ \A n \in Name : checkpoint'[n] # Nothing => checkpoint'[n].risk = {}

-----------------------------------------------------------------------------
MCSymmetry == Permutations(MCClerk) \cup Permutations(MCSection)

Parts == {"attribution", "decay", "router", "ledger", "anchor", "refusal", "stop"}

StoresInit ==
    /\ ColdInit /\ RouterInit /\ LedgerInit /\ AnchorInit /\ GuardInit
    /\ part \in Parts

StoresNext ==
    /\ UNCHANGED part
    /\ \/ /\ part = "attribution" /\ ColdNext /\ AttributionSlice
          /\ UNCHANGED <<routerVars, ledgerVars, anchorVars, guardVars>>
       \/ /\ part = "decay" /\ ColdNext /\ DecaySlice
          /\ UNCHANGED <<routerVars, ledgerVars, anchorVars, guardVars>>
       \/ /\ part = "router" /\ RouterNext
          /\ UNCHANGED <<coldVars, ledgerVars, anchorVars, guardVars>>
       \/ /\ part = "ledger" /\ LedgerNext /\ LedgerSlice
          /\ UNCHANGED <<coldVars, routerVars, anchorVars, guardVars>>
       \/ /\ part = "anchor" /\ AnchorNext
          /\ UNCHANGED <<coldVars, routerVars, ledgerVars, guardVars>>
       \/ /\ part = "refusal" /\ GuardNext /\ RefusalSlice
          /\ UNCHANGED <<coldVars, routerVars, ledgerVars, anchorVars>>
       \/ /\ part = "stop" /\ GuardNext /\ StopSlice
          /\ UNCHANGED <<coldVars, routerVars, ledgerVars, anchorVars>>

StoresSpec == StoresInit /\ [][StoresNext]_storesVars

\* The types of all the parts.
StoresTypeOK ==
    /\ ColdTypeOK /\ RouterTypeOK /\ LedgerTypeOK /\ AnchorTypeOK /\ GuardTypeOK
    /\ part \in Parts

=============================================================================
