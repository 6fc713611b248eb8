---------------------------- MODULE TrustAnchor ----------------------------
(***************************************************************************)
(* What a loop may run: load_verified_config (pseudo_operator/config.py)   *)
(* over verify_reference (signing.py) and verify_committed (committed.py). *)
(* The files are edited by people at any moment.  The loader reads each at *)
(* a moment of its own, and the live section twice: to compare it, and to  *)
(* run it.                                                                 *)
(*                                                                         *)
(* A section is a value.  A signature is named by the section that the     *)
(* operator's key signed: it verifies a reference iff they are equal.      *)
(***************************************************************************)
EXTENDS Naturals

CONSTANTS
    Section,    \* what the pseudo_operator section may hold
    NoSection   \* no file, or nothing in it that can be read

ASSUME SectionAssumption == NoSection \notin Section

VARIABLES
    live,       \* the section in the config file
    reference,  \* pseudo_operator.signed.json
    signature,  \* pseudo_operator.signed.sig
    pubkey,     \* operator_pubkey.ed25519
    main,       \* the section on origin/main
    signing,    \* what sign_reference has read and not yet signed
    stage,      \* where the loader is
    strict,     \* --require-signed, --require-committed
    anchor,     \* what the loader compares with
    verdict,    \* signed_status
    running,    \* the section that is run
    signed,     \* history: what the operator signed
    pushed,     \* history: what was on origin/main
    overtaken   \* history: the live section was edited between the two reads

filesVars == <<live, reference, signature, pubkey, main, signing, signed, pushed>>
loaderVars == <<stage, strict, anchor, verdict, running>>
anchorVars == <<filesVars, loaderVars, overtaken>>

MaybeSection == Section \cup {NoSection}
Strict == [signed : BOOLEAN, committed : BOOLEAN]

AnchorTypeOK ==
    /\ live \in MaybeSection /\ reference \in MaybeSection
    /\ signature \in MaybeSection /\ main \in MaybeSection
    /\ signing \in MaybeSection
    /\ pubkey \in {"none", "broken", "operator"}
    /\ stage \in {"idle", "read", "verify", "compare", "fetch", "compareMain",
                  "reread", "run", "refused"}
    /\ strict \in Strict
    /\ anchor \in MaybeSection /\ running \in MaybeSection
    /\ verdict \in {"none", "ok", "drift", "unsigned", "drift_unsigned"}
    /\ signed \subseteq Section /\ pushed \subseteq Section
    /\ overtaken \in BOOLEAN

AnchorInit ==
    /\ live = NoSection /\ reference = NoSection /\ signature = NoSection
    /\ pubkey = "none" /\ main = NoSection /\ signing = NoSection
    /\ stage = "idle"
    /\ strict = [signed |-> FALSE, committed |-> FALSE]
    /\ anchor = NoSection /\ verdict = "none" /\ running = NoSection
    /\ signed = {} /\ pushed = {}
    /\ overtaken = FALSE

-----------------------------------------------------------------------------
(* The files, and those who write them.                                    *)

EditLive(v) ==
    /\ live' = v
    /\ overtaken' = (overtaken \/ stage = "reread")
    /\ UNCHANGED <<reference, signature, pubkey, main, signing, signed, pushed,
                   loaderVars>>

\* sign_reference writes the snapshot of the live section, then its signature.
SignReference ==
    /\ live \in Section
    /\ reference' = live
    /\ signing' = live
    /\ UNCHANGED <<live, signature, pubkey, main, signed, pushed, loaderVars,
                   overtaken>>

WriteSignature ==
    /\ signing \in Section
    /\ signature' = signing
    /\ signed' = signed \cup {signing}
    /\ signing' = NoSection
    /\ UNCHANGED <<live, reference, pubkey, main, pushed, loaderVars, overtaken>>

\* A checkout, a merge or a hand edit leaves another snapshot, or none.
ReplaceReference(v) ==
    /\ reference' = v
    /\ UNCHANGED <<live, signature, pubkey, main, signing, signed, pushed,
                   loaderVars, overtaken>>

InstallKey(k) ==
    /\ pubkey' = k
    /\ UNCHANGED <<live, reference, signature, main, signing, signed, pushed,
                   loaderVars, overtaken>>

PushMain(v) ==
    /\ main' = v
    /\ pushed' = pushed \cup {v}
    /\ UNCHANGED <<live, reference, signature, pubkey, signing, signed,
                   loaderVars, overtaken>>

-----------------------------------------------------------------------------
(* The loader.                                                             *)

Goto(next) == stage' = next /\ UNCHANGED <<strict, running>>

Conclude(result, section) ==
    /\ stage' = "run"
    /\ verdict' = result
    /\ running' = section
    /\ UNCHANGED <<strict, anchor>>

\* verify_reference: are the three files there?
LaunchVerified(s) ==
    /\ stage \in {"idle", "run", "refused"}
    /\ strict' = s
    /\ stage' = IF NoSection \in {reference, signature} \/ pubkey = "none"
                THEN IF s.signed THEN "refused" ELSE "fetch"
                ELSE "read"
    /\ verdict' = "none" /\ anchor' = NoSection /\ running' = NoSection
    /\ overtaken' = FALSE
    /\ UNCHANGED filesVars

\* The key and the snapshot; a file that has gone raises.
ReadReference ==
    /\ stage = "read"
    /\ IF pubkey # "operator" \/ reference = NoSection
       THEN Goto("refused") /\ UNCHANGED anchor
       ELSE Goto("verify") /\ anchor' = reference
    /\ UNCHANGED <<filesVars, verdict, overtaken>>

\* Mutant: it believes the snapshot.
VerifyNothing ==
    /\ stage = "verify"
    /\ Goto("compare")
    /\ UNCHANGED <<filesVars, anchor, verdict, overtaken>>

VerifySignature ==
    /\ stage = "verify"
    /\ Goto(IF signature = anchor THEN "compare" ELSE "refused")
    /\ UNCHANGED <<filesVars, anchor, verdict, overtaken>>

\* A live section that differs or cannot be read gives way to the reference.
CompareLive ==
    /\ stage = "compare"
    /\ IF live = anchor
       THEN Goto("reread") /\ verdict' = "ok" /\ UNCHANGED anchor
       ELSE Conclude("drift", anchor)
    /\ UNCHANGED <<filesVars, overtaken>>

Skip ==
    /\ Goto(IF strict.committed THEN "refused" ELSE "reread")
    /\ verdict' = "unsigned"
    /\ UNCHANGED anchor

\* verify_committed: fetch may fail, and main may hold no section.
FetchMain ==
    /\ stage = "fetch"
    /\ \/ Skip
       \/ /\ main \in Section
          /\ Goto("compareMain")
          /\ anchor' = main
          /\ UNCHANGED verdict
    /\ UNCHANGED <<filesVars, overtaken>>

CompareMain ==
    /\ stage = "compareMain"
    /\ \/ live = NoSection /\ Skip
       \/ /\ live \in Section /\ live = anchor
          /\ Goto("reread") /\ verdict' = "unsigned" /\ UNCHANGED anchor
       \/ /\ live \in Section /\ live # anchor
          /\ IF strict.committed THEN Goto("refused") /\ UNCHANGED <<anchor, verdict>>
             ELSE Conclude("drift_unsigned", anchor)
    /\ UNCHANGED <<filesVars, overtaken>>

\* load_pseudo_operator_config: the live section, read again.
Reread ==
    /\ stage = "reread"
    /\ IF live = NoSection
       THEN Goto("refused") /\ UNCHANGED <<anchor, verdict>>
       ELSE Conclude(verdict, live)
    /\ UNCHANGED <<filesVars, overtaken>>

Loader ==
    \/ \E s \in Strict : LaunchVerified(s)
    \/ ReadReference
    \/ VerifySignature
    \/ CompareLive
    \/ FetchMain
    \/ CompareMain
    \/ Reread

People ==
    \/ \E v \in MaybeSection : EditLive(v) \/ ReplaceReference(v)
    \/ SignReference
    \/ WriteSignature
    \/ \E k \in {"none", "broken", "operator"} : InstallKey(k)
    \/ \E v \in Section : PushMain(v)

AnchorNext == Loader \/ People

AnchorSpec == AnchorInit /\ [][AnchorNext]_anchorVars

-----------------------------------------------------------------------------
(* Properties.                                                             *)

\* What a loop runs is what its status says: under ok and drift, a section the
\* operator signed; under drift_unsigned, and under --require-committed without
\* a signature, one that was on origin/main; and --require-signed runs nothing
\* unsigned.  The one gap is an edit between the comparison and the second read
\* of the live section (signing.py:141-151 and config.py:291, 320, 325).
RunsTrusted ==
    stage = "run" =>
        /\ verdict = "drift" => running \in signed
        /\ verdict = "ok" => running \in signed \/ overtaken
        /\ verdict = "drift_unsigned" => running \in pushed
        /\ strict.signed => verdict \in {"ok", "drift"}
        /\ strict.committed /\ verdict = "unsigned" => running \in pushed \/ overtaken

\* The inductive invariant behind it: what each stage of the loader knows of the
\* section it goes by.  Signatures and pushes are never taken back.
AnchorInv ==
    /\ signature \in signed \cup {NoSection}
    /\ main \in pushed \cup {NoSection}
    /\ stage = "verify" => anchor \in Section
    /\ stage = "compare" => anchor \in signed
    /\ stage = "compareMain" => anchor \in pushed
    /\ stage \in {"fetch", "compareMain"} => ~ strict.signed
    /\ stage = "reread" =>
         \/ verdict = "ok" /\ (live \in signed \/ overtaken)
         \/ /\ verdict = "unsigned" /\ ~ strict.signed
            /\ strict.committed => live \in pushed \/ overtaken
    /\ RunsTrusted

=============================================================================
