---------------------------- MODULE StoresProofs ----------------------------
(***************************************************************************)
(* Proofs about the trust anchor and the guard, for any sections, handoffs *)
(* and numbers of files; and that the product of the stores that TLC checks *)
(* does nothing that its parts do not do one at a time, so that what holds *)
(* of each part holds of the product.                                      *)
(***************************************************************************)
EXTENDS MCStores, ColdStoreProofs, LedgerProofs, ContextRouterProofs, TLAPS

-----------------------------------------------------------------------------
(* What a loop runs is trusted as its status says, for any set of sections *)
(* and however the files are edited between the reads of the loader.       *)

\* The types of the files and of the loader.
THEOREM AnchorTypeCorrect == AnchorSpec => []AnchorTypeOK
<1>1. AnchorInit => AnchorTypeOK
  <2> SUFFICES ASSUME AnchorInit PROVE AnchorTypeOK
    OBVIOUS
  <2>1. strict \in Strict
    BY DEF AnchorInit, Strict
  <2> QED
    BY <2>1 DEF AnchorInit, AnchorTypeOK, MaybeSection
<1>2. AnchorTypeOK /\ [AnchorNext]_anchorVars => AnchorTypeOK'
  <2> SUFFICES ASSUME AnchorTypeOK, [AnchorNext]_anchorVars PROVE AnchorTypeOK'
    OBVIOUS
  <2> USE DEF AnchorTypeOK, MaybeSection, filesVars, loaderVars, Goto, Conclude
  <2>1. ASSUME NEW s \in Strict, LaunchVerified(s) PROVE AnchorTypeOK'
    BY <2>1 DEF LaunchVerified
  <2>2. ASSUME ReadReference PROVE AnchorTypeOK'
    BY <2>2 DEF ReadReference
  <2>3. ASSUME VerifySignature PROVE AnchorTypeOK'
    BY <2>3 DEF VerifySignature
  <2>4. ASSUME CompareLive PROVE AnchorTypeOK'
    BY <2>4 DEF CompareLive
  <2>5. ASSUME FetchMain PROVE AnchorTypeOK'
    BY <2>5 DEF FetchMain, Skip
  <2>6. ASSUME CompareMain PROVE AnchorTypeOK'
    BY <2>6 DEF CompareMain, Skip
  <2>7. ASSUME Reread PROVE AnchorTypeOK'
    BY <2>7 DEF Reread
  <2>8. ASSUME NEW v \in MaybeSection, EditLive(v) \/ ReplaceReference(v)
        PROVE  AnchorTypeOK'
    <3>1. overtaken' \in BOOLEAN
      BY <2>8 DEF EditLive, ReplaceReference
    <3> QED
      BY <2>8, <3>1 DEF EditLive, ReplaceReference
  <2>9. ASSUME SignReference \/ WriteSignature PROVE AnchorTypeOK'
    BY <2>9 DEF SignReference, WriteSignature
  <2>10. ASSUME NEW k \in {"none", "broken", "operator"}, InstallKey(k)
         PROVE  AnchorTypeOK'
    BY <2>10 DEF InstallKey
  <2>11. ASSUME NEW v \in Section, PushMain(v) PROVE AnchorTypeOK'
    BY <2>11 DEF PushMain
  <2>12. CASE UNCHANGED anchorVars
    BY <2>12 DEF anchorVars
  <2> QED
    BY <2>1, <2>2, <2>3, <2>4, <2>5, <2>6, <2>7, <2>8, <2>9, <2>10, <2>11, <2>12
       DEF AnchorNext, Loader, People
<1> QED
  BY <1>1, <1>2, PTL DEF AnchorSpec

\* What every stage of the loader knows is inductive.
THEOREM AnchorInvariant == AnchorSpec => []AnchorInv
<1>1. AnchorInit => AnchorInv
  BY DEF AnchorInit, AnchorInv, RunsTrusted
<1>2. AnchorTypeOK /\ AnchorInv /\ [AnchorNext]_anchorVars => AnchorInv'
  <2> SUFFICES ASSUME AnchorTypeOK, AnchorInv, [AnchorNext]_anchorVars
               PROVE  AnchorInv'
    OBVIOUS
  <2> USE SectionAssumption
      DEF AnchorTypeOK, AnchorInv, RunsTrusted, MaybeSection, Strict,
          filesVars, loaderVars, Goto, Conclude
  <2>1. ASSUME NEW s \in Strict, LaunchVerified(s) PROVE AnchorInv'
    BY <2>1 DEF LaunchVerified
  <2>2. ASSUME ReadReference PROVE AnchorInv'
    BY <2>2 DEF ReadReference
  <2>3. ASSUME VerifySignature PROVE AnchorInv'
    BY <2>3 DEF VerifySignature
  <2>4. ASSUME CompareLive PROVE AnchorInv'
    <3>1. anchor \in signed
      BY <2>4 DEF CompareLive
    <3>2. CASE live = anchor
      BY <2>4, <3>1, <3>2 DEF CompareLive
    <3>3. CASE live # anchor
      BY <2>4, <3>1, <3>3 DEF CompareLive
    <3> QED
      BY <3>2, <3>3
  <2>5. ASSUME FetchMain PROVE AnchorInv'
    BY <2>5 DEF FetchMain, Skip
  <2>6. ASSUME CompareMain PROVE AnchorInv'
    <3>1. /\ stage = "compareMain" /\ anchor \in pushed /\ ~ strict.signed
          /\ UNCHANGED <<filesVars, overtaken>>
      BY <2>6 DEF CompareMain
    <3>2. CASE live = NoSection
      BY <2>6, <3>1, <3>2 DEF CompareMain, Skip
    <3>3. CASE live = anchor /\ live # NoSection
      BY <2>6, <3>1, <3>3 DEF CompareMain
    <3>4. CASE live # anchor /\ live # NoSection
      BY <2>6, <3>1, <3>4 DEF CompareMain
    <3> QED
      BY <3>2, <3>3, <3>4
  <2>7. ASSUME Reread PROVE AnchorInv'
    BY <2>7 DEF Reread
  <2>8. ASSUME NEW v \in MaybeSection, EditLive(v) \/ ReplaceReference(v)
        PROVE  AnchorInv'
    BY <2>8 DEF EditLive, ReplaceReference
  <2>9. ASSUME SignReference \/ WriteSignature PROVE AnchorInv'
    BY <2>9 DEF SignReference, WriteSignature
  <2>10. ASSUME NEW k \in {"none", "broken", "operator"}, InstallKey(k)
         PROVE  AnchorInv'
    BY <2>10 DEF InstallKey
  <2>11. ASSUME NEW v \in Section, PushMain(v) PROVE AnchorInv'
    BY <2>11 DEF PushMain
  <2>12. CASE UNCHANGED anchorVars
    BY <2>12 DEF anchorVars
  <2> QED
    BY <2>1, <2>2, <2>3, <2>4, <2>5, <2>6, <2>7, <2>8, <2>9, <2>10, <2>11, <2>12
       DEF AnchorNext, Loader, People
<1> QED
  BY <1>1, <1>2, AnchorTypeCorrect, PTL DEF AnchorSpec

\* What a loop runs is what the operator signed, or what was on origin/main, as
\* its status and its flags say.
THEOREM AnchorRunsTrusted == AnchorSpec => []RunsTrusted
<1>1. AnchorInv => RunsTrusted
  BY DEF AnchorInv
<1> QED
  BY <1>1, AnchorInvariant, PTL

-----------------------------------------------------------------------------
(* That a refusal stands and that the stop hook tells what happened, for   *)
(* every set of handoffs, paths and risks and every number of files.       *)

\* Nothing but time passes as long as no file of the session changes, and a lease
\* that is over stays over.
GuardInv == clock \in Nat /\ RefusalStands

\* Time turns no refusal into a permission (is_lease_expired is monotone).
LEMMA TimePermitsNothing ==
    ASSUME NEW call, clock \in Nat, clock' \in Nat, clock <= clock',
           UNCHANGED guardFiles, Blocks(call)
    PROVE  Blocks(call)'
<1>1. /\ TheHandoff' = TheHandoff
      /\ Risk' = Risk
    BY DEF guardFiles, TheHandoff, Risk, Present
<1>2. ASSUME NEW h, Expired(h)
      PROVE  Expired(h)'
    BY <1>2 DEF Expired
<1>. QED
    BY <1>1, <1>2 DEF guardFiles, Blocks, InScope

LEMMA GuardInvStep == GuardInv /\ [GuardNext]_guardVars => GuardInv'
<1>. SUFFICES ASSUME GuardInv, [GuardNext]_guardVars
              PROVE  GuardInv'
    OBVIOUS
<1>1. clock' \in Nat /\ clock <= clock'
    <2>1. clock' = clock \/ clock' = clock + 1
        BY DEF GuardNext, guardVars, Stop, PreToolUse, CaptureResult,
               SpoilCapsule, Configure, Tick
    <2>. QED
        BY <2>1 DEF GuardInv
<1>2. ASSUME NEW seed \in Seed, NEW call \in Call, PreToolUse(call, seed)
      PROVE  RefusalStands'
    <2>1. CASE refused' = {}
        BY <2>1 DEF RefusalStands
    <2>2. CASE refused' # {}
        <3>1. UNCHANGED guardFiles
            BY <1>2, <2>2 DEF PreToolUse, guardFiles
        <3>2. \A c \in refused' : Blocks(c)
            BY <1>2, <2>2 DEF PreToolUse, GuardInv, RefusalStands
        <3>. QED
            BY <1>1, <3>1, <3>2, TimePermitsNothing DEF GuardInv, RefusalStands
    <2>. QED
        BY <2>1, <2>2
<1>3. ASSUME Changed
      PROVE  RefusalStands'
    BY <1>3 DEF Changed, RefusalStands
<1>4. ASSUME UNCHANGED <<guardFiles, refused>>
      PROVE  RefusalStands'
    BY <1>1, <1>4, TimePermitsNothing DEF GuardInv, RefusalStands
<1>5. RefusalStands'
    <2>1. ASSUME NEW seed \in Seed, Stop(seed)
          PROVE  UNCHANGED <<guardFiles, refused>>
        BY <2>1 DEF Stop
    <2>2. ASSUME NEW repos \in SUBSET Repo, CaptureResult(repos)
          PROVE  Changed
        BY <2>2 DEF CaptureResult
    <2>3. SpoilCapsule => Changed
        BY DEF SpoilCapsule
    <2>4. ASSUME NEW flags, Configure(flags)
          PROVE  Changed
        BY <2>4 DEF Configure
    <2>5. Tick \/ UNCHANGED guardVars => UNCHANGED <<guardFiles, refused>>
        BY DEF Tick, guardVars
    <2>. QED
        BY <1>2, <1>3, <1>4, <2>1, <2>2, <2>3, <2>4, <2>5 DEF GuardNext
<1>. QED
    BY <1>1, <1>5 DEF GuardInv

\* A worker cannot wait a refusal out: what evaluate_pre_tool_use blocked it
\* blocks again until a file of the session changes.
THEOREM GuardRefusalStands == GuardSpec => []RefusalStands
<1>1. GuardInit => GuardInv
    <2>1. GuardInit => clock = 1 /\ refused = {}
        BY DEF GuardInit
    <2>. QED
        BY <2>1 DEF GuardInv, RefusalStands
<1>. QED
    BY <1>1, GuardInvStep, PTL DEF GuardSpec, GuardInv

-----------------------------------------------------------------------------
(* That the stop hook tells what happened: under one hash seed there is    *)
(* one marker, and it was touched at the first call.                       *)

MarkerInv ==
    /\ clock \in Nat \ {0} /\ marker \in [Seed -> Nat]
    /\ firstCall = 0 => \A s \in Seed : marker[s] = 0
    /\ sameSeed /\ firstCall # 0 => \E s \in Seed : marker[s] = firstCall

LEMMA MarkerStep == MarkerInv /\ [GuardNext]_guardVars => MarkerInv'
<1>. SUFFICES ASSUME MarkerInv, [GuardNext]_guardVars
              PROVE  MarkerInv'
    OBVIOUS
<1>1. clock' \in Nat \ {0}
    <2>1. clock' = clock \/ clock' = clock + 1
        BY DEF GuardNext, guardVars, Stop, PreToolUse, CaptureResult,
               SpoilCapsule, Configure, Tick
    <2>. QED
        BY <2>1 DEF MarkerInv
<1>2. ASSUME UNCHANGED <<marker, firstCall>>, sameSeed' => sameSeed
      PROVE  MarkerInv'
    BY <1>1, <1>2 DEF MarkerInv
<1>3. ASSUME NEW seed \in Seed, NEW call \in Call, PreToolUse(call, seed)
      PROVE  MarkerInv'
    <2>1. /\ marker' = IF marker[seed] = 0 THEN [marker EXCEPT ![seed] = clock] ELSE marker
          /\ firstCall' = IF firstCall = 0 THEN clock ELSE firstCall
          /\ sameSeed' => sameSeed /\ \A other \in Seed \ {seed} : marker[other] = 0
        BY <1>3 DEF PreToolUse, TouchMarker, OneSeed
    <2>2. marker' \in [Seed -> Nat] /\ firstCall' # 0
        BY <2>1 DEF MarkerInv
    <2>3. sameSeed' => marker'[seed] = firstCall'
        <3>1. CASE firstCall = 0
            BY <2>1, <3>1 DEF MarkerInv
        <3>2. CASE firstCall # 0 /\ sameSeed'
            <4>1. marker[seed] = firstCall
                BY <2>1, <3>2 DEF MarkerInv
            <4>. QED
                BY <2>1, <3>2, <4>1
        <3>. QED
            BY <3>1, <3>2
    <2>. QED
        BY <1>1, <2>2, <2>3 DEF MarkerInv
<1>4. ASSUME NEW seed \in Seed, Stop(seed)
      PROVE  MarkerInv'
    BY <1>2, <1>4 DEF Stop, OneSeed
<1>5. ASSUME NEW repos \in SUBSET Repo, CaptureResult(repos)
      PROVE  MarkerInv'
    BY <1>2, <1>5 DEF CaptureResult
<1>6. CASE SpoilCapsule \/ Tick \/ UNCHANGED guardVars
    BY <1>2, <1>6 DEF SpoilCapsule, Tick, guardVars
<1>7. ASSUME NEW flags, Configure(flags)
      PROVE  MarkerInv'
    BY <1>2, <1>7 DEF Configure
<1>. QED
    BY <1>3, <1>4, <1>5, <1>6, <1>7 DEF GuardNext

\* The stop hook complains exactly if no checkpoint was written after the
\* worker's first call, as long as the marker has one name for all the hooks.
THEOREM GuardStopNotices == GuardSpec => StopNotices
<1>1. GuardInit => MarkerInv
    <2>1. GuardInit => clock = 1 /\ marker = [s \in Seed |-> 0] /\ firstCall = 0
        BY DEF GuardInit
    <2>. QED
        BY <2>1 DEF MarkerInv
<1>2. ASSUME MarkerInv, NEW seed \in Seed, Stop(seed), sameSeed', firstCall # 0
      PROVE  stopped' = "quiet" <=> WrittenSince
    <2>1. marker[seed] = firstCall
        BY <1>2 DEF Stop, OneSeed, MarkerInv
    <2>2. Fresh(seed) <=> WrittenSince
        BY <1>2, <2>1 DEF Fresh, WrittenSince
    <2>. QED
        BY <1>2, <2>2 DEF Stop
<1>. DEFINE Notices == \A seed \in Seed :
        Stop(seed) /\ sameSeed' /\ firstCall # 0 =>
          (stopped' = "quiet" <=> WrittenSince)
<1>3. MarkerInv /\ [GuardNext]_guardVars => Notices
    BY <1>2
<1>4. GuardSpec => [][Notices]_guardVars
    <2>. HIDE DEF Notices
    <2>. QED
        BY <1>1, <1>3, MarkerStep, PTL DEF GuardSpec
<1>. QED
    BY <1>4 DEF StopNotices

\* The types of the session's files and of what the hooks said of them.
THEOREM GuardTypeCorrect == GuardSpec => []GuardTypeOK
<1>1. GuardInit => GuardTypeOK
    <2>. SUFFICES ASSUME GuardInit
                  PROVE  GuardTypeOK
        OBVIOUS
    <2>1. 1 \in 1..MaxClock /\ 0 \in 0..MaxClock
        BY GuardAssumption
    <2>. QED
        BY <2>1 DEF GuardInit, GuardTypeOK, Capsules
<1>2. GuardTypeOK /\ [GuardNext]_guardVars => GuardTypeOK'
    <2>. SUFFICES ASSUME GuardTypeOK, [GuardNext]_guardVars
                  PROVE  GuardTypeOK'
        OBVIOUS
    <2>. USE DEF GuardTypeOK, guardFiles
    <2>1. /\ clock \in 1..MaxClock /\ clock \in 0..MaxClock
          /\ clock < MaxClock => clock + 1 \in 1..MaxClock
        <3>1. clock \in 1..MaxClock
            OBVIOUS
        <3>2. MaxClock \in Nat
            BY GuardAssumption
        <3>. HIDE DEF GuardTypeOK
        <3>. QED
            BY <3>1, <3>2
    <2>2. ASSUME NEW seed \in Seed, Stop(seed)
          PROVE  GuardTypeOK'
        BY <2>2 DEF Stop, OneSeed
    <2>3. ASSUME NEW n \in Name, NEW risk \in Risks \cup {Broken},
                 checkpoint' = [checkpoint EXCEPT ![n] = [risk |-> risk, at |-> clock]]
          PROVE  checkpoint' \in [Name -> {Nothing} \cup
                                    [risk : Risks \cup {Broken}, at : 1..MaxClock]]
        BY <2>1, <2>3
    <2>4. ASSUME NEW seed \in Seed, NEW call \in Call, PreToolUse(call, seed)
          PROVE  GuardTypeOK'
        <3>1. marker' \in [Seed -> 0..MaxClock]
            BY <2>1, <2>4 DEF PreToolUse, TouchMarker
        <3>2. firstCall' \in 0..MaxClock /\ sameSeed' \in BOOLEAN
            BY <2>1, <2>4 DEF PreToolUse, OneSeed
        <3>3. refused' \subseteq Call
            BY <2>4 DEF PreToolUse
        <3>4. checkpoint' \in [Name -> {Nothing} \cup
                                 [risk : Risks \cup {Broken}, at : 1..MaxClock]]
            BY <2>3, <2>4 DEF PreToolUse
        <3>. QED
            BY <2>4, <3>1, <3>2, <3>3, <3>4 DEF PreToolUse
    <2>5. ASSUME NEW repos \in SUBSET Repo, CaptureResult(repos)
          PROVE  GuardTypeOK'
        <3>1. CASE (\E state \in {"active", "done"} : capsule' = state)
                     /\ UNCHANGED <<handoff, checkpoint>>
            BY <2>5, <3>1 DEF CaptureResult, Changed, Capsules
        <3>2. CASE (\E n \in Name, h \in Handoffs \cup {Broken} :
                       handoff' = [handoff EXCEPT ![n] = h])
                     /\ UNCHANGED <<capsule, checkpoint>>
            BY <2>5, <3>2 DEF CaptureResult, Changed
        <3>3. CASE (\E n \in Name, risk \in Risks \cup {Broken} :
                       checkpoint' = [checkpoint EXCEPT ![n] =
                                        [risk |-> risk, at |-> clock]])
                     /\ UNCHANGED <<capsule, handoff>>
            BY <2>3, <2>5, <3>3 DEF CaptureResult, Changed
        <3>. QED
            BY <2>5, <3>1, <3>2, <3>3 DEF CaptureResult
    <2>6. CASE SpoilCapsule
        BY <2>6 DEF SpoilCapsule, Changed, Capsules
    <2>7. ASSUME NEW flags \in [requireCapsule : BOOLEAN, enforceLease : BOOLEAN],
                 Configure(flags)
          PROVE  GuardTypeOK'
        BY <2>7 DEF Configure, Changed
    <2>8. CASE Tick
        <3>1. clock' \in 1..MaxClock
            BY <2>1, <2>8 DEF Tick
        <3>. QED
            BY <2>8, <3>1 DEF Tick
    <2>9. CASE UNCHANGED guardVars
        BY <2>9 DEF guardVars
    <2>. QED
        BY <2>2, <2>4, <2>5, <2>6, <2>7, <2>8, <2>9 DEF GuardNext
<1>. QED
    BY <1>1, <1>2, PTL DEF GuardSpec

-----------------------------------------------------------------------------
(* The product.                                                            *)

\* The behaviour that TLC checks is one of every part: each step is a step of
\* one part and leaves the others alone, so what is proved of the parts holds of
\* the product, for every value of the constants.
THEOREM StoresImplementParts ==
    StoresSpec => ColdSpec /\ RouterSpec /\ LedgerSpec /\ AnchorSpec /\ GuardSpec
<1>1. StoresInit => ColdInit /\ RouterInit /\ LedgerInit /\ AnchorInit /\ GuardInit
    BY DEF StoresInit
<1>2. [StoresNext]_storesVars => /\ [ColdNext]_coldVars /\ [RouterNext]_routerVars
                                 /\ [LedgerNext]_ledgerVars /\ [AnchorNext]_anchorVars
                                 /\ [GuardNext]_guardVars
    BY DEF StoresNext, storesVars
<1>. QED
    BY <1>1, <1>2, PTL DEF StoresSpec, ColdSpec, RouterSpec, LedgerSpec, AnchorSpec,
        GuardSpec

\* The types of all the stores.
THEOREM StoresTypeCorrect == StoresSpec => []StoresTypeOK
<1>1. StoresSpec => [](part \in Parts)
    <2>1. StoresInit => part \in Parts
        BY DEF StoresInit
    <2>2. part \in Parts /\ [StoresNext]_storesVars => (part \in Parts)'
        BY DEF StoresNext, storesVars
    <2>. QED
        BY <2>1, <2>2, PTL DEF StoresSpec
<1>2. /\ ColdTypeOK /\ RouterTypeOK /\ LedgerTypeOK /\ AnchorTypeOK /\ GuardTypeOK
      /\ part \in Parts
      => StoresTypeOK
    BY DEF StoresTypeOK
<1>. QED
    BY <1>1, <1>2, StoresImplementParts, ColdTypeCorrect, RouterTypeCorrect,
       LedgerTypeCorrect, AnchorTypeCorrect, GuardTypeCorrect, PTL

\* What the run checks of the stores, proved of the behaviour that it checks and
\* for every value of the constants.
THEOREM StoresCorrect ==
    StoresSpec =>
        /\ [](/\ InjectedProved /\ RouteHasLeaf /\ NotSurfacedTwice
              /\ SelectionRight
              /\ LedgerKept /\ NoDuplicateCandidate /\ OnlyHumansJudge
              /\ RunsTrusted /\ RefusalStands)
        /\ AttributionKept /\ PinHonoured /\ DecayNotEarly /\ StopNotices
<1>1. StoresSpec => /\ AttributionKept /\ PinHonoured /\ DecayNotEarly /\ StopNotices
    BY StoresImplementParts, ColdAttributionKept, ColdPinHonoured, ColdDecayNotEarly,
       GuardStopNotices
<1>. QED
    BY <1>1, StoresImplementParts, ColdInjectedProved, ColdRouteHasLeaf,
       ColdNotSurfacedTwice, RouterSelectionRight, LedgerKeepsAll, LedgerNoDuplicate,
       LedgerHumansJudge, AnchorRunsTrusted, GuardRefusalStands, PTL

=============================================================================
