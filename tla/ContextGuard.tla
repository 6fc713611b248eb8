---------------------------- MODULE ContextGuard ----------------------------
(***************************************************************************)
(* The ContextGuard hooks (src/context_lifecycle/hooks, cli/hook.py): each *)
(* tool call of a worker is put to the pre_tool_use hook, and the end of   *)
(* its session to the stop hook, over the session's capsule, handoffs and  *)
(* checkpoints, which dispatchers write through capture (lifecycle.py) and *)
(* workers by hand.                                                        *)
(*                                                                         *)
(* A path prefix is abstracted to the paths that it matches; an empty      *)
(* allowed_paths, which permits everything, is the set of all paths.       *)
(***************************************************************************)
EXTENDS Naturals, FiniteSets

CONSTANTS
    Path,       \* paths that Write and Edit are called with
    NoPath,     \* a call that names no path
    Repo,
    Hostable,   \* the repositories whose state this anchor may hold
    Handoffs,   \* what a handoff may say
    Risks,      \* sets of context_risk flags that a checkpoint may carry
    Slots,      \* bound: file names per directory, numbered as they sort
    Nothing,    \* no file
    Broken,     \* a file that does not validate
    MaxClock,   \* bound
    Seed        \* hash seeds of the interpreter

ASSUME GuardAssumption ==
    /\ NoPath \notin Path
    /\ Hostable \subseteq Repo
    /\ MaxClock \in Nat \ {0}
    /\ \A h \in Handoffs :
         /\ h.expires \in 0..MaxClock            \* 0: no expiry
         /\ h.forbidden \subseteq Path /\ h.allowed \subseteq Path
         /\ h.readOnly \in BOOLEAN /\ h.noSubagents \in BOOLEAN

VARIABLES
    clock,
    guard,      \* require_capsule, enforce_lease
    capsule,    \* the first capsule of active/
    handoff,    \* handoffs/ by name
    checkpoint, \* checkpoints/ by name: what it holds and when it was written
    marker,     \* the marker file of each seed: when it was touched, 0 if absent
    stopped,    \* what the last stop hook said
    firstCall,  \* history: when the worker made its first call, 0 before
    sameSeed,   \* history: all the hooks ran under one hash seed
    refused     \* history: calls refused since a file changed

guardFiles == <<guard, capsule, handoff, checkpoint>>
guardVars == <<clock, guardFiles, marker, stopped, firstCall, sameSeed, refused>>

\* Write stands for Edit too, and "other" for the tools that the hook does not
\* tell apart, except in its warnings.
Call == [tool : {"Write"}, path : Path \cup {NoPath}]
          \cup [tool : {"Agent", "other"}, path : {NoPath}]
Capsules == {"none", "malformed", "active", "done"}
Name == 1..Slots

GuardTypeOK ==
    /\ clock \in 1..MaxClock
    /\ guard \in [requireCapsule : BOOLEAN, enforceLease : BOOLEAN]
    /\ capsule \in Capsules
    /\ handoff \in [Name -> Handoffs \cup {Nothing, Broken}]
    /\ checkpoint \in [Name -> {Nothing} \cup
                        [risk : Risks \cup {Broken}, at : 1..MaxClock]]
    /\ marker \in [Seed -> 0..MaxClock]
    /\ stopped \in {"not yet", "quiet", "no checkpoint"}
    /\ firstCall \in 0..MaxClock /\ sameSeed \in BOOLEAN
    /\ refused \subseteq Call

GuardInit ==
    /\ clock = 1
    /\ guard = [requireCapsule |-> TRUE, enforceLease |-> TRUE]
    /\ capsule = "none"
    /\ handoff = [n \in Name |-> Nothing]
    /\ checkpoint = [n \in Name |-> Nothing]
    /\ marker = [seed \in Seed |-> 0]
    /\ stopped = "not yet"
    /\ firstCall = 0 /\ sameSeed = TRUE /\ refused = {}

-----------------------------------------------------------------------------
(* What the hooks read.                                                    *)

Present(files) == {n \in Name : files[n] # Nothing}

\* _first_yaml: the handoff whose name sorts first is everybody's; one that does
\* not validate counts as none.
TheHandoff ==
    IF Present(handoff) = {} THEN Nothing
    ELSE LET first == handoff[CHOOSE n \in Present(handoff) :
                                \A m \in Present(handoff) : n <= m]
         IN  IF first = Broken THEN Nothing ELSE first

\* _latest_yaml: the checkpoint whose name sorts last.
Risk ==
    IF Present(checkpoint) = {} THEN {}
    ELSE LET last == checkpoint[CHOOSE n \in Present(checkpoint) :
                                  \A m \in Present(checkpoint) : m <= n].risk
         IN  IF last = Broken THEN {} ELSE last

\* Mutant: a lease is over at the moment it names only.
ExpiredAt(h) == h.expires \in {clock - 1} \ {0}

Expired(h) == h.expires \in 1..clock - 1

InScope(h, path) ==
    path \notin h.forbidden /\ path \in h.allowed /\ ~h.readOnly

\* evaluate_pre_tool_use: the conditions under which some check blocks.
Blocks(call) ==
    LET h == TheHandoff IN
    \/ guard.requireCapsule /\ capsule \in {"none", "malformed"}
    \/ guard.enforceLease /\ h # Nothing /\ Expired(h)
    \/ /\ call.tool = "Write" /\ h # Nothing /\ call.path # NoPath
       /\ ~InScope(h, call.path)
    \/ /\ call.tool = "Agent"
       /\ \/ h # Nothing /\ h.noSubagents
          \/ "high_parallelism" \in Risk
    \/ "checkpoint_stale" \in Risk

-----------------------------------------------------------------------------
(* The hooks.                                                              *)

\* Mutant: it touches the marker at every call.
TouchAlways(seed) == marker' = [marker EXCEPT ![seed] = clock]

TouchMarker(seed) ==
    marker' = IF marker[seed] = 0 THEN [marker EXCEPT ![seed] = clock] ELSE marker

\* The name of the marker holds hash(anchor), which differs between interpreters
\* unless the seed is fixed.
OneSeed(seed) == sameSeed /\ \A other \in Seed \ {seed} : marker[other] = 0

\* The hook and, when it allows a Write, the checkpoint that the worker writes.
PreToolUse(call, seed) ==
    /\ TouchMarker(seed)
    /\ firstCall' = IF firstCall = 0 THEN clock ELSE firstCall
    /\ sameSeed' = OneSeed(seed)
    /\ IF Blocks(call)
       THEN /\ refused' = refused \cup {call}
            /\ UNCHANGED checkpoint
       ELSE \/ UNCHANGED <<checkpoint, refused>>
            \/ /\ call.tool = "Write"
               /\ \E n \in Name, risk \in Risks \cup {Broken} :
                     checkpoint' = [checkpoint EXCEPT ![n] = [risk |-> risk, at |-> clock]]
               /\ refused' = {}
    /\ UNCHANGED <<clock, guard, capsule, handoff, stopped>>

\* _has_fresh_checkpoint: newer than the marker, or any if there is no marker.
Fresh(seed) ==
    IF marker[seed] = 0 THEN Present(checkpoint) # {}
    ELSE \E n \in Present(checkpoint) : checkpoint[n].at > marker[seed]

Stop(seed) ==
    /\ stopped' = IF Fresh(seed) THEN "quiet" ELSE "no checkpoint"
    /\ sameSeed' = OneSeed(seed)
    /\ UNCHANGED <<clock, guardFiles, marker, firstCall, refused>>

-----------------------------------------------------------------------------
(* The dispatcher, the operator, time.                                     *)

Changed == refused' = {} /\ stopped' = "not yet"

\* _enforce_boundary asks RepoGraph about every repository a result names.
Permitted(repos) == repos \subseteq Hostable

\* capture: one denied repository and nothing is written; otherwise the kind of
\* the result picks the directory.
CaptureResult(repos) ==
    /\ Permitted(repos)
    /\ \/ /\ \E state \in {"active", "done"} : capsule' = state
          /\ UNCHANGED <<handoff, checkpoint>>
       \/ /\ \E n \in Name, h \in Handoffs \cup {Broken} :
                handoff' = [handoff EXCEPT ![n] = h]
          /\ UNCHANGED <<capsule, checkpoint>>
       \/ /\ \E n \in Name, risk \in Risks \cup {Broken} :
                checkpoint' = [checkpoint EXCEPT ![n] = [risk |-> risk, at |-> clock]]
          /\ UNCHANGED <<capsule, handoff>>
    /\ Changed
    /\ UNCHANGED <<clock, guard, marker, firstCall, sameSeed>>

SpoilCapsule ==
    /\ capsule' = "malformed"
    /\ Changed
    /\ UNCHANGED <<clock, guard, handoff, checkpoint, marker, firstCall, sameSeed>>

Configure(flags) ==
    /\ guard' = flags
    /\ Changed
    /\ UNCHANGED <<clock, capsule, handoff, checkpoint, marker, firstCall, sameSeed>>

Tick ==
    /\ clock < MaxClock
    /\ clock' = clock + 1
    /\ UNCHANGED <<guardFiles, marker, stopped, firstCall, sameSeed, refused>>

GuardNext ==
    \/ \E seed \in Seed : Stop(seed) \/ \E call \in Call : PreToolUse(call, seed)
    \/ \E repos \in SUBSET Repo : CaptureResult(repos)
    \/ SpoilCapsule
    \/ \E flags \in [requireCapsule : BOOLEAN, enforceLease : BOOLEAN] : Configure(flags)
    \/ Tick

GuardSpec == GuardInit /\ [][GuardNext]_guardVars

-----------------------------------------------------------------------------
(* Properties.                                                             *)

\* A worker cannot wait a refusal out: as long as no file of the session changes,
\* a call that was refused is refused again, whatever else it calls and however
\* late it is (pre_tool_use.py:83-196, is_lease_expired).
RefusalStands == \A call \in refused : Blocks(call)

\* The stop hook is quiet only if a checkpoint was written after the worker's
\* first call, and complains only if none was: provided that all the hooks ran
\* under one hash seed (hooks/stop.py:31-41, cli/hook.py:30-43).
WrittenSince == \E n \in Present(checkpoint) : checkpoint[n].at > firstCall

StopNotices ==
    [][\A seed \in Seed :
         Stop(seed) /\ sameSeed' /\ firstCall # 0 =>
           (stopped' = "quiet" <=> WrittenSince)]_guardVars
=============================================================================
