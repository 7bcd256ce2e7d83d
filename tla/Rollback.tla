------------------------------- MODULE Rollback --------------------------------
(***************************************************************************)
(* What follows a bad change: the flap-loop guard, which holds a register  *)
(* of a spec whose deployment failed, and active rollback, which reverts a *)
(* failed deployment to the last stable version                            *)
(* (src/internal/nomad/rollback.go, and its two ends in differ.go and      *)
(* applier.go).  Nomad's versions and deployments are the only memory.     *)
(*                                                                         *)
(* One job, one Check at a time; rollback is on, the flap guard is in mode *)
(* history or tag (limit.tags), job creation is enabled, nothing is        *)
(* frozen.  A request lands when it is sent: Reconcile is about late ones. *)
(* Nomad keeps a spec with its defaults filled in (Stores), which may not  *)
(* be the spec as it was written.                                          *)
(***************************************************************************)
EXTENDS UpdateQueueOps, FiniteSetsExt

CONSTANTS
    job, Specs,
    Stores,          \* a spec -> the spec that Nomad then has
    Bad,             \* specs whose deployments may fail
    AutoRevert,      \* specs whose update stanza sets auto_revert
    NoSpec,
    Limits           \* bounds on the environment, one of which a behaviour has

Kinds == {"edit", "stop", "failure", "gc", "guard", "tag", "poll", "register", "revert"}

ASSUME ConstantsAssumption ==
    /\ Bad \subseteq Specs /\ AutoRevert \subseteq Specs
    /\ NoSpec \notin Specs
    /\ Stores \in [Specs -> Specs] /\ \A spec \in Specs : Stores[Stores[spec]] = Stores[spec]
    /\ Limits \subseteq [specs : SUBSET Specs, tags : BOOLEAN, commits : Nat, any : Nat,
                          of : [Kinds -> Nat]]

VARIABLES
    repo,            \* commit -> the job's spec
    versions,        \* version -> [spec, dep, tagged]: retained versions as stored, how each
                     \* one's deployment fares (a successful one makes it stable),
                     \* and whether the guard has tagged it
    live,            \* [ver, idx, dead]: the current version, JobModifyIndex
    lastCommit,
    behind,          \* the job table's index is not lastNomadIndex
    clean,           \* the index has not moved since the running Check's List
    updates,
    chk,             \* the Check: [pc, commit, token, queue, from]
    ap,              \* the applier: "idle", or the kind of the row in flight
    limit, budget    \* the guard's mode; environment steps allowed and taken, per kind

skip == <<lastCommit, behind, clean>>
nomad == <<versions, live>>
bounds == <<limit, budget>>
vars == <<repo, nomad, skip, updates, chk, ap, bounds>>

head == Cardinality(DOMAIN repo)
Current == versions[live.ver]

Idle == [pc |-> "idle", commit |-> 0, token |-> 0, queue |-> FALSE, from |-> 0]

Rollout(spec) == [spec |-> spec, dep |-> "running", tagged |-> FALSE]

Init ==
    /\ limit \in Limits
    /\ repo \in [{1} -> limit.specs]
    /\ \E spec \in limit.specs : versions = [v \in {0} |-> [Rollout(Stores[spec]) EXCEPT !.dep = "successful"]]
    /\ live = [ver |-> 0, idx |-> 1, dead |-> FALSE]
    /\ lastCommit = 0 /\ behind = TRUE /\ clean = FALSE
    /\ updates = [i \in {} |-> 0]
    /\ chk = Idle /\ ap = "idle"
    /\ budget = [kind \in Kinds |-> 0]

\* An environment step or a failing call: the bound of its kind and the bound
\* on all of them allow it.
Use(kind) ==
    /\ budget[kind] < limit.of[kind]
    /\ MapThenSumSet(LAMBDA k : budget[k], Kinds) < limit.any
    /\ budget' = [budget EXCEPT ![kind] = @ + 1]
    /\ UNCHANGED limit
NoFault == UNCHANGED bounds

IndexMoves == behind' = TRUE /\ clean' = FALSE /\ UNCHANGED lastCommit

-----------------------------------------------------------------------------
(* Nomad: versions and deployments.                                        *)

Failed == {v \in DOMAIN versions : versions[v].dep = "failed"}
Tagged == {v \in DOMAIN versions : versions[v].tagged}
Stable == {v \in DOMAIN versions : versions[v].dep = "successful"}

\* A job write with another spec, or of a stopped job, is a new version, and
\* the rollout it replaces is cancelled.
NewVersion(spec) ==
    LET old == [v \in DOMAIN versions |->
                   IF versions[v].dep = "running" THEN [versions[v] EXCEPT !.dep = "cancelled"]
                   ELSE versions[v]]
        new == live.ver + 1
    IN  /\ versions' = [v \in DOMAIN versions \cup {new} |->
                           IF v = new THEN Rollout(spec) ELSE old[v]]
        /\ live' = [ver |-> new, idx |-> live.idx + 1, dead |-> FALSE]
        /\ IndexMoves

Writes(spec) ==
    IF spec = Current.spec /\ ~live.dead THEN UNCHANGED <<nomad, skip>> ELSE NewVersion(spec)

DeploymentSucceeds ==
    /\ Current.dep = "running" /\ ~live.dead
    /\ versions' = [versions EXCEPT ![live.ver].dep = "successful"]
    /\ IndexMoves
    /\ UNCHANGED <<repo, live, updates, chk, ap, bounds>>

\* A deployment is a table of its own: its failure alone moves no job index.
\* With auto_revert Nomad registers the last stable version in the same write.
DeploymentFails ==
    /\ Use("failure")
    /\ Current.dep = "running" /\ ~live.dead /\ Current.spec \in Bad
    /\ LET failed == [versions EXCEPT ![live.ver].dep = "failed"]
           below == {v \in Stable : versions[v].spec # Current.spec}
       IN  IF Current.spec \in AutoRevert /\ below # {}
           THEN /\ versions' = [v \in DOMAIN versions \cup {live.ver + 1} |->
                                   IF v = live.ver + 1
                                   THEN Rollout(versions[Max(below)].spec)
                                   ELSE failed[v]]
                /\ live' = [ver |-> live.ver + 1, idx |-> live.idx + 1, dead |-> FALSE]
                /\ IndexMoves
           ELSE versions' = failed /\ UNCHANGED <<live, skip>>
    /\ UNCHANGED <<repo, updates, chk, ap>>

\* Version GC, which leaves a tagged version there; its deployment goes.
Collect(v) ==
    /\ Use("gc")
    /\ v # live.ver
    /\ versions' = IF v \in Tagged THEN [versions EXCEPT ![v].dep = "collected"]
                   ELSE [w \in DOMAIN versions \ {v} |-> versions[w]]
    /\ UNCHANGED <<repo, live, skip, updates, chk, ap>>

OperatorRun(spec) ==
    /\ Use("edit")
    /\ NewVersion(Stores[spec]) /\ Stores[spec] # Current.spec
    /\ UNCHANGED <<repo, updates, chk, ap>>

OperatorStop ==
    /\ Use("stop")
    /\ ~live.dead
    /\ live' = [live EXCEPT !.dead = TRUE, !.idx = @ + 1]
    /\ versions' = [versions EXCEPT ![live.ver].dep = IF @ = "running" THEN "cancelled" ELSE @]
    /\ IndexMoves
    /\ UNCHANGED <<repo, updates, chk, ap>>

Commit(spec) ==
    /\ head < limit.commits /\ spec # repo[head]
    /\ repo' = [c \in 1 .. (head + 1) |-> IF c <= head THEN repo[c] ELSE spec]
    /\ UNCHANGED <<nomad, skip, updates, chk, ap, bounds>>

StatusWrite ==
    /\ ~behind \/ clean
    /\ IndexMoves
    /\ UNCHANGED <<repo, nomad, updates, chk, ap, bounds>>

-----------------------------------------------------------------------------
(* Check.                                                                  *)

\* Jobs().List and the skip test: a skipped Check polls no deployment.
BeginCheck ==
    /\ chk.pc = "idle"
    /\ behind \/ lastCommit # head
    /\ chk' = [Idle EXCEPT !.pc = "info", !.commit = head]
    /\ clean' = TRUE
    /\ UNCHANGED <<repo, nomad, lastCommit, behind, updates, ap, bounds>>

Info ==
    /\ chk.pc = "info"
    /\ chk' = [chk EXCEPT !.pc = IF live.dead THEN "publish" ELSE "plan",
                          !.queue = live.dead, !.token = live.idx]
    /\ UNCHANGED <<repo, nomad, skip, updates, ap, bounds>>

Wanted == repo[chk.commit]

\* Jobs().Plan compares with defaults filled in.
Plan ==
    /\ chk.pc = "plan"
    /\ chk' = [chk EXCEPT !.pc = IF Stores[Wanted] # Current.spec \/ live.dead THEN "guard" ELSE "publish"]
    /\ UNCHANGED <<repo, nomad, skip, updates, ap, bounds>>

FlapGuardUntagged == \* mutant: the tags are written and not read
    \E v \in Failed : versions[v].spec = Wanted

\* failedVersionFingerprints has the wanted spec's.  The specFingerprint of a
\* parsed file is the spec's as written, a version's that of what Nomad stored:
\* the guard misses a failed spec that Nomad has filled in (rollback.go:33), each
\* time it is asked.
FlapGuardBlocks == \E v \in Failed \cup Tagged : versions[v].spec = Wanted

\* tagFailedVersion, of each version found failed.  (A name is the spec's, and
\* Nomad gives it to one version: of equals it does not matter to which.)
TagFailedVersions ==
    versions' = [v \in DOMAIN versions |->
                    [versions[v] EXCEPT !.tagged = @ \/ (limit.tags /\ v \in Failed)]]

\* decideApplyAction.  The guard fails open; a tag that fails costs nothing but
\* the tag.
Decide ==
    /\ chk.pc = "guard"
    /\ \/ /\ NoFault /\ TagFailedVersions
          /\ chk' = [chk EXCEPT !.pc = "publish", !.queue = ~FlapGuardBlocks]
       \/ /\ limit.tags /\ Failed \ Tagged # {}
          /\ Use("tag") /\ UNCHANGED versions
          /\ chk' = [chk EXCEPT !.pc = "publish", !.queue = ~FlapGuardBlocks]
       \/ /\ Use("guard") /\ UNCHANGED versions
          /\ chk' = [chk EXCEPT !.pc = "publish", !.queue = TRUE]
    /\ UNCHANGED <<repo, live, skip, updates, ap>>

Publish ==
    /\ chk.pc = "publish"
    /\ lastCommit' = chk.commit
    /\ behind' = ~clean /\ clean' = FALSE
    /\ chk' = [chk EXCEPT !.pc = IF chk.queue THEN "enqueue" ELSE "poll"]
    /\ UNCHANGED <<repo, nomad, updates, ap, bounds>>

EnqueueRegister ==
    /\ chk.pc = "enqueue"
    /\ updates' = Appended(updates,
          [job |-> job, ref |-> <<"commit", chk.commit>>,
           op |-> [kind |-> "register", from |-> 0, to |-> 0],
           body |-> [token |-> chk.token, spec |-> Wanted]])
    /\ chk' = [chk EXCEPT !.pc = "poll"]
    /\ UNCHANGED <<repo, nomad, skip, ap, bounds>>

\* checkRollbacks: LatestDeployment.
PollDeployment ==
    /\ chk.pc = "poll"
    /\ \/ NoFault /\ chk' = IF Current.dep = "failed"
                            THEN [Idle EXCEPT !.pc = "revert", !.from = live.ver] ELSE Idle
       \/ Use("poll") /\ chk' = Idle
    /\ UNCHANGED <<repo, nomad, skip, updates, ap>>

StableFurtherBelow(v) == \* mutant: starts two versions back
    {w \in Stable : w + 1 < v}

\* lastStableVersion.
StableBelow(v) == {w \in Stable : w < v}

\* Info for auto_revert, then Versions, and the REVERT.
EnqueueRevert ==
    /\ chk.pc = "revert"
    /\ IF Current.spec \in AutoRevert \/ StableBelow(chk.from) = {}
       THEN UNCHANGED updates
       ELSE updates' = Appended(updates,
              [job |-> job, ref |-> <<"revert", chk.from>>,
               op |-> [kind |-> "revert", from |-> chk.from, to |-> Max(StableBelow(chk.from))],
               body |-> NoSpec])
    /\ chk' = Idle
    /\ UNCHANGED <<repo, nomad, skip, ap, bounds>>

-----------------------------------------------------------------------------
(* The applier.                                                            *)

\* The row in flight.
Row == updates[CHOOSE i \in InProgress(updates) : TRUE]

Take ==
    /\ ap = "idle"
    /\ \E i \in First(Pending(updates)) :
        /\ updates' = MarkInProgress(updates, i)
        /\ ap' = updates[i].op.kind
    /\ UNCHANGED <<repo, nomad, skip, chk, bounds>>

Completes(outcome) ==
    /\ updates' = Renumbered(Complete(updates, Row, outcome))
    /\ ap' = "idle"
    /\ UNCHANGED <<repo, chk>>

\* completeUpdate and invalidateSkip.
Fails == Completes("FAILED") /\ behind' = TRUE /\ UNCHANGED <<nomad, lastCommit, clean>>

\* applyUpdate: Plan shows nothing left to do, or RegisterOpts is sent with the
\* token of detection.
Register ==
    /\ ap = "register"
    /\ LET want == Stores[Row.body.spec]
           unchanged == want = Current.spec /\ ~live.dead
           asRead == live.idx = Row.body.token
       IN  \/ NoFault /\ (unchanged \/ asRead) /\ Completes("SUCCEEDED") /\ Writes(want)
           \/ NoFault /\ ~unchanged /\ ~asRead /\ Fails
           \/ Use("register") /\ Fails

RevertUnguarded == \* mutant: Revert without enforcePriorVersion
    /\ ap = "revert"
    /\ \/ /\ NoFault /\ Row.op.to \in DOMAIN versions
          /\ Completes("SUCCEEDED") /\ Writes(versions[Row.op.to].spec)
       \/ Use("revert") /\ Fails

\* applyRevert: Nomad refuses when the job has left the failed version, or
\* when the target is gone.
Revert ==
    /\ ap = "revert"
    /\ LET asRead == live.ver = Row.op.from /\ Row.op.to \in DOMAIN versions
       IN  \/ NoFault /\ asRead /\ Completes("SUCCEEDED") /\ Writes(versions[Row.op.to].spec)
           \/ NoFault /\ ~asRead /\ Fails
           \/ Use("revert") /\ Fails

-----------------------------------------------------------------------------
CheckStep ==
    \/ BeginCheck \/ Info \/ Plan \/ Decide \/ Publish
    \/ EnqueueRegister \/ PollDeployment \/ EnqueueRevert

ApplierStep == Take \/ Register \/ Revert

Next ==
    \/ CheckStep \/ ApplierStep
    \/ DeploymentSucceeds \/ DeploymentFails
    \/ \E v \in DOMAIN versions : Collect(v)
    \/ \E spec \in limit.specs : Commit(spec) \/ OperatorRun(spec)
    \/ OperatorStop \/ StatusWrite

Spec == Init /\ [][Next]_vars

\* The ticker fires, goroutines are scheduled, calls return.
FairSpec == Spec /\ WF_vars(CheckStep) /\ WF_vars(ApplierStep)

-----------------------------------------------------------------------------
\* Types; a rollout runs for the current version only, and the applier's state
\* names the one row in flight.
TypeOK ==
    /\ live.ver \in DOMAIN versions /\ \A v \in DOMAIN versions : v <= live.ver
    /\ \A v \in DOMAIN versions : versions[v].spec \in Specs /\ (versions[v].dep = "running" => v = live.ver)
    /\ lastCommit <= head /\ chk.from <= live.ver /\ chk.token <= live.idx
    /\ Cardinality(InProgress(updates)) = IF ap = "idle" THEN 0 ELSE 1
    /\ ap # "idle" => Row.op.kind = ap

Lands == live'.ver # live.ver

\* "CAS-guarded on the failed version so a concurrent human change is never
\* stomped" (docs/rollback.md): a revert replaces a version that failed, and
\* nothing registered since, by a spec that was once stable.
RevertReplacesFailed ==
    [][ap = "revert" /\ Revert /\ Lands =>
        /\ Current.dep = "failed" /\ live'.ver = Row.op.from + 1
        /\ Row.op.to \in Stable]_vars

\* Nomad stores the spec as it was written.
StoredAsWritten(spec) == Stores[spec] = spec

\* The guard reads Nomad's history long before the register lands: no register
\* brings back a spec whose deployment failed, whatever failed, was reverted or
\* was changed by hand in between; and once tagged, a failure stays known when
\* Nomad has forgotten its deployment ("Durable across any time horizon",
\* docs/rollback.md).  Unless the guard could not read that history, or the job
\* is stopped: then the register counts as a creation, about which the guard is
\* not asked.  And unless Nomad fills the spec in: "Spec comparison is
\* best-effort" (docs/rollback.md:66), and the failed spec is registered again.
KnownFailedHeld ==
    [][ap = "register" /\ Register /\ Lands /\ ~live.dead /\ budget["guard"] = 0
       /\ StoredAsWritten(Row.body.spec) =>
          \A v \in Failed \cup Tagged : versions[v].spec # Stores[Row.body.spec]]_vars

\* A failed deployment whose last stable version was something else, and which
\* Nomad does not revert itself.
Stuck ==
    /\ ~live.dead /\ Current.dep = "failed" /\ Current.spec \notin AutoRevert
    /\ Stable # {} /\ versions[Max(Stable)].spec # Current.spec

\* "Each diff cycle it checks the latest deployment of each rollback-enabled
\* job; if it has failed, it reverts the job" (docs/rollback.md): so it does in a
\* cluster that is never quiet for good, where Checks are not skipped for ever.
RolledBack == WF_vars(StatusWrite) => <>[]~Stuck
===============================================================================
