------------------------------ MODULE DriftPolicy -----------------------------
(***************************************************************************)
(* What a Check lets through to the applier (src/internal/nomad/differ.go: *)
(* checkHCLCandidate, decideApplyAction, isPreExistingDrift) and what the  *)
(* applier's register then changes in the running job, for one job while   *)
(* commits, operators and the autoscaler go on.                            *)
(*                                                                         *)
(* A job's spec is a value for each of its leaves; Place says where a plan *)
(* diff shows a leaf.  Two leaves are meta keys nomad-gitops reads:        *)
(* "managed" and "policy".  One Check runs at a time (Reconcile has them   *)
(* overlap), and the freeze and the flap guard, the last gates, are open   *)
(* (FreezeGate and Rollback have them).                                    *)
(***************************************************************************)
EXTENDS DiffClass, FiniteSets

CONSTANTS
    Leaves, Values,  \* what a spec consists of
    Place,           \* leaf -> where a plan diff shows it
    Owner,           \* leaf -> whose it is, by its meaning
    Absent,          \* no such file, no such job
    Settings         \* [conf, limit] a behaviour may have

Specs == [Leaves -> Values]
Policies == {"none", "image-only", "full"}

ASSUME ConstantsAssumption ==
    /\ {"managed", "policy"} \subseteq Leaves
    /\ Place \in [Leaves -> DiffLeaf(STRING)]
    /\ Owner \in [Leaves -> {"git", "image", "meta", "count", "scaling"}]
    /\ Absent \notin Specs
    /\ \A s \in Settings :
        /\ s.conf \in [default : Policies, glob : BOOLEAN, existing : BOOLEAN,
                       metaOnly : BOOLEAN, create : BOOLEAN, includeDead : BOOLEAN]
        /\ s.limit.files \subseteq Specs \cup {Absent}  \* contents a commit may give the file
        /\ s.limit.runs \subseteq Specs                 \* specs an operator may run
        /\ s.limit.counts \subseteq Values              \* counts the autoscaler may set
        /\ s.limit.lives \subseteq Specs \cup {Absent}  \* what runs at first
        /\ {s.limit.commits, s.limit.edits, s.limit.restarts} \subseteq Nat

\* Plans show what a leaf is: an image, a key of ours, a group's count or scaling.
ASSUME PlacesAssumption ==
    \A l \in Leaves :
        /\ IsImage(Place[l]) => Owner[l] = "image"
        /\ IsManagedMeta(Place[l]) => Owner[l] = "meta"
        /\ Owner[l] \in {"count", "scaling"} <=> AutoscalerOwned(Place[l], {Place[l].group})

VARIABLES
    repo,         \* commit -> the job's file
    live,         \* Nomad's job: [spec, idx, stop, dead]
    index,        \* Raft index of the job table
    last,         \* [commit, idx] of the last Check: lastCommit, lastNomadIndex
    told,         \* prevMeta: the file's own keys when they were last compared
    chk,          \* the Check that runs
    pending, ap,  \* the job's PENDING update, and the applier with its row
    conf,         \* flags and defaults of the process
    limit, edits, restarts  \* environment steps allowed and taken

nomad == <<live, index>>
budget == <<conf, limit, edits, restarts>>
vars == <<repo, nomad, last, told, chk, pending, ap, budget>>

head == Len(repo)
NotRegistered == [spec |-> Absent, idx |-> 0, stop |-> FALSE, dead |-> FALSE]

\* A Check between its calls; stop, token and queued are its candidate's.
Idle == [pc |-> "idle", commit |-> 0, idx |-> 0, token |-> 0, stop |-> FALSE, queued |-> FALSE]

\* An update: REGISTER of the job of a commit.  The Stop flag is the one thing
\* in the parsed job that does not come from the file.
NoUpdate == [commit |-> 0, token |-> 0, stop |-> FALSE]
IdleApplier == [pc |-> "idle", row |-> NoUpdate]

Init ==
    /\ \E s \in Settings :
        /\ conf = s.conf /\ limit = s.limit
        /\ \E file \in s.limit.files : repo = <<file>>
        /\ \E spec \in s.limit.lives :
            live = IF spec = Absent THEN NotRegistered
                   ELSE [NotRegistered EXCEPT !.spec = spec, !.idx = 1]
    /\ index = 1
    /\ last = [commit |-> 0, idx |-> 0]
    /\ told = Absent
    /\ chk = Idle /\ pending = NoUpdate /\ ap = IdleApplier
    /\ edits = 0 /\ restarts = 0

-----------------------------------------------------------------------------
(* The branch, and everyone else who writes to Nomad.                      *)

\* A commit of this file, or (file = repo[head]) of others.
Commit(file) ==
    /\ head < limit.commits
    /\ repo' = Append(repo, file)
    /\ UNCHANGED <<nomad, last, told, chk, pending, ap, budget>>

Write(spec, stop) ==
    /\ index' = index + 1
    /\ live' = [spec |-> spec, idx |-> index + 1, stop |-> stop, dead |-> FALSE]

Edit ==
    /\ edits < limit.edits
    /\ edits' = edits + 1
    /\ UNCHANGED <<repo, last, told, chk, pending, ap, conf, limit, restarts>>

OperatorRun(spec) == Edit /\ Write(spec, FALSE)

\* `nomad job stop`: the job still runs until its allocations are gone.
OperatorStop ==
    /\ Edit
    /\ live.spec # Absent /\ ~live.stop
    /\ Write(live.spec, TRUE)

\* A status change moves the table's index alone.
Stopped ==
    /\ live.stop /\ ~live.dead
    /\ index' = index + 1
    /\ live' = [live EXCEPT !.dead = TRUE]
    /\ UNCHANGED <<repo, last, told, chk, pending, ap, budget>>

\* autoscaledGroups.
AutoscaledGroups(spec) ==
    {Place[l].group : l \in {m \in Leaves : Owner[m] = "scaling" /\ spec[m] = "on"}}

Autoscale(l, value) ==
    /\ Edit
    /\ live.spec # Absent /\ ~live.stop
    /\ Owner[l] = "count" /\ Place[l].group \in AutoscaledGroups(live.spec)
    /\ live.spec[l] # value
    /\ Write([live.spec EXCEPT ![l] = value], FALSE)

-----------------------------------------------------------------------------
(* The gates.                                                              *)

\* effectivePolicy, and effectivePolicyFromText of a file's text: a key that is
\* there wins, and one that is no policy means none.
EffectivePolicy(file) ==
    IF file["policy"] = "unset" THEN conf.default
    ELSE IF file["policy"] \in Policies THEN file["policy"]
    ELSE "none"

\* metaKeyPresent, and managedKeyRe on a file's text.
Managed(file) == file["managed"] = "true"

Selected(file) == file # Absent /\ (conf.glob \/ Managed(file))

PolicyPermits(policy, class) ==
    policy = "full" \/ (policy = "image-only" /\ class = "image-only")

FileAtParentOfHead(commit) == \* mutant: HEAD may have moved on since
    IF head = 1 THEN Absent ELSE repo[head - 1]

FileAtParentOf(commit) == IF commit = 1 THEN Absent ELSE repo[commit - 1]

\* The change of scope that brings this diff in is the commit's own.
IsPreExistingDrift(commit, class) ==
    LET parent == FileAtParentOf(commit)
    IN  /\ ~conf.glob /\ parent # Absent
        /\ \/ ~Managed(parent)
           \/ /\ class # "managed-meta-only"
              /\ ~PolicyPermits(EffectivePolicy(parent), class)
              /\ PolicyPermits(EffectivePolicy(repo[commit]), class)

\* decideApplyAction says ApplyActionQueued: no gate holds the candidate.
Queued(commit, class, creation) ==
    LET policy == EffectivePolicy(repo[commit])
    IN  /\ \/ creation
           \/ /\ class # "none"
              /\ conf.existing \/ ~IsPreExistingDrift(commit, class)
              /\ conf.metaOnly \/ class # "managed-meta-only"
        /\ policy # "none"
        /\ policy = "image-only" => ~creation /\ class = "image-only"
        /\ creation => conf.create

\* What Jobs().Plan shows of the job a commit's file and stop make.
PlanDiff(file, stop) ==
    LET whole == [level |-> "job", group |-> "", path |-> <<>>, name |-> Whole]
    IN  IF live.spec = Absent THEN {whole}
        ELSE {Place[l] : l \in {m \in Leaves : live.spec[m] # file[m]}}
             \cup IF live.stop = stop THEN {} ELSE {[whole EXCEPT !.name = "Stop"]}

-----------------------------------------------------------------------------
(* Check.                                                                  *)

CheckStep(next) == chk' = next /\ UNCHANGED <<repo, nomad, ap, budget>>

\* List, and the skip test.
Begin ==
    /\ chk.pc = "idle"
    /\ last # [commit |-> head, idx |-> index]
    /\ CheckStep([Idle EXCEPT !.pc = IF Selected(repo[head]) THEN "info" ELSE "finish",
                              !.commit = head, !.idx = index])
    /\ UNCHANGED <<last, told, pending>>

\* checkHCLCandidate until its Plan: a job that is missing, or dead, is created.
Info ==
    LET creation == live.spec = Absent \/ (live.dead /\ ~conf.includeDead)
    IN  /\ chk.pc = "info"
        /\ CheckStep(
            IF creation
            THEN [chk EXCEPT !.pc = "finish", !.token = live.idx,
                             !.queued = Queued(chk.commit, "other", TRUE)]
            ELSE [chk EXCEPT !.pc = "plan", !.token = live.idx, !.stop = live.stop])
        /\ UNCHANGED <<last, told, pending>>

\* Its Plan, of the job as it is by now, and decideApplyAction.
Plan ==
    LET file == repo[chk.commit]
        class == ClassifyDiff(PlanDiff(file, chk.stop), AutoscaledGroups(file))
    IN  /\ chk.pc = "plan"
        /\ CheckStep([chk EXCEPT !.pc = "finish", !.queued = Queued(chk.commit, class, FALSE)])
        /\ UNCHANGED <<last, told, pending>>

EnqueueKeepsJob(u) == \* mutant: a refresh renews the token but not the job
    IF ap.pc # "idle" /\ ap.row.commit = u.commit THEN pending
    ELSE IF pending.commit = u.commit THEN [u EXCEPT !.stop = pending.stop]
    ELSE u

\* A row of this commit that is in flight swallows the update; one that waits
\* is refreshed, one of another commit superseded.
Enqueue(u) == IF ap.pc # "idle" /\ ap.row.commit = u.commit THEN pending ELSE u

OwnMeta(file) ==
    IF file = Absent THEN Absent ELSE [l \in {m \in Leaves : Owner[m] = "meta"} |-> file[l]]

LogMetaChangesQueued == \* mutant: what is not enqueued is not compared
    told' = IF chk.queued THEN OwnMeta(repo[chk.commit]) ELSE told

\* logMetaChanges: a job that was not there is baselined, one that goes dropped.
LogMetaChanges == told' = OwnMeta(repo[chk.commit])

\* commitResults, logMetaChanges, enqueueUpdate.
Finish ==
    /\ chk.pc = "finish"
    /\ last' = [commit |-> chk.commit, idx |-> chk.idx]
    /\ LogMetaChanges
    /\ pending' = IF chk.queued
                  THEN Enqueue([commit |-> chk.commit, token |-> chk.token, stop |-> chk.stop])
                  ELSE pending
    /\ CheckStep(Idle)

Check == Begin \/ Info \/ Plan \/ Finish

-----------------------------------------------------------------------------
(* The applier.                                                            *)

ApplierStep(next) == ap' = next /\ UNCHANGED <<repo, told, chk, budget>>

NextPendingAny == \* mutant: takes what is not there
    /\ ap.pc = "idle"
    /\ pending' = NoUpdate
    /\ ApplierStep([pc |-> "plan", row |-> pending])
    /\ UNCHANGED <<nomad, last>>

NextPending ==
    /\ ap.pc = "idle" /\ pending # NoUpdate
    /\ pending' = NoUpdate
    /\ ApplierStep([pc |-> "plan", row |-> pending])
    /\ UNCHANGED <<nomad, last>>

RowFile == repo[ap.row.commit]

\* Plan once more; with nothing of Git's left to change the update is done.
PlanAgain ==
    /\ ap.pc = "plan"
    /\ ApplierStep(
        IF ClassifyDiff(PlanDiff(RowFile, ap.row.stop), AutoscaledGroups(RowFile)) = "none"
        THEN IdleApplier
        ELSE [ap EXCEPT !.pc = "register"])
    /\ UNCHANGED <<nomad, last, pending>>

\* Nomad's RegisterOpts with PreserveCounts: no count of any group changes.
\* The code asks for it when one group of the job is autoscaled.
Registered(file) ==
    IF live.spec = Absent \/ AutoscaledGroups(file) = {} THEN file
    ELSE [l \in Leaves |-> IF Owner[l] = "count" THEN live.spec[l] ELSE file[l]]

RegisterUnretried == \* mutant: a conflict leaves the cached index alone
    /\ ap.pc = "register"
    /\ IF live.idx = ap.row.token THEN Write(Registered(RowFile), ap.row.stop) ELSE UNCHANGED nomad
    /\ ApplierStep(IdleApplier)
    /\ UNCHANGED <<last, pending>>

\* The register with EnforceIndex.  Nomad writes nothing for a job that is as it
\* was; after a conflict invalidateSkip has the next Check run.
Register ==
    /\ ap.pc = "register"
    /\ IF live.idx # ap.row.token
       THEN last' = [last EXCEPT !.idx = 0] /\ UNCHANGED nomad
       ELSE /\ UNCHANGED last
            /\ IF live.spec = Registered(RowFile) /\ live.stop = ap.row.stop
               THEN UNCHANGED nomad
               ELSE Write(Registered(RowFile), ap.row.stop)
    /\ ApplierStep(IdleApplier)
    /\ UNCHANGED pending

Applier == NextPending \/ PlanAgain \/ Register

\* The process starts again with nothing.
Restart ==
    /\ restarts < limit.restarts
    /\ restarts' = restarts + 1
    /\ last' = [commit |-> 0, idx |-> 0] /\ told' = Absent
    /\ chk' = Idle /\ pending' = NoUpdate /\ ap' = IdleApplier
    /\ UNCHANGED <<repo, nomad, conf, limit, edits>>

-----------------------------------------------------------------------------
Environment ==
    \/ \E file \in limit.files : Commit(file)
    \/ \E spec \in limit.runs : OperatorRun(spec)
    \/ \E l \in Leaves, value \in limit.counts : Autoscale(l, value)
    \/ OperatorStop \/ Stopped
    \/ Restart

Next == Check \/ Applier \/ Environment

Spec == Init /\ [][Next]_vars

\* The tickers keep firing, and every enqueue wakes the applier.
FairSpec == Spec /\ WF_vars(Check) /\ WF_vars(Applier)

-----------------------------------------------------------------------------
Jobs == [spec : Specs \cup {Absent}, idx : 0 .. index, stop : BOOLEAN, dead : BOOLEAN]
Updates == [commit : 0 .. head, token : 0 .. index, stop : BOOLEAN]

\* Types; a candidate, an update and the skip speak of commits and indexes that
\* were.
TypeOK ==
    /\ repo \in Seq(Specs \cup {Absent})
    /\ live \in Jobs
    /\ last.commit \in 0 .. head /\ last.idx \in 0 .. index
    /\ chk.pc \in {"idle", "info", "plan", "finish"} /\ chk.commit \in 0 .. head
    /\ {pending, ap.row} \subseteq Updates
    /\ ap.pc \in {"plan", "register"} => ap.row.commit # 0

\* The leaves the register that lands in this step changes in the job.
Lands == ap.pc = "register" /\ ap'.pc = "idle" /\ live' # live
Starts == live.spec = Absent \/ (live.stop /\ ~live'.stop)
Changed == {l \in Leaves : live'.spec[l] # live.spec[l]}

\* By their meaning, not by where a diff shows them.
OfAutoscaler(l, file) ==
    Owner[l] \in {"count", "scaling"} /\ Place[l].group \in AutoscaledGroups(file)

Covers(policy, leaves) ==
    CASE policy = "full" -> TRUE
      [] policy = "image-only" -> \A l \in leaves : Owner[l] \in {"image", "meta"}
      [] OTHER -> leaves = {}

\* A register changes in the running job only what the policy of its commit
\* covers (counts and scaling of autoscaled groups apart), whoever writes between
\* the Plan that was classified and the write; it starts a job that is missing
\* or stopped only under policy full, with creation enabled; and it never moves a count the autoscaler owns.
PolicyBoundsChange ==
    [][Lands =>
        LET policy == EffectivePolicy(RowFile)
        IN  IF Starts THEN policy = "full" /\ conf.create
            ELSE /\ Covers(policy, {l \in Changed : ~OfAutoscaler(l, RowFile)})
                 /\ \A l \in Changed : OfAutoscaler(l, RowFile) => Owner[l] # "count"]_vars

\* A commit that brings a running job into scope, or widens its policy, is not
\* itself followed by a register of what the scope before it would have left
\* alone, whichever commits come after it while it is being checked.
OptInHoldsBacklog ==
    [][Lands /\ ~Starts /\ ~conf.glob /\ ~conf.existing /\ ap.row.commit > 1 =>
        LET parent == repo[ap.row.commit - 1]
        IN  parent # Absent =>
              /\ Managed(parent)
              /\ \/ \A l \in Changed : Owner[l] = "meta" \/ OfAutoscaler(l, RowFile)
                 \/ Covers(EffectivePolicy(parent), {l \in Changed : ~OfAutoscaler(l, RowFile)})]_vars

\* Only operators stop a job, and a register starts a stopped one only as the
\* creation of a dead job: the Stop flag copied into the parsed job goes nowhere
\* else.
StopIsTheOperators ==
    [][Lands /\ live'.stop # live.stop => ~live'.stop /\ live.dead /\ ~conf.includeDead]_vars

\* What a Check would find of Git's in the running job, and a register change.
GitDrift(file) == {l \in Leaves : live.spec[l] # file[l] /\ ~OfAutoscaler(l, file)}
Registrable(file) ==
    {l \in GitDrift(file) : AutoscaledGroups(file) # {} => Owner[l] # "count"}

InScope(file, drift) ==
    /\ Managed(file) \/ conf.glob
    /\ EffectivePolicy(file) # "none" /\ Covers(EffectivePolicy(file), drift)

PermittedDrift ==
    LET file == repo[head]
        drift == GitDrift(file)
    IN  /\ file # Absent /\ live.spec # Absent /\ ~live.dead
        /\ Registrable(file) # {}
        /\ conf.metaOnly \/ \E l \in drift : Owner[l] # "meta"
        /\ EffectivePolicy(file) = "image-only" => \E l \in drift : Owner[l] = "image"
        /\ InScope(file, drift)
        /\ conf.existing \/ conf.glob \/ head = 1 \/ repo[head - 1] = Absent
             \/ InScope(repo[head - 1], drift)

\* Drift that the policy covers and that no scope change of HEAD holds back does
\* not last, whatever was queued, superseded or refused on the way.
PermittedDriftGoes == <>[]~PermittedDrift

\* In the end the meta keys that were last logged, or taken as the baseline, are
\* those of HEAD: the log tells which scope is in force.
LogCatchesUp == <>[](told = OwnMeta(repo[head]))

Accepted == ap.pc = "register" /\ ap' = IdleApplier /\ live.idx = ap.row.token /\ UNCHANGED restarts

\* "PreserveCounts keeps autoscaler-owned group counts out of the write"
\* (applier.go:140): a register that succeeds leaves no other difference.
RegisterConverges ==
    [][Accepted =>
        \A l \in Leaves : live'.spec[l] = RowFile[l] \/ OfAutoscaler(l, RowFile)]_vars
===============================================================================
