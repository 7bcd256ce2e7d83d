------------------------------ MODULE Reconcile -------------------------------
(***************************************************************************)
(* The reconciliation loop: Checks compare the HCL of a commit with live   *)
(* Nomad jobs and enqueue REGISTER updates (src/internal/nomad/differ.go), *)
(* one applier plans and registers them (src/internal/nomad/applier.go),   *)
(* and both run beside commits, other writers of Nomad and API faults.     *)
(*                                                                         *)
(* Nothing serialises Checks: the git watcher, the periodic ticker and the *)
(* staleness ticker each run one in their own goroutine (main.go), so a    *)
(* Check is the sequence of its API calls and critical sections, one step  *)
(* each.  Every job is selected by glob with update policy full, job       *)
(* creation enabled and deregistration off: the gates of decideApplyAction *)
(* that hold an update back are the subject of other modules.              *)
(***************************************************************************)
EXTENDS UpdateQueueOps, FiniteSetsExt

CONSTANTS
    Jobs, Specs,     \* job IDs, and what a job can be
    Absent,          \* no file in the tree; not registered in Nomad
    Checkers,        \* goroutines that run Checks
    Limits           \* bounds on the environment, one of which a behaviour has

FaultKinds == {"list", "parse", "info", "plan", "applyplan", "register"}

ASSUME ConstantsAssumption ==
    /\ Absent \notin Specs
    /\ Limits \subseteq [overlap : Nat,             \* Checks at a time
                         kinds : SUBSET FaultKinds,  \* API calls that may fail
                         commits : Nat, edits : Nat, faults : Nat, crashes : Nat]

VARIABLES
    repo,        \* commit -> tree: the HCL at each commit of the branch
    live,        \* job -> [spec, idx, dead]: Nomad's job table
    index,       \* Raft index of the job table (QueryMeta.LastIndex)
    wire,        \* RegisterOpts requests Nomad has not processed
    updates,     \* the update queue (UpdateQueueOps)
    stamp,       \* stamp of the queue's next append
    lastCommit, lastIndex, drift,   \* Differ: lastCommit, lastNomadIndex, diffs
    chk,         \* per checker: the Check it runs
    ap,          \* the applier: [pc, row, outcome]
    limit, edits, faults, crashes   \* environment steps allowed and taken

nomad == <<live, index, wire>>
differ == <<lastCommit, lastIndex, drift>>
queue == <<updates, stamp>>
budget == <<limit, edits, faults, crashes>>
vars == <<repo, nomad, queue, differ, chk, ap, budget>>

Trees == [Jobs -> Specs \cup {Absent}]
head == Max(DOMAIN repo)
NotRegistered == [spec |-> Absent, idx |-> 0, dead |-> FALSE]

\* A Check between calls.  job and token: between Info and Plan.
Idle == [pc |-> "idle", commit |-> 0, idx |-> 0, running |-> {}, todo |-> {},
         job |-> Absent, token |-> 0, found |-> {}, cands |-> {}]

IdleApplier == [pc |-> "idle", row |-> 0, outcome |-> "PENDING"]

Init ==
    /\ repo \in [{1} -> Trees]
    /\ \E spec \in Trees :
          live = [j \in Jobs |-> IF spec[j] = Absent THEN NotRegistered
                                 ELSE [spec |-> spec[j], idx |-> 1, dead |-> FALSE]]
    /\ index = 1
    /\ wire = {}
    /\ updates = [i \in {} |-> 0]
    /\ stamp = 1
    /\ lastCommit = 0 /\ lastIndex = 0 /\ drift = {}
    /\ chk = [k \in Checkers |-> Idle]
    /\ ap = IdleApplier
    /\ limit \in Limits /\ edits = 0 /\ faults = 0 /\ crashes = 0

-----------------------------------------------------------------------------
(* The world outside: the branch, and everyone else who writes to Nomad.   *)

Commit(tree) ==
    /\ head < limit.commits
    /\ tree # repo[head]
    /\ repo' = [c \in 1 .. (head + 1) |-> IF c <= head THEN repo[c] ELSE tree]
    /\ UNCHANGED <<nomad, queue, differ, chk, ap, budget>>

\* A job write moves the table's index and the job's JobModifyIndex.
Written(j, spec, dead) ==
    /\ index' = index + 1
    /\ live' = [live EXCEPT ![j] = [spec |-> spec, idx |-> index + 1, dead |-> dead]]

Edit ==
    /\ edits < limit.edits
    /\ edits' = edits + 1
    /\ UNCHANGED <<repo, wire, queue, differ, chk, ap, limit, faults, crashes>>

OperatorRun(j, spec) == Edit /\ Written(j, spec, FALSE)

OperatorStop(j) ==
    /\ Edit
    /\ live[j].spec # Absent /\ ~live[j].dead
    /\ Written(j, live[j].spec, TRUE)

OperatorPurge(j) ==
    /\ Edit
    /\ live[j].spec # Absent
    /\ index' = index + 1
    /\ live' = [live EXCEPT ![j] = NotRegistered]

\* A status change of any job moves the table's index alone.
StatusWrite == Edit /\ index' = index + 1 /\ UNCHANGED live

MayFail(kind) == kind \in limit.kinds /\ faults < limit.faults

Fault(kind) == MayFail(kind) /\ faults' = faults + 1
NoFault == UNCHANGED faults

-----------------------------------------------------------------------------
(* Check.                                                                  *)

At(k, pc) == chk[k].pc = pc

Step(k, next) ==
    /\ chk' = [chk EXCEPT ![k] = next]
    /\ UNCHANGED <<repo, limit, edits, crashes>>

\* The caller reads commit and files from the watcher and calls Check.
Begin(k) ==
    /\ At(k, "idle")
    /\ Cardinality({other \in Checkers : ~At(other, "idle")}) < limit.overlap
    /\ Step(k, [chk[k] EXCEPT !.pc = "list", !.commit = head])
    /\ UNCHANGED <<nomad, queue, differ, ap, faults>>

Running == {j \in Jobs : live[j].spec # Absent /\ ~live[j].dead}

\* Jobs().List: a snapshot of the live jobs and its index; on an error the
\* Check goes on with neither.
List(k) ==
    /\ At(k, "list")
    /\ \/ /\ NoFault
          /\ Step(k, [chk[k] EXCEPT !.pc = "gate", !.idx = index, !.running = Running])
       \/ /\ Fault("list")
          /\ Step(k, [chk[k] EXCEPT !.pc = "gate"])
    /\ UNCHANGED <<nomad, queue, differ, ap>>

SkippableIndexOnly(k) == \* mutant: the commit is not compared
    chk[k].idx # 0 /\ chk[k].idx = lastIndex

Skippable(k) ==
    chk[k].idx # 0 /\ chk[k].idx = lastIndex /\ chk[k].commit = lastCommit

Skip(k) ==
    /\ At(k, "gate")
    /\ Skippable(k)
    /\ Step(k, Idle)
    /\ UNCHANGED <<nomad, queue, differ, ap, faults>>

Defined(k) == {j \in Jobs : repo[chk[k].commit][j] # Absent}

\* parseHCLCandidates, and the orphans: running jobs of the snapshot that no
\* parsed file defines.
Parse(k) ==
    /\ At(k, "gate")
    /\ ~Skippable(k)
    /\ \E parsed \in SUBSET Defined(k) :
        /\ IF parsed = Defined(k) THEN NoFault ELSE Fault("parse")
        /\ Step(k, [chk[k] EXCEPT !.pc = "job", !.todo = parsed, !.running = {},
                            !.found = (chk[k].running \ parsed) \X {"missing_from_hcl"}])
    /\ UNCHANGED <<nomad, queue, differ, ap>>

\* checkHCLCandidate leaves a diff and a candidate for the job.  against is
\* what the diff was computed from; the code does not keep it.
Detected(c, j, type, token, against) ==
    [c EXCEPT !.pc = "job", !.job = Absent, !.token = 0,
              !.found = @ \cup {<<j, type>>},
              !.cands = @ \cup {[job |-> j, token |-> token, spec |-> repo[c.commit][j],
                                 against |-> against]}]

\* Jobs().Info: a missing or dead job is a creation; otherwise its index is
\* the CAS token and Plan follows.  An error drops the job from this Check.
Info(k) ==
    \E j \in chk[k].todo :
        LET c == [chk[k] EXCEPT !.todo = @ \ {j}]
        IN  /\ At(k, "job")
            /\ \/ /\ NoFault
                  /\ live[j].spec = Absent \/ live[j].dead
                  /\ Step(k, Detected(c, j, "missing_from_nomad", live[j].idx, live[j].spec))
               \/ /\ NoFault
                  /\ live[j].spec # Absent /\ ~live[j].dead
                  /\ Step(k, [c EXCEPT !.pc = "plan", !.job = j, !.token = live[j].idx])
               \/ /\ Fault("info")
                  /\ Step(k, c)
            /\ UNCHANGED <<nomad, queue, differ, ap>>

\* The spec Plan compares with, and what it reports.
Changes(spec, job) == spec # job.spec \/ job.dead

\* Jobs().Plan against the job as it is by now.
Plan(k) ==
    LET j == chk[k].job
        c == [chk[k] EXCEPT !.pc = "job", !.job = Absent, !.token = 0]
    IN  /\ At(k, "plan")
        /\ \/ /\ NoFault
              /\ IF Changes(repo[chk[k].commit][j], live[j])
                 THEN Step(k, Detected(chk[k], j, "modified", chk[k].token, live[j].spec))
                 ELSE Step(k, c)
           \/ Fault("plan") /\ Step(k, c)
        /\ UNCHANGED <<nomad, queue, differ, ap>>

\* Check returns when it has no candidate left to enqueue.
Enqueuing(k, cands) ==
    IF cands = {} THEN Idle
    ELSE [Idle EXCEPT !.pc = "enqueue", !.commit = chk[k].commit, !.cands = cands]

CommitResultsRelisted(k) == \* mutant: stores the table's index as it is by now
    /\ At(k, "job")
    /\ chk[k].todo = {}
    /\ Step(k, Enqueuing(k, chk[k].cands))
    /\ drift' = chk[k].found
    /\ lastCommit' = chk[k].commit
    /\ lastIndex' = index
    /\ UNCHANGED <<nomad, queue, ap, faults>>

\* commitResults publishes the diffs with the commit and index they are for.
CommitResults(k) ==
    /\ At(k, "job")
    /\ chk[k].todo = {}
    /\ Step(k, Enqueuing(k, chk[k].cands))
    /\ drift' = chk[k].found
    /\ lastCommit' = chk[k].commit
    /\ lastIndex' = IF chk[k].idx = 0 THEN lastIndex ELSE chk[k].idx
    /\ UNCHANGED <<nomad, queue, ap, faults>>

\* enqueueUpdate, one candidate at a time.
EnqueueCandidate(k) ==
    /\ At(k, "enqueue")
    /\ \E u \in chk[k].cands :
        LET intent == [job |-> u.job, ref |-> chk[k].commit, op |-> "REGISTER",
                       body |-> [token |-> u.token, spec |-> u.spec, against |-> u.against]]
        IN  /\ updates' = Enqueue(updates, stamp, intent)
            /\ stamp' = IF Claiming(updates, intent) # {} THEN stamp ELSE stamp + 1
            /\ Step(k, Enqueuing(k, chk[k].cands \ {u}))
    /\ UNCHANGED <<nomad, differ, ap, faults>>

CheckStep(k) ==
    \/ Begin(k) \/ List(k) \/ Skip(k) \/ Parse(k) \/ Info(k) \/ Plan(k)
    \/ CommitResults(k) \/ EnqueueCandidate(k)

-----------------------------------------------------------------------------
(* The applier.  It reads the row through a pointer, without the lock.     *)

Row == updates[ap.row]

NextPending ==
    /\ ap.pc = "idle"
    /\ \E i \in First(Pending(updates)) :
        /\ updates' = MarkInProgress(updates, i)
        /\ ap' = [ap EXCEPT !.pc = "plan", !.row = i]
    /\ UNCHANGED <<repo, nomad, stamp, differ, chk, budget>>

Outcome(status) == ap' = [ap EXCEPT !.pc = "complete", !.outcome = status]

Request(token) ==
    [row |-> ap.row, job |-> Row.job, token |-> token,
     spec |-> Row.body.spec, against |-> Row.body.against]

Register(token) ==
    /\ wire' = wire \cup {Request(token)}
    /\ ap' = [ap EXCEPT !.pc = "reply"]

ApplyFreshToken == \* mutant: guards the write with the index of the moment
    /\ ap.pc = "plan"
    /\ NoFault
    /\ IF Changes(Row.body.spec, live[Row.job])
       THEN Register(live[Row.job].idx)
       ELSE Outcome("SUCCEEDED") /\ UNCHANGED wire
    /\ UNCHANGED <<repo, live, index, queue, differ, chk, limit, edits, crashes>>

\* Plan again: nothing left to change completes the update as a no-op; else
\* RegisterOpts goes out with EnforceIndex.  (Who writes between the two calls
\* writes before the request lands.)
Apply ==
    /\ ap.pc = "plan"
    /\ \/ /\ NoFault
          /\ IF Changes(Row.body.spec, live[Row.job])
             THEN Register(Row.body.token)
             ELSE Outcome("SUCCEEDED") /\ UNCHANGED wire
       \/ Fault("applyplan") /\ Outcome("FAILED") /\ UNCHANGED wire
    /\ UNCHANGED <<repo, live, index, queue, differ, chk, limit, edits, crashes>>

\* The reply reaches the applier if it still waits for this request.
Reply(r, status) ==
    IF ap.pc = "reply" /\ ap.row = r.row THEN Outcome(status) ELSE UNCHANGED ap

\* Nomad processes a request: the job must be as the token says.
Land(r) ==
    /\ IF live[r.job].idx = r.token
       THEN Written(r.job, r.spec, FALSE) /\ Reply(r, "SUCCEEDED")
       ELSE UNCHANGED <<live, index>> /\ Reply(r, "FAILED")
    /\ wire' = wire \ {r}
    /\ UNCHANGED <<repo, queue, differ, chk, budget>>

\* The call errors at the client.  The request is lost, or still on its way.
CallFails ==
    /\ ap.pc = "reply"
    /\ Fault("register")
    /\ Outcome("FAILED")
    /\ \/ UNCHANGED wire
       \/ wire' = {r \in wire : r.row # ap.row}
    /\ UNCHANGED <<repo, live, index, queue, differ, chk, limit, edits, crashes>>

\* completeUpdate.
CompleteUpdate ==
    /\ ap.pc = "complete"
    /\ updates' = Complete(updates, Row, ap.outcome)
    /\ ap' = IF ap.outcome = "FAILED" THEN [ap EXCEPT !.pc = "invalidate"] ELSE IdleApplier
    /\ UNCHANGED <<repo, nomad, stamp, differ, chk, budget>>

InvalidateNothing == \* mutant: a failed apply leaves the cached index alone
    /\ ap.pc = "invalidate"
    /\ ap' = IdleApplier
    /\ UNCHANGED <<repo, nomad, queue, differ, chk, budget>>

\* invalidateSkip, after a failure: the next Check may not skip.
InvalidateSkip ==
    /\ ap.pc = "invalidate"
    /\ lastIndex' = 0
    /\ ap' = IdleApplier
    /\ UNCHANGED <<repo, nomad, queue, lastCommit, drift, chk, budget>>

\* The process dies and starts again with nothing: Nomad, the branch and the
\* requests already sent are all that is left.
Crash ==
    /\ crashes < limit.crashes
    /\ crashes' = crashes + 1
    /\ updates' = [i \in {} |-> 0]
    /\ lastCommit' = 0 /\ lastIndex' = 0 /\ drift' = {}
    /\ chk' = [k \in Checkers |-> Idle]
    /\ ap' = IdleApplier
    /\ UNCHANGED <<repo, nomad, stamp, limit, edits, faults>>

-----------------------------------------------------------------------------
ApplierStep ==
    \/ NextPending \/ Apply \/ CallFails \/ CompleteUpdate \/ InvalidateSkip

Environment ==
    \/ \E tree \in Trees : Commit(tree)
    \/ \E j \in Jobs, spec \in Specs : OperatorRun(j, spec)
    \/ \E j \in Jobs : OperatorStop(j) \/ OperatorPurge(j)
    \/ StatusWrite
    \/ Crash

Next ==
    \/ \E k \in Checkers : CheckStep(k)
    \/ ApplierStep
    \/ \E r \in wire : Land(r)
    \/ Environment

Spec == Init /\ [][Next]_vars

\* The tickers keep firing, goroutines are scheduled, and every call returns:
\* with an answer or, as often as the limit allows, with an error.
Fairness ==
    /\ \A k \in Checkers : WF_vars(CheckStep(k))
    /\ WF_vars(ApplierStep)
    /\ WF_vars(\E r \in wire : Land(r))

FairSpec == Spec /\ Fairness

-----------------------------------------------------------------------------
Desired(j) == repo[head][j]

\* The drift of job j as it is now, had it been computed this instant.
TrueDrift(j) ==
    CASE Desired(j) = Absent -> IF j \in Running THEN {"missing_from_hcl"} ELSE {}
      [] Desired(j) # Absent /\ j \notin Running -> {"missing_from_nomad"}
      [] OTHER -> IF live[j].spec = Desired(j) THEN {} ELSE {"modified"}

WouldSkip == lastIndex = index /\ lastCommit = head

\* Types; indexes and commits that are remembered are ones that were, and the
\* applier works on a row that is in the queue, IN_PROGRESS.
TypeOK ==
    /\ \A c \in DOMAIN repo : repo[c] \in Trees
    /\ live \in [Jobs -> [spec : Specs \cup {Absent}, idx : 0 .. index, dead : BOOLEAN]]
    /\ \A r \in wire : r.job \in Jobs /\ r.token \in 0 .. index /\ r.row < stamp
    /\ lastCommit \in 0 .. head /\ lastIndex \in 0 .. index
    /\ drift \subseteq Jobs \X {"modified", "missing_from_nomad", "missing_from_hcl"}
    /\ \A k \in Checkers : chk[k].pc \in {"idle", "list", "gate", "job", "plan", "enqueue"}
    /\ ap.pc \in {"plan", "reply", "complete"} =>
          ap.row \in DOMAIN updates /\ Row.status = "IN_PROGRESS"

CallsOfCheck == {"list", "parse", "info", "plan"}

\* While a Check at HEAD would skip, what is published is the whole truth: the
\* skip test (differ.go:1150) never hides drift that a Check could have seen.
\* (One that could not make a call leaves the job out and stores the index.)
PublishedIsCurrent ==
    limit.kinds \cap CallsOfCheck = {} /\ WouldSkip => drift = UNION {{j} \X TrueDrift(j) : j \in Jobs}

\* One Check at a time, and none of its own calls fails.  (Of two that overlap the
\* older one's update may replace the newer one's, see SupersededByNewer; one that
\* could not plan a job stores the index all the same.)
OneGoodCheck == limit.overlap <= 1 /\ limit.kinds \cap CallsOfCheck = {}

\* While a Check at HEAD would skip, and nobody else writes to Nomad, an update
\* answers every drift an update can answer, or the applier is about to forbid
\* the skip: nothing waits for an event nobody owes.
DriftIsOwned ==
    OneGoodCheck /\ edits = 0 /\ WouldSkip /\ (\A k \in Checkers : chk[k].pc # "enqueue") /\ ap.pc # "invalidate" =>
        \A j \in Jobs : TrueDrift(j) \cap {"modified", "missing_from_nomad"} # {} =>
            \E i \in DOMAIN updates \ Settled(updates) : updates[i].job = j

Applied(r) == r \in wire \ wire' /\ live'[r.job].idx > live[r.job].idx

\* A register replaces the very version of the job its drift was detected
\* against, whoever wrote meanwhile and however late the request lands.
NoBlindOverwrite ==
    [][\A r \in wire : Applied(r) => live[r.job].spec = r.against]_vars

\* "The most recent intended state wins" (update.go:179): only an update of a
\* newer commit supersedes one that waits.
SupersededByNewer ==
    [][\A i \in Pending(updates) :
          i \in DOMAIN updates' /\ updates'[i].status = "SUPERSEDED" =>
              updates'[stamp].ref > updates[i].ref]_vars

\* Once the branch and everyone else leave Nomad alone, every job of HEAD runs
\* as HEAD says, for good.
Converges == OneGoodCheck => <>[](\A j \in Jobs : Desired(j) # Absent => TrueDrift(j) = {})
===============================================================================
