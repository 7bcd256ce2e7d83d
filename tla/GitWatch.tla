------------------------------- MODULE GitWatch --------------------------------
(***************************************************************************)
(* The git side: the Watcher's in-memory clone, pulled or replaced by the  *)
(* goroutine of Run, and read by the goroutines that start Checks          *)
(* (src/internal/gitwatch/watcher.go, src/cmd/nomad-gitops/main.go).       *)
(*                                                                         *)
(* A pull moves the HEAD of a clone in place, in the middle of whatever a  *)
(* reader of that clone is doing; lastCommit follows in a later critical   *)
(* section.  Commits are numbered in the order the branch got them: the    *)
(* branch is not force-pushed back to an older commit.                     *)
(*                                                                         *)
(* A Check is what it keeps of git: which commit it recorded and which     *)
(* commit its files came from.  The Nomad index does not move, so that a   *)
(* Check is skipped whenever the code may skip it.                         *)
(***************************************************************************)
EXTENDS Naturals, Sequences, FiniteSets

CONSTANTS MaxCommits, MaxFaults, MaxReclones, MaxBroken   \* bounds on the environment

ASSUME BoundsAssumption == {MaxCommits, MaxFaults, MaxReclones, MaxBroken} \subseteq Nat

VARIABLES
    origin,      \* the remote branch: its newest commit
    clones,      \* HEAD of every clone made so far
    broken,      \* clones that no pull can bring forward any more
    repo,        \* w.repo
    lastCommit,  \* w.lastCommit
    triggered,   \* triggerCh, of capacity one, is full
    git,         \* Run's goroutine: [pc, repo, commit]
    tick,        \* the periodic goroutine: [pc, repo, commit]
    checked,     \* the last Check that ran: [commit, files]
    faults, reclones

watcher == <<clones, repo, lastCommit>>
budget == <<broken, faults, reclones>>
vars == <<origin, watcher, triggered, git, tick, checked, budget>>

Idle == [pc |-> "idle", repo |-> 0, commit |-> 0]

\* After Clone and the first Check.
Init ==
    /\ origin = 1
    /\ clones = <<1>> /\ broken = {}
    /\ repo = 1 /\ lastCommit = 1
    /\ triggered = FALSE
    /\ git = Idle /\ tick = Idle
    /\ checked = [commit |-> 1, files |-> 1]
    /\ faults = 0 /\ reclones = 0

Fault == faults < MaxFaults /\ faults' = faults + 1 /\ UNCHANGED <<broken, reclones>>
NoFault == UNCHANGED budget

-----------------------------------------------------------------------------
(* Outside: the branch, and the webhook.                                   *)

Push ==
    /\ origin < MaxCommits
    /\ origin' = origin + 1
    /\ UNCHANGED <<watcher, triggered, git, tick, checked, budget>>

\* Trigger, from the webhook or the staleness ticker: a trigger that finds the
\* channel full is dropped.
Trigger ==
    /\ ~triggered
    /\ triggered' = TRUE
    /\ UNCHANGED <<origin, watcher, git, tick, checked, budget>>

\* A clone whose pulls fail from now on (history it cannot reconcile).
Break ==
    /\ Cardinality(broken) < MaxBroken /\ repo \notin broken
    /\ broken' = broken \cup {repo}
    /\ UNCHANGED <<origin, watcher, triggered, git, tick, checked, faults, reclones>>

-----------------------------------------------------------------------------
(* Check.                                                                  *)

\* Check(hclFiles, commit), which a commit already checked makes a no-op.
Check(commit, files) ==
    checked' = IF commit = checked.commit THEN checked ELSE [commit |-> commit, files |-> files]

-----------------------------------------------------------------------------
(* Run: pull and reclone, one at a time.                                   *)

\* The poll ticker fires, or a trigger is taken; pull captures w.repo.
StartPull ==
    /\ git' = [pc |-> "fetch", repo |-> repo, commit |-> 0]
    /\ UNCHANGED <<origin, watcher, tick, checked, budget>>

PollTick == git.pc = "idle" /\ StartPull /\ UNCHANGED triggered

TakeTriggerAfterPull == \* mutant: the trigger is taken back when the pull is over
    \/ git.pc = "idle" /\ triggered /\ StartPull /\ UNCHANGED triggered
    \/ /\ git.pc = "head"
       /\ triggered /\ triggered' = FALSE
       /\ UNCHANGED <<origin, watcher, git, tick, checked, budget>>

TakeTrigger == git.pc = "idle" /\ triggered /\ triggered' = FALSE /\ StartPull

\* PullContext moves the captured clone's HEAD, or fails.
Fetch ==
    /\ git.pc = "fetch"
    /\ \/ /\ NoFault /\ git.repo \notin broken
          /\ clones' = [clones EXCEPT ![git.repo] = origin]
          /\ git' = [git EXCEPT !.pc = "head"]
       \/ /\ IF git.repo \in broken THEN NoFault ELSE Fault
          /\ git' = [git EXCEPT !.pc = "clone"]
          /\ UNCHANGED clones
    /\ UNCHANGED <<origin, repo, lastCommit, triggered, tick, checked>>

SwapCommitOnly == \* mutant: the fresh clone is not swapped in
    /\ clones' = Append(clones, origin)
    /\ lastCommit' = origin
    /\ UNCHANGED repo

\* cloneInto, and the swap of clone and commit under w.mu.
Swap ==
    /\ clones' = Append(clones, origin)
    /\ repo' = Len(clones) + 1
    /\ lastCommit' = origin

CloneNever == \* mutant: a failed pull is left at that
    /\ git.pc = "clone"
    /\ git' = Idle
    /\ UNCHANGED <<origin, watcher, triggered, tick, checked, budget>>

\* pull's answer to a failure is Clone; when that fails too the pull is over.
CloneAgain ==
    /\ git.pc = "clone"
    /\ \/ NoFault /\ Swap /\ git' = [git EXCEPT !.pc = "head"]
       \/ Fault /\ git' = Idle /\ UNCHANGED watcher
    /\ UNCHANGED <<origin, triggered, tick, checked>>

\* onChange is due when the commit is not the one last seen.
Announce(commit) ==
    git' = IF commit = lastCommit THEN Idle ELSE [pc |-> "changed", repo |-> 0, commit |-> commit]

ReadHeadUnstored == \* mutant: the new commit is announced and not kept
    /\ git.pc = "head"
    /\ Announce(clones[git.repo])
    /\ UNCHANGED <<origin, watcher, triggered, tick, checked, budget>>

\* The end of pull: headCommit of the clone captured at its start.
ReadHead ==
    /\ git.pc = "head"
    /\ lastCommit' = clones[git.repo]
    /\ Announce(clones[git.repo])
    /\ UNCHANGED <<origin, clones, repo, triggered, tick, checked, budget>>

Reclone ==
    /\ git.pc = "idle"
    /\ reclones < MaxReclones
    /\ reclones' = reclones + 1
    /\ Swap
    /\ Announce(origin)
    /\ UNCHANGED <<origin, triggered, tick, checked, broken, faults>>

\* onChange, in Run's goroutine: ReadHCLFiles of w.repo as it is by now.
OnChange ==
    /\ git.pc = "changed"
    /\ Check(git.commit, clones[repo])
    /\ git' = Idle
    /\ UNCHANGED <<origin, watcher, triggered, tick, budget>>

-----------------------------------------------------------------------------
(* The periodic Check: Status, then ReadHCLFiles, which captures the clone *)
(* and then reads its HEAD.                                                *)

TickStatus ==
    /\ tick.pc = "idle"
    /\ tick' = [pc |-> "open", repo |-> 0, commit |-> lastCommit]
    /\ UNCHANGED <<origin, watcher, triggered, git, checked, budget>>

TickOpen ==
    /\ tick.pc = "open"
    /\ tick' = [tick EXCEPT !.pc = "read", !.repo = repo]
    /\ UNCHANGED <<origin, watcher, triggered, git, checked, budget>>

TickRead ==
    /\ tick.pc = "read"
    /\ Check(tick.commit, clones[tick.repo])
    /\ tick' = Idle
    /\ UNCHANGED <<origin, watcher, triggered, git, budget>>

-----------------------------------------------------------------------------
RunStep == TakeTrigger \/ Fetch \/ CloneAgain \/ ReadHead \/ OnChange
TickStep == TickStatus \/ TickOpen \/ TickRead

Next ==
    \/ Push \/ Trigger \/ Break
    \/ PollTick \/ Reclone \/ RunStep
    \/ TickStep

Spec == Init /\ [][Next]_vars

\* Goroutines are scheduled, git calls return, and select takes a trigger that
\* waits sooner or later, however often the poll ticker is ready too.
FairSpec == Spec /\ WF_vars(RunStep) /\ WF_vars(TickStep) /\ SF_vars(TakeTrigger)

-----------------------------------------------------------------------------
\* Types; a goroutine holds a clone that exists, and a change is announced for
\* the commit the watcher keeps.
TypeOK ==
    /\ \A i \in DOMAIN clones : clones[i] \in 1 .. origin
    /\ repo \in DOMAIN clones /\ lastCommit \in 1 .. origin
    /\ git.pc \in {"fetch", "clone", "head"} => git.repo \in DOMAIN clones
    /\ git.pc = "changed" => git.commit = lastCommit
    /\ tick.pc = "read" => tick.repo \in DOMAIN clones

\* A commit that counts as checked was checked with its own files or with
\* newer ones, whichever clone the reader got hold of: the skip test, which
\* compares commits only, never leaves a commit's files unread.
FilesCoverCommit == checked.files >= checked.commit

\* The newest commit is the one checked, with its files, in the end, when the
\* poll ticker keeps firing: whatever fetches failed and wherever a pull and a
\* reader met.
NewestIsChecked ==
    SF_vars(PollTick) => <>[](checked = [commit |-> origin, files |-> origin])

\* A webhook need not wait for the poll ticker: what the branch had when it
\* fired is fetched, also when the trigger came in the middle of a pull or the
\* pull it leads to fails, unless it takes two failures: a pull's and that of the
\* clone that answers it.
TriggerIsEnough ==
    \A c \in 1 .. MaxCommits :
        (triggered /\ origin = c) ~> (clones[repo] >= c \/ faults + Cardinality(broken) > 1)
===============================================================================
