---------------------------- MODULE GitWatchProofs -----------------------------
(***************************************************************************)
(* GitWatch's type invariant and FilesCoverCommit, for every bound.        *)
(*                                                                         *)
(* FilesCoverCommit is about the last Check; what it needs is a chain from *)
(* the clone a reader holds back to the commit it was told: no clone's     *)
(* HEAD goes back, lastCommit is never ahead of the clone in w.repo, and   *)
(* the two goroutines carry commits that the clone they will read covers.  *)
(***************************************************************************)
EXTENDS GitWatch, TLAPS

GoroutineState(states) == [pc : states, repo : Nat, commit : Nat]

Types ==
    /\ origin \in Nat /\ origin >= 1
    /\ clones \in Seq(Nat)
    /\ repo \in Nat /\ lastCommit \in Nat
    /\ git \in GoroutineState({"idle", "fetch", "clone", "head", "changed"})
    /\ tick \in GoroutineState({"idle", "open", "read"})
    /\ checked \in [commit : Nat, files : Nat]

\* The clone Run's goroutine pulls is w.repo until a fresh one replaces it.
PullsCurrent == git.pc \in {"fetch", "clone"} => git.repo = repo

\* No commit a goroutine knows of is ahead of the clone it will be read from.
Covered ==
    /\ lastCommit <= clones[repo]
    /\ git.pc = "head" => clones[git.repo] <= clones[repo]
    /\ git.pc = "changed" => git.commit <= clones[repo]
    /\ tick.pc = "open" => tick.commit <= clones[repo]
    /\ tick.pc = "read" => tick.commit <= clones[tick.repo]

IInv == Types /\ TypeOK /\ PullsCurrent /\ Covered /\ FilesCoverCommit

-----------------------------------------------------------------------------
\* The state after Clone and the first Check satisfies the invariant.
LEMMA InitIInv == Init => IInv
BY DEF Init, IInv, Types, TypeOK, PullsCurrent, Covered, FilesCoverCommit, Idle, GoroutineState

\* A fresh clone leaves the others as they are, and is at the newest commit.
LEMMA SwapClones ==
    ASSUME IInv, Swap
    PROVE  /\ clones' \in Seq(Nat) /\ DOMAIN clones' = DOMAIN clones \cup {repo'}
           /\ repo' \in Nat /\ repo' \notin DOMAIN clones
           /\ clones'[repo'] = origin /\ lastCommit' = origin
           /\ \A i \in DOMAIN clones : clones'[i] = clones[i] /\ clones[i] <= origin
           /\ \A i \in DOMAIN clones' : clones'[i] \in 1 .. origin
<1> USE DEF IInv, Types, TypeOK, Swap
<1>1. clones' \in Seq(Nat) /\ DOMAIN clones' = DOMAIN clones \cup {repo'}
    OBVIOUS
<1>2. repo' \in Nat /\ repo' \notin DOMAIN clones /\ clones'[repo'] = origin /\ lastCommit' = origin
    OBVIOUS
<1>3. \A i \in DOMAIN clones : clones'[i] = clones[i] /\ clones[i] \in 1 .. origin
    OBVIOUS
<1> QED
    BY <1>1, <1>2, <1>3

\* Swapping a fresh clone in keeps the invariant, for either caller.
LEMMA AfterSwap ==
    ASSUME IInv, Swap, UNCHANGED <<origin, tick, checked>>,
           git' \in GoroutineState({"idle", "head", "changed"}),
           git'.pc = "head" => git'.repo = repo,
           git'.pc = "changed" => git'.commit = origin
    PROVE  IInv'
<1>1. Types /\ TypeOK /\ Covered /\ FilesCoverCommit
    BY DEF IInv
<1>2. PICK old : old = DOMAIN clones
    OBVIOUS
<1>3. PICK new : new = clones'
    OBVIOUS
<1>4. /\ new \in Seq(Nat) /\ DOMAIN new = old \cup {repo'} /\ repo' \in Nat
      /\ new[repo'] = origin /\ lastCommit' = origin
      /\ \A i \in old : new[i] = clones[i] /\ new[i] <= origin
      /\ \A i \in DOMAIN new : new[i] \in 1 .. origin
    BY <1>2, <1>3, SwapClones
<1>5. Types'
    BY <1>1, <1>3, <1>4 DEF Types, GoroutineState
<1>6. repo \in old /\ (tick.pc = "read" => tick.repo \in old)
    BY <1>1, <1>2 DEF TypeOK
<1>7. TypeOK'
  <2>1. \A i \in DOMAIN clones' : clones'[i] \in 1 .. origin'
    BY <1>3, <1>4
  <2>2. repo' \in DOMAIN clones' /\ lastCommit' \in 1 .. origin'
    BY <1>1, <1>3, <1>4 DEF Types
  <2>3. git'.pc \in {"fetch", "clone", "head"} => git'.repo \in DOMAIN clones'
    BY <1>3, <1>4, <1>6 DEF GoroutineState
  <2>4. git'.pc = "changed" => git'.commit = lastCommit'
    BY <1>4
  <2>5. tick'.pc = "read" => tick'.repo \in DOMAIN clones'
    BY <1>3, <1>4, <1>6
  <2> QED
    BY <2>1, <2>2, <2>3, <2>4, <2>5 DEF TypeOK
<1>8. PullsCurrent'
    BY DEF PullsCurrent, GoroutineState
<1>9. Covered'
  <2>1. tick.pc = "open" => tick.commit <= origin
    BY <1>1, <1>2, <1>4, <1>6 DEF Covered, Types, TypeOK, GoroutineState
  <2>2. tick.pc = "read" => tick.commit <= new[tick.repo]
    BY <1>1, <1>2, <1>4, <1>6 DEF Covered
  <2>3. git'.pc = "head" => new[git'.repo] <= new[repo']
    BY <1>4, <1>6
  <2>4. lastCommit' <= new[repo'] /\ (git'.pc = "changed" => git'.commit <= new[repo'])
    BY <1>1, <1>4 DEF Types
  <2> QED
    BY <1>3, <1>4, <2>1, <2>2, <2>3, <2>4 DEF Covered
<1>10. FilesCoverCommit'
    BY <1>1 DEF FilesCoverCommit
<1> QED
    BY <1>5, <1>7, <1>8, <1>9, <1>10 DEF IInv

\* A pull moves one clone's HEAD to the newest commit.
LEMMA FetchClones ==
    ASSUME IInv, git.pc = "fetch", clones' = [clones EXCEPT ![git.repo] = origin]
    PROVE  /\ clones' \in Seq(Nat) /\ DOMAIN clones' = DOMAIN clones
           /\ clones'[repo] = origin
           /\ \A i \in DOMAIN clones : clones'[i] \in 1 .. origin /\ clones[i] <= clones'[i]
<1> USE DEF IInv, Types, TypeOK, PullsCurrent, GoroutineState
<1>1. git.repo \in DOMAIN clones /\ git.repo = repo
    OBVIOUS
<1>2. DOMAIN clones' = DOMAIN clones /\ clones' \in Seq(Nat)
    BY <1>1
<1>3. \A i \in DOMAIN clones : clones'[i] = IF i = repo THEN origin ELSE clones[i]
    BY <1>1
<1>4. \A i \in DOMAIN clones : clones[i] \in 1 .. origin
    OBVIOUS
<1> QED
    BY <1>1, <1>2, <1>3, <1>4

\* Every step of either goroutine, of the branch and of the webhook keeps it.
LEMMA NextIInv == IInv /\ [Next]_vars => IInv'
<1> SUFFICES ASSUME IInv, [Next]_vars PROVE IInv'
    OBVIOUS
<1> USE DEF IInv, Types, TypeOK, PullsCurrent, Covered, FilesCoverCommit, GoroutineState,
            watcher, budget, Idle, NoFault, Fault
<1>1. CASE Push
    BY <1>1 DEF Push
<1>2. CASE Trigger
    BY <1>2 DEF Trigger
<1>3. CASE Break
    BY <1>3 DEF Break
<1>4. CASE PollTick
    BY <1>4 DEF PollTick, StartPull
<1>5. CASE Reclone
    <2>1. Swap /\ Announce(origin) /\ UNCHANGED <<origin, tick, checked>> /\ git.pc = "idle"
        BY <1>5 DEF Reclone
    <2>2. git' \in GoroutineState({"idle", "changed"}) /\ (git'.pc = "changed" => git'.commit = origin)
        BY <2>1 DEF Announce
    <2> QED
        BY <2>1, <2>2, AfterSwap
<1>6. CASE TakeTrigger
    BY <1>6 DEF TakeTrigger, StartPull
<1>7. CASE Fetch
    <2>1. CASE clones' = [clones EXCEPT ![git.repo] = origin] /\ git' = [git EXCEPT !.pc = "head"]
        <3>1. git.pc = "fetch" /\ UNCHANGED <<origin, repo, lastCommit, tick, checked>>
            BY <1>7 DEF Fetch
        <3>2. Types' /\ TypeOK'
            BY <2>1, <3>1, FetchClones
        <3>3. PullsCurrent' /\ Covered' /\ FilesCoverCommit'
            BY <2>1, <3>1, FetchClones
        <3> QED
            BY <3>2, <3>3
    <2>2. CASE UNCHANGED clones /\ git' = [git EXCEPT !.pc = "clone"]
        BY <1>7, <2>2 DEF Fetch
    <2> QED
        BY <1>7, <2>1, <2>2 DEF Fetch
<1>8. CASE CloneAgain
    <2>1. CASE Swap /\ git' = [git EXCEPT !.pc = "head"]
        <3>1. git.pc = "clone" /\ UNCHANGED <<origin, tick, checked>>
            BY <1>8 DEF CloneAgain
        <3>2. git' \in GoroutineState({"head"}) /\ (git'.repo = repo)
            BY <2>1, <3>1
        <3> QED
            BY <2>1, <3>1, <3>2, AfterSwap
    <2>2. CASE git' = Idle /\ UNCHANGED watcher
        BY <1>8, <2>2 DEF CloneAgain
    <2> QED
        BY <1>8, <2>1, <2>2 DEF CloneAgain
<1>9. CASE ReadHead
    BY <1>9 DEF ReadHead, Announce
<1>10. CASE OnChange
    BY <1>10 DEF OnChange, Check
<1>11. CASE TickStatus
    BY <1>11 DEF TickStatus
<1>12. CASE TickOpen
    BY <1>12 DEF TickOpen
<1>13. CASE TickRead
    BY <1>13 DEF TickRead, Check
<1>14. CASE UNCHANGED vars
    BY <1>14 DEF vars
<1> QED
    BY <1>1, <1>2, <1>3, <1>4, <1>5, <1>6, <1>7, <1>8, <1>9, <1>10, <1>11, <1>12, <1>13, <1>14
       DEF Next, RunStep, TickStep

\* The invariant holds throughout.
LEMMA InvariantIInv == Spec => []IInv
BY InitIInv, NextIInv, PTL DEF Spec

-----------------------------------------------------------------------------
\* Every goroutine's state is well formed and names a clone that exists; a
\* change is announced for the commit the watcher keeps.
THEOREM TypeCorrect == Spec => []TypeOK
<1>1. IInv => TypeOK
    BY DEF IInv
<1> QED
    BY <1>1, InvariantIInv, PTL

\* However pulls, re-clones and the two reading goroutines meet, a commit
\* counted as checked (Check's skip test) was checked with files at least as
\* new.
THEOREM NoCommitLeftUnread == Spec => []FilesCoverCommit
<1>1. IInv => FilesCoverCommit
    BY DEF IInv
<1> QED
    BY <1>1, InvariantIInv, PTL
===============================================================================
