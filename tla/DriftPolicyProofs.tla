--------------------------- MODULE DriftPolicyProofs --------------------------
(***************************************************************************)
(* What a Check lets through, for every job, flags, policies and bounds:   *)
(* the types, and the three action properties about the register that      *)
(* lands.                                                                  *)
(*                                                                         *)
(* The argument: whatever a Check and the queue carry is Backed.  As long  *)
(* as the job is at the index the candidate was read at, it is the job the *)
(* gates were asked about: one to create, or one whose diff was classified *)
(* and permitted.  A write takes an index above every one that was read,   *)
(* so a register that lands replaces what its candidate was about.         *)
(***************************************************************************)
EXTENDS DriftPolicy, TLAPS

Contents == Specs \cup {Absent}

CheckState ==
    [pc : {"idle", "info", "plan", "finish"}, commit : Nat, idx : Nat, token : Nat,
     stop : BOOLEAN, queued : BOOLEAN]
Intent == [commit : Nat, token : Nat, stop : BOOLEAN]

\* The job is one the gates let pass.
Creates(u) ==
    /\ live.spec = Absent \/ (live.dead /\ ~conf.includeDead)
    /\ ~u.stop
    /\ Queued(u.commit, "other", TRUE)
Drifts(u) ==
    LET file == repo[u.commit]
    IN  /\ live.spec # Absent /\ live.stop = u.stop
        /\ Queued(u.commit, ClassifyDiff(PlanDiff(file, u.stop), AutoscaledGroups(file)), FALSE)

Known(u) == u.commit \in 1 .. head /\ u.token <= index
Backed(u) ==
    /\ Known(u) /\ repo[u.commit] # Absent
    /\ live.idx = u.token => Creates(u) \/ Drifts(u)

SettingOK == \E s \in Settings : conf = s.conf /\ limit = s.limit
RepoOK == repo \in Seq(Contents) /\ head \in Nat /\ head >= 1
LiveOK ==
    /\ index \in Nat
    /\ live \in [spec : Contents, idx : Nat, stop : BOOLEAN, dead : BOOLEAN]
    /\ live.idx <= index
    /\ live.dead => live.stop
    /\ live.spec = Absent => ~live.stop
LastOK(l) == l \in [commit : Nat, idx : Nat] /\ l.commit <= head /\ l.idx <= index

CheckOK(c) ==
    /\ c \in CheckState
    /\ c.pc = "idle" => c = Idle
    /\ c.pc # "idle" => Known(c) /\ c.idx <= index
    /\ c.pc \in {"info", "plan"} => repo[c.commit] # Absent
    /\ c.pc = "info" => ~c.stop
    /\ c.pc = "plan" /\ live.idx = c.token => live.spec # Absent /\ live.stop = c.stop
    /\ c.pc = "finish" /\ c.queued => Backed(c)

PendingOK(u) == u \in Intent /\ (u # NoUpdate => Backed(u))
ApplierOK(a) ==
    /\ a \in [pc : {"idle", "plan", "register"}, row : Intent]
    /\ a.pc = "idle" => a = IdleApplier
    /\ a.pc # "idle" => Backed(a.row)

IInv ==
    /\ SettingOK /\ RepoOK /\ LiveOK
    /\ LastOK(last) /\ CheckOK(chk) /\ PendingOK(pending) /\ ApplierOK(ap)

-----------------------------------------------------------------------------
(* Classes.                                                                *)

\* An image change lets nothing pass that is not an image, or a key of ours.
LEMMA ImageClass ==
  ASSUME NEW diff, NEW groups, ClassifyDiff(diff, groups) = "image-only",
         NEW leaf \in diff
  PROVE  AutoscalerOwned(leaf, groups) \/ IsImage(leaf) \/ IsManagedMeta(leaf)
  BY DEF ClassifyDiff

\* A change of our keys is one of nothing else.
LEMMA MetaClass ==
  ASSUME NEW diff, NEW groups, ClassifyDiff(diff, groups) = "managed-meta-only",
         NEW leaf \in diff
  PROVE  AutoscalerOwned(leaf, groups) \/ IsManagedMeta(leaf)
  BY DEF ClassifyDiff

\* A plan shows every leaf in which the job differs from the file.
LEMMA PlanShows ==
  ASSUME NEW file, NEW stop, live.spec # Absent,
         NEW l \in Leaves, live.spec[l] # file[l]
  PROVE  Place[l] \in PlanDiff(file, stop)
  BY DEF PlanDiff

\* What the diff attributes to the autoscaler is its own.
LEMMA PlacedOwner ==
  ASSUME NEW l \in Leaves, NEW groups, AutoscalerOwned(Place[l], groups)
  PROVE  Owner[l] \in {"count", "scaling"} /\ Place[l].group \in groups
  <1>1. AutoscalerOwned(Place[l], {Place[l].group}) /\ Place[l].group \in groups
    BY DEF AutoscalerOwned
  <1> QED
    BY <1>1, PlacesAssumption DEF PlacesAssumption

\* A leaf that differs and is not the autoscaler's is what its class says.
LEMMA ClassCovers ==
  ASSUME NEW file, NEW stop, live.spec # Absent,
         NEW l \in Leaves, live.spec[l] # file[l], ~OfAutoscaler(l, file),
         NEW class, class = ClassifyDiff(PlanDiff(file, stop), AutoscaledGroups(file))
  PROVE  /\ class = "image-only" => Owner[l] \in {"image", "meta"}
         /\ class = "managed-meta-only" => Owner[l] = "meta"
  <1>1. Place[l] \in PlanDiff(file, stop)
    BY PlanShows
  <1>2. ~AutoscalerOwned(Place[l], AutoscaledGroups(file))
    BY PlacedOwner DEF OfAutoscaler
  <1>3. class = "image-only" => IsImage(Place[l]) \/ IsManagedMeta(Place[l])
    BY <1>1, <1>2, ImageClass
  <1>4. class = "managed-meta-only" => IsManagedMeta(Place[l])
    BY <1>1, <1>2, MetaClass
  <1> QED
    BY <1>3, <1>4, PlacesAssumption DEF PlacesAssumption

-----------------------------------------------------------------------------
(* The branch, Nomad and time go on.                                       *)

\* Indexes and the branch grow; the job is as it was, or at a new index.
Later ==
    /\ RepoOK' /\ LiveOK' /\ UNCHANGED <<conf, limit>>
    /\ head <= head' /\ \A n \in 1 .. head : repo'[n] = repo[n]
    /\ index <= index'
    /\ \/ index < live'.idx
       \/ /\ live'.idx = live.idx /\ live'.spec = live.spec /\ live'.stop = live.stop
          /\ live.dead => live'.dead

\* The gates ask the branch and the flags, which are what they were.
LEMMA QueuedLater ==
  ASSUME RepoOK, Later, NEW n \in 1 .. head, NEW class, NEW creation, Queued(n, class, creation)
  PROVE  Queued(n, class, creation)'
  <1>1. repo'[n] = repo[n] /\ conf' = conf
    BY DEF Later
  <1>2. FileAtParentOf(n)' = FileAtParentOf(n)
    <2>1. n # 1 => n - 1 \in 1 .. head
      BY DEF RepoOK
    <2> QED
      BY <2>1 DEF Later, FileAtParentOf
  <1>3. \A file : EffectivePolicy(file)' = EffectivePolicy(file)
    BY <1>1 DEF EffectivePolicy
  <1>4. IsPreExistingDrift(n, class)' <=> IsPreExistingDrift(n, class)
    BY <1>1, <1>2, <1>3 DEF IsPreExistingDrift
  <1> QED
    BY <1>1, <1>3, <1>4 DEF Queued

\* What was backed stays so: the job moves to an index above the token.
LEMMA BackedLater ==
  ASSUME RepoOK, LiveOK, Later
  PROVE  \A u : u.commit \in Nat /\ u.token \in Nat /\ Backed(u) => Backed(u)'
  <1> SUFFICES ASSUME NEW u, u.commit \in Nat, u.token \in Nat, Backed(u)
               PROVE  Backed(u)'
    OBVIOUS
  <1>1. /\ u.commit \in 1 .. head /\ u.token <= index
        /\ head \in Nat /\ head' \in Nat /\ head <= head'
        /\ index \in Nat /\ index' \in Nat /\ index <= index'
    BY DEF Backed, Known, RepoOK, LiveOK, Later
  <1>2. Known(u)'
    BY <1>1 DEF Known
  <1>3. repo'[u.commit] = repo[u.commit]
    BY <1>1 DEF Later
  <1>4. ASSUME live'.idx = u.token
        PROVE  Creates(u)' \/ Drifts(u)'
    <2>1. /\ live'.idx = live.idx /\ live'.spec = live.spec /\ live'.stop = live.stop
          /\ live.dead => live'.dead
      <3>1. ~(index < live'.idx)
        BY <1>1, <1>4
      <3> QED
        BY <3>1 DEF Later
    <2>2. CASE Creates(u)
      BY <1>1, <2>1, <2>2, QueuedLater DEF Creates, Later
    <2>3. CASE Drifts(u)
      <3>1. PICK class : class = ClassifyDiff(PlanDiff(repo[u.commit], u.stop), AutoscaledGroups(repo[u.commit]))
        OBVIOUS
      <3>2. PlanDiff(repo[u.commit], u.stop)' = PlanDiff(repo[u.commit], u.stop)
        BY <1>3, <2>1 DEF PlanDiff
      <3>3. Queued(u.commit, class, FALSE)'
        BY <1>1, <2>3, <3>1, QueuedLater DEF Drifts
      <3> QED
        BY <1>3, <2>1, <2>3, <3>1, <3>2, <3>3 DEF Drifts
    <2> QED
      BY <1>4, <2>1, <2>2, <2>3 DEF Backed
  <1> QED
    BY <1>2, <1>3, <1>4 DEF Backed

\* So a Check that waits stays right,
LEMMA CheckLater ==
  ASSUME RepoOK, LiveOK, Later
  PROVE  \A c : CheckOK(c) => CheckOK(c)'
  <1> SUFFICES ASSUME NEW c, CheckOK(c)
               PROVE  CheckOK(c)'
    OBVIOUS
  <1>1. /\ head \in Nat /\ head' \in Nat /\ head <= head'
        /\ index \in Nat /\ index' \in Nat /\ index <= index'
    BY DEF RepoOK, LiveOK, Later
  <1>2. c \in CheckState /\ c.commit \in Nat /\ c.idx \in Nat /\ c.token \in Nat
    BY DEF CheckOK, CheckState
  <1>3. c.pc # "idle" => Known(c)' /\ c.idx <= index'
    BY <1>1, <1>2 DEF CheckOK, Known
  <1>4. c.pc \in {"info", "plan"} => repo'[c.commit] # Absent
    BY DEF CheckOK, Known, Later
  <1>5. c.pc = "plan" /\ live'.idx = c.token => live'.spec # Absent /\ live'.stop = c.stop
    <2> SUFFICES ASSUME c.pc = "plan", live'.idx = c.token
                 PROVE  live'.spec # Absent /\ live'.stop = c.stop
      OBVIOUS
    <2>1. ~(index < live'.idx)
      BY <1>1, <1>2 DEF CheckOK, Known
    <2> QED
      BY <2>1 DEF CheckOK, Later
  <1>6. c.pc = "finish" /\ c.queued => Backed(c)'
    BY <1>2, BackedLater DEF CheckOK
  <1> QED
    BY <1>2, <1>3, <1>4, <1>5, <1>6 DEF CheckOK

\* and so do the updates,
LEMMA UpdatesLater ==
  ASSUME RepoOK, LiveOK, Later
  PROVE  /\ \A u : PendingOK(u) => PendingOK(u)'
         /\ \A a : ApplierOK(a) => ApplierOK(a)'
  BY BackedLater DEF PendingOK, ApplierOK, Intent

\* and the skip.
LEMMA LastLater ==
  ASSUME RepoOK, LiveOK, Later
  PROVE  \A l : LastOK(l) => LastOK(l)'
  <1>1. /\ head \in Nat /\ head' \in Nat /\ head <= head'
        /\ index \in Nat /\ index' \in Nat /\ index <= index'
    BY DEF RepoOK, LiveOK, Later
  <1>2. ASSUME NEW l, LastOK(l)
        PROVE  LastOK(l)'
    <2>1. l.commit \in Nat /\ l.idx \in Nat /\ l.commit <= head /\ l.idx <= index
      BY <1>2 DEF LastOK
    <2>2. l.commit <= head' /\ l.idx <= index'
      BY <1>1, <2>1
    <2> QED
      BY <1>2, <2>2 DEF LastOK
  <1> QED
    BY <1>2

\* Every step: the process moves to what is right now, and it stays right.
LEMMA Moves ==
  ASSUME SettingOK, RepoOK, LiveOK, Later,
         LastOK(last'), CheckOK(chk'), PendingOK(pending'), ApplierOK(ap')
  PROVE  IInv'
  <1>1. PICK l, c, u, a : l = last' /\ c = chk' /\ u = pending' /\ a = ap'
    OBVIOUS
  <1>2. LastOK(l)' /\ CheckOK(c)' /\ PendingOK(u)' /\ ApplierOK(a)'
    BY <1>1, CheckLater, UpdatesLater, LastLater
  <1> QED
    BY <1>1, <1>2 DEF IInv, Later, SettingOK

\* A step of the world alone.
LEMMA WorldMoves ==
  ASSUME IInv, Later, UNCHANGED <<last, chk, pending, ap>>
  PROVE  IInv'
  BY Moves DEF IInv

\* What the settings of a behaviour are.
LEMMA Settled == ASSUME SettingOK PROVE
    /\ conf.default \in Policies /\ limit.files \subseteq Contents
    /\ limit.runs \subseteq Specs /\ limit.counts \subseteq Values
  BY ConstantsAssumption DEF SettingOK, ConstantsAssumption, Contents

\* Nothing moves.
LEMMA StillLater ==
  ASSUME RepoOK, LiveOK, UNCHANGED <<repo, nomad, conf, limit>>
  PROVE  Later
  BY DEF RepoOK, LiveOK, Later, nomad, head

\* A job write takes an index above every one that was read.
LEMMA WriteLater ==
  ASSUME RepoOK, LiveOK, NEW spec \in Specs, NEW stop \in BOOLEAN, Write(spec, stop),
         UNCHANGED <<repo, conf, limit>>
  PROVE  Later
  <1>1. PICK n \in Nat : n = index + 1
    BY DEF LiveOK
  <1>2. index' = n /\ index < n /\ index <= n
    BY <1>1 DEF Write, LiveOK
  <1>3. live' = [spec |-> spec, idx |-> n, stop |-> stop, dead |-> FALSE]
    BY <1>1 DEF Write
  <1>4. LiveOK'
    <2>1. spec \in Contents /\ spec # Absent
      BY ConstantsAssumption DEF ConstantsAssumption, Contents
    <2> QED
      BY <1>2, <1>3, <2>1 DEF LiveOK
  <1>5. RepoOK' /\ head' = head
    BY DEF RepoOK, head
  <1>6. index < live'.idx
    BY <1>2, <1>3
  <1> QED
    BY <1>2, <1>4, <1>5, <1>6 DEF Later, RepoOK

-----------------------------------------------------------------------------
(* The environment.                                                        *)

\* A commit.
LEMMA CommitStep ==
  ASSUME IInv, NEW file \in limit.files, Commit(file)
  PROVE  IInv'
  <1>1. file \in Contents
    BY Settled DEF IInv
  <1>2. PICK longer : longer = Append(repo, file)
    OBVIOUS
  <1>3. /\ longer \in Seq(Contents) /\ Len(longer) = head + 1
        /\ \A n \in 1 .. head : longer[n] = repo[n]
    BY <1>1, <1>2 DEF IInv, RepoOK, head
  <1>4. repo' = longer /\ UNCHANGED <<nomad, last, chk, pending, ap, conf, limit>>
    BY <1>2 DEF Commit, budget
  <1>5. head' = Len(longer)
    BY <1>4 DEF head
  <1>6. RepoOK' /\ head <= head'
    BY <1>3, <1>4, <1>5 DEF IInv, RepoOK
  <1>7. Later
    BY <1>3, <1>4, <1>6 DEF IInv, LiveOK, Later, nomad
  <1> QED
    BY <1>4, <1>7, WorldMoves

\* An operator runs or stops the job.
LEMMA OperatorStep ==
  ASSUME IInv, (\E spec \in limit.runs : OperatorRun(spec)) \/ OperatorStop
  PROVE  IInv'
  <1>1. UNCHANGED <<repo, last, chk, pending, ap, conf, limit>>
    BY DEF OperatorRun, OperatorStop, Edit
  <1>2. CASE OperatorStop
    <2>1. live.spec \in Specs /\ Write(live.spec, TRUE)
      BY <1>2 DEF OperatorStop, IInv, LiveOK, Contents
    <2>2. Later
      BY <1>1, <2>1, WriteLater DEF IInv
    <2> QED
      BY <1>1, <2>2, WorldMoves
  <1>3. ASSUME NEW spec \in limit.runs, OperatorRun(spec)
        PROVE  IInv'
    <2>1. spec \in Specs /\ Write(spec, FALSE)
      BY <1>3, Settled DEF IInv, OperatorRun
    <2>2. Later
      BY <1>1, <2>1, WriteLater DEF IInv
    <2> QED
      BY <1>1, <2>2, WorldMoves
  <1> QED
    BY <1>2, <1>3

\* The autoscaler sets a count.
LEMMA AutoscaleStep ==
  ASSUME IInv, NEW l \in Leaves, NEW value \in limit.counts, Autoscale(l, value)
  PROVE  IInv'
  <1>1. UNCHANGED <<repo, last, chk, pending, ap, conf, limit>>
    BY DEF Autoscale, Edit
  <1>2. PICK spec : spec = [live.spec EXCEPT ![l] = value]
    OBVIOUS
  <1>3. spec \in Specs
    <2>1. value \in Values /\ live.spec \in Specs
      BY Settled DEF IInv, LiveOK, Contents, Autoscale
    <2> QED
      BY <1>2, <2>1 DEF Specs
  <1>4. Write(spec, FALSE)
    BY <1>2 DEF Autoscale
  <1>5. Later
    BY <1>1, <1>3, <1>4, WriteLater DEF IInv
  <1> QED
    BY <1>1, <1>5, WorldMoves

\* The job that was stopped is dead: the table's index moves alone.
LEMMA StoppedStep == ASSUME IInv, Stopped PROVE IInv'
  <1>1. UNCHANGED <<repo, last, chk, pending, ap, conf, limit>>
    BY DEF Stopped, budget
  <1>2. PICK n \in Nat : n = index + 1
    BY DEF IInv, LiveOK
  <1>3. index' = n /\ index <= n
    BY <1>2 DEF Stopped, IInv, LiveOK
  <1>4. PICK job : job = live'
    OBVIOUS
  <1>5. /\ job \in [spec : Contents, idx : Nat, stop : BOOLEAN, dead : BOOLEAN]
        /\ job.spec = live.spec /\ job.idx = live.idx /\ job.stop = live.stop /\ job.dead
    BY <1>4 DEF Stopped, IInv, LiveOK
  <1>6. live.idx <= n
    <2>1. live.idx \in Nat /\ live.idx <= index /\ index \in Nat
      BY DEF IInv, LiveOK
    <2> QED
      BY <1>2, <2>1
  <1>7. LiveOK'
    <2>1. job.stop /\ job.spec # Absent
      BY <1>5 DEF Stopped, IInv, LiveOK
    <2>2. index' \in Nat /\ job.idx <= index'
      BY <1>3, <1>5, <1>6
    <2> QED
      BY <1>4, <1>5, <2>1, <2>2 DEF LiveOK
  <1>8. RepoOK' /\ head' = head
    BY <1>1 DEF IInv, RepoOK, head
  <1>9. Later
    BY <1>1, <1>3, <1>4, <1>5, <1>7, <1>8 DEF Later, IInv, RepoOK
  <1> QED
    BY <1>1, <1>9, WorldMoves

\* The process starts with nothing.
LEMMA NothingOK ==
  ASSUME RepoOK, LiveOK
  PROVE  /\ LastOK([commit |-> 0, idx |-> 0]) /\ CheckOK(Idle)
         /\ PendingOK(NoUpdate) /\ ApplierOK(IdleApplier)
  BY DEF RepoOK, LiveOK, LastOK, CheckOK, CheckState, Idle, PendingOK, NoUpdate, Intent,
     ApplierOK, IdleApplier

\* The process starts again.
LEMMA RestartStep == ASSUME IInv, Restart PROVE IInv'
  <1>1. Later
    BY StillLater DEF IInv, Restart
  <1> QED
    BY <1>1, NothingOK, Moves DEF IInv, Restart

\* Every step of the environment.
LEMMA EnvironmentStep == ASSUME IInv, Environment PROVE IInv'
  BY CommitStep, OperatorStep, AutoscaleStep, StoppedStep, RestartStep DEF Environment

-----------------------------------------------------------------------------
(* The Check.                                                              *)

\* The gates say yes or no.
LEMMA QueuedIsTruth ==
  ASSUME NEW n, NEW class, NEW creation
  PROVE  Queued(n, class, creation) \in BOOLEAN
  BY DEF Queued

\* A Check's step leaves the world alone.
LEMMA CheckMoves ==
  ASSUME IInv, NEW c, CheckStep(c), CheckOK(c), LastOK(last'), PendingOK(pending')
  PROVE  IInv'
  <1>1. chk' = c /\ UNCHANGED <<repo, nomad, ap, conf, limit>>
    BY DEF CheckStep, budget
  <1>2. Later
    BY <1>1, StillLater DEF IInv
  <1> QED
    BY <1>1, <1>2, Moves DEF IInv

\* A Check that is not skipped reads the branch and the index.
LEMMA BeginStep == ASSUME IInv, Begin PROVE IInv'
  <1>1. PICK c : c = [Idle EXCEPT !.pc = IF Selected(repo[head]) THEN "info" ELSE "finish",
                                  !.commit = head, !.idx = index]
    OBVIOUS
  <1>2. /\ c = [pc |-> IF Selected(repo[head]) THEN "info" ELSE "finish", commit |-> head,
                idx |-> index, token |-> 0, stop |-> FALSE, queued |-> FALSE]
        /\ head \in Nat /\ head >= 1 /\ index \in Nat
    BY <1>1 DEF Idle, IInv, RepoOK, LiveOK
  <1>3. c.pc = "info" => repo[head] # Absent
    BY <1>2 DEF Selected
  <1>4. CheckOK(c)
    BY <1>2, <1>3 DEF CheckOK, CheckState, Known
  <1>5. CheckStep(c) /\ UNCHANGED <<last, pending>>
    BY <1>1 DEF Begin
  <1> QED
    BY <1>4, <1>5, CheckMoves DEF IInv

\* A candidate is read at the job's index.
LEMMA InfoStep == ASSUME IInv, Info PROVE IInv'
  <1> DEFINE creation == live.spec = Absent \/ (live.dead /\ ~conf.includeDead)
  <1>1. /\ chk \in CheckState /\ chk.pc = "info" /\ Known(chk) /\ chk.idx <= index
        /\ repo[chk.commit] # Absent /\ ~chk.stop
        /\ live.idx \in Nat /\ live.idx <= index /\ live.stop \in BOOLEAN
    BY DEF IInv, CheckOK, LiveOK, Info
  <1>2. UNCHANGED <<last, pending>>
    BY DEF Info
  <1>3. CASE creation
    <2>1. PICK q \in BOOLEAN : q = Queued(chk.commit, "other", TRUE)
      BY QueuedIsTruth
    <2>2. PICK c : c = [chk EXCEPT !.pc = "finish", !.token = live.idx, !.queued = q]
      OBVIOUS
    <2>3. /\ c \in CheckState /\ c.pc = "finish" /\ c.commit = chk.commit
          /\ c.token = live.idx /\ c.stop = chk.stop /\ c.queued = q /\ c.idx = chk.idx
      BY <1>1, <2>2 DEF CheckState
    <2>4. Known(c)
      BY <1>1, <2>3 DEF Known
    <2>5. q => Backed(c)
      BY <1>1, <1>3, <2>1, <2>3, <2>4 DEF Backed, Creates
    <2>6. CheckOK(c)
      BY <1>1, <2>3, <2>4, <2>5 DEF CheckOK
    <2>7. CheckStep(c)
      BY <1>3, <2>1, <2>2 DEF Info
    <2> QED
      BY <1>2, <2>6, <2>7, CheckMoves DEF IInv
  <1>4. CASE ~creation
    <2>1. PICK c : c = [chk EXCEPT !.pc = "plan", !.token = live.idx, !.stop = live.stop]
      OBVIOUS
    <2>2. /\ c \in CheckState /\ c.pc = "plan" /\ c.commit = chk.commit
          /\ c.token = live.idx /\ c.stop = live.stop /\ c.idx = chk.idx
      BY <1>1, <2>1 DEF CheckState
    <2>3. Known(c)
      BY <1>1, <2>2 DEF Known
    <2>4. CheckOK(c)
      BY <1>1, <1>4, <2>2, <2>3 DEF CheckOK
    <2>5. CheckStep(c)
      BY <1>4, <2>1 DEF Info
    <2> QED
      BY <1>2, <2>4, <2>5, CheckMoves DEF IInv
  <1> QED
    BY <1>3, <1>4

\* A job that is still at that index is the one that was planned.
LEMMA PlanStep == ASSUME IInv, Plan PROVE IInv'
  <1>1. /\ chk \in CheckState /\ chk.pc = "plan" /\ Known(chk) /\ chk.idx <= index
        /\ repo[chk.commit] # Absent
        /\ live.idx = chk.token => live.spec # Absent /\ live.stop = chk.stop
    BY DEF IInv, CheckOK, Plan
  <1>2. PICK class : class = ClassifyDiff(PlanDiff(repo[chk.commit], chk.stop),
                                          AutoscaledGroups(repo[chk.commit]))
    OBVIOUS
  <1>3. PICK q \in BOOLEAN : q = Queued(chk.commit, class, FALSE)
    BY QueuedIsTruth
  <1>4. PICK c : c = [chk EXCEPT !.pc = "finish", !.queued = q]
    OBVIOUS
  <1>5. /\ c \in CheckState /\ c.pc = "finish" /\ c.commit = chk.commit
        /\ c.token = chk.token /\ c.stop = chk.stop /\ c.queued = q /\ c.idx = chk.idx
    BY <1>1, <1>4 DEF CheckState
  <1>6. Known(c)
    BY <1>1, <1>5 DEF Known
  <1>7. q => Backed(c)
    BY <1>1, <1>2, <1>3, <1>5, <1>6 DEF Backed, Drifts
  <1>8. CheckOK(c)
    BY <1>1, <1>5, <1>6, <1>7 DEF CheckOK
  <1>9. CheckStep(c) /\ UNCHANGED <<last, pending>>
    BY <1>2, <1>3, <1>4 DEF Plan
  <1> QED
    BY <1>8, <1>9, CheckMoves DEF IInv

\* What is enqueued is what was classified.
LEMMA FinishStep == ASSUME IInv, Finish PROVE IInv'
  <1>1. /\ chk \in CheckState /\ Known(chk) /\ chk.idx <= index
        /\ chk.queued => Backed(chk)
    BY DEF IInv, CheckOK, Finish
  <1>2. PICK u : u = [commit |-> chk.commit, token |-> chk.token, stop |-> chk.stop]
    OBVIOUS
  <1>3. u \in Intent /\ u.commit = chk.commit /\ u.token = chk.token /\ u.stop = chk.stop
    BY <1>1, <1>2 DEF Intent, CheckState
  <1>4. Backed(chk) => Backed(u)
    BY <1>3 DEF Backed, Known, Creates, Drifts
  <1>5. chk.queued => PendingOK(u)
    BY <1>1, <1>3, <1>4 DEF PendingOK
  <1>6. pending' = pending \/ (chk.queued /\ pending' = u)
    BY <1>2 DEF Finish, Enqueue
  <1>7. PendingOK(pending')
    BY <1>5, <1>6 DEF IInv
  <1>8. LastOK(last')
    <2>1. last' = [commit |-> chk.commit, idx |-> chk.idx]
      BY DEF Finish
    <2>2. chk.commit \in Nat /\ chk.idx \in Nat /\ chk.commit <= head
      BY <1>1 DEF CheckState, Known, IInv, RepoOK
    <2> QED
      BY <1>1, <2>1, <2>2 DEF LastOK
  <1>9. CheckStep(Idle) /\ CheckOK(Idle)
    BY NothingOK DEF IInv, Finish
  <1> QED
    BY <1>7, <1>8, <1>9, CheckMoves

-----------------------------------------------------------------------------
(* The applier.                                                            *)

\* The applier takes the update as it waits.
LEMMA NextPendingStep == ASSUME IInv, NextPending PROVE IInv'
  <1>1. PICK a : a = [pc |-> "plan", row |-> pending]
    OBVIOUS
  <1>2. ApplierOK(a)
    BY <1>1 DEF IInv, NextPending, PendingOK, ApplierOK
  <1>3. /\ ap' = a /\ pending' = NoUpdate
        /\ UNCHANGED <<repo, nomad, last, chk, conf, limit>>
    BY <1>1 DEF NextPending, ApplierStep, budget
  <1>4. Later
    BY <1>3, StillLater DEF IInv
  <1> QED
    BY <1>2, <1>3, <1>4, NothingOK, Moves DEF IInv

\* The second Plan drops the update or lets it on.
LEMMA PlanAgainStep == ASSUME IInv, PlanAgain PROVE IInv'
  <1>1. /\ ap' = IdleApplier \/ ap' = [ap EXCEPT !.pc = "register"]
        /\ UNCHANGED <<repo, nomad, last, chk, pending, conf, limit>>
    BY DEF PlanAgain, ApplierStep, budget
  <1>2. PICK a : a = [ap EXCEPT !.pc = "register"]
    OBVIOUS
  <1>3. a.pc = "register" /\ a.row = ap.row
    BY <1>2 DEF IInv, ApplierOK
  <1>4. ApplierOK(a)
    BY <1>2, <1>3 DEF IInv, ApplierOK, PlanAgain
  <1>5. Later
    BY <1>1, StillLater DEF IInv
  <1> QED
    BY <1>1, <1>2, <1>4, <1>5, NothingOK, Moves DEF IInv

\* The file of the row the applier holds.
LEMMA RowFileOK ==
  ASSUME IInv, ap.pc # "idle"
  PROVE  RowFile \in Specs /\ ap.row \in Intent /\ Backed(ap.row)
  BY DEF IInv, ApplierOK, Backed, Known, RepoOK, Contents, RowFile, head

\* A register writes a spec.
LEMMA RegisteredOK ==
  ASSUME live.spec \in Contents, NEW file \in Specs
  PROVE  Registered(file) \in Specs
  BY DEF Contents, Specs, Registered

\* The register writes, or is refused.
LEMMA RegisterStep == ASSUME IInv, Register PROVE IInv'
  <1>1. /\ RowFile \in Specs /\ ap.row.stop \in BOOLEAN
        /\ Registered(RowFile) \in Specs
    BY RowFileOK, RegisteredOK DEF Register, Intent, IInv, LiveOK
  <1>2. ap' = IdleApplier /\ UNCHANGED <<repo, chk, pending, conf, limit>>
    BY DEF Register, ApplierStep, budget
  <1>3. last' = last \/ last' = [last EXCEPT !.idx = 0]
    BY DEF Register
  <1>4. LastOK(last')
    BY <1>3 DEF IInv, LastOK, LiveOK
  <1>5. Later
    <2>1. CASE Write(Registered(RowFile), ap.row.stop)
      BY <1>1, <1>2, <2>1, WriteLater DEF IInv
    <2>2. CASE UNCHANGED nomad
      BY <1>2, <2>2, StillLater DEF IInv
    <2> QED
      BY <2>1, <2>2 DEF Register
  <1> QED
    BY <1>2, <1>4, <1>5, NothingOK, Moves DEF IInv

-----------------------------------------------------------------------------
(* The invariant.                                                          *)

\* At first nothing is carried.
LEMMA InitIInv == Init => IInv
  <1> SUFFICES ASSUME Init
               PROVE  IInv
    OBVIOUS
  <1>1. PICK s \in Settings :
          /\ conf = s.conf /\ limit = s.limit
          /\ \E file \in s.limit.files : repo = <<file>>
          /\ \E spec \in s.limit.lives :
               live = IF spec = Absent THEN NotRegistered
                      ELSE [NotRegistered EXCEPT !.spec = spec, !.idx = 1]
    BY DEF Init
  <1>2. SettingOK
    BY <1>1 DEF SettingOK
  <1>3. s.limit.files \subseteq Contents /\ s.limit.lives \subseteq Contents
    BY ConstantsAssumption DEF ConstantsAssumption, Contents
  <1>4. RepoOK
    <2>1. PICK file \in s.limit.files : repo = <<file>>
      BY <1>1
    <2> QED
      BY <1>3, <2>1 DEF RepoOK, head
  <1>5. LiveOK
    <2>1. PICK spec \in Contents :
            live = IF spec = Absent THEN NotRegistered
                   ELSE [NotRegistered EXCEPT !.spec = spec, !.idx = 1]
      BY <1>1, <1>3
    <2>2. /\ live.spec = spec /\ live.idx \in {0, 1} /\ live.stop = FALSE /\ live.dead = FALSE
          /\ live \in [spec : Contents, idx : Nat, stop : BOOLEAN, dead : BOOLEAN]
      BY <2>1 DEF NotRegistered
    <2>3. index = 1
      BY DEF Init
    <2> QED
      BY <2>2, <2>3 DEF LiveOK
  <1> QED
    BY <1>2, <1>4, <1>5, NothingOK DEF Init, IInv

\* Every step keeps what is carried backed.
LEMMA StepIInv == IInv /\ [Next]_vars => IInv'
  <1> SUFFICES ASSUME IInv, [Next]_vars
               PROVE  IInv'
    OBVIOUS
  <1>1. CASE Check
    BY <1>1, BeginStep, InfoStep, PlanStep, FinishStep DEF Check
  <1>2. CASE Applier
    BY <1>2, NextPendingStep, PlanAgainStep, RegisterStep DEF Applier
  <1>3. CASE Environment
    BY <1>3, EnvironmentStep
  <1>4. CASE UNCHANGED vars
    <2>1. UNCHANGED <<repo, nomad, conf, limit, last, chk, pending, ap>>
      BY <1>4 DEF vars, budget
    <2>2. Later
      BY <2>1, StillLater DEF IInv
    <2> QED
      BY <2>1, <2>2, WorldMoves
  <1> QED
    BY <1>1, <1>2, <1>3, <1>4 DEF Next

-----------------------------------------------------------------------------
(* The register that lands.                                                *)

\* Nobody but the applier's register ends an update and moves the job.
LEMMA Landing ==
  ASSUME IInv, [Next]_vars, Lands
  PROVE  Register
  <1>1. ap.pc = "register" /\ ap'.pc = "idle" /\ live' # live
    BY DEF Lands
  <1>2. CASE Check
    BY <1>1, <1>2 DEF Check, Begin, Info, Plan, Finish, CheckStep
  <1>3. CASE Applier
    BY <1>1, <1>3 DEF Applier, NextPending, PlanAgain
  <1>4. CASE Environment
    <2>1. CASE Restart
      BY <1>1, <2>1 DEF Restart, nomad
    <2>2. CASE ~Restart
      BY <1>1, <1>4, <2>2
         DEF Environment, Commit, OperatorRun, OperatorStop, Autoscale, Edit, Stopped
    <2> QED
      BY <2>1, <2>2
  <1>5. CASE UNCHANGED vars
    BY <1>1, <1>5 DEF vars
  <1> QED
    BY <1>2, <1>3, <1>4, <1>5 DEF Next

\* It writes what is registered, over the job its candidate was about.
LEMMA Landed ==
  ASSUME IInv, [Next]_vars, Lands
  PROVE  /\ RowFile \in Specs /\ ap.row.commit \in 1 .. head
         /\ live'.spec = Registered(RowFile) /\ live'.stop = ap.row.stop
         /\ Creates(ap.row) \/ Drifts(ap.row)
  <1>1. Register
    BY Landing
  <1>2. live.idx = ap.row.token /\ Write(Registered(RowFile), ap.row.stop)
    BY <1>1 DEF Lands, Register, nomad
  <1>3. RowFile \in Specs /\ Backed(ap.row)
    BY <1>1, RowFileOK DEF Register
  <1> QED
    BY <1>2, <1>3 DEF Backed, Known, Write

\* What changes in a job that was there is what differs, no count if one of its
\* groups is autoscaled.
LEMMA ChangedDiffers ==
  ASSUME live.spec # Absent, NEW file, live'.spec = Registered(file), NEW l \in Changed
  PROVE  /\ l \in Leaves /\ live.spec[l] # file[l]
         /\ OfAutoscaler(l, file) => Owner[l] # "count"
  <1>1. l \in Leaves /\ live'.spec[l] # live.spec[l]
    BY DEF Changed
  <1>2. OfAutoscaler(l, file) => AutoscaledGroups(file) # {}
    BY DEF OfAutoscaler
  <1> QED
    BY <1>1, <1>2 DEF Registered

\* A file's policy is one of the three.
LEMMA EffectivePolicyIsOne ==
  ASSUME SettingOK, NEW file
  PROVE  EffectivePolicy(file) \in Policies
  BY Settled DEF EffectivePolicy, Policies

\* A policy covers, of what differs, what its class says.
LEMMA PermitsCovers ==
  ASSUME live.spec # Absent, NEW file, NEW stop, NEW policy, NEW leaves,
         \A l \in leaves : l \in Leaves /\ live.spec[l] # file[l] /\ ~OfAutoscaler(l, file),
         NEW class, class = ClassifyDiff(PlanDiff(file, stop), AutoscaledGroups(file)),
         PolicyPermits(policy, class)
  PROVE  Covers(policy, leaves)
  <1>1. policy = "full" \/ (policy = "image-only" /\ class = "image-only")
    BY DEF PolicyPermits
  <1>2. ASSUME class = "image-only"
        PROVE  \A l \in leaves : Owner[l] \in {"image", "meta"}
    BY <1>2, ClassCovers
  <1> QED
    BY <1>1, <1>2 DEF Covers

\* What is queued as a change, its policy permits.
LEMMA QueuedPermits ==
  ASSUME SettingOK, NEW n, NEW class, Queued(n, class, FALSE)
  PROVE  PolicyPermits(EffectivePolicy(repo[n]), class)
  <1>1. EffectivePolicy(repo[n]) \in {"none", "image-only", "full"}
    BY EffectivePolicyIsOne DEF Policies
  <1> QED
    BY <1>1 DEF Queued, PolicyPermits

\* The register changes what its policy covers.
LEMMA BoundsStep ==
  ASSUME IInv, [Next]_vars, Lands
  PROVE  LET policy == EffectivePolicy(RowFile)
         IN  IF Starts THEN policy = "full" /\ conf.create
             ELSE /\ Covers(policy, {l \in Changed : ~OfAutoscaler(l, RowFile)})
                  /\ \A l \in Changed : OfAutoscaler(l, RowFile) => Owner[l] # "count"
  <1>1. /\ live'.spec = Registered(RowFile) /\ live'.stop = ap.row.stop
        /\ Creates(ap.row) \/ Drifts(ap.row)
    BY Landed
  <1>2. ~Starts => live.spec # Absent
    BY DEF Starts
  <1>3. ~Starts => \A l \in Changed : OfAutoscaler(l, RowFile) => Owner[l] # "count"
    BY <1>1, <1>2, ChangedDiffers
  <1>4. CASE Creates(ap.row)
    <2>1. EffectivePolicy(RowFile) \in {"none", "image-only", "full"}
      BY EffectivePolicyIsOne DEF Policies, IInv
    <2>2. EffectivePolicy(RowFile) = "full" /\ conf.create
      BY <1>4, <2>1 DEF Creates, Queued, RowFile
    <2> QED
      BY <1>3, <2>2 DEF Covers
  <1>5. CASE Drifts(ap.row)
    <2>1. live.spec # Absent /\ live.stop = ap.row.stop
      BY <1>5 DEF Drifts
    <2>2. ~Starts
      BY <1>1, <2>1 DEF Starts
    <2>3. PICK class :
            /\ class = ClassifyDiff(PlanDiff(RowFile, ap.row.stop), AutoscaledGroups(RowFile))
            /\ Queued(ap.row.commit, class, FALSE)
      BY <1>5 DEF Drifts, RowFile
    <2>4. PolicyPermits(EffectivePolicy(RowFile), class)
      BY <2>3, QueuedPermits DEF IInv, RowFile
    <2>5. PICK leaves : leaves = {l \in Changed : ~OfAutoscaler(l, RowFile)}
      OBVIOUS
    <2>6. \A l \in leaves : l \in Leaves /\ live.spec[l] # RowFile[l] /\ ~OfAutoscaler(l, RowFile)
      BY <1>1, <2>1, <2>5, ChangedDiffers
    <2>7. Covers(EffectivePolicy(RowFile), leaves)
      BY <2>1, <2>3, <2>4, <2>6, PermitsCovers
    <2> QED
      BY <1>3, <2>2, <2>5, <2>7
  <1> QED
    BY <1>1, <1>4, <1>5

\* The register changes nothing the scope before its commit left alone.
LEMMA BacklogStep ==
  ASSUME IInv, [Next]_vars, Lands, ~Starts, ~conf.glob, ~conf.existing, ap.row.commit > 1,
         NEW parent, parent = repo[ap.row.commit - 1], parent # Absent
  PROVE  /\ Managed(parent)
         /\ \/ \A l \in Changed : Owner[l] = "meta" \/ OfAutoscaler(l, RowFile)
            \/ Covers(EffectivePolicy(parent), {l \in Changed : ~OfAutoscaler(l, RowFile)})
  <1>1. /\ live'.spec = Registered(RowFile) /\ live'.stop = ap.row.stop
        /\ Creates(ap.row) \/ Drifts(ap.row)
        /\ ap.row.commit \in 1 .. head
    BY Landed
  <1>2. ~Creates(ap.row)
    BY <1>1 DEF Creates, Starts, IInv, LiveOK
  <1>3. live.spec # Absent
    BY DEF Starts
  <1>4. PICK class :
          /\ class = ClassifyDiff(PlanDiff(RowFile, ap.row.stop), AutoscaledGroups(RowFile))
          /\ Queued(ap.row.commit, class, FALSE)
    BY <1>1, <1>2 DEF Drifts, RowFile
  <1>5. PolicyPermits(EffectivePolicy(RowFile), class)
    BY <1>4, QueuedPermits DEF IInv, RowFile
  <1>6. ~IsPreExistingDrift(ap.row.commit, class)
    BY <1>4 DEF Queued
  <1>7. FileAtParentOf(ap.row.commit) = parent
    BY <1>1 DEF FileAtParentOf
  <1>8. /\ Managed(parent)
        /\ class = "managed-meta-only" \/ PolicyPermits(EffectivePolicy(parent), class)
    BY <1>5, <1>6, <1>7 DEF IsPreExistingDrift, RowFile
  <1>9. PICK leaves : leaves = {l \in Changed : ~OfAutoscaler(l, RowFile)}
    OBVIOUS
  <1>10. \A l \in leaves : l \in Leaves /\ live.spec[l] # RowFile[l] /\ ~OfAutoscaler(l, RowFile)
    BY <1>1, <1>3, <1>9, ChangedDiffers
  <1>11. CASE class = "managed-meta-only"
    BY <1>3, <1>4, <1>8, <1>9, <1>10, <1>11, ClassCovers
  <1>12. CASE PolicyPermits(EffectivePolicy(parent), class)
    BY <1>3, <1>4, <1>8, <1>9, <1>10, <1>12, PermitsCovers
  <1> QED
    BY <1>8, <1>11, <1>12

\* The register does not move the Stop flag, but of a dead job.
LEMMA StopStep ==
  ASSUME IInv, [Next]_vars, Lands, live'.stop # live.stop
  PROVE  ~live'.stop /\ live.dead /\ ~conf.includeDead
  <1>1. live'.stop = ap.row.stop /\ (Creates(ap.row) \/ Drifts(ap.row))
    BY Landed
  <1>2. /\ live.stop \in BOOLEAN /\ ap.row.stop \in BOOLEAN
        /\ live.spec = Absent => ~live.stop
    BY Landing, RowFileOK DEF IInv, LiveOK, Register, Intent
  <1> QED
    BY <1>1, <1>2 DEF Creates, Drifts

\* The invariant has the types.
LEMMA InvariantTypes == IInv => TypeOK
  <1> SUFFICES ASSUME IInv
               PROVE  TypeOK
    OBVIOUS
  <1>1. head \in Nat /\ index \in Nat /\ repo \in Seq(Contents)
    BY DEF IInv, RepoOK, LiveOK
  <1>2. live \in Jobs
    <2>1. live.idx \in 0 .. index
      BY <1>1 DEF IInv, LiveOK
    <2> QED
      BY <2>1 DEF IInv, LiveOK, Jobs, Contents
  <1>3. last.commit \in 0 .. head /\ last.idx \in 0 .. index
    BY <1>1 DEF IInv, LastOK
  <1>4. chk.pc \in {"idle", "info", "plan", "finish"} /\ chk.commit \in 0 .. head
    BY <1>1 DEF IInv, CheckOK, CheckState, Known, Idle
  <1>5. ASSUME NEW u, PendingOK(u)
        PROVE  u \in Updates
    <2>1. u.commit \in Nat /\ u.token \in Nat /\ u \in Intent
      BY <1>5 DEF PendingOK, Intent
    <2>2. u.commit <= head /\ u.token <= index
      BY <1>1, <1>5 DEF PendingOK, Backed, Known, NoUpdate
    <2> QED
      BY <1>1, <2>1, <2>2 DEF Intent, Updates
  <1>6. PendingOK(ap.row)
    BY NothingOK DEF IInv, ApplierOK, PendingOK, IdleApplier
  <1>7. ap.pc \in {"plan", "register"} => ap.row.commit # 0
    BY DEF IInv, ApplierOK, Backed, Known
  <1>8. pending \in Updates /\ ap.row \in Updates
    BY <1>5, <1>6 DEF IInv
  <1> QED
    BY <1>1, <1>2, <1>3, <1>4, <1>7, <1>8 DEF TypeOK, Contents

-----------------------------------------------------------------------------
\* The invariant holds in every behaviour.
LEMMA Invariance == Spec => []IInv
  <1> QED
    BY InitIInv, StepIInv, PTL DEF Spec

\* Every state is of its types: what the Check, the queue and the skip hold are
\* commits and indexes that were.
THEOREM TypeCorrect == Spec => []TypeOK
  BY Invariance, InvariantTypes, PTL

\* Whatever the flags, the diff classes and the interleaving, a register changes
\* what the policy of its commit covers, and starts a job under policy full only.
THEOREM PolicyHolds == Spec => PolicyBoundsChange
  <1>1. IInv /\ [Next]_vars =>
          [Lands =>
            LET policy == EffectivePolicy(RowFile)
            IN  IF Starts THEN policy = "full" /\ conf.create
                ELSE /\ Covers(policy, {l \in Changed : ~OfAutoscaler(l, RowFile)})
                     /\ \A l \in Changed : OfAutoscaler(l, RowFile) => Owner[l] # "count"]_vars
    BY BoundsStep
  <1> QED
    BY <1>1, Invariance, PTL DEF Spec, PolicyBoundsChange

\* A commit that widens a running job's scope brings none of its backlog in.
THEOREM BacklogHolds == Spec => OptInHoldsBacklog
  <1>1. IInv /\ [Next]_vars =>
          [Lands /\ ~Starts /\ ~conf.glob /\ ~conf.existing /\ ap.row.commit > 1 =>
            LET parent == repo[ap.row.commit - 1]
            IN  parent # Absent =>
                  /\ Managed(parent)
                  /\ \/ \A l \in Changed : Owner[l] = "meta" \/ OfAutoscaler(l, RowFile)
                     \/ Covers(EffectivePolicy(parent),
                               {l \in Changed : ~OfAutoscaler(l, RowFile)})]_vars
    BY BacklogStep
  <1> QED
    BY <1>1, Invariance, PTL DEF Spec, OptInHoldsBacklog

\* A register starts a stopped job only as the creation of a dead one, and stops
\* none.
THEOREM StopHolds == Spec => StopIsTheOperators
  <1>1. IInv /\ [Next]_vars =>
          [Lands /\ live'.stop # live.stop =>
             ~live'.stop /\ live.dead /\ ~conf.includeDead]_vars
    BY StopStep
  <1> QED
    BY <1>1, Invariance, PTL DEF Spec, StopIsTheOperators
===============================================================================
