# nomad-gitops in TLA+

nomad-gitops watches a Git branch of Nomad job files, compares each commit with
what Nomad runs, reports the drift, and (where policy allows) registers,
deregisters or reverts jobs. This directory specifies the part of it that is
hard to test: several goroutines, an in-memory queue and three outside stores
(Git, Nomad's job table, Nomad Variables) that change under them. TLC checks
the specifications on small instances; TLAPS proves some of the properties for
every instance. `PROJECT.json` lists the runs, the mutants that show each
property can fail, the source lines behind each definition, the disagreements
found between code and documentation, and the hazards.

## The system

| Component (source) | State it keeps | Operations | What makes it correct |
|---|---|---|---|
| Git watcher (`gitwatch/watcher.go`) | `repo` (an in-memory clone), `lastCommit`, a trigger channel of one | `Run`: `pull`, `reclone`; `Clone`; `Trigger`; `Status`, `ReadHCLFiles` | the newest commit is checked with its own files; no commit counts as checked unread |
| Differ (`nomad/differ.go`) | `diffs`, `lastCommit`, `lastNomadIndex`, `driftFirstSeen` | `Check`: List, skip test, Info and Plan per job, orphans, `commitResults`, enqueue, rollback poll | what is published is true while the next Check would skip; an actionable drift gets an update |
| Update queue (`nomad/update.go`) | `updates`, newest last | `Enqueue`, `NextPending`, `Complete`, `prune` | one row per id, one waiting row per job, the row in flight untouched, bounded history |
| Applier (`nomad/applier.go`) | the row it holds | `drainUpdates`: gate, then REGISTER, DEREGISTER or REVERT; `invalidateSkip` | replaces only what was seen; writes nothing against a freeze; retries what failed |
| Freezes (`nomad/freeze.go`, `server/api.go`) | records in Nomad Variables; the view; accrued frozen time | `refreshFreezes`, `FreezeJob`, `ThawJob`, `purgeExpiredFreezes`, `freezeBlocks` | a readable freeze is honoured, nothing fails open, no write is clobbered, frozen time is not spent |
| Deregistration (`differ.go`, `applier.go`) | when a drift was first seen | `decideDeregisterAction`, `orphanGraceElapsed`, `applyDeregister` | only a job gone from the repo goes, after its grace, and then it does go |
| Rollback (`nomad/rollback.go`) | none of its own: Nomad's versions and deployments | `flapGuardBlocks`, `checkRollbacks`, `applyRevert` | a failed spec does not come back; a failed deployment is undone, and nothing newer |
| Policies (`differ.go`, `classify.go`) | none: file, its parent commit, live job and flags | `classifyDiff`, `effectivePolicy`, `isPreExistingDrift`, `decideApplyAction` | a register changes what the policy of its commit covers, nothing held back at an opt-in, and what is permitted does happen |
| Tokens (`nomad/token.go`, `differ.go`) | the client's token, one timer | login at start, `RunTokenRefresher`: login or poll of the token file | a token lasts until its renewal in spite of failures; a valid one comes back |
| Meta tracking (`metachange.go`, `metacheck.go`) | the file's and the live job's own keys as last seen (`prevMeta`) | compare and log at each Check | the keys last compared are in the end those of HEAD |
| Server, UI, config, redaction | - | render, parse | outside these specifications |

They interact like this. `main.go` runs a Check from the watcher's callback, from
a periodic ticker and from a staleness ticker (`ForceCheck`), each in its own
goroutine and with no lock between them. A Check enqueues updates and wakes the
applier goroutine; the applier calls `invalidateSkip` on the Differ when a write
fails. API handlers write freeze records and refresh the view that Checks and
the applier read. Webhooks trigger the watcher. Nomad is called by all of them
and written to by operators and its own servers.

What is hard: Checks that overlap; the skip test, which makes everything that
moves neither the Raft index of the jobs nor the commit invisible; tokens read
at detection and used much later; requests that fail at the client and land
anyway; views and clones replaced under their readers; time that must count
only while a job is free; restarts that forget all of it. `hazards` in
`PROJECT.json` has each one at its line.

## Modules

`UpdateQueueOps` has the queue's critical sections as operators on the row
table; every module that composes a queue of several jobs, operations or rows
uses them. `UpdateQueue` is the queue between producers and the applier,
`UpdateIntents` what it promises without rows. `DiffClass` has the classes of a
plan diff. For each of the other modules but `DiffClass`, `<Module>Proofs` holds the
theorems about it; `RollbackProofs` and `OrphanGraceProofs` each carry the lemmas on
the queue's row table that they need, about the rows of their own queue. The other
modules each compose the components that meet around one question:

| Module | Question | State and steps, against the code |
|---|---|---|
| `UpdateQueue` | what may the applier and the producers rely on? | `updates` is the slice, ordered by append stamps; one action per method |
| `Reconcile` | do detection and application agree while everyone else writes? | one step per API call and critical section of `Check` (`Begin` .. `EnqueueCandidate`), of the applier (`NextPending` .. `InvalidateSkip`) and of Nomad (`Land`); `wire` holds requests sent and not yet processed; `Crash` forgets all but the outside |
| `FreezeGate` | is a freeze honoured, and only as long as it lasts? | `ListFreezes` and `Install` are the two halves of `refreshFreezes`, run by Check, applier and API; the gate and the write are separate steps |
| `OrphanGrace` | what is deregistered, and when? | `firstSeen`, `heldSince`, `accrued` are the Differ's maps for one job; `spent` is a ghost: the time the job really was an orphan and free |
| `Rollback` | does a failed change stay away, and is it undone? | Nomad's versions with the fate of their deployments; guard, poll, revert |
| `DriftPolicy` | what may a register change, and does what is allowed happen? | one job whose spec is a value for each of its leaves; `Begin` .. `Finish` are a Check from List to enqueue, `PlanAgain` and `Register` the applier's; `repo` is the branch with its history, which the scope gate asks; operators, the autoscaler and commits go on in between |
| `Tokens` | is there a valid token? | `left` of the token's life, `wait` of the timer, `spent` on a login, all counting down; mode `login` is the exchange of the task's identity, mode `file` a file that someone rotates |
| `GitWatch` | which files stand behind a commit that counts as checked? | `clones` are go-git repositories whose HEAD a pull moves in place; `git` is `Run`'s goroutine, `tick` the periodic one |

Each `MC*` module adds what its configurations need (symmetry, small functions).
Where one question has several instances they share a run: `Init` chooses the
bounds (`limit`, and in `DriftPolicy` the flags, `conf`) from a set, `Limits` or
`Settings`, that the `MC*` module defines, and no step changes them.

### Abstractions

- Everywhere: specs, commits, jobs are values; diffs keep their type only;
  metrics and logs are gone. Outside `DriftPolicy` every job is managed, with
  policy `full`, so that the gates that hold an update back are those the module
  is about.
- `Reconcile`: jobs are selected by glob, deregistration is off (orphans are
  reported), a stop makes the job dead at once, the applier's Plan and sending
  of RegisterOpts are one step (a writer in between is a writer before `Land`).
- `FreezeGate`: one Check at a time; a register succeeds; the listing and the
  peeks of one List are one snapshot, of which one record may be unreadable;
  store writes fail only by CAS; input validation is left out. `at` and `blind` of a
  call are ghosts: when the view was read that its index is from, and whether the
  job's record could be.
- `OrphanGrace`: one job, one Check at a time, a freeze view read in one step. A
  write to Nomad lands when it is sent, whatever it answers, or never (`Reconcile` has
  the late ones); HEAD is the commit the watcher has pulled; that the job's own meta
  keys alone differ is not applied (the default).
  Time is counted in diff intervals: it passes after a Check and, once the
  environment has come to rest (`QuietAfter`), not before the drain either.
  `busy`, chosen at the start, says whether job statuses go on changing. `spent`
  and `forgot` are ghosts. A freeze is noticed up to an interval late at both
  ends: `Slack` allows for that.
- `Rollback`: one job, one Check at a time, guard in mode history or tag
  (`limit.tags`). A tag is the spec's. `specFingerprint` is equality of what is stored
  with what is written: `Stores` says which spec Nomad makes of one, with its defaults
  filled in, and a Plan sees through that where a fingerprint does not. Registering
  or reverting a live job to the spec it has creates no version, as in Nomad.
  Info and Versions of the rollback poll are one step, Deployments and Versions
  of the guard another.
- `DriftPolicy`: one job, one Check at a time, no API call fails and List with the
  skip test, and `commitResults` with log and enqueue, are one step each
  (`Reconcile` has faults, overlaps and those races). Freezes and the flap guard,
  the last gates, are open. A register and the completion of its row are one
  step; the queue is the job's one waiting update, since rows of other jobs and
  history do not matter here. A plan diff is the set of places where job and
  file differ: a leaf of a spec has a value always, so blocks that appear or go
  as a whole are values of their leaves, except a new job, which is one `Whole`.
  `Owner` is what a leaf means, `Place` where a plan shows it; the properties are
  stated by the meaning. Of `prevMeta`, `told` is the half about the file.
- `Tokens`: a unit of time is 2.5 s, so the constants are the code's own (margin
  5 s, backoff 15 s, poll 30 s, refresh 5 min). Nomad's clock and the process's
  run alike, and a call takes less than the margin (`TimesAssumption`); the
  token of an exchange has lived since some moment of the call. In mode `file` a
  token dies some time after its successor was written (`Overlap`).
- `GitWatch`: a Check is atomic and the branch only moves forward; Nomad's index
  never moves, so a Check is skipped whenever the code may skip it.
- Nomad, Git and operators are modelled from how the code uses them; in
  `PROJECT.json` those definitions are marked external.

## Runs

Every bound is a constant of the configuration, or in the limits of its `MC*` module.
The bounds are the smallest with
which the interesting meeting of actors happens and a mutant of the code breaks
the property; for the violations, the smallest that show them. `CHECK_DEADLOCK
FALSE` stands where a system whose bounded environment is used up may really
have nothing to do (a queue that is empty, a clock at its end).

### That pass

| Run | Shows | Instance |
|---|---|---|
| `queue` | types, unique ids, one pending row per job, the row in flight untouched, bounded history, refinement of `UpdateIntents`, and that what waits is settled | 2 jobs, 2 refs, 2 bodies, 4 appends, history of 1 |
| `reconcile` | `NoBlindOverwrite`, `PublishedIsCurrent`, `DriftIsOwned`, `Converges` | 1 job, 2 specs (which start in one of their two orders, `FirstNamedFirst`), 2 commits; one Check at a time with faults of every call, 1 edit and 1 crash (`Disturbed`), or two at a time with faults of the applier's calls (`Overlapping`), of which `MCLimits` takes the meetings of two or three kinds of disturbance; and one Check at a time with 2 commits and a crash and 1, or without the crash 2, faults of the applier (`OnlyApplierFails`), which `DriftIsOwned` and `Converges` are about |
| `freeze` | `ViewMissesNothing`, `CasTellsRaces`, `FreezeTakesEffect`, `ResumesWhenBusy` | 2 writes of the store and 2 failing reads at one instant; or 1 write and 2 ticks; or 2 writes and 1 tick; purge after 1, views stale after 1 |
| `orphan` | `GraceHeld`, `OnlyRemovedFromRepo`, `OrphanGoes` | grace 3, time 13 (the environment until 3), 3 commits, 2 of edit, freeze, fault (of any call, a removal that lands and fails too), unparsed file and crash, one of a kind |
| `watch` | `FilesCoverCommit`, `NewestIsChecked`, `TriggerIsEnough` | 3 commits, 2 faults, 1 reclone, 1 broken clone |
| `rollback` | `KnownFailedHeld`, `RevertReplacesFailed`, `RolledBack` | 3 specs and 2 disturbances, 2 at most of a kind (`OfEachKind`); 2 commits and 4 disturbances of five kinds (`NewerCommit`); a spec Nomad reverts itself and 3 disturbances (`RevertedByNomad`); a guard that tags, 2 collected versions or deployments and a failing tag (`Tags`); a spec that Nomad fills in and the one it makes of it, 2 commits and 2 failures (`FilledIn`) |
| `policy` | `PolicyBoundsChange`, `OptInHoldsBacklog`, `StopIsTheOperators`, `PermittedDriftGoes`, `LogCatchesUp` | 8 leaves; 3 or 2 commits, up to 2 edits, 1 restart, over ten settings: a tag and wider policies that come to a job that differs (`WiderScope`), images (`Images`), an autoscaled group beside a plain one (`Autoscaled`), stops with each of `--include-dead-jobs` and `--enable-job-creation` (`Stops`), a file that comes and goes (`Creation`), own keys alone with and without `--apply-meta-only-changes` (`Keys`) |
| `tokens` | `LoginOutlivesRetries`, `FileOutlivesPolls`, `TokenComesBack` | lives from 7.5 s to 60 s, 90 s, 5 min and for ever, 3 failures, 2 rotations, 1 restart |

Two commits let an older Check, update or request meet a newer one; one job
suffices where nothing is shared between jobs but the index, which any job's
write moves. Two faults matter where a fault may hit what answers a fault. In
`reconcile` all disturbances at once are out of TLC's reach; the theorems cover
them for its safety and action properties. Its specs are alike and nothing it
asks tells one from the other, so `MCFairSpec` leaves out the behaviours which are
others with the two names swapped (a symmetry, but of the initial states, so that
liveness can be checked with it). Times
are long enough for a freeze, a grace period and a Check to follow each other
after the environment has come to rest. In `policy` two commits in a row are
needed for a gate that looks at a commit's parent, a third for HEAD to move on
during the Check; each setting leaves the flags and contents out that its gates
do not ask for. In `tokens` three failures exceed half of the shorter lives and
not of the longer ones, so both sides of each bound are met.

### That find a disagreement

| Run | The code | Against |
|---|---|---|
| `reconcile_superseded` | the later enqueue wins, not the newer commit: a slow Check of an old commit drops the update of the new one, and as the index was stored, the next Checks skip | "the most recent intended state wins" (`update.go:177`) |
| `policy_counts` | the register of a job with one autoscaled group preserves the count of every group: a commit that changes the count of another one is planned, registered, completed as SUCCEEDED and without effect (`differ.go:1636`), Check after Check | "keeps autoscaler-owned group counts out of the write" (`applier.go:140`), "Task groups with a scaling policy" (`docs/applying-changes.md:140`) |
| `orphan_head` | `applyDeregister` asks Nomad again whether the job exists and has its tag, and not the repository (`applier.go:173`): a job whose file came back at HEAD while the DEREGISTER waited is removed | "and no HCL file for it exists at current HEAD" (`docs/design/gitops-job-updates.md:197`) |
| `orphan_thaw` | a thaw clears the frozen time the grace period is corrected by: a job frozen for longer than its grace is due as soon as it is thawed | "still 4 minutes in when thawed" (`freeze.go:553`) |

### What the code does not promise

Writing the properties down showed where the code does less than one would hope,
or than a document says. Each property is stated so that it claims what the code
does; these are the places where it is weaker for it:

- The skip test (`differ.go:1148`) sees the Raft index of the jobs and the commit.
  An expired freeze or grace period, or a deployment that fails without a job
  write, moves neither: in a quiet cluster nothing follows from them. Hence
  `ResumesWhenBusy`, `RolledBack` (under fairness of `StatusWrite`) and
  `OrphanGoes` (under `busy`). `ForceCheck` takes the same skip, whatever its
  comment says (`differ.go:1648`).
- A failing `List`, `Info`, `Plan` or parse leaves its job out of the published
  drift while commit and index are stored: `PublishedIsCurrent`, `DriftIsOwned`
  and `Converges` say nothing where a Check's own call may fail (`limit.kinds`).
- An edit that lands between a register and its completion is detected under the
  UpdateID of the row in flight and its enqueue is dropped (`update.go:198`):
  `DriftIsOwned` holds with `limit.edits = 0`. And of two overlapping Checks the older
  may drop the newer one's update (`reconcile_superseded`): `DriftIsOwned` and
  `Converges` have the premise that one runs at a time (`OneGoodCheck`).
- A newer commit without a diff supersedes nothing, so an older commit's update
  may still be applied after it, and is corrected by the next Check.
- A file that does not parse makes its job an orphan (`OnlyRemovedFromRepo`
  exempts it), and `applyDeregister` does not look at the repository again, though
  the design document says that it does (`orphan_head`): what is deregistered was
  gone at the commit of its update, which is all that `OnlyRemovedFromRepo` claims.
  A REGISTER and a DEREGISTER of one commit share an UpdateID, so the second only
  refreshes the first. A REGISTER refreshed so has no parsed job: it fails and leaves
  the skip valid (`applier.go:113`). That takes a file which stops parsing, and is not
  met in the instance of `orphan`; the proofs of `OrphanGrace` have it.
- The purge of an expired record clears accrued time like a thaw (`GraceHeld`
  exempts both), and time frozen before a job was an orphan counts for it.
- The purge deletes by path without a check-and-set: a freeze renewed since the
  view was read goes with it. A record that cannot be read holds the job its path
  spells, which for an ID that is not path-safe is another ID: `ViewMissesNothing`
  and `CasTellsRaces` are checked for path-safe IDs (`SlugAssumption`, `Own`). The drain reads the
  freezes once, and an older view may replace what it read.
- A freeze of a job whose record the view could not read is put as a new one, at
  index 0: it conflicts with the record that is there though nobody raced it, and the
  retry conflicts again until a List can read it (`CasTellsRaces` exempts it). The
  retry replaces the record that won the race, after it has read it
  (`docs/freezing.md:162`), and conflicts again where another goroutine installs an
  older view between its refresh and its lookup.
- Fingerprints are compared between the file as written and the version as stored:
  the flap guard misses a failed spec in which Nomad filled in a default.
  `KnownFailedHeld` is about specs stored as they are written (`StoredAsWritten`);
  without that premise the instance violates it. `rollback.go:33` and
  `docs/rollback.md:66` say that such a spec "is retried once more and caught again".
  What would catch it is not in the code: the version that failed again was filled in
  as before, so the guard misses it whenever it is asked.
- The flap guard is not asked about a stopped job, and lets a job pass when it
  cannot read its history: `KnownFailedHeld` says so. In mode tag it knows for good
  what it has tagged, and it tags what a Check finds failed when it asks: a failure
  that Nomad collects before, or whose tag fails, is forgotten as in mode history.
- The periodic Check may pair a commit with newer files (`FilesCoverCommit` is
  `>=`), and after a re-clone the old clone's HEAD may be announced once more.
- Two failures in a row, of a pull and of the clone that answers it, use up a
  trigger (`TriggerIsEnough`); the poll ticker comes to the rescue.
- The gate for pre-existing drift compares a commit with its parent and with
  nothing else (`differ.go:1394`): the next commit of the branch, of any file, finds
  the wider scope in both and applies the backlog. `docs/applying-changes.md:107`
  states that rule, the sentence before it ("Only changes committed after the
  scope change apply") a stronger one. `OptInHoldsBacklog` speaks of the commit of
  the update; `PermittedDrift` exempts HEAD's own scope change.
- Nothing retracts an update: when the tag goes, or the policy narrows, at a newer
  commit while an older commit's update waits, that update is still registered
  (`metachange.go:141` logs "will never register"). `PolicyBoundsChange` speaks of
  the policy at the update's commit.
- The parent's scope is read from its text by a regular expression
  (`managedKeyRe`), which also finds a tag in a comment.
- A scaling block that is added or taken away, alone, is "no change": it belongs to
  the group the file calls autoscaled. `GitDrift` leaves it out.
- Overlapping Checks may leave the older of two in `prevMeta`, and a file that
  fails to parse for one Check is a new baseline at the next: `LogCatchesUp` is
  checked with one Check at a time and files that parse.
- The refresher starts after the clone and the first Check, so the first token may
  end before its first timer is set; and the margin covers one login. A failed one
  costs a backoff of 15 s and the call: a token that lives less than twice that
  ends before the retry (`LoginOutlivesRetries` says by how much). A token file
  that is empty at the start leaves the process without a token until a poll.

### Fairness

`WF` of a Check's steps: tickers fire and every API call returns, with an answer
or, as often as the bound allows, an error. `WF` of the applier: every enqueue
wakes it and `--apply-interval` does. In `Tokens` `WF` of the process (timers fire,
logins return within `Latency`), of time, and of whoever truncated the token file
(an empty file is a write under way). `SF` of `TakeTrigger`, and of `PollTick` as
a premise of `NewestIsChecked`: Go's `select` chooses among ready cases at
random. `OrphanGrace` bounds time instead: a Check in each diff interval and a
drain when nothing disturbs it, so `OrphanGoes` is an invariant about a time
that is due (`Due`). That a
cluster is never quiet for good is not fairness the code provides; it is a premise
of the properties that need it. Nothing is assumed of producers, operators or
the branch.

## Proofs

| Theorem | Statement |
|---|---|
| `UpdateQueueProofs!TypeCorrect` | `Spec => []TypeOK` |
| `UpdateQueueProofs!UpdateIDsUnique` | `Spec => []OneRowPerUpdateID` |
| `UpdateQueueProofs!SupersedeComplete` | `Spec => []OnePendingPerJob` |
| `UpdateQueueProofs!InFlightSafe` | `Spec => []InFlightRowStays` |
| `UpdateQueueProofs!HistoryBounded` | `Spec => []TerminalBounded` |
| `UpdateQueueProofs!QueueRefinesIntents` | `Spec => ImplementsIntents` (the refinement of `UpdateIntents`) |
| `ReconcileProofs!TypeCorrect` | `Spec => []TypeOK` |
| `ReconcileProofs!CasGuardsEveryWrite` | `Spec => NoBlindOverwrite` |
| `ReconcileProofs!PublishedIsTrue` | `Spec => []PublishedIsCurrent` |
| `ReconcileProofs!EveryDriftIsOwned` | `Spec => []DriftIsOwned` |
| `FreezeGateProofs!TypeCorrect` | `Spec => []TypeOK` |
| `FreezeGateProofs!PutTellsRaces` | `PathSafe => (Spec => CasTellsRaces)` |
| `FreezeGateProofs!GateSeesFreezes` | `PathSafe => (Spec => ViewMissesNothing)` |
| `OrphanGraceProofs!TypeCorrect` | `Spec => []TypeOK` |
| `OrphanGraceProofs!GraceIsWaited` | `Spec => []GraceHeld` |
| `OrphanGraceProofs!OnlyOrphansGo` | `Spec => OnlyRemovedFromRepo` |
| `OrphanGraceProofs!OrphansGo` | `Spec => []OrphanGoes` |
| `RollbackProofs!TypeCorrect` | `Spec => []TypeOK` |
| `RollbackProofs!RevertIsGuarded` | `Spec => RevertReplacesFailed` |
| `RollbackProofs!FailedStaysOut` | `Spec => KnownFailedHeld` |
| `GitWatchProofs!TypeCorrect` | `Spec => []TypeOK` |
| `GitWatchProofs!NoCommitLeftUnread` | `Spec => []FilesCoverCommit` |
| `DriftPolicyProofs!TypeCorrect` | `Spec => []TypeOK` |
| `DriftPolicyProofs!PolicyHolds` | `Spec => PolicyBoundsChange` |
| `DriftPolicyProofs!BacklogHolds` | `Spec => OptInHoldsBacklog` |
| `DriftPolicyProofs!StopHolds` | `Spec => StopIsTheOperators` |
| `TokensProofs!TypeCorrect` | `Spec => []TypeOK` |
| `TokensProofs!RenewedInTime` | `Spec => []LoginOutlivesRetries` |
| `TokensProofs!RotatedInTime` | `Spec => []FileOutlivesPolls` |

The queue's assumptions are that bounds are naturals. Its inductive invariant is
the conjunction of the five: uniqueness needs the types (a new stamp is above
every other), the row in flight needs uniqueness (`Complete` finds it by
UpdateID), and the bound needs that `Prune` leaves finitely many rows. Lemmas on
`Keep`, `First`, `Prune`, `Enqueue` and `Complete` come first; the step lemma has
one case per action. The refinement then maps the table to the intent each job
has waiting (`WaitingFor`) and the one being applied (`Applying`). An `Enqueue` that
appends or refreshes declares the intent; one that meets the row in flight under its
own UpdateID stutters; and neither a prune nor the delete of a retried row shows, for
they take settled rows only. That one row at most waits for a job is what makes
`WaitingFor` a value, and that the row in flight is the only one with its UpdateID is
why an append never declares what is being applied.

`FilesCoverCommit` alone is not inductive: a reader may hold a clone that is no
longer `w.repo`, and a pull may hold one while another is swapped in. `PullsCurrent`
and `Covered` say that what each goroutine holds is, or is as new as, what it will
record; with them every action preserves the conjunction `IInv`. The only
assumption is that bounds are naturals.

`NoBlindOverwrite` needs to know what a token stands for, wherever one is kept: in
the candidates of a Check, in the rows, with the applier and on the wire. The
invariant says that a job which is still at that index has the spec the drift was
detected against. It is inductive because a write takes an index above all that
were ever read, so no token of before matches after it; only a purge returns a job
to index 0, which is the token of a job that was absent. The queue's operators come
in through lemmas about the rows they keep. Assumed: that the bounds are naturals
and `Absent` is no spec.

`PublishedIsCurrent` is about an instant, and a Check reads over many. Its invariant
`Mirrors` says of a running Check whose index and commit are still those of now that
its running jobs, the diffs it has found and the jobs it has left are together what
is so: any write since its List has moved the index, and then the Check it will
publish claims nothing. The premise is the property's own, that no call of a Check
may fail: one that could not plan a job stores the index anyway (a hazard of its own).

`DriftIsOwned` needs the order in which a job's state was read. `Passed` says that
nothing which may still be written to a job was read after a given token; it holds
of a candidate as it is made, because what came before it (requests on the wire, rows
waiting and in flight) was read earlier, and so, row after row, of the row in flight
when it completes (`RowsInTurn`, `WireInTurn`). A row that succeeds therefore leaves
the job as it says and past every request there is (`DoneIsDone`), and a drift found
after that has a candidate of its own. The premises are the property's own, and not for
want of a proof (`OneGoodCheck`, `edits = 0`): with Checks that overlap an older intent
does replace a newer one (`reconcile_superseded`), a Check whose calls fail may skip a
job and store the index, and an edit may hide behind the row in flight.

In `FreezeGate` views are installed in any order, so no invariant can speak of the
newest. What is read is tied to the write it was read at: a record of the store that
is no newer is listed, as one that holds its job as long and under its own index or,
where it could not be read, under none (`Covers`), of a listing as of the view made
from it. Hence what the view holds (`ViewHolds`, for the gate), and what a call knows
of the record it replaces (`Tells`, for `CasTellsRaces`): its token names it, or it is
newer than the read, or was not readable. The store only moves on (`Later`), which
keeps all of it. A record that cannot be parsed is listed under the job its path
spells; so `GateSeesFreezes` and `PutTellsRaces` have the hypothesis `PathSafe`, that
the path of a job's record spells the job itself. Of an ID that is not path-safe the
path spells another, and a record that cannot be read then really holds the wrong job.

`GraceHeld` of `OrphanGrace` is arithmetic about clocks that are read at different
times. `TimeCounted` splits the time since the orphan was first seen into what was
spent, what `graceOffset` counts, and at most two ticks per freeze that are lost
because it is seen late and gone late; `Credit` is how many of those are still to
come, and it is what makes the inequality inductive. `Waited` carries it from the
decision to the enqueue. `OnlyRemovedFromRepo` is about what a row says (`RowOK`),
whichever op and body `Enqueue` combines. `OrphanGoes` says by when, so its
invariant goes from one instant to the next after the environment has come to rest:
no hold counts any more and none was longer than the time before (`ThawSeen`), nothing
would register a job without a file (`OnlyRemovals`), a Check has stamped the orphan
(`OrphanSeen`), and in the last interval before it is due a Check finds the grace over
and queues the removal, for which the clock waits (`OrphanDue`). The first Check of an
interval looks only where the index has moved (`ChecksLook`): that is where the
premise `busy` is used. Assumed: bounds on time and events are naturals, an indefinite
freeze outlasts the clock's bound, and `None` is no time.

In `Rollback` answers are old when they are used. `Differs` and `Clear` say that as
long as the job has the index `Info` read, the plan and the guard would answer the
same; `StillFailed` and `StillStable`, that as long as a job is at the version found
failed no other has been registered, and that a version chosen as stable stays so.
`Moves` is what every step leaves of Nomad's history for these to hold on. What is
`Clear` is clear of a spec that is stored as written, as the guard's answer is. Assumed:
that the bounds are naturals, `NoSpec` is no spec, and a spec that Nomad has filled in
it fills in no further (`Stores`).

In `DriftPolicy` what a Check and the queue carry is `Backed`: as long as the job is
at the index the candidate was read at, it is one to create, or one whose diff was
classified and let pass by the gates. The same argument about indexes makes it
inductive, over commits as well, since the gates ask about a commit and its parent
and the branch only grows. A register that lands is then the one the gates were asked about,
and lemmas on `ClassifyDiff` bound what it changes. `PlacesAssumption` says that
plans show each leaf as what it is; TLC evaluates it for the instance.

In `Tokens` the clocks account for the life of a token: what was there when the timer
was first set is at most what is left, the first delay, the failed attempts with
their backoffs, and what has run of the present one (`LoginClock`, `FileClock`). A
token at its end has therefore paid for each failure. `TimesAssumption` has the
bounds as naturals and a login shorter than the margin.

Every safety and action property a passing run checks is proved. What is only
model-checked: liveness (`PendingIsSettled`, `Converges`, `FreezeTakesEffect`,
`ResumesWhenBusy`, `NewestIsChecked`, `TriggerIsEnough`, `RolledBack`,
`PermittedDriftGoes`, `LogCatchesUp`, `TokenComesBack`), since the prover reaches neither
fairness nor `ENABLED`. The two theorems with the hypothesis `PathSafe` have one that
the run's instance satisfies; outside it nothing is claimed.

## Not modelled

Flag and environment parsing, HTTP rendering, redaction of diffs and log throttling
are sequential and stateless, and unit tests reach them. The two API calls that
change state are in `FreezeGate`, the webhook is `GitWatch`'s `Trigger`. Of components
that are partly modelled: the cluster index and metrics of a Check; the live job's
half of meta tracking; signals and the order of the start, but for the delay of the
token refresher.

## Plan

Done, in the order of importance: the queue and its promise; detection and
application; freezes; deregistration; the watcher; rollback; policies, classes and
Stop; tokens; proofs of the queue and its refinement, of the CAS, what is published
and who owns a drift in `Reconcile`, of the watcher, the policies, the tokens, the
freezes, rollback and deregistration.

Next:

1. An abstract specification of a reconciler (each step moves a job from a spec that
   was observed to one that was desired), implemented by `Reconcile`, with the step
   simulation proved from `Sound`.
2. `Reconcile`: two files of one job ID; deregistration and rollback in the same
   queue; the flow of `GitWatch`'s commits and files into overlapping Checks.

## Running

    tlc -config MCReconcile.cfg MCReconcile
    tlapm UpdateQueueProofs.tla

from this directory, for any pair in `PROJECT.json`. Each passing run takes from
a few seconds to three and a half minutes.
