----------------------------- MODULE OrphanGrace ------------------------------
(***************************************************************************)
(* Deregistration: a tagged job that runs in Nomad and that no parsed HCL  *)
(* file defines is an orphan; once it has been one for the grace period a  *)
(* Check enqueues a DEREGISTER, which the applier rechecks against Nomad   *)
(* before it removes the job (src/internal/nomad/differ.go, applier.go).   *)
(* Time a job spends frozen is meant not to count (freeze.go).             *)
(*                                                                         *)
(* One job, one Check at a time, and a freeze view that is read at once    *)
(* (FreezeGate and Reconcile are about the rest).  The clock ticks once    *)
(* per diff interval, after a Check and, when the environment has come to  *)
(* rest, a drain.  Deregistration is enabled, the job's policy is full, it *)
(* is selected by its tag, and its own meta keys alone are not applied.    *)
(* HEAD is the commit the watcher has pulled.  A write lands when it is    *)
(* sent, whatever it answers, or never (Reconcile has those that land      *)
(* late).  The applier's Plan and register are one step, its recheck and   *)
(* deregister two.                                                         *)
(***************************************************************************)
EXTENDS UpdateQueueOps, Integers

CONSTANTS
    job, Specs,      \* the job, and what it can be
    Absent,          \* no file; not running
    Untagged,        \* a file that defines the job without the opt-in tag
    None,            \* no time; no record
    Grace,           \* --deregister-grace, in diff intervals
    Retention,       \* --freeze-expired-retention (0: disabled)
    Faults,          \* calls that may fail: subset of FaultKinds
    MaxTime, Never,  \* bound on the clock; the expiry of an indefinite freeze
    QuietAfter,      \* repo, jobs and freezes are left alone, and calls answer, after this
    MaxCommits, MaxEdits, MaxFreezes, MaxFaults, MaxCrashes,
    MaxTroubles      \* bound on edits, freezes, faults and crashes together

FaultKinds == {"list", "parse", "info", "register", "deregister"}

ASSUME ConstantsAssumption ==
    /\ {Grace, Retention, MaxTime, Never, QuietAfter} \subseteq Nat /\ Never > MaxTime
    /\ {MaxCommits, MaxEdits, MaxFreezes, MaxFaults, MaxCrashes, MaxTroubles} \subseteq Nat
    /\ Absent \notin Specs /\ Untagged \notin Specs \cup {Absent} /\ None \notin Nat
    /\ Faults \subseteq FaultKinds

VARIABLES
    now,
    checked,       \* a Check has read the freezes since the last tick
    repo,          \* commit -> the job's spec in its file, or Absent
    live,          \* [spec, tagged, idx]: the job in Nomad, and its JobModifyIndex
    frozen,        \* the job's freeze record: its expiry, or None
    heldSince,     \* d.freezeHeldSince: when the view last saw the job held
    accrued,       \* d.freezeAccrued
    firstSeen,     \* d.driftFirstSeen of the job's missing_from_hcl
    lastCommit,
    busy,          \* some job's status changes in every diff interval
    behind,        \* the job table's index is not lastNomadIndex
    clean,         \* the index has not moved since the running Check's List
    updates,
    chk,           \* the Check: [pc, commit, parsed, orphan, listed, token, action]
    ap,            \* the applier: what it does next
    spent,         \* ghost: ticks since firstSeen at which no freeze was in force
    forgot,        \* ghost: time held as an orphan was cleared with a lifted record
    budget         \* environment steps taken, per kind

skip == <<busy, lastCommit, behind, clean>>
hold == <<heldSince, accrued>>
ghost == <<spent, forgot>>
vars == <<now, checked, repo, live, frozen, hold, firstSeen, skip, updates, chk, ap, ghost, budget>>

head == Cardinality(DOMAIN repo)
Idle == [pc |-> "idle", commit |-> 0, parsed |-> Absent, orphan |-> FALSE, listed |-> FALSE,
         token |-> 0, action |-> "none"]

NoBudgetUsed == [kind \in {"edit", "freeze", "fault", "parse", "crash"} |-> 0]

Init ==
    /\ now = 0 /\ checked = FALSE
    /\ repo \in [{1} -> Specs]
    /\ live \in [spec : Specs \cup {Absent}, tagged : {TRUE}, idx : {0}]
    /\ frozen = None /\ heldSince = None /\ accrued = 0
    /\ firstSeen = None
    /\ busy \in BOOLEAN /\ lastCommit = 0 /\ behind = TRUE /\ clean = FALSE
    /\ updates = [i \in {} |-> 0]
    /\ chk = Idle /\ ap = "idle"
    /\ spent = 0 /\ forgot = FALSE
    /\ budget = NoBudgetUsed

Troubles ==
    budget["edit"] + budget["freeze"] + budget["fault"] + budget["parse"] + budget["crash"]

Use(kind, limit) ==
    /\ budget[kind] < limit /\ Troubles < MaxTroubles
    /\ budget' = [budget EXCEPT ![kind] = @ + 1]

Early == now <= QuietAfter

Fault(kind) == Early /\ kind \in Faults /\ Use("fault", MaxFaults)
NoFault == UNCHANGED budget

IndexMoves == behind' = TRUE /\ clean' = FALSE /\ UNCHANGED <<busy, lastCommit>>

-----------------------------------------------------------------------------
(* The freeze view's clock.                                                *)

InForce(expiry) == expiry # None /\ expiry > now

ReadFreezeReset(expiry, before) == \* mutant: a new reading starts the count again
    /\ heldSince' = IF InForce(expiry) THEN now ELSE None
    /\ accrued' = IF InForce(expiry) /\ heldSince # None THEN now - heldSince ELSE before

ReadFreezeFromStart(expiry, before) == \* mutant: each reading counts from the start of the hold
    /\ heldSince' = IF InForce(expiry) THEN (IF heldSince = None THEN now ELSE heldSince) ELSE None
    /\ accrued' = IF InForce(expiry) /\ heldSince # None THEN before + (now - heldSince) ELSE before

\* refreshFreezes: time held accrues from one reading to the next.
ReadFreeze(expiry, before) ==
    /\ heldSince' = IF InForce(expiry) THEN now ELSE None
    /\ accrued' = IF InForce(expiry) /\ heldSince # None THEN before + (now - heldSince) ELSE before

GraceOffset == accrued + (IF heldSince = None THEN 0 ELSE now - heldSince)

Forgets == forgot' = (forgot \/ firstSeen # None)

\* refreshFreezes and purgeExpiredFreezes, which clears what the job accrued.
RefreshAndPurge ==
    IF Retention > 0 /\ frozen # None /\ now >= frozen + Retention
    THEN ReadFreeze(None, 0) /\ frozen' = None /\ Forgets
    ELSE ReadFreeze(frozen, accrued) /\ UNCHANGED <<frozen, forgot>>

-----------------------------------------------------------------------------
(* Check.                                                                  *)

Running == live.spec # Absent

OrphanedUnselected(listed, parsed) == \* mutant: asks which jobs are selected, not which are parsed
    listed /\ Running /\ live.tagged /\ parsed \in {Absent, Untagged}

\* A live tagged job that no parsed file defines.
Orphaned(listed, parsed) == listed /\ Running /\ live.tagged /\ parsed = Absent

\* Up to the parsed files.  A file that does not parse leaves the job out of
\* parsedIDs; a failed List leaves the Check without live jobs.
BeginCheck ==
    /\ chk.pc = "idle"
    /\ RefreshAndPurge
    /\ checked' = TRUE
    /\ \E listed, parses \in BOOLEAN :
        /\ CASE listed /\ parses -> NoFault
             [] ~listed /\ parses -> Fault("list")
             [] listed /\ ~parses -> "parse" \in Faults /\ Early /\ Use("parse", MaxFaults) /\ repo[head] # Absent
             [] OTHER -> FALSE
        /\ IF listed /\ ~behind /\ lastCommit = head
           THEN /\ chk' = Idle
                /\ UNCHANGED clean
           ELSE /\ LET parsed == IF parses THEN repo[head] ELSE Absent
                   IN  chk' = [pc |-> "decide", commit |-> head, parsed |-> parsed,
                               listed |-> listed, token |-> 0, action |-> "none",
                               orphan |-> Orphaned(listed, parsed)]
                /\ clean' = IF listed THEN TRUE ELSE clean
    /\ UNCHANGED <<now, repo, live, firstSeen, busy, lastCommit, behind, updates, ap, spent>>

\* orphanGraceElapsed, by the clock or not at all on a first sighting.
GraceElapsed == firstSeen # None /\ now - firstSeen - GraceOffset >= Grace

\* decideDeregisterAction for the orphan; decideApplyAction for a job whose
\* file differs from it (or that is gone), with the index Info answers as its
\* token.  Frozen comes first in both.
Decide ==
    /\ chk.pc = "decide"
    /\ \/ /\ chk.orphan
          /\ NoFault
          /\ chk' = [chk EXCEPT !.pc = "publish",
                       !.action = CASE heldSince # None -> "blocked_frozen"
                                    [] heldSince = None /\ ~GraceElapsed -> "deregister_pending_grace"
                                    [] OTHER -> "queued_deregister"]
       \/ /\ ~chk.orphan
          /\ NoFault
          /\ chk' = [chk EXCEPT !.pc = "publish", !.token = live.idx,
                       !.action = IF chk.parsed \notin {Absent, Untagged, live.spec} /\ heldSince = None
                                  THEN "queued" ELSE "none"]
       \/ /\ ~chk.orphan /\ chk.parsed \notin {Absent, Untagged}
          /\ Fault("info")
          /\ chk' = [chk EXCEPT !.pc = "publish"]
    /\ UNCHANGED <<now, checked, repo, live, frozen, hold, firstSeen, skip, updates, ap, ghost>>

PublishRestamped == \* mutant: every Check stamps its diffs anew
    /\ chk.pc = "publish"
    /\ IF chk.orphan THEN firstSeen' = now /\ UNCHANGED ghost
       ELSE firstSeen' = None /\ spent' = 0 /\ forgot' = FALSE
    /\ accrued' = IF ~chk.orphan /\ firstSeen # None THEN 0 ELSE accrued
    /\ lastCommit' = chk.commit
    /\ behind' = IF chk.listed THEN ~clean ELSE behind
    /\ clean' = FALSE
    /\ chk' = IF chk.action \in {"queued", "queued_deregister"} THEN [chk EXCEPT !.pc = "enqueue"]
              ELSE Idle
    /\ UNCHANGED <<now, checked, repo, live, frozen, heldSince, busy, updates, ap, budget>>

\* commitResults: an orphan keeps the time it was first seen; one that is no
\* longer found starts clean.
Publish ==
    /\ chk.pc = "publish"
    /\ IF chk.orphan
       THEN firstSeen' = (IF firstSeen = None THEN now ELSE firstSeen) /\ UNCHANGED <<accrued, ghost>>
       ELSE /\ firstSeen' = None /\ spent' = 0 /\ forgot' = FALSE
            /\ accrued' = IF firstSeen = None THEN accrued ELSE 0
    /\ lastCommit' = chk.commit
    /\ behind' = IF chk.listed THEN ~clean ELSE behind
    /\ clean' = FALSE
    /\ chk' = IF chk.action \in {"queued", "queued_deregister"} THEN [chk EXCEPT !.pc = "enqueue"]
              ELSE Idle
    /\ UNCHANGED <<now, checked, repo, live, frozen, heldSince, busy, updates, ap, budget>>

\* A DEREGISTER has no parsed job.
Intent ==
    [job |-> job, ref |-> chk.commit, body |-> [spec |-> chk.parsed, token |-> chk.token],
     op |-> IF chk.action = "queued" THEN "REGISTER" ELSE "DEREGISTER"]

EnqueueUpdate ==
    /\ chk.pc = "enqueue"
    /\ updates' = Appended(updates, Intent)
    /\ chk' = Idle
    /\ UNCHANGED <<now, checked, repo, live, frozen, hold, firstSeen, skip, ap, ghost, budget>>

-----------------------------------------------------------------------------
(* The applier.                                                            *)

\* The row in flight.
Row == updates[CHOOSE i \in InProgress(updates) : TRUE]

\* The drain's refresh, NextPending and the freeze gate.
Take ==
    /\ ap = "idle"
    /\ ReadFreeze(frozen, accrued)
    /\ \E i \in First(Pending(updates)) :
        LET taken == MarkInProgress(updates, i)
        IN  IF InForce(frozen)
            THEN updates' = Renumbered(Complete(taken, taken[i], "HELD")) /\ UNCHANGED ap
            ELSE /\ updates' = taken
                 /\ ap' = IF taken[i].op = "REGISTER" THEN "register" ELSE "recheck"
    /\ UNCHANGED <<now, checked, repo, live, frozen, firstSeen, skip, chk, ghost, budget>>

\* completeUpdate, with invalidateSkip after a failure (which a Check that is
\* about to store its index overrides).
Completes(outcome) ==
    /\ updates' = Renumbered(Complete(updates, Row, outcome))
    /\ ap' = "idle"
    /\ UNCHANGED <<now, checked, repo, frozen, hold, firstSeen, chk, ghost>>

Fails == Completes("FAILED") /\ behind' = TRUE /\ UNCHANGED <<live, busy, lastCommit, clean>>

Recheck ==
    /\ ap = "recheck"
    /\ \/ /\ NoFault /\ ~Running
          /\ Completes("SUCCEEDED") /\ UNCHANGED <<live, skip>>
       \/ NoFault /\ Running /\ ~live.tagged /\ Fails
       \/ Fault("info") /\ Fails
       \/ /\ NoFault /\ Running /\ live.tagged
          /\ ap' = "deregister"
          /\ UNCHANGED <<now, checked, repo, live, frozen, hold, firstSeen, skip, updates, chk, ghost>>

Goes == live' = [live EXCEPT !.spec = Absent, !.idx = @ + 1] /\ IndexMoves

\* A call that fails may have removed the job all the same.
Deregister ==
    /\ ap = "deregister"
    /\ \/ NoFault /\ Goes /\ Completes("SUCCEEDED")
       \/ Fault("deregister") /\ Fails
       \/ Fault("deregister") /\ Goes /\ Completes("FAILED")

\* Plan and RegisterOpts, with EnforceIndex, of an update with op REGISTER.  One
\* that a DEREGISTER of the same commit refreshed has lost its job: it fails, and
\* the skip stays.
Register ==
    /\ ap = "register"
    /\ LET want == Row.body.spec
           unchanged == live.spec = want /\ live.tagged
           asRead == live.idx = Row.body.token
       IN  \/ /\ NoFault /\ want = Absent
              /\ Completes("FAILED") /\ UNCHANGED <<live, skip>>
           \/ /\ NoFault /\ want # Absent /\ unchanged
              /\ Completes("SUCCEEDED") /\ UNCHANGED <<live, skip>>
           \/ /\ NoFault /\ want # Absent /\ ~unchanged /\ asRead
              /\ live' = [spec |-> want, tagged |-> TRUE, idx |-> live.idx + 1] /\ IndexMoves
              /\ Completes("SUCCEEDED")
           \/ NoFault /\ want # Absent /\ ~unchanged /\ ~asRead /\ Fails
           \/ Fault("register") /\ want # Absent /\ Fails

-----------------------------------------------------------------------------
(* People and time.                                                        *)

Commit(spec) ==
    /\ Early /\ head < MaxCommits /\ spec # repo[head]
    /\ repo' = [c \in 1 .. (head + 1) |-> IF c <= head THEN repo[c] ELSE spec]
    /\ UNCHANGED <<now, checked, live, frozen, hold, firstSeen, skip, updates, chk, ap, ghost, budget>>

\* An operator registers the job with or without the tag.
Edit(tagged) ==
    /\ Early /\ Use("edit", MaxEdits)
    /\ Running /\ live.tagged # tagged
    /\ live' = [live EXCEPT !.tagged = tagged, !.idx = @ + 1]
    /\ IndexMoves
    /\ UNCHANGED <<now, checked, repo, frozen, hold, firstSeen, updates, chk, ap, ghost>>

\* `nomad var put`, or the API, which re-reads the store at once.
Freeze(expiry) ==
    /\ Early /\ Use("freeze", MaxFreezes)
    /\ frozen' = expiry
    /\ UNCHANGED hold \/ ReadFreeze(expiry, accrued)
    /\ UNCHANGED <<now, checked, repo, live, firstSeen, skip, updates, chk, ap, ghost>>

\* `nomad var purge`.
Purge ==
    /\ Early /\ frozen # None
    /\ frozen' = None
    /\ UNCHANGED <<now, checked, repo, live, hold, firstSeen, skip, updates, chk, ap, ghost, budget>>

\* ThawJob: delete, clearFreezeAccrual, refreshFreezes.
Thaw ==
    /\ Early /\ frozen # None
    /\ frozen' = None
    /\ ReadFreeze(None, 0) /\ Forgets
    /\ UNCHANGED <<now, checked, repo, live, firstSeen, skip, updates, chk, ap, spent, budget>>

StatusWrite ==
    /\ Early /\ (~behind \/ clean)
    /\ IndexMoves
    /\ UNCHANGED <<now, checked, repo, live, frozen, hold, firstSeen, updates, chk, ap, ghost, budget>>

Tick ==
    /\ now < MaxTime
    /\ checked /\ chk.pc = "idle"
    /\ Early \/ (ap = "idle" /\ Pending(updates) = {})
    /\ now' = now + 1 /\ checked' = FALSE
    /\ spent' = IF firstSeen # None /\ ~InForce(frozen) THEN spent + 1 ELSE spent
    /\ IF busy THEN IndexMoves ELSE UNCHANGED skip
    /\ UNCHANGED <<repo, live, frozen, hold, firstSeen, updates, chk, ap, forgot, budget>>

\* The process starts again with nothing in memory.
Crash ==
    /\ Early /\ Use("crash", MaxCrashes)
    /\ heldSince' = None /\ accrued' = 0 /\ firstSeen' = None /\ spent' = 0 /\ forgot' = FALSE
    /\ lastCommit' = 0 /\ behind' = TRUE /\ clean' = FALSE
    /\ updates' = [i \in {} |-> 0] /\ chk' = Idle /\ ap' = "idle"
    /\ UNCHANGED <<now, checked, repo, live, frozen, busy>>

CheckStep == BeginCheck \/ Decide \/ Publish \/ EnqueueUpdate
ApplierStep == Take \/ Recheck \/ Deregister \/ Register

Next ==
    \/ CheckStep \/ ApplierStep
    \/ \E spec \in Specs \cup {Absent, Untagged} : Commit(spec)
    \/ \E tagged \in BOOLEAN : Edit(tagged)
    \/ \E expiry \in {t \in 1 .. QuietAfter + 1 : t > now} \cup {Never} : Freeze(expiry)
    \/ Purge \/ Thaw
    \/ StatusWrite \/ Tick \/ Crash

Spec == Init /\ [][Next]_vars

-----------------------------------------------------------------------------
\* Types; times that are remembered are past, and no hold accrues more than time.
TypeOK ==
    /\ now \in 0 .. MaxTime
    /\ live.spec \in Specs \cup {Absent}
    /\ heldSince \in 0 .. now \cup {None} /\ firstSeen \in 0 .. now \cup {None}
    /\ accrued \in 0 .. now
    /\ lastCommit \in 0 .. head
    /\ spent \in 0 .. now
    /\ Cardinality(InProgress(updates)) = IF ap = "idle" THEN 0 ELSE 1

\* A freeze is seen, and its end is, up to a diff interval late.
Slack == 2 * MaxFreezes

\* A job is not due before it has been an orphan, and free, for the grace
\* period, whatever freezes came and went (graceOffset, orphanGraceElapsed); a
\* thaw clears what accrued (ThawJob), and HeldNotSpent is about that.
GraceHeld == chk.action = "queued_deregister" /\ ~forgot => spent + Slack >= Grace

\* "A job 4 minutes into a 5-minute grace when frozen is still 4 minutes in
\* when thawed" (graceOffset, freeze.go:552): time held is not time spent.
HeldNotSpent == chk.action = "queued_deregister" => spent + Slack >= Grace

Removed == live.spec # Absent /\ live'.spec = Absent

\* What is deregistered had no file at the commit its update was queued for,
\* whatever was committed, edited, refreshed, lost or retried since (a file that
\* does not parse counts as none).  The code gives no more: applyDeregister asks
\* Nomad again and not the repository, see RemovedAtHead.
OnlyRemovedFromRepo ==
    [][Removed /\ budget["parse"] = 0 => repo[Row.ref] = Absent]_vars

\* "Immediately before calling deregister, re-confirm against live state (the job
\* exists, its live meta still has gitops_managed = "true", and no HCL file for it
\* exists at current HEAD)" (docs/design/gitops-job-updates.md:195): a job whose
\* file is back is not removed.
RemovedAtHead == [][Removed => repo[head] = Absent]_vars

Orphan == repo[head] = Absent /\ live.spec # Absent /\ live.tagged

\* Time enough for a Check to see the orphan once the environment has come to
\* rest, for the grace period, held as long as the job can have been frozen, and
\* for the drain.
Due == (QuietAfter + 2) + Grace + (QuietAfter + 2)

\* "The job was removed from the repo and will be deregistered" once it "is
\* waiting out --deregister-grace" (docs/applying-changes.md:222): however an
\* orphan was frozen, retagged, re-registered or forgotten before, it is gone when
\* it is due, in a cluster whose jobs keep changing.
OrphanGoes == busy /\ now >= Due => ~(Orphan /\ ~InForce(frozen))
===============================================================================
