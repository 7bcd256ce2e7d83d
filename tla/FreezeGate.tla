----------------------------- MODULE FreezeGate -------------------------------
(***************************************************************************)
(* Freezes (src/internal/nomad/freeze.go) and the two places that honour   *)
(* them: the decision of a Check (differ.go) and the applier's last gate   *)
(* (applier.go).  Records live in Nomad Variables; the Differ keeps a view *)
(* of them that the Check, the applier and every API call re-read in their *)
(* own goroutines: the read (List) and its installation under freezeMu are *)
(* two steps, so views may be installed out of order.                      *)
(*                                                                         *)
(* Of a Check only what meets a freeze is kept: the Raft-index skip, the   *)
(* decision and the enqueue.  One Check runs at a time here and a register *)
(* always succeeds: Reconcile is about the rest.                           *)
(***************************************************************************)
EXTENDS Naturals, FiniteSets

CONSTANTS
    Jobs, Paths,
    Slug,            \* FreezeSlug: job -> its Variable path
    Own,             \* path -> the job ID the path itself spells
    None,            \* no Variable at a path; no record
    Never,           \* the expiry of an indefinite freeze
    MaxStale,        \* --freeze-max-staleness (0: disabled)
    Retention,       \* --freeze-expired-retention (0: disabled)
    Limits           \* bounds on the environment, one of which a behaviour has

ASSUME SlugAssumption ==
    /\ Slug \in [Jobs -> Paths]
    /\ Own \in [Paths -> Jobs] /\ \A p \in Paths : Slug[Own[p]] = p
ASSUME TimeAssumption ==
    /\ {MaxStale, Retention, Never} \subseteq Nat
    /\ Limits \subseteq [time : 0 .. Never - 1, writes : Nat, faults : Nat, drifts : Nat]

VARIABLES
    now, limit,
    store,     \* path -> record
    writes,    \* writes to the store so far: the Variables' ModifyIndex
    view,      \* d.freezes
    snap,      \* process -> what its List returned, until it is installed
    chk,       \* the Check: [pc, purge, purged, cands]
    ap,        \* the applier: [pc, job]
    api,       \* an API call: [pc, job, exp, retry, token] and, of the view that
               \* the token is from, at: its read; blind: the job's record unreadable
    need,      \* jobs whose live spec is not the one of HEAD
    behind,    \* the job table's index is not lastNomadIndex
    clean,     \* the index has not moved since the running Check's Jobs().List
    pend,      \* jobs with a PENDING update
    faults, drifts

freeze == <<store, writes, view, snap>>
nomad == <<need, behind, clean>>
time == <<now, limit>>
vars == <<time, freeze, chk, ap, api, nomad, pend, faults, drifts>>

Processes == {"check", "applier", "api"}
Expiries == 0 .. Never
Record == [job : Jobs, exp : Expiries, idx : Nat]

IdleCheck == [pc |-> "idle", purge |-> {}, purged |-> FALSE, cands |-> {}]
IdleApplier == [pc |-> "idle", job |-> None]
IdleCall == [pc |-> "idle", job |-> None, exp |-> Never, retry |-> FALSE,
             token |-> 0, at |-> 0, blind |-> FALSE]

Init ==
    /\ now = 0 /\ limit \in Limits
    /\ store = [p \in Paths |-> None]
    /\ writes = 0
    /\ view = [recs |-> {}, held |-> {}, read |-> 0, ok |-> FALSE, at |-> 0]
    /\ snap = [p \in Processes |-> None]
    /\ chk = IdleCheck /\ ap = IdleApplier /\ api = IdleCall
    /\ need = {} /\ behind = TRUE /\ clean = FALSE /\ pend = {}
    /\ faults = 0 /\ drifts = 0

-----------------------------------------------------------------------------
(* Records.                                                                *)

InForceAtExpiry(r, t) == r.exp >= t \* mutant: still frozen at its expiry

\* Classify and InForce.  A malformed record (no reason, no RFC3339 expiry, a
\* job item at odds with its path) is one that never expires.
InForce(r, t) == r.exp > t

UnreadableByPath(p) == \* mutant: the job ID is the whole path
    [job |-> p, exp |-> Never, idx |-> 0]

\* A record that could not be read holds the job its path spells.
Unreadable(p) == [job |-> Own[p], exp |-> Never, idx |-> 0]

Stored == {p \in Paths : store[p] # None}

\* FreezeStore.List: a snapshot.  Peek may fail for one record, or the whole
\* listing may.
ListFreezes(process) ==
    /\ \/ /\ snap' = [snap EXCEPT ![process] =
                         [ok |-> TRUE, recs |-> {store[p] : p \in Stored}, at |-> writes]]
          /\ UNCHANGED faults
       \/ /\ faults < limit.faults
          /\ faults' = faults + 1
          /\ \/ \E lost \in Stored :
                   snap' = [snap EXCEPT ![process] =
                     [ok |-> TRUE, at |-> writes,
                      recs |-> {IF p = lost THEN Unreadable(p) ELSE store[p] : p \in Stored}]]
             \/ snap' = [snap EXCEPT ![process] = [ok |-> FALSE, recs |-> {}, at |-> writes]]
    /\ UNCHANGED <<time, store, writes, view, nomad, pend, drifts>>

InstallEmptyOnError(process) == \* mutant: a failed listing reads as an empty store
    /\ snap[process] # None
    /\ LET s == snap[process]
       IN  view' = [recs |-> s.recs, held |-> {r.job : r \in {r \in s.recs : InForce(r, now)}},
                    read |-> now, ok |-> TRUE, at |-> s.at]
    /\ snap' = [snap EXCEPT ![process] = None]
    /\ UNCHANGED <<time, store, writes, nomad, pend, faults, drifts>>

\* The rest of refreshFreezes.  A failed listing leaves the view in force.
Install(process) ==
    /\ snap[process] # None
    /\ LET s == snap[process]
       IN  view' = IF ~s.ok THEN view
                   ELSE [recs |-> s.recs,
                         held |-> {r.job : r \in {r \in s.recs : InForce(r, now)}},
                         read |-> now, ok |-> TRUE, at |-> s.at]
    /\ snap' = [snap EXCEPT ![process] = None]
    /\ UNCHANGED <<time, store, writes, nomad, pend, faults, drifts>>

\* freezeHold: a view that was readable once is not trusted for ever.
Hold == view.ok /\ MaxStale > 0 /\ now > view.read + MaxStale

FreezeBlocks(j) == j \in view.held \/ Hold

-----------------------------------------------------------------------------
(* The Check.                                                              *)

BeginCheckUnlessSkipped == \* mutant: the view is read after the Raft-index skip
    /\ chk.pc = "idle" /\ behind
    /\ ListFreezes("check")
    /\ chk' = [chk EXCEPT !.pc = "install"]
    /\ UNCHANGED <<ap, api>>

BeginCheck ==
    /\ chk.pc = "idle"
    /\ ListFreezes("check")
    /\ chk' = [chk EXCEPT !.pc = "install"]
    /\ UNCHANGED <<ap, api>>

CheckInstall ==
    /\ chk.pc = "install"
    /\ Install("check")
    /\ chk' = [chk EXCEPT !.pc = IF chk.purged THEN "jobs" ELSE "purge"]
    /\ UNCHANGED <<ap, api>>

\* purgeExpiredFreezes picks the records of the view that were expired when it
\* was installed and have been for the retention time.
PickPurge ==
    /\ chk.pc = "purge"
    /\ LET old == {r \in view.recs : /\ Retention > 0
                                      /\ ~InForce(r, view.read)
                                      /\ now >= r.exp + Retention}
       IN  chk' = [chk EXCEPT !.pc = IF old = {} THEN "jobs" ELSE "delete",
                              !.purge = {r.job : r \in old}]
    /\ UNCHANGED <<time, freeze, ap, api, nomad, pend, faults, drifts>>

\* Delete has no CAS.
Remove(j) ==
    /\ store' = [store EXCEPT ![Slug[j]] = None]
    /\ writes' = writes + 1

PurgeOne ==
    /\ chk.pc = "delete"
    /\ \E j \in chk.purge :
        /\ Remove(j)
        /\ chk' = [chk EXCEPT !.purge = @ \ {j}, !.purged = TRUE]
    /\ UNCHANGED <<time, view, snap, ap, api, nomad, pend, faults, drifts>>

AfterPurge ==
    /\ chk.pc = "delete" /\ chk.purge = {}
    /\ ListFreezes("check")
    /\ chk' = [chk EXCEPT !.pc = "install"]
    /\ UNCHANGED <<ap, api>>

\* Jobs().List and the skip test: lastNomadIndex and lastCommit both current.
ListJobs ==
    /\ chk.pc = "jobs"
    /\ IF behind
       THEN chk' = [chk EXCEPT !.pc = "decide"] /\ clean' = TRUE
       ELSE chk' = IdleCheck /\ UNCHANGED clean
    /\ UNCHANGED <<time, freeze, ap, api, need, behind, pend, faults, drifts>>

\* Info, Plan and decideApplyAction for every job; a frozen job is reported
\* blocked_frozen and is no candidate.
Decide ==
    /\ chk.pc = "decide"
    /\ chk' = [chk EXCEPT !.pc = "publish", !.cands = {j \in need : ~FreezeBlocks(j)}]
    /\ UNCHANGED <<time, freeze, ap, api, nomad, pend, faults, drifts>>

\* commitResults stores the listed index; candidates are enqueued, but for one
\* the applier holds IN_PROGRESS.
Publish ==
    /\ chk.pc = "publish"
    /\ behind' = ~clean /\ clean' = FALSE
    /\ pend' = pend \cup (chk.cands \ {ap.job})
    /\ chk' = IdleCheck
    /\ UNCHANGED <<time, freeze, ap, api, need, faults, drifts>>

-----------------------------------------------------------------------------
(* The applier.                                                            *)

\* drainUpdates re-reads the store once, before the loop.
BeginDrain ==
    /\ ap.pc = "idle" /\ pend # {}
    /\ ListFreezes("applier")
    /\ ap' = [ap EXCEPT !.pc = "install"]
    /\ UNCHANGED <<chk, api>>

DrainInstall ==
    /\ ap.pc = "install"
    /\ Install("applier")
    /\ ap' = [ap EXCEPT !.pc = "drain"]
    /\ UNCHANGED <<chk, api>>

EndDrain ==
    /\ ap.pc = "drain" /\ pend = {}
    /\ ap' = IdleApplier
    /\ UNCHANGED <<time, freeze, chk, api, nomad, pend, faults, drifts>>

Take(j) ==
    /\ ap.pc = "drain" /\ j \in pend
    /\ pend' = pend \ {j}
    /\ UNCHANGED <<time, freeze, chk, api, nomad, faults, drifts>>

\* applyUpdate's gate holds the update: terminal, and the skip stays valid.
GateHolds(j) ==
    /\ Take(j) /\ FreezeBlocks(j)
    /\ UNCHANGED ap

GatePasses(j) ==
    /\ Take(j) /\ ~FreezeBlocks(j)
    /\ ap' = [ap EXCEPT !.pc = "write", !.job = j]

\* Plan and RegisterOpts.
Write ==
    /\ ap.pc = "write"
    /\ need' = need \ {ap.job}
    /\ behind' = (behind \/ ap.job \in need)
    /\ clean' = (clean /\ ap.job \notin need)
    /\ ap' = [ap EXCEPT !.pc = "drain", !.job = None]
    /\ UNCHANGED <<time, freeze, chk, api, pend, faults, drifts>>

-----------------------------------------------------------------------------
(* The API: FreezeJob and ThawJob.                                         *)

KnownInForce(j) == \* mutant: as freezeFor, no expired record
    IF \E r \in view.recs : r.job = j /\ InForce(r, view.read)
    THEN (CHOOSE r \in view.recs : r.job = j).idx ELSE 0

\* freezeRecordAny's ModifyIndex: 0 without a record, or with one that could
\* not be read.
KnownIndex(j) ==
    IF \E r \in view.recs : r.job = j THEN (CHOOSE r \in view.recs : r.job = j).idx ELSE 0

\* Ghost: the view's read could not read the job's record.
Blind(j) == \E r \in view.recs : r.job = j /\ r.idx = 0

CallFreeze(j, exp) ==
    /\ api.pc = "idle" /\ writes < limit.writes
    /\ api' = [pc |-> "put", job |-> j, exp |-> exp, retry |-> FALSE,
               token |-> KnownIndex(j), at |-> view.at, blind |-> Blind(j)]
    /\ UNCHANGED <<time, freeze, chk, ap, nomad, pend, faults, drifts>>

Matches(r, token) == IF token = 0 THEN r = None ELSE r # None /\ r.idx = token

\* Put, CAS on the token.  One conflict is answered by a refresh and a retry,
\* a second one is the caller's.
Put ==
    /\ api.pc = "put"
    /\ IF Matches(store[Slug[api.job]], api.token)
       THEN /\ store' = [store EXCEPT ![Slug[api.job]] =
                            [job |-> api.job, exp |-> api.exp, idx |-> writes + 1]]
            /\ writes' = writes + 1
            /\ api' = [api EXCEPT !.pc = "list", !.retry = TRUE]
       ELSE /\ UNCHANGED <<store, writes>>
            /\ api' = IF api.retry THEN IdleCall ELSE [api EXCEPT !.pc = "reread"]
    /\ UNCHANGED <<time, view, snap, chk, ap, nomad, pend, faults, drifts>>

Reread ==
    /\ api.pc = "reread"
    /\ ListFreezes("api")
    /\ api' = [api EXCEPT !.pc = "reinstall"]
    /\ UNCHANGED <<chk, ap>>

ReInstall ==
    /\ api.pc = "reinstall"
    /\ Install("api")
    /\ api' = [api EXCEPT !.pc = "retry", !.retry = TRUE]
    /\ UNCHANGED <<chk, ap>>

RetryPut ==
    /\ api.pc = "retry"
    /\ api' = [api EXCEPT !.pc = "put", !.token = KnownIndex(api.job),
                          !.at = view.at, !.blind = Blind(api.job)]
    /\ UNCHANGED <<time, freeze, chk, ap, nomad, pend, faults, drifts>>

CallThaw(j) ==
    /\ api.pc = "idle" /\ writes < limit.writes
    /\ Remove(j)
    /\ api' = [IdleCall EXCEPT !.pc = "list", !.job = j]
    /\ UNCHANGED <<time, view, snap, chk, ap, nomad, pend, faults, drifts>>

\* Both calls end with refreshFreezes.
CallList ==
    /\ api.pc = "list"
    /\ ListFreezes("api")
    /\ api' = [api EXCEPT !.pc = "install"]
    /\ UNCHANGED <<chk, ap>>

CallReturns ==
    /\ api.pc = "install"
    /\ Install("api")
    /\ api' = IdleCall
    /\ UNCHANGED <<chk, ap>>

-----------------------------------------------------------------------------
(* Everyone else: `nomad var put` and `nomad var purge`, job changes, time. *)

VarPut(j, exp) ==
    /\ writes < limit.writes
    /\ writes' = writes + 1
    /\ store' = [store EXCEPT ![Slug[j]] = [job |-> j, exp |-> exp, idx |-> writes + 1]]
    /\ UNCHANGED <<time, view, snap, chk, ap, api, nomad, pend, faults, drifts>>

VarPurge(p) ==
    /\ writes < limit.writes /\ store[p] # None
    /\ writes' = writes + 1
    /\ store' = [store EXCEPT ![p] = None]
    /\ UNCHANGED <<time, view, snap, chk, ap, api, nomad, pend, faults, drifts>>

\* A commit or an operator makes live and desired differ.
Drift(j) ==
    /\ drifts < limit.drifts /\ j \notin need
    /\ drifts' = drifts + 1
    /\ need' = need \cup {j}
    /\ behind' = TRUE /\ clean' = FALSE
    /\ UNCHANGED <<time, freeze, chk, ap, api, pend, faults>>

\* Any other write to the job table moves its index.
StatusWrite ==
    /\ ~behind \/ clean
    /\ behind' = TRUE /\ clean' = FALSE
    /\ UNCHANGED <<time, freeze, chk, ap, api, need, pend, faults, drifts>>

Tick ==
    /\ now < limit.time
    /\ now' = now + 1
    /\ UNCHANGED <<limit, freeze, chk, ap, api, nomad, pend, faults, drifts>>

CheckStep ==
    BeginCheck \/ CheckInstall \/ PickPurge \/ PurgeOne \/ AfterPurge \/ ListJobs \/ Decide \/ Publish

ApplierStep ==
    \/ BeginDrain \/ DrainInstall \/ EndDrain \/ Write
    \/ \E j \in Jobs : GateHolds(j) \/ GatePasses(j)

CallStep == Put \/ Reread \/ ReInstall \/ RetryPut \/ CallList \/ CallReturns

Next ==
    \/ CheckStep \/ ApplierStep \/ CallStep
    \/ \E j \in Jobs, exp \in (now + 1) .. limit.time \cup {Never} :
          CallFreeze(j, exp) \/ VarPut(j, exp)
    \/ \E j \in Jobs : CallThaw(j) \/ Drift(j)
    \/ \E p \in Paths : VarPurge(p)
    \/ StatusWrite \/ Tick

Spec == Init /\ [][Next]_vars

\* The check ticker keeps firing, goroutines are scheduled, calls return.
FairSpec == Spec /\ WF_vars(CheckStep) /\ WF_vars(ApplierStep) /\ WF_vars(CallStep)

-----------------------------------------------------------------------------
\* Types; a record sits at its job's path, and no view is from the future.
TypeOK ==
    /\ now \in 0 .. limit.time
    /\ \A p \in Paths : store[p] = None \/ (store[p] \in Record /\ store[p].idx <= writes
                                             /\ Slug[store[p].job] = p)
    /\ view.recs \subseteq Record /\ view.held \subseteq Jobs
    /\ view.at <= writes /\ view.read <= now
    /\ need \subseteq Jobs /\ pend \subseteq Jobs
    /\ ap.job \in Jobs \cup {None} /\ api.job \in Jobs \cup {None}

Pass(j) == j \in pend /\ ap.pc = "drain" /\ ap'.pc = "write" /\ ap'.job = j

Holds(r) == r.exp > now

FrozenSince(j, i) ==
    \E p \in Stored : store[p].job = j /\ store[p].idx <= i /\ Holds(store[p])

\* "An unreadable record cannot fail open" (freeze.go:198): no update passes
\* the gate while a freeze on its job is in force that the installed view's
\* read could have seen, whatever of that read failed and whoever read last.
ViewMissesNothing == [][\A j \in Jobs : Pass(j) => ~FrozenSince(j, view.at)]_vars

\* "Somebody wrote this record between our last read and now" (freeze.go:652):
\* that is what a conflict tells, the first or the one the caller gets, and what
\* a write that lands rules out (freeze.go:363), whatever the record's state was
\* and whoever installed the view the index is from.  Blind calls excepted: a
\* record that could not be read has no index, and its freeze always conflicts.
CasTellsRaces ==
    [][api.pc = "put" /\ api' # api =>
          LET r == store[Slug[api.job]]
              raced == IF r = None THEN api.token # 0 ELSE r.idx > api.at
          IN  IF api'.pc = "list" THEN ~raced ELSE raced \/ api.blind]_vars

\* A freeze that stays "takes effect by the next diff cycle" (temporary-
\* freeze.md:140), however quiet the cluster is and however calls interleave.
FreezeTakesEffect ==
    \A j \in Jobs : <>[](\E p \in Stored : store[p].job = j /\ store[p].exp = Never)
                        => <>[](j \in view.held)

FrozenNow(j) == \E p \in Stored : store[p].job = j /\ Holds(store[p])

\* "When a freeze expires the job resumes reconciling on the next cycle with no
\* action from anyone" (docs/freezing.md:92), and so after a thaw.
Resumes == \A j \in Jobs : <>[](~FrozenNow(j) /\ ~Hold) => []<>(j \notin need)

\* It does in a cluster that is never quiet for good, which nothing in the code
\* provides: whichever view was installed last, and whatever was held.
ResumesWhenBusy == WF_vars(StatusWrite) => Resumes
===============================================================================
