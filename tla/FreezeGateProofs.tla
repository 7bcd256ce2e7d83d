---------------------------- MODULE FreezeGateProofs --------------------------
(***************************************************************************)
(* FreezeGate's type invariant, and what a freeze is worth at its two      *)
(* ends: Put conflicts on a record that was written after the read behind  *)
(* the call's token, and only then, and the gate lets no update pass a     *)
(* freeze which the read behind the installed view could have seen; for    *)
(* every set of jobs and paths and any number of writers, failing reads    *)
(* and concurrent readers.                                                 *)
(*                                                                         *)
(* Views are installed out of order, so nothing is known of which is the   *)
(* newest.  Instead what was read is tied to the write it was read at:     *)
(*   Covers     a record of the store no newer than the read is listed, as *)
(*              one that holds the same job at least as long, under its    *)
(*              own index or none: so of a listing and of the view;        *)
(*   ViewHolds  such a record, still in force, holds its job in the view;  *)
(*   Tells      the record a call is about to replace is one that its      *)
(*              token names, or newer than the read, or was unreadable.    *)
(* Later says what every step does to the store: a record stays, goes, or  *)
(* makes place for one whose index is above all that were read.            *)
(*                                                                         *)
(* A record that cannot be read is listed under the job its path spells:   *)
(* Covers needs job IDs that are their own paths (PathSafe).               *)
(***************************************************************************)
EXTENDS FreezeGate, TLAPS

\* FreezeSlug leaves the IDs of these jobs as they are.
PathSafe == \A j \in Jobs : Own[Slug[j]] = j

CheckState ==
    [pc : {"idle", "install", "purge", "delete", "jobs", "decide", "publish"},
     purge : SUBSET Jobs, purged : BOOLEAN, cands : SUBSET Jobs]
ApplierState == [pc : {"idle", "install", "drain", "write"}, job : Jobs \cup {None}]
CallState ==
    [pc : {"idle", "put", "reread", "reinstall", "retry", "list", "install"},
     job : Jobs \cup {None}, exp : Expiries, retry : BOOLEAN,
     token : Nat, at : Nat, blind : BOOLEAN]

TimeOK ==
    /\ limit \in Limits /\ limit.time \in Nat /\ limit.time < Never
    /\ now \in Nat /\ now <= limit.time

StoreOK ==
    /\ writes \in Nat
    /\ DOMAIN store = Paths
    /\ \A p \in Stored : /\ store[p] \in Record /\ Slug[store[p].job] = p
                         /\ store[p].idx >= 1 /\ store[p].idx <= writes

\* What a read at this write may return.
ReadAt(recs, at) ==
    /\ at \in Nat /\ at <= writes
    /\ recs \subseteq Record /\ \A r \in recs : r.idx <= at

ViewOK ==
    /\ ReadAt(view.recs, view.at)
    /\ view.held \subseteq Jobs
    /\ view.read \in Nat /\ view.read <= now

SnapOK(s) == s # None => ReadAt(s.recs, s.at)

SnapsOK == DOMAIN snap = Processes /\ \A k \in Processes : SnapOK(snap[k])

CallOK(c) ==
    /\ c \in CallState
    /\ c.pc \in {"put", "reread", "reinstall", "retry"} => c.job \in Jobs
    /\ c.pc = "put" => c.token <= c.at /\ c.at <= writes

JobsOK == need \subseteq Jobs /\ pend \subseteq Jobs

IInv ==
    /\ TimeOK /\ StoreOK /\ ViewOK /\ SnapsOK /\ CallOK(api) /\ JobsOK
    /\ chk \in CheckState /\ ap \in ApplierState

Covers(recs, at) ==
    \A p \in Stored : store[p].idx <= at =>
        /\ \E r \in recs : r.job = store[p].job /\ r.exp >= store[p].exp
        /\ \A r \in recs : r.job = store[p].job => r.idx \in {0, store[p].idx}

SnapCovers(s) == s # None /\ s.ok => Covers(s.recs, s.at)

ViewHolds ==
    \A p \in Stored : store[p].idx <= view.at /\ Holds(store[p]) => store[p].job \in view.held

Covered ==
    /\ ViewHolds /\ Covers(view.recs, view.at)
    /\ \A k \in Processes : SnapCovers(snap[k])

Tells(c) ==
    c.pc = "put" /\ Slug[c.job] \in Stored =>
        LET r == store[Slug[c.job]]
        IN  r.idx > c.at \/ r.idx = c.token \/ c.blind

-----------------------------------------------------------------------------
(* The store moves under what was read.                                    *)

\* Records stay, go, or are new.
Later ==
    /\ StoreOK' /\ writes <= writes'
    /\ \A p \in Stored' : (p \in Stored /\ store'[p] = store[p]) \/ store'[p].idx > writes

\* Nobody writes.
LEMMA SameStore == ASSUME StoreOK, UNCHANGED <<store, writes>> PROVE Later
  <1>1. StoreOK' /\ writes <= writes'
    BY DEF StoreOK, Stored
  <1> QED
    BY <1>1 DEF Later, Stored

\* A record is written: FreezeJob's, or `nomad var put`.
LEMMA PutLater ==
    ASSUME StoreOK, NEW j \in Jobs, NEW exp \in Expiries, writes' = writes + 1,
           store' = [store EXCEPT ![Slug[j]] = [job |-> j, exp |-> exp, idx |-> writes + 1]]
    PROVE  Later
  <1> DEFINE r == [job |-> j, exp |-> exp, idx |-> writes + 1]
  <1>1. writes \in Nat /\ writes' \in Nat /\ writes < writes' /\ Slug[j] \in Paths
    BY SlugAssumption DEF StoreOK
  <1>2. r.job = j /\ r.idx = writes' /\ r \in Record
    BY <1>1 DEF Record
  <1>3. /\ DOMAIN store' = Paths
        /\ \A p \in Paths : store'[p] = IF p = Slug[j] THEN r ELSE store[p]
    BY DEF StoreOK
  <1> HIDE DEF r
  <1>4. \A p \in Stored' :
           \/ p = Slug[j] /\ store'[p] = r
           \/ p # Slug[j] /\ p \in Stored /\ store'[p] = store[p]
    BY <1>3 DEF Stored
  <1>5. \A p \in Stored : store[p].idx <= writes /\ store[p].idx \in Nat
    BY DEF StoreOK, Record
  <1>6. \A p \in Stored' : /\ store'[p] \in Record /\ Slug[store'[p].job] = p
                           /\ store'[p].idx >= 1 /\ store'[p].idx <= writes'
    BY <1>1, <1>2, <1>4, <1>5 DEF StoreOK
  <1>7. StoreOK'
    BY <1>1, <1>3, <1>6 DEF StoreOK
  <1> QED
    BY <1>1, <1>2, <1>4, <1>7 DEF Later

\* A record is deleted, whatever it says by now.
LEMMA RemoveLater ==
    ASSUME StoreOK, NEW at \in Paths, writes' = writes + 1, store' = [store EXCEPT ![at] = None]
    PROVE  Later
  <1>1. writes \in Nat /\ writes' \in Nat /\ writes <= writes'
    BY DEF StoreOK
  <1>2. DOMAIN store' = Paths /\ \A p \in Paths : store'[p] = IF p = at THEN None ELSE store[p]
    BY DEF StoreOK
  <1>3. \A p \in Stored' : p \in Stored /\ store'[p] = store[p]
    BY <1>2 DEF Stored
  <1>4. \A p \in Stored : store[p].idx <= writes /\ store[p].idx \in Nat
    BY DEF StoreOK, Record
  <1>5. \A p \in Stored' : store'[p].idx <= writes'
    BY <1>1, <1>3, <1>4
  <1>6. StoreOK'
    BY <1>1, <1>2, <1>3, <1>5 DEF StoreOK
  <1> QED
    BY <1>1, <1>3, <1>6 DEF Later

\* What was read stays as it was.
LEMMA ReadLater ==
    ASSUME StoreOK, Later
    PROVE  \A recs, at : ReadAt(recs, at) => ReadAt(recs, at)'
  BY DEF ReadAt, StoreOK, Later

\* The view, the listings and the call, while others write and time passes.
LEMMA ViewLater ==
    ASSUME StoreOK, ViewOK, Later, view' = view, now \in Nat, now' \in Nat, now <= now'
    PROVE  ViewOK'
  <1>1. PICK recs, at : recs = view.recs /\ at = view.at
    OBVIOUS
  <1>2. ReadAt(recs, at)'
    BY <1>1, ReadLater DEF ViewOK
  <1>3. ReadAt(view.recs, view.at)'
    BY <1>1, <1>2 DEF ReadAt
  <1>4. view.read <= now'
    BY DEF ViewOK
  <1> QED
    BY <1>3, <1>4 DEF ViewOK

\* The same of listings that are not installed yet.
LEMMA SnapLater ==
    ASSUME StoreOK, Later
    PROVE  \A s : SnapOK(s) => SnapOK(s)'
  BY ReadLater DEF SnapOK

\* And of the listings as they are.
LEMMA SnapsLater ==
    ASSUME StoreOK, SnapsOK, Later, snap' = snap
    PROVE  SnapsOK'
  <1>1. \A k \in Processes : SnapOK(snap[k])'
    BY SnapLater DEF SnapsOK
  <1> QED
    BY <1>1 DEF SnapsOK

\* The call.
LEMMA CallLater ==
    ASSUME StoreOK, Later
    PROVE  \A c : CallOK(c) => CallOK(c)'
  <1> SUFFICES ASSUME NEW c, CallOK(c), c.pc = "put"
               PROVE  c.at <= writes'
    BY DEF CallOK
  <1> QED
    BY DEF CallOK, CallState, StoreOK, Later

-----------------------------------------------------------------------------
(* The steps.                                                              *)

\* What a listing returns, with the records it could not read.
LEMMA Listed ==
    ASSUME StoreOK, NEW S \in SUBSET Paths,
           NEW recs, recs = {IF p \in S THEN Unreadable(p) ELSE store[p] : p \in Stored}
    PROVE  ReadAt(recs, writes)
  <1>1. ASSUME NEW p \in Stored
        PROVE  /\ Unreadable(p) \in Record /\ Unreadable(p).idx <= writes
               /\ store[p] \in Record /\ store[p].idx <= writes
    <2>1. p \in Paths /\ Own[p] \in Jobs /\ Never \in Expiries
      BY SlugAssumption, TimeAssumption DEF Stored, Expiries
    <2>2. Unreadable(p) \in Record /\ Unreadable(p).idx = 0
      BY <2>1 DEF Unreadable, Record
    <2>3. store[p] \in Record /\ store[p].idx <= writes /\ writes \in Nat
      BY DEF StoreOK
    <2> QED
      BY <2>2, <2>3
  <1>2. \A r \in recs : r \in Record /\ r.idx <= writes
    BY <1>1
  <1> QED
    BY <1>2 DEF ReadAt, StoreOK

\* A listing disturbs nothing.
LEMMA ListStep ==
    ASSUME IInv, NEW k \in Processes, ListFreezes(k)
    PROVE  Later /\ TimeOK' /\ StoreOK' /\ ViewOK' /\ SnapsOK' /\ JobsOK'
  <1>1. UNCHANGED <<time, store, writes, view, need, pend>>
    BY DEF ListFreezes, nomad
  <1>2. Later
    BY <1>1, SameStore DEF IInv
  <1>3. TimeOK'
    BY <1>1 DEF IInv, TimeOK, time
  <1>4. StoreOK'
    BY <1>2 DEF Later
  <1>5. ViewOK'
    BY <1>1, <1>2, ViewLater DEF IInv, TimeOK, time
  <1>6. PICK s : snap' = [snap EXCEPT ![k] = s] /\ ReadAt(s.recs, s.at)
    <2>1. CASE snap' = [snap EXCEPT ![k] =
                         [ok |-> TRUE, recs |-> {store[p] : p \in Stored}, at |-> writes]]
      <3> DEFINE recs == {store[p] : p \in Stored}
      <3>1. recs = {IF p \in {} THEN Unreadable(p) ELSE store[p] : p \in Stored}
        OBVIOUS
      <3> DEFINE s == [ok |-> TRUE, recs |-> recs, at |-> writes]
      <3>2. {} \in SUBSET Paths
        OBVIOUS
      <3>3. snap' = [snap EXCEPT ![k] = s] /\ s.at = writes /\ s.recs = recs
        BY <2>1
      <3> HIDE DEF recs, s
      <3>4. ReadAt(recs, writes)
        BY <3>1, <3>2, Listed DEF IInv
      <3> QED
        BY <3>3, <3>4
    <2>2. ASSUME NEW lost \in Stored,
                 snap' = [snap EXCEPT ![k] =
                     [ok |-> TRUE, at |-> writes,
                      recs |-> {IF p = lost THEN Unreadable(p) ELSE store[p] : p \in Stored}]]
          PROVE  \E s : snap' = [snap EXCEPT ![k] = s] /\ ReadAt(s.recs, s.at)
      <3> DEFINE recs == {IF p = lost THEN Unreadable(p) ELSE store[p] : p \in Stored}
      <3>1. recs = {IF p \in {lost} THEN Unreadable(p) ELSE store[p] : p \in Stored}
        OBVIOUS
      <3>2. {lost} \in SUBSET Paths
        BY DEF Stored
      <3> HIDE DEF recs
      <3>3. ReadAt(recs, writes)
        BY <3>1, <3>2, Listed DEF IInv
      <3> DEFINE s == [ok |-> TRUE, at |-> writes, recs |-> recs]
      <3>4. snap' = [snap EXCEPT ![k] = s] /\ s.at = writes /\ s.recs = recs
        BY <2>2 DEF recs
      <3> HIDE DEF s
      <3> QED
        BY <3>3, <3>4
    <2>3. CASE snap' = [snap EXCEPT ![k] = [ok |-> FALSE, recs |-> {}, at |-> writes]]
      <3> DEFINE s == [ok |-> FALSE, recs |-> {}, at |-> writes]
      <3>1. ReadAt(s.recs, s.at)
        BY DEF ReadAt, IInv, StoreOK
      <3> QED
        BY <2>3, <3>1
    <2> QED
      BY <2>1, <2>2, <2>3 DEF ListFreezes
  <1>7. SnapsOK'
    <2>1. DOMAIN snap' = Processes /\ \A q \in Processes : snap'[q] = IF q = k THEN s ELSE snap[q]
      BY <1>6 DEF IInv, SnapsOK
    <2>2. ReadAt(s.recs, s.at)'
      BY <1>2, <1>6, ReadLater DEF IInv
    <2>3. SnapOK(s)'
      BY <2>2 DEF SnapOK
    <2>4. PICK new : new = snap'
      OBVIOUS
    <2>5. \A q \in Processes : SnapOK(new[q])'
      <3> SUFFICES ASSUME NEW q \in Processes
                   PROVE  SnapOK(new[q])'
        OBVIOUS
      <3>1. PICK t : t = snap[q]
        OBVIOUS
      <3>2. SnapOK(t)'
        BY <1>2, <3>1, SnapLater DEF IInv, SnapsOK
      <3>3. new[q] = IF q = k THEN s ELSE t
        BY <2>1, <2>4, <3>1
      <3> QED
        BY <2>3, <3>2, <3>3
    <2> QED
      BY <2>1, <2>4, <2>5 DEF SnapsOK
  <1>8. JobsOK'
    BY <1>1 DEF IInv, JobsOK
  <1> QED
    BY <1>2, <1>3, <1>4, <1>5, <1>7, <1>8

\* Nor does installing one change anything but the view.
LEMMA InstallStep ==
    ASSUME IInv, NEW k \in Processes, Install(k)
    PROVE  Later /\ TimeOK' /\ StoreOK' /\ ViewOK' /\ SnapsOK' /\ JobsOK'
  <1>1. UNCHANGED <<time, store, writes, need, pend>> /\ snap[k] # None
    BY DEF Install, nomad
  <1>2. Later
    BY <1>1, SameStore DEF IInv
  <1>3. TimeOK' /\ now \in Nat /\ now' = now
    BY <1>1 DEF IInv, TimeOK, time
  <1>4. StoreOK'
    BY <1>2 DEF Later
  <1>5. SnapOK(snap[k])
    BY DEF IInv, SnapsOK
  <1>6. ViewOK'
    <2>1. CASE ~snap[k].ok
      <3>1. view' = view
        BY <2>1 DEF Install
      <3> QED
        BY <1>2, <1>3, <3>1, ViewLater DEF IInv
    <2>2. CASE snap[k].ok
      <3> DEFINE held == {r.job : r \in {r \in snap[k].recs : InForce(r, now)}}
      <3>1. view' = [recs |-> snap[k].recs, held |-> held,
                     read |-> now, ok |-> TRUE, at |-> snap[k].at]
        BY <2>2 DEF Install
      <3>2. ReadAt(snap[k].recs, snap[k].at)
        BY <1>1, <1>5 DEF SnapOK
      <3>3. held \subseteq Jobs
        BY <3>2 DEF ReadAt, Record
      <3> HIDE DEF held
      <3>4. PICK recs, at : recs = snap[k].recs /\ at = snap[k].at
        OBVIOUS
      <3>5. ReadAt(recs, at)'
        BY <1>2, <3>2, <3>4, ReadLater DEF IInv
      <3>6. view'.recs = recs /\ view'.held = held /\ view'.read = now /\ view'.at = at
        BY <3>1, <3>4
      <3>7. ReadAt(view.recs, view.at)'
        BY <3>5, <3>6 DEF ReadAt
      <3> QED
        BY <1>1, <1>3, <3>3, <3>6, <3>7 DEF ViewOK
    <2> QED
      BY <2>1, <2>2
  <1>7. SnapsOK'
    <2>1. DOMAIN snap' = Processes
          /\ \A q \in Processes : snap'[q] = IF q = k THEN None ELSE snap[q]
      BY DEF IInv, SnapsOK, Install
    <2>2. PICK new : new = snap'
      OBVIOUS
    <2>3. \A q \in Processes : SnapOK(new[q])'
      <3> SUFFICES ASSUME NEW q \in Processes
                   PROVE  SnapOK(new[q])'
        OBVIOUS
      <3>1. PICK t : t = snap[q]
        OBVIOUS
      <3>2. SnapOK(t)'
        BY <1>2, <3>1, SnapLater DEF IInv, SnapsOK
      <3>3. new[q] = IF q = k THEN None ELSE t
        BY <2>1, <2>2, <3>1
      <3> QED
        BY <3>2, <3>3 DEF SnapOK
    <2> QED
      BY <2>1, <2>2, <2>3 DEF SnapsOK
  <1>8. JobsOK'
    BY <1>1 DEF IInv, JobsOK
  <1> QED
    BY <1>2, <1>3, <1>4, <1>6, <1>7, <1>8

\* A step of someone who neither lists nor installs.
LEMMA WriteStep ==
    ASSUME IInv, Later, UNCHANGED <<limit, view, snap>>, now' \in Nat, now <= now', now' <= limit.time
    PROVE  TimeOK' /\ StoreOK' /\ ViewOK' /\ SnapsOK'
  <1>1. TimeOK'
    BY DEF IInv, TimeOK
  <1>2. ViewOK'
    BY ViewLater DEF IInv, TimeOK
  <1>3. SnapsOK'
    BY SnapsLater DEF IInv
  <1> QED
    BY <1>1, <1>2, <1>3 DEF Later

\* The call as it is, or as it goes on.
LEMMA CallKept == ASSUME IInv, Later, api' = api PROVE CallOK(api)'
  <1>1. PICK c : c = api
    OBVIOUS
  <1>2. CallOK(c)'
    BY <1>1, CallLater DEF IInv
  <1> QED
    BY <1>1, <1>2 DEF CallOK

\* The same of a call that is left in a state which is right.
LEMMA CallTurns ==
    ASSUME IInv, Later, NEW c, api' = c, CallOK(c)
    PROVE  CallOK(api)'
  <1>1. CallOK(c)'
    BY CallLater DEF IInv
  <1> QED
    BY <1>1 DEF CallOK

\* Where a Check goes.
LEMMA CheckTurns ==
    ASSUME IInv
    PROVE  /\ IdleCheck \in CheckState
           /\ \A pc \in {"idle", "install", "purge", "delete", "jobs", "decide", "publish"} :
                 [chk EXCEPT !.pc = pc] \in CheckState
  <1>1. chk = [pc |-> chk.pc, purge |-> chk.purge, purged |-> chk.purged, cands |-> chk.cands]
        /\ chk.purge \in SUBSET Jobs /\ chk.purged \in BOOLEAN /\ chk.cands \in SUBSET Jobs
    BY DEF IInv, CheckState
  <1> QED
    BY <1>1 DEF CheckState, IdleCheck

\* Where the applier goes.
LEMMA ApplierTurns ==
    ASSUME IInv
    PROVE  /\ IdleApplier \in ApplierState
           /\ \A pc \in {"idle", "install", "drain", "write"} :
                 /\ [ap EXCEPT !.pc = pc] \in ApplierState
                 /\ \A j \in Jobs \cup {None} : [ap EXCEPT !.pc = pc, !.job = j] \in ApplierState
  BY DEF IInv, ApplierState, IdleApplier

\* A call whose job is known goes on, without a token to put yet.
LEMMA CallGoesOn ==
    ASSUME IInv
    PROVE  /\ CallOK(IdleCall)
           /\ \A pc \in {"list", "install"}, retry \in BOOLEAN :
                 CallOK([api EXCEPT !.pc = pc, !.retry = retry])
           /\ \A pc \in {"reread", "reinstall", "retry"}, retry \in BOOLEAN :
                 api.job \in Jobs => CallOK([api EXCEPT !.pc = pc, !.retry = retry])
  <1>1. Never \in Expiries
    BY TimeAssumption DEF Expiries
  <1>2. IdleCall \in CallState
    BY <1>1 DEF IdleCall, CallState
  <1>3. api \in CallState
    BY DEF IInv, CallOK
  <1>4. \A pc \in {"reread", "reinstall", "retry", "list", "install"}, retry \in BOOLEAN :
           /\ [api EXCEPT !.pc = pc, !.retry = retry] \in CallState
           /\ [api EXCEPT !.pc = pc, !.retry = retry].pc = pc
           /\ [api EXCEPT !.pc = pc, !.retry = retry].job = api.job
    BY <1>3 DEF CallState
  <1>5. CallOK(IdleCall)
    BY <1>2 DEF CallOK, IdleCall
  <1>6. \A pc \in {"list", "install"}, retry \in BOOLEAN :
           CallOK([api EXCEPT !.pc = pc, !.retry = retry])
    BY <1>4 DEF CallOK
  <1>7. \A pc \in {"reread", "reinstall", "retry"}, retry \in BOOLEAN :
           api.job \in Jobs => CallOK([api EXCEPT !.pc = pc, !.retry = retry])
    <2> SUFFICES ASSUME NEW pc \in {"reread", "reinstall", "retry"}, NEW retry \in BOOLEAN,
                        api.job \in Jobs
                 PROVE  CallOK([api EXCEPT !.pc = pc, !.retry = retry])
      OBVIOUS
    <2> DEFINE c == [api EXCEPT !.pc = pc, !.retry = retry]
    <2>1. c \in CallState /\ c.pc = pc /\ c.job = api.job
      BY <1>3 DEF CallState
    <2> HIDE DEF c
    <2>2. CallOK(c)
      BY <2>1 DEF CallOK
    <2> QED
      BY <2>2 DEF c
  <1> QED
    BY <1>5, <1>6, <1>7

\* The Check's reads of the store.
LEMMA CheckReads ==
    ASSUME IInv, BeginCheck \/ CheckInstall \/ AfterPurge
    PROVE  IInv'
  <1>1. api' = api /\ ap' = ap
    BY DEF BeginCheck, CheckInstall, AfterPurge
  <1>2. ListFreezes("check") \/ Install("check")
    BY DEF BeginCheck, CheckInstall, AfterPurge
  <1>3. Later /\ TimeOK' /\ StoreOK' /\ ViewOK' /\ SnapsOK' /\ JobsOK'
    BY <1>2, ListStep, InstallStep DEF Processes
  <1>4. chk' \in CheckState
    BY CheckTurns DEF BeginCheck, CheckInstall, AfterPurge
  <1>5. CallOK(api)'
    BY <1>1, <1>3, CallKept
  <1>6. ap' \in ApplierState
    BY <1>1 DEF IInv
  <1> QED
    BY <1>3, <1>4, <1>5, <1>6 DEF IInv

\* The applier's.
LEMMA ApplierReads ==
    ASSUME IInv, BeginDrain \/ DrainInstall
    PROVE  IInv'
  <1>1. api' = api /\ chk' = chk
    BY DEF BeginDrain, DrainInstall
  <1>2. ListFreezes("applier") \/ Install("applier")
    BY DEF BeginDrain, DrainInstall
  <1>3. Later /\ TimeOK' /\ StoreOK' /\ ViewOK' /\ SnapsOK' /\ JobsOK'
    BY <1>2, ListStep, InstallStep DEF Processes
  <1>4. ap' \in ApplierState
    BY ApplierTurns DEF BeginDrain, DrainInstall
  <1>5. CallOK(api)'
    BY <1>1, <1>3, CallKept
  <1>6. chk' \in CheckState
    BY <1>1 DEF IInv
  <1> QED
    BY <1>3, <1>4, <1>5, <1>6 DEF IInv

\* And the call's.
LEMMA CallReads ==
    ASSUME IInv, Reread \/ ReInstall \/ CallList \/ CallReturns
    PROVE  IInv'
  <1>1. chk' = chk /\ ap' = ap
    BY DEF Reread, ReInstall, CallList, CallReturns
  <1>2. ListFreezes("api") \/ Install("api")
    BY DEF Reread, ReInstall, CallList, CallReturns
  <1>3. Later /\ TimeOK' /\ StoreOK' /\ ViewOK' /\ SnapsOK' /\ JobsOK'
    BY <1>2, ListStep, InstallStep DEF Processes
  <1>4. chk' \in CheckState /\ ap' \in ApplierState
    BY <1>1 DEF IInv
  <1>5. api \in CallState /\ api.retry \in BOOLEAN
        /\ (api.pc \in {"reread", "reinstall"} => api.job \in Jobs)
    BY DEF IInv, CallOK, CallState
  <1>6. \A pc : [api EXCEPT !.pc = pc] = [api EXCEPT !.pc = pc, !.retry = api.retry]
    BY <1>5 DEF CallState
  <1>7. PICK c : c = api' /\ CallOK(c)
    <2>1. CASE Reread
      BY <2>1, <1>5, <1>6, CallGoesOn DEF Reread
    <2>2. CASE ReInstall
      BY <2>2, <1>5, CallGoesOn DEF ReInstall
    <2>3. CASE CallList
      BY <2>3, <1>5, <1>6, CallGoesOn DEF CallList
    <2>4. CASE CallReturns
      BY <2>4, CallGoesOn DEF CallReturns
    <2> QED
      BY <2>1, <2>2, <2>3, <2>4
  <1>8. CallOK(api)'
    BY <1>3, <1>7, CallTurns
  <1> QED
    BY <1>3, <1>4, <1>8 DEF IInv

\* The rest of a Check.
LEMMA CheckSteps ==
    ASSUME IInv, PickPurge \/ PurgeOne \/ ListJobs \/ Decide \/ Publish
    PROVE  IInv'
  <1>1. /\ UNCHANGED <<limit, view, snap, need>> /\ now' = now /\ api' = api /\ ap' = ap
        /\ now \in Nat /\ now <= limit.time
    BY DEF IInv, TimeOK, PickPurge, PurgeOne, ListJobs, Decide, Publish, time, freeze, nomad
  <1>2. chk \in CheckState /\ chk.purge \subseteq Jobs /\ chk.cands \subseteq Jobs
    BY DEF IInv, CheckState
  <1>3. Later
    <2>1. CASE PurgeOne
      <3>1. PICK j \in Jobs : Remove(j)
        BY <1>2, <2>1 DEF PurgeOne
      <3>2. Slug[j] \in Paths
        BY SlugAssumption
      <3> QED
        BY <3>1, <3>2, RemoveLater DEF Remove, IInv
    <2>2. CASE PickPurge \/ ListJobs \/ Decide \/ Publish
      <3>1. UNCHANGED <<store, writes>>
        BY <2>2 DEF PickPurge, ListJobs, Decide, Publish, freeze
      <3> QED
        BY <3>1, SameStore DEF IInv
    <2> QED
      BY <2>1, <2>2
  <1>4. TimeOK' /\ StoreOK' /\ ViewOK' /\ SnapsOK'
    <2>1. now' \in Nat /\ now <= now' /\ now' <= limit.time
      BY <1>1
    <2> QED
      BY <1>1, <1>3, <2>1, WriteStep
  <1>5. CallOK(api)' /\ ap' \in ApplierState
    BY <1>1, <1>3, CallKept DEF IInv
  <1>6. JobsOK'
    BY <1>1, <1>2 DEF IInv, JobsOK, PickPurge, PurgeOne, ListJobs, Decide, Publish
  <1>7. chk' \in CheckState
    <2>1. CASE PickPurge
      <3> DEFINE old == {r \in view.recs : Retention > 0 /\ ~InForce(r, view.read) /\ now >= r.exp + Retention}
      <3>1. {r.job : r \in old} \subseteq Jobs
        BY DEF IInv, ViewOK, ReadAt, Record
      <3>2. chk' = [chk EXCEPT !.pc = IF old = {} THEN "jobs" ELSE "delete",
                               !.purge = {r.job : r \in old}]
        BY <2>1 DEF PickPurge
      <3> HIDE DEF old
      <3> QED
        BY <1>2, <3>1, <3>2 DEF CheckState
    <2>2. CASE PurgeOne
      BY <1>2, <2>2 DEF PurgeOne, CheckState
    <2>3. CASE ListJobs
      BY <2>3, CheckTurns DEF ListJobs
    <2>4. CASE Decide
      <3>1. {j \in need : ~FreezeBlocks(j)} \subseteq Jobs
        BY DEF IInv, JobsOK
      <3> QED
        BY <1>2, <2>4, <3>1 DEF Decide, CheckState
    <2>5. CASE Publish
      BY <2>5, CheckTurns DEF Publish
    <2> QED
      BY <2>1, <2>2, <2>3, <2>4, <2>5
  <1> QED
    BY <1>4, <1>5, <1>6, <1>7 DEF IInv

\* The rest of a drain.
LEMMA ApplierSteps ==
    ASSUME IInv, EndDrain \/ Write \/ \E j \in Jobs : GateHolds(j) \/ GatePasses(j)
    PROVE  IInv'
  <1>1. /\ UNCHANGED <<limit, view, snap, store, writes>> /\ now' = now /\ api' = api /\ chk' = chk
        /\ now \in Nat /\ now <= limit.time
    BY DEF IInv, TimeOK, EndDrain, Write, GateHolds, GatePasses, Take, time, freeze, nomad
  <1>2. Later
    BY <1>1, SameStore DEF IInv
  <1>3. TimeOK' /\ StoreOK' /\ ViewOK' /\ SnapsOK'
    <2>1. now' \in Nat /\ now <= now' /\ now' <= limit.time
      BY <1>1
    <2> QED
      BY <1>1, <1>2, <2>1, WriteStep
  <1>4. CallOK(api)' /\ chk' \in CheckState
    BY <1>1, <1>2, CallKept DEF IInv
  <1>5. JobsOK'
    BY DEF IInv, JobsOK, EndDrain, Write, GateHolds, GatePasses, Take, nomad
  <1>6. ap' \in ApplierState
    BY ApplierTurns DEF IInv, EndDrain, Write, GateHolds, GatePasses
  <1> QED
    BY <1>3, <1>4, <1>5, <1>6 DEF IInv

\* KnownIndex is 0, or the index of a record that the view's read returned.
LEMMA KnownFromView ==
    ASSUME IInv, NEW j \in Jobs
    PROVE  /\ KnownIndex(j) \in Nat /\ KnownIndex(j) <= view.at
           /\ Blind(j) \in BOOLEAN /\ view.at \in Nat /\ view.at <= writes
  <1>1. ReadAt(view.recs, view.at) /\ view.at \in Nat /\ view.at <= writes
    BY DEF IInv, ViewOK, ReadAt
  <1>2. KnownIndex(j) \in Nat /\ KnownIndex(j) <= view.at
    <2>1. CASE \E r \in view.recs : r.job = j
      <3> DEFINE r == CHOOSE r \in view.recs : r.job = j
      <3>1. r \in view.recs
        BY <2>1
      <3>2. KnownIndex(j) = r.idx
        BY <2>1 DEF KnownIndex
      <3> HIDE DEF r
      <3> QED
        BY <1>1, <3>1, <3>2 DEF ReadAt, Record
    <2>2. CASE ~\E r \in view.recs : r.job = j
      BY <1>1, <2>2 DEF KnownIndex
    <2> QED
      BY <2>1, <2>2
  <1> QED
    BY <1>1, <1>2 DEF Blind

\* FreezeJob and ThawJob begin, and FreezeJob tries again.
LEMMA CallSteps ==
    ASSUME IInv,
           \/ RetryPut
           \/ \E j \in Jobs : CallThaw(j) \/ \E exp \in Expiries : CallFreeze(j, exp)
    PROVE  IInv'
  <1>1. /\ UNCHANGED <<limit, view, snap, need, pend>> /\ now' = now /\ chk' = chk /\ ap' = ap
        /\ now \in Nat /\ now <= limit.time
    BY DEF IInv, TimeOK, RetryPut, CallThaw, CallFreeze, time, freeze, nomad
  <1>2. api \in CallState /\ (api.pc = "retry" => api.job \in Jobs)
    BY DEF IInv, CallOK
  <1>3. Later
    <2>1. CASE \E j \in Jobs : CallThaw(j)
      <3>1. PICK j \in Jobs : Remove(j)
        BY <2>1 DEF CallThaw
      <3>2. Slug[j] \in Paths
        BY SlugAssumption
      <3> QED
        BY <3>1, <3>2, RemoveLater DEF Remove, IInv
    <2>2. CASE RetryPut \/ \E j \in Jobs, exp \in Expiries : CallFreeze(j, exp)
      <3>1. UNCHANGED <<store, writes>>
        BY <2>2 DEF RetryPut, CallFreeze, freeze
      <3> QED
        BY <3>1, SameStore DEF IInv
    <2> QED
      BY <2>1, <2>2
  <1>4. TimeOK' /\ StoreOK' /\ ViewOK' /\ SnapsOK'
    <2>1. now' \in Nat /\ now <= now' /\ now' <= limit.time
      BY <1>1
    <2> QED
      BY <1>1, <1>3, <2>1, WriteStep
  <1>5. PICK c : c = api' /\ CallOK(c)
    <2>1. CASE RetryPut
      <3>1. PICK token, at, blind :
               token = KnownIndex(api.job) /\ at = view.at /\ blind = Blind(api.job)
        OBVIOUS
      <3>2. token \in Nat /\ token <= at /\ at \in Nat /\ at <= writes /\ blind \in BOOLEAN
        BY <1>2, <2>1, <3>1, KnownFromView DEF RetryPut
      <3> DEFINE c == [api EXCEPT !.pc = "put", !.token = token, !.at = at, !.blind = blind]
      <3>3. c \in CallState /\ c.pc = "put" /\ c.job = api.job /\ c.token = token /\ c.at = at
        BY <1>2, <3>2 DEF CallState
      <3>4. api' = c
        BY <2>1, <3>1 DEF RetryPut
      <3> HIDE DEF c
      <3>5. CallOK(c)
        BY <1>2, <2>1, <3>2, <3>3 DEF CallOK, RetryPut
      <3> QED
        BY <3>4, <3>5
    <2>2. CASE \E j \in Jobs, exp \in Expiries : CallFreeze(j, exp)
      <3>1. PICK j \in Jobs, exp \in Expiries : CallFreeze(j, exp)
        BY <2>2
      <3>2. PICK token, at, blind :
               token = KnownIndex(j) /\ at = view.at /\ blind = Blind(j)
        OBVIOUS
      <3>3. token \in Nat /\ token <= at /\ at \in Nat /\ at <= writes /\ blind \in BOOLEAN
        BY <3>2, KnownFromView
      <3> DEFINE c == [pc |-> "put", job |-> j, exp |-> exp, retry |-> FALSE,
                       token |-> token, at |-> at, blind |-> blind]
      <3>4. c \in CallState /\ c.pc = "put" /\ c.job = j /\ c.token = token /\ c.at = at
        BY <3>3 DEF CallState
      <3>5. api' = c
        BY <3>1, <3>2 DEF CallFreeze
      <3> HIDE DEF c
      <3>6. CallOK(c)
        BY <3>3, <3>4 DEF CallOK
      <3> QED
        BY <3>5, <3>6
    <2>3. CASE \E j \in Jobs : CallThaw(j)
      <3>1. PICK j \in Jobs : api' = [IdleCall EXCEPT !.pc = "list", !.job = j]
        BY <2>3 DEF CallThaw
      <3> DEFINE c == [pc |-> "list", job |-> j, exp |-> Never, retry |-> FALSE,
                       token |-> 0, at |-> 0, blind |-> FALSE]
      <3>2. api' = c
        BY <3>1 DEF IdleCall
      <3>3. c \in CallState
        BY TimeAssumption DEF CallState, Expiries
      <3>4. CallOK(c)
        BY <3>3 DEF CallOK
      <3> QED
        BY <3>2, <3>4
    <2> QED
      BY <2>1, <2>2, <2>3
  <1>6. CallOK(api)'
    BY <1>3, <1>5, CallTurns
  <1>7. JobsOK' /\ chk' \in CheckState /\ ap' \in ApplierState
    BY <1>1 DEF IInv, JobsOK
  <1> QED
    BY <1>4, <1>6, <1>7 DEF IInv

\* Put, with whatever answer.
LEMMA PutStep == ASSUME IInv, Put PROVE IInv'
  <1>1. /\ UNCHANGED <<limit, view, snap, need, pend>> /\ now' = now /\ chk' = chk /\ ap' = ap
        /\ now \in Nat /\ now <= limit.time
    BY DEF IInv, TimeOK, Put, time, nomad
  <1>2. api \in CallState /\ api.job \in Jobs /\ api.exp \in Expiries /\ api.retry \in BOOLEAN
    BY DEF IInv, CallOK, CallState, Put
  <1>3. Later
    <2>1. CASE Matches(store[Slug[api.job]], api.token)
      <3>1. PICK j \in Jobs, exp \in Expiries : j = api.job /\ exp = api.exp
        BY <1>2
      <3> QED
        BY <2>1, <3>1, PutLater DEF Put, IInv
    <2>2. CASE ~Matches(store[Slug[api.job]], api.token)
      <3>1. UNCHANGED <<store, writes>>
        BY <2>2 DEF Put
      <3> QED
        BY <3>1, SameStore DEF IInv
    <2> QED
      BY <2>1, <2>2
  <1>4. TimeOK' /\ StoreOK' /\ ViewOK' /\ SnapsOK'
    <2>1. now' \in Nat /\ now <= now' /\ now' <= limit.time
      BY <1>1
    <2> QED
      BY <1>1, <1>3, <2>1, WriteStep
  <1>5. \/ api' = [api EXCEPT !.pc = "list", !.retry = TRUE]
        \/ api' = IdleCall
        \/ api' = [api EXCEPT !.pc = "reread"]
    BY DEF Put
  <1>6. [api EXCEPT !.pc = "reread"] = [api EXCEPT !.pc = "reread", !.retry = api.retry]
    BY <1>2 DEF CallState
  <1>7. PICK c : c = api' /\ CallOK(c)
    BY <1>2, <1>5, <1>6, CallGoesOn
  <1>8. CallOK(api)'
    BY <1>3, <1>7, CallTurns
  <1>9. JobsOK' /\ chk' \in CheckState /\ ap' \in ApplierState
    BY <1>1 DEF IInv, JobsOK
  <1> QED
    BY <1>4, <1>8, <1>9 DEF IInv

\* Everyone else.
LEMMA OutsideSteps ==
    ASSUME IInv,
           \/ StatusWrite \/ Tick \/ \E p \in Paths : VarPurge(p)
           \/ \E j \in Jobs : Drift(j) \/ \E exp \in Expiries : VarPut(j, exp)
    PROVE  IInv'
  <1>1. /\ UNCHANGED <<limit, view, snap, pend>> /\ chk' = chk /\ ap' = ap /\ api' = api
        /\ now \in Nat /\ now <= limit.time /\ limit.time \in Nat
    BY DEF IInv, TimeOK, StatusWrite, Tick, VarPurge, Drift, VarPut, time, freeze, nomad
  <1>2. Later
    <2>1. CASE \E j \in Jobs, exp \in Expiries : VarPut(j, exp)
      BY <2>1, PutLater DEF VarPut, IInv
    <2>2. CASE \E p \in Paths : VarPurge(p)
      BY <2>2, RemoveLater DEF VarPurge, IInv
    <2>3. CASE StatusWrite \/ Tick \/ \E j \in Jobs : Drift(j)
      <3>1. UNCHANGED <<store, writes>>
        BY <2>3 DEF StatusWrite, Tick, Drift, freeze
      <3> QED
        BY <3>1, SameStore DEF IInv
    <2> QED
      BY <2>1, <2>2, <2>3
  <1>3. now' = now \/ (now' = now + 1 /\ now < limit.time)
    BY DEF StatusWrite, Tick, VarPurge, Drift, VarPut, time
  <1>4. now' \in Nat /\ now <= now' /\ now' <= limit.time
    BY <1>1, <1>3
  <1>5. TimeOK' /\ StoreOK' /\ ViewOK' /\ SnapsOK'
    BY <1>1, <1>2, <1>4, WriteStep
  <1>6. CallOK(api)'
    BY <1>1, <1>2, CallKept
  <1>7. JobsOK'
    BY DEF IInv, JobsOK, StatusWrite, Tick, VarPurge, Drift, VarPut, nomad
  <1>8. chk' \in CheckState /\ ap' \in ApplierState
    BY <1>1 DEF IInv
  <1> QED
    BY <1>5, <1>6, <1>7, <1>8 DEF IInv

-----------------------------------------------------------------------------
(* The invariant.                                                          *)

\* Nothing is stored, nothing is read.
LEMMA InitIInv == Init => IInv
  <1> SUFFICES ASSUME Init PROVE IInv
    OBVIOUS
  <1>1. TimeOK
    <2>1. limit.time \in 0 .. Never - 1 /\ Never \in Nat
      BY TimeAssumption DEF Init
    <2> QED
      BY <2>1 DEF Init, TimeOK
  <1>2. Stored = {} /\ DOMAIN store = Paths
    BY DEF Init, Stored
  <1>3. StoreOK
    BY <1>2 DEF Init, StoreOK
  <1>4. ViewOK
    BY DEF Init, ViewOK, ReadAt
  <1>5. SnapsOK
    BY DEF Init, SnapsOK, SnapOK
  <1>6. api = [pc |-> "idle", job |-> None, exp |-> Never, retry |-> FALSE,
                token |-> 0, at |-> 0, blind |-> FALSE]
    BY DEF Init, IdleCall
  <1>7. api \in CallState /\ api.pc = "idle"
    BY <1>6, TimeAssumption DEF CallState, Expiries
  <1>8. CallOK(api)
    BY <1>7 DEF CallOK
  <1>9. chk \in CheckState /\ ap \in ApplierState
    BY DEF Init, IdleCheck, CheckState, IdleApplier, ApplierState
  <1>10. JobsOK
    BY DEF Init, JobsOK
  <1> QED
    BY <1>1, <1>3, <1>4, <1>5, <1>8, <1>9, <1>10 DEF IInv

\* Every action keeps it.
LEMMA NextIInv == IInv /\ [Next]_vars => IInv'
  <1> SUFFICES ASSUME IInv, [Next]_vars PROVE IInv'
    OBVIOUS
  <1>1. CASE CheckStep
    BY <1>1, CheckReads, CheckSteps DEF CheckStep
  <1>2. CASE ApplierStep
    BY <1>2, ApplierReads, ApplierSteps DEF ApplierStep
  <1>3. CASE CallStep
    BY <1>3, CallReads, CallSteps, PutStep DEF CallStep
  <1>4. ASSUME NEW j \in Jobs, NEW exp \in (now + 1) .. limit.time \cup {Never},
               CallFreeze(j, exp) \/ VarPut(j, exp)
        PROVE  IInv'
    <2>1. limit.time \in Nat /\ limit.time < Never /\ Never \in Nat /\ now \in Nat
      BY TimeAssumption DEF IInv, TimeOK
    <2>2. exp \in Expiries
      BY <2>1 DEF Expiries
    <2> QED
      BY <1>4, <2>2, CallSteps, OutsideSteps
  <1>5. CASE \E j \in Jobs : CallThaw(j) \/ Drift(j)
    BY <1>5, CallSteps, OutsideSteps
  <1>6. CASE StatusWrite \/ Tick \/ \E p \in Paths : VarPurge(p)
    BY <1>6, OutsideSteps
  <1>7. CASE UNCHANGED vars
    <2>1. /\ UNCHANGED <<limit, view, snap, store, writes, need, pend>> /\ now' = now
          /\ chk' = chk /\ ap' = ap /\ api' = api /\ now \in Nat /\ now <= limit.time
      BY <1>7 DEF IInv, TimeOK, vars, time, freeze, nomad
    <2>2. Later
      BY <2>1, SameStore DEF IInv
    <2>3. now' \in Nat /\ now <= now' /\ now' <= limit.time
      BY <2>1
    <2>4. TimeOK' /\ StoreOK' /\ ViewOK' /\ SnapsOK'
      BY <2>1, <2>2, <2>3, WriteStep
    <2>5. CallOK(api)'
      BY <2>1, <2>2, CallKept
    <2>6. JobsOK' /\ chk' \in CheckState /\ ap' \in ApplierState
      BY <2>1 DEF IInv, JobsOK
    <2> QED
      BY <2>4, <2>5, <2>6 DEF IInv
  <1> QED
    BY <1>1, <1>2, <1>3, <1>4, <1>5, <1>6, <1>7 DEF Next

\* So it holds throughout.
LEMMA InvariantIInv == Spec => []IInv
  BY InitIInv, NextIInv, PTL DEF Spec

\* The types: records sit at their jobs' paths, no view is of a later write or
\* time, and every goroutine speaks of jobs.
THEOREM TypeCorrect == Spec => []TypeOK
  <1>1. IInv => TypeOK
    <2> SUFFICES ASSUME IInv PROVE TypeOK
      OBVIOUS
    <2>1. now \in 0 .. limit.time
      BY DEF IInv, TimeOK
    <2>2. \A p \in Paths : store[p] = None \/ (store[p] \in Record /\ store[p].idx <= writes
                                               /\ Slug[store[p].job] = p)
      BY DEF IInv, StoreOK, Stored
    <2>3. view.recs \subseteq Record /\ view.held \subseteq Jobs
          /\ view.at <= writes /\ view.read <= now
      BY DEF IInv, ViewOK, ReadAt
    <2>4. ap.job \in Jobs \cup {None} /\ api.job \in Jobs \cup {None}
      BY DEF IInv, ApplierState, CallOK, CallState
    <2> QED
      BY <2>1, <2>2, <2>3, <2>4 DEF TypeOK, IInv, JobsOK
  <1> QED
    BY <1>1, InvariantIInv, PTL

-----------------------------------------------------------------------------
(* The gate.                                                               *)

\* A read misses less as the store moves on.
LEMMA CoversLater ==
    ASSUME StoreOK, Later
    PROVE  \A recs, at : ReadAt(recs, at) /\ Covers(recs, at) => Covers(recs, at)'
  <1> SUFFICES ASSUME NEW recs, NEW at, ReadAt(recs, at), Covers(recs, at),
                      NEW p \in Stored', store'[p].idx <= at
               PROVE  /\ \E r \in recs : r.job = store'[p].job /\ r.exp >= store'[p].exp
                      /\ \A r \in recs : r.job = store'[p].job => r.idx \in {0, store'[p].idx}
    BY DEF Covers
  <1>1. at \in Nat /\ at <= writes /\ writes \in Nat
    BY DEF ReadAt, StoreOK
  <1>2. store'[p].idx \in Nat
    BY DEF Later, StoreOK, Record
  <1>3. p \in Stored /\ store'[p] = store[p]
    BY <1>1, <1>2 DEF Later
  <1> QED
    BY <1>3 DEF Covers

\* So does a listing,
LEMMA SnapCoversLater ==
    ASSUME StoreOK, Later
    PROVE  \A s : SnapOK(s) /\ SnapCovers(s) => SnapCovers(s)'
  BY CoversLater DEF SnapOK, SnapCovers

\* and what the view holds: a freeze that expires needs no holding.
LEMMA ViewHoldsLater ==
    ASSUME IInv, ViewHolds, Later, view' = view, now' \in Nat, now <= now'
    PROVE  ViewHolds'
  <1> SUFFICES ASSUME NEW p \in Stored', store'[p].idx <= view.at, store'[p].exp > now'
               PROVE  store'[p].job \in view.held
    BY DEF ViewHolds, Holds
  <1>1. view.at \in Nat /\ view.at <= writes /\ writes \in Nat /\ now \in Nat
    BY DEF IInv, ViewOK, ReadAt, StoreOK, TimeOK
  <1>2. store'[p].idx \in Nat /\ store'[p].exp \in Nat
    BY TimeAssumption DEF Later, StoreOK, Record, Expiries
  <1>3. p \in Stored /\ store'[p] = store[p]
    BY <1>1, <1>2 DEF Later, IInv
  <1>4. store[p].exp > now
    BY <1>1, <1>2, <1>3
  <1> QED
    BY <1>3, <1>4 DEF ViewHolds, Holds

\* The view as it is, while others write.
LEMMA ViewCoversLater ==
    ASSUME IInv, Covered, Later, view' = view, now' \in Nat, now <= now'
    PROVE  ViewHolds' /\ Covers(view.recs, view.at)'
  <1>1. PICK recs, at : recs = view.recs /\ at = view.at
    OBVIOUS
  <1>2. Covers(recs, at)'
    BY <1>1, CoversLater DEF Covered, IInv, ViewOK
  <1>3. Covers(view.recs, view.at)'
    BY <1>1, <1>2 DEF Covers
  <1> QED
    BY <1>3, ViewHoldsLater DEF Covered

\* What is listed covers the store it is taken from, unreadable records too.
LEMMA ListedCovers ==
    ASSUME PathSafe, StoreOK, NEW S \in SUBSET Paths,
           NEW recs, recs = {IF p \in S THEN Unreadable(p) ELSE store[p] : p \in Stored}
    PROVE  Covers(recs, writes)
  <1> SUFFICES ASSUME NEW p \in Stored
               PROVE  /\ \E r \in recs : r.job = store[p].job /\ r.exp >= store[p].exp
                      /\ \A r \in recs : r.job = store[p].job => r.idx \in {0, store[p].idx}
    BY DEF Covers
  <1>1. /\ store[p].job \in Jobs /\ Slug[store[p].job] = p
        /\ store[p].exp \in Nat /\ store[p].exp <= Never
    BY TimeAssumption DEF StoreOK, Record, Expiries
  <1>2. Own[p] = store[p].job
    BY <1>1 DEF PathSafe
  <1>3. /\ Unreadable(p).job = store[p].job /\ Unreadable(p).exp >= store[p].exp
        /\ store[p].exp >= store[p].exp
    BY <1>1, <1>2, TimeAssumption DEF Unreadable
  <1>4. \E r \in recs : r.job = store[p].job /\ r.exp >= store[p].exp
    BY <1>3
  <1>5. ASSUME NEW r \in recs, r.job = store[p].job
        PROVE  r.idx \in {0, store[p].idx}
    <2>1. PICK q \in Stored : r = IF q \in S THEN Unreadable(q) ELSE store[q]
      OBVIOUS
    <2>2. CASE q \in S
      BY <2>1, <2>2 DEF Unreadable
    <2>3. CASE q \notin S
      <3>1. Slug[store[q].job] = q
        BY DEF StoreOK
      <3> QED
        BY <1>1, <1>5, <2>1, <2>3, <3>1
    <2> QED
      BY <2>2, <2>3
  <1> QED
    BY <1>4, <1>5

\* So every listing does.
LEMMA ListCovers ==
    ASSUME PathSafe, IInv, Covered, NEW k \in Processes, ListFreezes(k)
    PROVE  Covered'
  <1>1. UNCHANGED <<time, store, writes, view>> /\ now \in Nat /\ now' = now
    BY DEF ListFreezes, IInv, TimeOK, time
  <1>2. Later
    BY <1>1, SameStore DEF IInv
  <1>3. ViewHolds' /\ Covers(view.recs, view.at)'
    BY <1>1, <1>2, ViewCoversLater
  <1>4. PICK s : snap' = [snap EXCEPT ![k] = s] /\ SnapCovers(s)
    <2>1. CASE snap' = [snap EXCEPT ![k] =
                         [ok |-> TRUE, recs |-> {store[p] : p \in Stored}, at |-> writes]]
      <3> DEFINE recs == {store[p] : p \in Stored}
                 s == [ok |-> TRUE, recs |-> recs, at |-> writes]
      <3>1. recs = {IF p \in {} THEN Unreadable(p) ELSE store[p] : p \in Stored}
        OBVIOUS
      <3>2. snap' = [snap EXCEPT ![k] = s] /\ s.recs = recs /\ s.at = writes
        BY <2>1
      <3>3. {} \in SUBSET Paths
        OBVIOUS
      <3> HIDE DEF recs, s
      <3>4. Covers(recs, writes)
        BY <3>1, <3>3, ListedCovers DEF IInv
      <3> QED
        BY <3>2, <3>4 DEF SnapCovers
    <2>2. ASSUME NEW lost \in Stored,
                 snap' = [snap EXCEPT ![k] =
                     [ok |-> TRUE, at |-> writes,
                      recs |-> {IF p = lost THEN Unreadable(p) ELSE store[p] : p \in Stored}]]
          PROVE  \E s : snap' = [snap EXCEPT ![k] = s] /\ SnapCovers(s)
      <3> DEFINE recs == {IF p = lost THEN Unreadable(p) ELSE store[p] : p \in Stored}
                 s == [ok |-> TRUE, at |-> writes, recs |-> recs]
      <3>1. recs = {IF p \in {lost} THEN Unreadable(p) ELSE store[p] : p \in Stored}
        OBVIOUS
      <3>2. snap' = [snap EXCEPT ![k] = s] /\ s.recs = recs /\ s.at = writes
        BY <2>2
      <3>3. {lost} \in SUBSET Paths
        BY DEF Stored
      <3> HIDE DEF recs, s
      <3>4. Covers(recs, writes)
        BY <3>1, <3>3, ListedCovers DEF IInv
      <3> QED
        BY <3>2, <3>4 DEF SnapCovers
    <2>3. CASE snap' = [snap EXCEPT ![k] = [ok |-> FALSE, recs |-> {}, at |-> writes]]
      <3> DEFINE s == [ok |-> FALSE, recs |-> {}, at |-> writes]
      <3>1. snap' = [snap EXCEPT ![k] = s] /\ ~s.ok
        BY <2>3
      <3> HIDE DEF s
      <3> QED
        BY <3>1 DEF SnapCovers
    <2> QED
      BY <2>1, <2>2, <2>3 DEF ListFreezes
  <1>5. SnapCovers(s)'
    BY <1>1, <1>4 DEF SnapCovers, Covers, Stored
  <1>6. PICK new : new = snap'
    OBVIOUS
  <1>7. \A q \in Processes : SnapCovers(new[q])'
    <2> SUFFICES ASSUME NEW q \in Processes
                 PROVE  SnapCovers(new[q])'
      OBVIOUS
    <2>1. PICK t : t = snap[q]
      OBVIOUS
    <2>2. SnapCovers(t)'
      BY <1>1, <2>1 DEF Covered, SnapCovers, Covers, Stored
    <2>3. new[q] = IF q = k THEN s ELSE t
      BY <1>4, <1>6, <2>1 DEF IInv, SnapsOK
    <2> QED
      BY <1>5, <2>2, <2>3
  <1> QED
    BY <1>3, <1>6, <1>7 DEF Covered

\* Installed, a listing holds the jobs of what is in force, as the view did.
LEMMA InstallCovers ==
    ASSUME IInv, Covered, NEW k \in Processes, Install(k)
    PROVE  Covered'
  <1>1. UNCHANGED <<time, store, writes>> /\ now \in Nat /\ now' = now /\ snap[k] # None
    BY DEF Install, IInv, TimeOK, time
  <1>2. Later
    BY <1>1, SameStore DEF IInv
  <1>3. ViewHolds' /\ Covers(view.recs, view.at)'
    <2>1. CASE ~snap[k].ok
      <3>1. view' = view
        BY <2>1 DEF Install
      <3> QED
        BY <1>1, <1>2, <3>1, ViewCoversLater
    <2>2. CASE snap[k].ok
      <3>1. Covers(snap[k].recs, snap[k].at) /\ snap[k].recs \subseteq Record
        BY <1>1, <2>2 DEF Covered, SnapCovers, IInv, SnapsOK, SnapOK, ReadAt
      <3>2. /\ view'.at = snap[k].at /\ view'.recs = snap[k].recs
            /\ view'.held = {r.job : r \in {r \in snap[k].recs : InForce(r, now)}}
        BY <2>2 DEF Install
      <3>3. ASSUME NEW p \in Stored, store[p].idx <= snap[k].at, store[p].exp > now
            PROVE  store[p].job \in view'.held
        <4>1. PICK r \in snap[k].recs : r.job = store[p].job /\ r.exp >= store[p].exp
          BY <3>1, <3>3 DEF Covers
        <4>2. r.exp \in Nat /\ store[p].exp \in Nat
          BY <3>1, TimeAssumption DEF IInv, StoreOK, Record, Expiries
        <4>3. InForce(r, now)
          BY <1>1, <3>3, <4>1, <4>2 DEF InForce
        <4> QED
          BY <3>2, <4>1, <4>3
      <3>4. ViewHolds'
        BY <1>1, <3>2, <3>3 DEF ViewHolds, Holds, Stored
      <3> QED
        BY <1>1, <3>1, <3>2, <3>4 DEF Covers, Stored
    <2> QED
      BY <2>1, <2>2
  <1>4. \A q \in Processes : snap'[q] = None \/ snap'[q] = snap[q]
    BY DEF Install, IInv, SnapsOK
  <1>5. PICK new : new = snap'
    OBVIOUS
  <1>6. \A q \in Processes : SnapCovers(new[q])'
    <2> SUFFICES ASSUME NEW q \in Processes
                 PROVE  SnapCovers(new[q])'
      OBVIOUS
    <2>1. PICK t : t = snap[q]
      OBVIOUS
    <2>2. SnapCovers(t)'
      BY <1>1, <2>1 DEF Covered, SnapCovers, Covers, Stored
    <2>3. new[q] = None \/ new[q] = t
      BY <1>4, <1>5, <2>1
    <2> QED
      BY <2>2, <2>3 DEF SnapCovers
  <1> QED
    BY <1>3, <1>5, <1>6 DEF Covered

\* Others write, and time passes.
LEMMA OthersCover ==
    ASSUME IInv, Covered, Later, UNCHANGED <<view, snap>>, now' \in Nat, now <= now'
    PROVE  Covered'
  <1>1. ViewHolds' /\ Covers(view.recs, view.at)'
    BY ViewCoversLater
  <1>2. PICK new : new = snap'
    OBVIOUS
  <1>3. \A q \in Processes : SnapCovers(new[q])'
    <2> SUFFICES ASSUME NEW q \in Processes
                 PROVE  SnapCovers(new[q])'
      OBVIOUS
    <2>1. PICK t : t = snap[q]
      OBVIOUS
    <2>2. SnapCovers(t)'
      BY <2>1, SnapCoversLater DEF Covered, IInv, SnapsOK
    <2> QED
      BY <1>2, <2>1, <2>2
  <1> QED
    BY <1>1, <1>2, <1>3 DEF Covered

\* What a step that neither lists nor installs does to the store and the clock.
LEMMA OthersLater ==
    ASSUME IInv, [Next]_vars,
           \A k \in Processes : ~ListFreezes(k) /\ ~Install(k)
    PROVE  Later /\ UNCHANGED <<view, snap>> /\ now' \in Nat /\ now <= now'
  <1>1. now \in Nat
    BY DEF IInv, TimeOK
  <1>2. CASE PurgeOne
    <2>1. PICK j \in Jobs : Remove(j)
      BY <1>2 DEF PurgeOne, IInv, CheckState
    <2>2. Slug[j] \in Paths
      BY SlugAssumption
    <2>3. Later
      BY <2>1, <2>2, RemoveLater DEF Remove, IInv
    <2> QED
      BY <1>1, <1>2, <2>3 DEF PurgeOne, time
  <1>3. CASE Put
    <2>1. PICK j \in Jobs, exp \in Expiries : j = api.job /\ exp = api.exp
      BY <1>3 DEF Put, IInv, CallOK, CallState
    <2>2. Later
      <3>1. CASE Matches(store[Slug[api.job]], api.token)
        BY <1>3, <2>1, <3>1, PutLater DEF Put, IInv
      <3>2. CASE ~Matches(store[Slug[api.job]], api.token)
        BY <1>3, <3>2, SameStore DEF Put, IInv
      <3> QED
        BY <3>1, <3>2
    <2> QED
      BY <1>1, <1>3, <2>2 DEF Put, time
  <1>4. ASSUME NEW j \in Jobs, CallThaw(j)
        PROVE  Later /\ UNCHANGED <<view, snap>> /\ now' \in Nat /\ now <= now'
    <2>1. Slug[j] \in Paths
      BY SlugAssumption
    <2>2. Later
      BY <1>4, <2>1, RemoveLater DEF CallThaw, Remove, IInv
    <2> QED
      BY <1>1, <1>4, <2>2 DEF CallThaw, time
  <1>5. ASSUME NEW j \in Jobs, NEW exp \in (now + 1) .. limit.time \cup {Never}, VarPut(j, exp)
        PROVE  Later /\ UNCHANGED <<view, snap>> /\ now' \in Nat /\ now <= now'
    <2>1. exp \in Expiries
      <3>1. limit.time \in Nat /\ limit.time < Never /\ Never \in Nat
        BY TimeAssumption DEF IInv, TimeOK
      <3> QED
        BY <1>1, <3>1 DEF Expiries
    <2>2. Later
      BY <1>5, <2>1, PutLater DEF VarPut, IInv
    <2> QED
      BY <1>1, <1>5, <2>2 DEF VarPut, time
  <1>6. ASSUME NEW p \in Paths, VarPurge(p)
        PROVE  Later /\ UNCHANGED <<view, snap>> /\ now' \in Nat /\ now <= now'
    <2>1. Later
      BY <1>6, RemoveLater DEF VarPurge, IInv
    <2> QED
      BY <1>1, <1>6, <2>1 DEF VarPurge, time
  <1>7. ASSUME \/ PickPurge \/ ListJobs \/ Decide \/ Publish \/ EndDrain \/ Write \/ RetryPut
               \/ StatusWrite \/ Tick \/ UNCHANGED vars
               \/ \E j \in Jobs : GateHolds(j) \/ GatePasses(j) \/ Drift(j) \/ \E exp : CallFreeze(j, exp)
        PROVE  Later /\ UNCHANGED <<view, snap>> /\ now' \in Nat /\ now <= now'
    <2>1. UNCHANGED <<store, writes, view, snap>>
      BY <1>7 DEF PickPurge, ListJobs, Decide, Publish, EndDrain, Write, RetryPut, StatusWrite, Tick,
         GateHolds, GatePasses, Take, Drift, CallFreeze, vars, freeze
    <2>2. now' = now \/ now' = now + 1
      BY <1>7 DEF PickPurge, ListJobs, Decide, Publish, EndDrain, Write, RetryPut, StatusWrite, Tick,
         GateHolds, GatePasses, Take, Drift, CallFreeze, vars, time
    <2>3. Later
      BY <2>1, SameStore DEF IInv
    <2>4. now' \in Nat /\ now <= now'
      BY <1>1, <2>2
    <2> QED
      BY <2>1, <2>3, <2>4
  <1>8. ~ (BeginCheck \/ CheckInstall \/ AfterPurge \/ BeginDrain \/ DrainInstall
           \/ Reread \/ ReInstall \/ CallList \/ CallReturns)
    BY DEF BeginCheck, CheckInstall, AfterPurge, BeginDrain, DrainInstall, Reread, ReInstall,
       CallList, CallReturns, Processes
  <1> QED
    BY <1>2, <1>3, <1>4, <1>5, <1>6, <1>7, <1>8 DEF Next, CheckStep, ApplierStep, CallStep

\* What is read covers the store for good.
LEMMA InvariantCovered == PathSafe => (Spec => []Covered)
  <1> SUFFICES ASSUME PathSafe
               PROVE  Spec => []Covered
    OBVIOUS
  <1>1. Init => Covered
    <2> SUFFICES ASSUME Init PROVE Covered
      OBVIOUS
    <2>1. Stored = {} /\ \A k \in Processes : snap[k] = None
      BY DEF Init, Stored
    <2> QED
      BY <2>1 DEF Covered, ViewHolds, SnapCovers, Covers
  <1>2. IInv /\ Covered /\ [Next]_vars => Covered'
    <2> SUFFICES ASSUME IInv, Covered, [Next]_vars PROVE Covered'
      OBVIOUS
    <2>1. CASE \E k \in Processes : ListFreezes(k) \/ Install(k)
      BY <2>1, ListCovers, InstallCovers
    <2>2. CASE \A k \in Processes : ~ListFreezes(k) /\ ~Install(k)
      BY <2>2, OthersLater, OthersCover
    <2> QED
      BY <2>1, <2>2
  <1> QED
    BY <1>1, <1>2, InvariantIInv, PTL DEF Spec

\* No update passes the gate while a freeze on its job is in force which the read
\* behind the installed view could have seen, whatever of that read failed and
\* whoever installed last: where job IDs are path-safe.
THEOREM GateSeesFreezes == PathSafe => (Spec => ViewMissesNothing)
  <1> SUFFICES ASSUME PathSafe
               PROVE  Spec => ViewMissesNothing
    OBVIOUS
  <1>1. ASSUME IInv, Covered, [Next]_vars, NEW j \in Jobs, Pass(j)
        PROVE  ~FrozenSince(j, view.at)
    <2>1. GatePasses(j)
      <3>1. ap.pc = "drain" /\ ap'.pc = "write" /\ ap'.job = j
        BY <1>1 DEF Pass
      <3>2. ap' # ap
        BY <3>1
      <3>3. ap \in ApplierState
        BY <1>1 DEF IInv
      <3>4. ~(BeginDrain \/ DrainInstall \/ EndDrain \/ Write)
        BY <3>1, <3>3 DEF ApplierState, BeginDrain, DrainInstall, EndDrain, IdleApplier, Write
      <3>5. \A i \in Jobs : ~GateHolds(i)
        BY <3>2 DEF GateHolds
      <3>6. ApplierStep
        BY <1>1, <3>2 DEF Next, CheckStep, CallStep, BeginCheck, CheckInstall, PickPurge, PurgeOne,
           AfterPurge, ListJobs, Decide, Publish, Put, CallFreeze, CallThaw, Reread, ReInstall,
           RetryPut, CallList, CallReturns, VarPut, VarPurge, Drift, StatusWrite, Tick, vars
      <3>7. PICK i \in Jobs : GatePasses(i)
        BY <3>4, <3>5, <3>6 DEF ApplierStep
      <3>8. ap'.job = i
        BY <3>3, <3>7 DEF GatePasses, ApplierState
      <3> QED
        BY <3>1, <3>7, <3>8
    <2>2. j \notin view.held
      BY <2>1 DEF GatePasses, FreezeBlocks
    <2> QED
      BY <1>1, <2>2 DEF FrozenSince, Covered, ViewHolds
  <1>2. IInv /\ Covered /\ [Next]_vars =>
           [\A j \in Jobs : Pass(j) => ~FrozenSince(j, view.at)]_vars
    BY <1>1
  <1> QED
    BY <1>2, InvariantIInv, InvariantCovered, PTL DEF Spec, ViewMissesNothing

-----------------------------------------------------------------------------
(* The put.                                                                *)

\* The record that a call replaces stays what the call's read says of it.
LEMMA TellsLater ==
    ASSUME StoreOK, Later
    PROVE  \A c : CallOK(c) /\ Tells(c) => Tells(c)'
  <1> SUFFICES ASSUME NEW c, CallOK(c), Tells(c), c.pc = "put", Slug[c.job] \in Stored'
               PROVE  \/ store'[Slug[c.job]].idx > c.at \/ store'[Slug[c.job]].idx = c.token
                      \/ c.blind
    BY DEF Tells
  <1>1. c.at \in Nat /\ c.at <= writes /\ writes \in Nat
    BY DEF CallOK, CallState, StoreOK
  <1>2. PICK p : p = Slug[c.job]
    OBVIOUS
  <1>3. store'[p].idx \in Nat
    BY <1>2 DEF Later, StoreOK, Record
  <1>4. (p \in Stored /\ store'[p] = store[p]) \/ store'[p].idx > writes
    BY <1>2 DEF Later
  <1>5. CASE p \in Stored /\ store'[p] = store[p]
    BY <1>2, <1>5 DEF Tells
  <1>6. CASE store'[p].idx > writes
    BY <1>1, <1>2, <1>3, <1>6
  <1> QED
    BY <1>4, <1>5, <1>6

\* The view tells what KnownIndex makes of it.
LEMMA ViewTells ==
    ASSUME PathSafe, IInv, Covered, NEW j \in Jobs, Slug[j] \in Stored
    PROVE  \/ store[Slug[j]].idx > view.at \/ store[Slug[j]].idx = KnownIndex(j)
           \/ Blind(j)
  <1>1. PICK p \in Stored : p = Slug[j]
    OBVIOUS
  <1>2. store[p].job = j /\ store[p].idx \in Nat /\ view.at \in Nat
    <2>1. /\ store[p].job \in Jobs /\ Slug[store[p].job] = p
          /\ store[p].idx \in Nat /\ view.at \in Nat
      BY DEF IInv, StoreOK, ViewOK, ReadAt, Record
    <2> QED
      BY <1>1, <2>1 DEF PathSafe
  <1>3. CASE store[p].idx <= view.at
    <2>1. /\ \E r \in view.recs : r.job = j
          /\ \A r \in view.recs : r.job = j => r.idx \in {0, store[p].idx}
      BY <1>2, <1>3 DEF Covered, Covers
    <2> DEFINE r == CHOOSE r \in view.recs : r.job = j
    <2>2. r \in view.recs /\ r.job = j /\ KnownIndex(j) = r.idx
      BY <2>1 DEF KnownIndex
    <2> HIDE DEF r
    <2> QED
      BY <1>1, <2>1, <2>2 DEF Blind
  <1>4. CASE store[p].idx > view.at
    BY <1>1, <1>4
  <1> QED
    BY <1>2, <1>3, <1>4

\* So the call's token tells, from the moment it is taken.
LEMMA TellsStep ==
    ASSUME PathSafe, IInv, Covered, Tells(api), [Next]_vars
    PROVE  Tells(api)'
  <1>1. Later
    <2>1. CASE \E k \in Processes : ListFreezes(k) \/ Install(k)
      BY <2>1, ListStep, InstallStep
    <2>2. CASE \A k \in Processes : ~ListFreezes(k) /\ ~Install(k)
      BY <2>2, OthersLater
    <2> QED
      BY <2>1, <2>2
  <1>2. CASE api' = api
    <2>1. PICK c : c = api
      OBVIOUS
    <2>2. Tells(c)'
      BY <1>1, <2>1, TellsLater DEF IInv
    <2> QED
      BY <1>2, <2>1, <2>2 DEF Tells
  <1>3. CASE api' # api /\ api'.pc # "put"
    BY <1>3 DEF Tells
  <1>4. CASE api' # api /\ api'.pc = "put"
    <2>1. PICK j \in Jobs :
              /\ api'.job = j /\ api'.token = KnownIndex(j)
              /\ api'.at = view.at /\ api'.blind = Blind(j)
              /\ store' = store
      <3>1. api \in CallState /\ (api.pc = "retry" => api.job \in Jobs)
        BY DEF IInv, CallOK
      <3>2. ~(Put \/ Reread \/ ReInstall \/ CallList \/ CallReturns)
        <4>1. \A pc \in {"list", "reread", "reinstall", "retry", "install"} :
                 [api EXCEPT !.pc = pc].pc = pc /\ [api EXCEPT !.pc = pc, !.retry = TRUE].pc = pc
          BY <3>1 DEF CallState
        <4>2. Put => api' = IdleCall \/ api' = [api EXCEPT !.pc = "list", !.retry = TRUE]
                     \/ api' = [api EXCEPT !.pc = "reread"]
          BY DEF Put
        <4>3. /\ Reread => api' = [api EXCEPT !.pc = "reinstall"]
              /\ ReInstall => api' = [api EXCEPT !.pc = "retry", !.retry = TRUE]
              /\ CallList => api' = [api EXCEPT !.pc = "install"]
              /\ CallReturns => api' = IdleCall
          BY DEF Reread, ReInstall, CallList, CallReturns
        <4>4. IdleCall.pc # "put"
          BY DEF IdleCall
        <4>5. ~Put
          BY <1>4, <4>1, <4>2, <4>4
        <4>6. ~(Reread \/ ReInstall \/ CallList \/ CallReturns)
          BY <1>4, <4>1, <4>3, <4>4
        <4> QED
          BY <4>5, <4>6
      <3>3. \A j \in Jobs : ~CallThaw(j)
        BY <1>4 DEF CallThaw, IdleCall
      <3>4. RetryPut \/ \E j \in Jobs, exp \in (now + 1) .. limit.time \cup {Never} : CallFreeze(j, exp)
        BY <1>4, <3>2, <3>3 DEF Next, CheckStep, ApplierStep, CallStep, BeginCheck, CheckInstall,
           PickPurge, PurgeOne, AfterPurge, ListJobs, Decide, Publish, BeginDrain, DrainInstall,
           EndDrain, GateHolds, GatePasses, Take, Write, VarPut, VarPurge, Drift, StatusWrite,
           Tick, vars
      <3>5. CASE RetryPut
        BY <3>1, <3>5 DEF RetryPut, CallState, freeze
      <3>6. CASE \E j \in Jobs, exp \in (now + 1) .. limit.time \cup {Never} : CallFreeze(j, exp)
        BY <3>6 DEF CallFreeze, freeze
      <3> QED
        BY <3>4, <3>5, <3>6
    <2>2. Slug[j] \in Stored => \/ store[Slug[j]].idx > view.at
                                 \/ store[Slug[j]].idx = KnownIndex(j) \/ Blind(j)
      BY ViewTells
    <2> QED
      BY <2>1, <2>2 DEF Tells, Stored
  <1> QED
    BY <1>2, <1>3, <1>4

\* A freeze that is put conflicts where its record was written since the read that
\* the call's index is from, and only there, for the retry as for the first try:
\* where job IDs are path-safe and the record could be read.
THEOREM PutTellsRaces == PathSafe => (Spec => CasTellsRaces)
  <1> SUFFICES ASSUME PathSafe
               PROVE  Spec => CasTellsRaces
    OBVIOUS
  <1> DEFINE old == store[Slug[api.job]]
             Raced == IF old = None THEN api.token # 0 ELSE old.idx > api.at
  <1>1. ASSUME IInv, Tells(api), [Next]_vars, api.pc = "put", api' # api
        PROVE  IF api'.pc = "list" THEN ~Raced ELSE Raced \/ api.blind
    <2>1. api \in CallState /\ api.job \in Jobs /\ api.token <= api.at
          /\ api.token \in Nat /\ api.at \in Nat
      BY <1>1 DEF IInv, CallOK, CallState
    <2>2. Put
      <3>1. ~(\E j \in Jobs : CallThaw(j) \/ \E exp : CallFreeze(j, exp))
        BY <1>1 DEF CallThaw, CallFreeze
      <3>2. ~(Reread \/ ReInstall \/ RetryPut \/ CallList \/ CallReturns)
        BY <1>1 DEF Reread, ReInstall, RetryPut, CallList, CallReturns
      <3> QED
        BY <1>1, <3>1, <3>2 DEF Next, CheckStep, ApplierStep, CallStep, BeginCheck, CheckInstall,
           PickPurge, PurgeOne, AfterPurge, ListJobs, Decide, Publish, BeginDrain, DrainInstall,
           EndDrain, GateHolds, GatePasses, Take, Write, VarPut, VarPurge, Drift, StatusWrite,
           Tick, vars
    <2>3. old # None => Slug[api.job] \in Stored /\ old.idx \in Nat /\ old.idx >= 1
      BY <1>1, <2>1, SlugAssumption DEF IInv, StoreOK, Stored, Record
    <2>4. CASE Matches(old, api.token)
      <3>1. api'.pc = "list"
        BY <2>1, <2>2, <2>4 DEF Put, CallState
      <3>2. ~Raced
        BY <2>1, <2>3, <2>4 DEF Matches
      <3> QED
        BY <3>1, <3>2
    <2>5. CASE ~Matches(old, api.token)
      <3>1. api'.pc # "list"
        BY <2>1, <2>2, <2>5 DEF Put, CallState, IdleCall
      <3>2. Raced \/ api.blind
        BY <1>1, <2>1, <2>3, <2>5 DEF Matches, Tells
      <3> QED
        BY <3>1, <3>2
    <2> QED
      BY <2>4, <2>5
  <1>2. IInv /\ Tells(api) /\ [Next]_vars =>
           [api.pc = "put" /\ api' # api =>
              LET r == store[Slug[api.job]]
                  raced == IF r = None THEN api.token # 0 ELSE r.idx > api.at
              IN  IF api'.pc = "list" THEN ~raced ELSE raced \/ api.blind]_vars
    BY <1>1
  <1>3. Init => Tells(api)
    BY DEF Init, IdleCall, Tells
  <1>4. IInv /\ Covered /\ Tells(api) /\ [Next]_vars => Tells(api)'
    BY TellsStep
  <1> QED
    BY <1>2, <1>3, <1>4, InvariantIInv, InvariantCovered, PTL DEF Spec, CasTellsRaces
===============================================================================
