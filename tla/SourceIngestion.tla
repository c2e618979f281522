-------------------------- MODULE SourceIngestion --------------------------
(***************************************************************************)
(* The replica of an external source (service/business-information/        *)
(* source-ingestion-*.ts): runs of the coordinator claim a binding under a *)
(* lease, read the source page by page outside any transaction, and commit *)
(* each page through a fenced store, while an operator pauses, replaces    *)
(* and refreshes the binding and customers have records erased.            *)
(*                                                                         *)
(* Bindings do not interact, so one is modelled.  The store's operations   *)
(* are transactions under one lock and are atomic.  Two counters of the    *)
(* store are kept by what they are compared with: the fence by the run     *)
(* that was given its newest value, the scan generation of a record or a   *)
(* request by whether it is the current one.  Delays (polling, retry) only *)
(* postpone a claim, which may come at any time here.                      *)
(***************************************************************************)
EXTENDS Integers, Sequences

CONSTANTS
  NumIds,     \* records of the source have the ids 1 .. NumIds
  Runs,       \* overlapping runs of the coordinators; the interval starts one however long the last takes
  Requests,   \* idempotency keys of refresh requests
  MaxEvents,  \* bound on the changes of the source, the faults and the acts of people together
  None

ASSUME NumIdsPositive == NumIds \in Nat \ {0}
ASSUME MaxEventsNat == MaxEvents \in Nat

Ids == 1 .. NumIds
Modes == {"snapshot", "changes"}
Positions == Nat
Cursors == [next : Positions, from : Positions]

Records == [version : Positions, seen : BOOLEAN]
Leases == [mode : Modes, cursor : Cursors \cup {None}, checkpoint : Positions \cup {None}]

ASSUME NoneIsNothing ==
  None \notin Runs \cup Modes \cup Positions \cup Cursors \cup Records \cup Leases

VARIABLES
  log,        \* the source: the changes it went through, [id, present] each
  active,     \* state of the binding: active or paused
  fence,      \* the run that was given the newest fence, None if nobody was
  lease,      \* lease_owner and lease_expires_at: "none", "live" or "expired"
  mode, cursor, checkpoint,  \* of the binding
  complete,   \* completeness
  replica,    \* [Ids -> [version, seen in the current scan], None when absent or erased]
  suppressed, \* suppressions of the current binding generation
  requests,   \* [Requests -> [state, target]]
  pc, held, page, \* of the runs: where they are, mode, cursor and checkpoint of their lease, the page read
  events,     \* how many of them there were
  erased,     \* ghost: ids a customer had erased since the account and its reference were bound
  expired,    \* ghost: ids whose retention ended since the last snapshot began
  began,      \* ghost: length of the log when the current scan began
  asked       \* ghost: [Requests -> length of the log when the refresh was requested]

source == <<log>>
binding == <<active, fence, lease, mode, cursor, checkpoint, complete>>
run == <<pc, held, page>>
ghosts == <<erased, expired, began, asked>>
vars == <<source, binding, replica, suppressed, requests, run, events, ghosts>>

----------------------------------------------------------------------------
(* The source.  A version is the position of the change that wrote it.     *)

Happens == events < MaxEvents /\ events' = events + 1

Version(n, i) ==
  LET last == {k \in 1 .. n : log[k].id = i /\ \A m \in k + 1 .. n : log[m].id # i} IN
  IF \E k \in last : log[k].present THEN CHOOSE k \in last : TRUE ELSE None

Current(S) == [i \in {j \in S : Version(Len(log), j) # None} |-> Version(Len(log), i)]

Change(i, present) ==
  /\ Happens
  /\ log' = Append(log, [id |-> i, present |-> present])
  /\ UNCHANGED <<binding, replica, suppressed, requests, run, ghosts>>

\* A snapshot lists the records in order, one per page; it may offer a checkpoint, which is
\* where the change feed stood when the snapshot began.
SnapshotPages(c) ==
  LET at == IF c = None THEN [next |-> 1, from |-> Len(log)] ELSE c
      last == at.next = NumIds IN
  {[records |-> Current({at.next}), deletedIds |-> {}, complete |-> last,
    nextCursor |-> IF last THEN None ELSE [at EXCEPT !.next = @ + 1], checkpoint |-> offered] :
     offered \in IF last THEN {None, at.from} ELSE {None}}

\* The change feed reports what changed after the checkpoint, one change per page.
ChangesPage(c, start) ==
  LET at == IF c = None THEN start ELSE c.next
      to == IF at < Len(log) THEN at + 1 ELSE at
      changed == {log[k].id : k \in at + 1 .. to}
      last == to = Len(log) IN
  [records |-> Current(changed), deletedIds |-> changed \ DOMAIN Current(changed), complete |-> last,
   nextCursor |-> IF last THEN None ELSE [next |-> to, from |-> to],
   checkpoint |-> IF last THEN to ELSE None]

----------------------------------------------------------------------------
(* claimDue and the scan                                                   *)

Pending == {"queued", "running"}

\* setSourceRefreshJobState: of the requests the current scan serves.
SetRefreshState(reqs, state) ==
  [q \in Requests |-> IF reqs[q].state \in Pending /\ reqs[q].target = "this"
                      THEN [reqs[q] EXCEPT !.state = state] ELSE reqs[q]]

\* A scan generation begins: no record has been seen in it, and it serves what was asked before.
Unseen == [i \in Ids |-> IF replica[i] = None THEN None ELSE [replica[i] EXCEPT !.seen = FALSE]]

\* Mutant: a scan serves the requests for its own generation only, not older ones.
ServedOnTime ==
  [q \in Requests |-> [requests[q] EXCEPT !.target = IF @ = "next" THEN "this" ELSE "past"]]

Served == [q \in Requests |-> [requests[q] EXCEPT !.target = "this"]]

\* claimDue: an interrupted scan continues at its cursor, otherwise a new one begins.
Claim(r) ==
  /\ pc[r] = "idle" /\ active /\ lease # "live"
  /\ fence' = r /\ lease' = "live" /\ complete' = FALSE
  /\ IF cursor # None
     THEN /\ requests' = SetRefreshState(requests, "running")
          /\ UNCHANGED <<mode, replica, expired, began>>
     ELSE /\ mode' = IF checkpoint = None THEN "snapshot" ELSE "changes"
          /\ requests' = SetRefreshState(Served, "running")
          /\ replica' = Unseen
          /\ expired' = IF checkpoint = None THEN {} ELSE expired
          /\ began' = Len(log)
  /\ held' = [held EXCEPT ![r] = [mode |-> mode', cursor |-> cursor, checkpoint |-> checkpoint]]
  /\ pc' = [pc EXCEPT ![r] = "scanning"]
  /\ UNCHANGED <<source, active, cursor, checkpoint, suppressed, page, events, erased, asked>>

\* executor.scan returns a page.
Scan(r) ==
  /\ pc[r] = "scanning"
  /\ \E p \in IF held[r].mode = "snapshot" THEN SnapshotPages(held[r].cursor)
              ELSE {ChangesPage(held[r].cursor, held[r].checkpoint)} :
       page' = [page EXCEPT ![r] = p]
  /\ pc' = [pc EXCEPT ![r] = "committing"]
  /\ UNCHANGED <<source, binding, replica, suppressed, requests, held, events, ghosts>>

\* It says that the checkpoint is not valid any more, or fails, or the limit of pages is reached.
ScanEnds(r, label) ==
  /\ pc[r] = "scanning" /\ Happens /\ label \in {"resetting", "failing"}
  /\ pc' = [pc EXCEPT ![r] = label]
  /\ UNCHANGED <<source, binding, replica, suppressed, requests, held, page, ghosts>>

----------------------------------------------------------------------------
(* commitPage                                                              *)

\* Mutant: the fence is not compared; overlapping runs of one process have one worker id.
OwnsByName(r, leases) == active /\ lease \in leases

\* ownsLease; a failure is accepted from an expired lease too.
Owns(r, leases) == active /\ fence = r /\ lease \in leases

\* upsertExternal: a suppressed record is passed over.
Upsert(i, p) ==
  IF i \in suppressed THEN replica[i] ELSE [version |-> p.records[i], seen |-> TRUE]

\* The records of the page, then its deletions.
Applied(p) ==
  [i \in Ids |-> IF i \in DOMAIN p.records THEN Upsert(i, p)
                 ELSE IF i \in p.deletedIds THEN None ELSE replica[i]]

\* A snapshot that is complete erases what it did not show.
DropUnseen(recs, m) ==
  [i \in Ids |-> IF m = "snapshot" /\ recs[i] # None /\ ~recs[i].seen THEN None ELSE recs[i]]

\* completePage.
CompletePage(r) ==
  /\ replica' = DropUnseen(Applied(page[r]), held[r].mode)
  /\ checkpoint' = IF page[r].checkpoint = None /\ held[r].mode = "changes" THEN checkpoint
                   ELSE page[r].checkpoint
  /\ cursor' = None /\ mode' = None /\ lease' = "none" /\ complete' = TRUE
  /\ requests' = SetRefreshState(requests, "completed")

\* The scan goes on under a renewed lease.
ContinuePage(r) ==
  /\ replica' = Applied(page[r])
  /\ cursor' = page[r].nextCursor /\ lease' = "live"
  /\ UNCHANGED <<checkpoint, mode, complete, requests>>

StorePage(r) ==
  /\ Owns(r, {"live"}) /\ cursor = held[r].cursor
  /\ IF page[r].complete THEN CompletePage(r) ELSE ContinuePage(r)
  /\ expired' = expired \ DOMAIN page[r].records
  /\ UNCHANGED <<active, fence>>

\* The lease of the next page, or the end of the run.
Commit(r) ==
  /\ pc[r] = "committing"
  /\ StorePage(r)
  /\ held' = [held EXCEPT ![r] = IF page[r].complete THEN None ELSE [@ EXCEPT !.cursor = cursor']]
  /\ pc' = [pc EXCEPT ![r] = IF page[r].complete THEN "idle" ELSE "scanning"]
  /\ page' = [page EXCEPT ![r] = None]
  /\ UNCHANGED <<source, suppressed, events, erased, began, asked>>

Ended(r) ==
  /\ held' = [held EXCEPT ![r] = None] /\ page' = [page EXCEPT ![r] = None]
  /\ pc' = [pc EXCEPT ![r] = "idle"]

\* "stale_fence" or "stale_cursor": the run has lost its lease.
CommitRefused(r) ==
  /\ pc[r] = "committing"
  /\ ~(Owns(r, {"live"}) /\ cursor = held[r].cursor)
  /\ Ended(r)
  /\ UNCHANGED <<source, binding, replica, suppressed, requests, events, ghosts>>

\* The store fails, or commits and its answer is lost.
CommitFails(r) ==
  /\ pc[r] = "committing" /\ Happens
  /\ StorePage(r) \/ UNCHANGED <<binding, replica, requests, expired>>
  /\ pc' = [pc EXCEPT ![r] = "failing"] /\ page' = [page EXCEPT ![r] = None]
  /\ UNCHANGED <<source, suppressed, held, erased, began, asked>>

\* resetCheckpoint: cursor and checkpoint are forgotten, the next claim starts a snapshot.
Reset(r) ==
  /\ pc[r] = "resetting"
  /\ IF Owns(r, {"live"})
     THEN /\ cursor' = None /\ checkpoint' = None /\ mode' = None
          /\ lease' = "none" /\ complete' = FALSE
          /\ requests' = SetRefreshState(requests, "queued")
          /\ UNCHANGED <<active, fence>>
     ELSE UNCHANGED <<binding, requests>>
  /\ Ended(r)
  /\ UNCHANGED <<source, replica, suppressed, events, ghosts>>

\* failLease: the cursor stays, for the next claim to continue at.
Fail(r) ==
  /\ pc[r] = "failing"
  /\ IF Owns(r, {"live", "expired"})
     THEN /\ lease' = "none" /\ complete' = FALSE
          /\ requests' = SetRefreshState(requests, "queued")
          /\ UNCHANGED <<active, fence, mode, cursor, checkpoint>>
     ELSE UNCHANGED <<binding, requests>>
  /\ Ended(r)
  /\ UNCHANGED <<source, replica, suppressed, events, ghosts>>

\* The process dies; its lease is left to expire.
Crash(r) ==
  /\ pc[r] # "idle" /\ Happens
  /\ Ended(r)
  /\ UNCHANGED <<source, binding, replica, suppressed, requests, ghosts>>

\* Time passes: the lease of a run that is gone expires, that of a slow one may.
Expire ==
  /\ lease = "live"
  /\ IF fence # None /\ pc[fence] # "idle" THEN Happens ELSE UNCHANGED events
  /\ lease' = "expired"
  /\ UNCHANGED <<source, active, fence, mode, cursor, checkpoint, complete, replica,
                 suppressed, requests, run, ghosts>>

----------------------------------------------------------------------------
(* The operator, the customers and retention                               *)

\* setBindingState.
Pause ==
  /\ active /\ Happens
  /\ active' = FALSE /\ lease' = "none"
  /\ UNCHANGED <<source, fence, mode, cursor, checkpoint, complete, replica, suppressed, requests,
                 run, ghosts>>

Activate ==
  /\ ~active
  /\ active' = TRUE /\ lease' = "none"
  /\ UNCHANGED <<source, fence, mode, cursor, checkpoint, complete, replica, suppressed, requests,
                 run, events, ghosts>>

\* Mutant: suppressions belong to the generation and go with it.
ForgetSuppressions(sameAccount) == {}

\* Suppressions are carried over to the next generation of the same reference and account.
Carried(sameAccount) == IF sameAccount THEN suppressed ELSE {}

\* replaceBinding: the next generation starts without records, with a fence of its own.
Replace(sameAccount) ==
  /\ Happens
  /\ active' = TRUE /\ fence' = None /\ lease' = "none"
  /\ mode' = None /\ cursor' = None /\ checkpoint' = None /\ complete' = FALSE
  /\ replica' = [i \in Ids |-> None]
  /\ suppressed' = Carried(sameAccount)
  /\ requests' = [q \in Requests |-> IF requests[q].state \in Pending
                                     THEN [requests[q] EXCEPT !.state = "superseded"] ELSE requests[q]]
  /\ erased' = IF sameAccount THEN erased ELSE {}
  /\ expired' = {}
  /\ UNCHANGED <<source, run, began, asked>>

\* Mutant: the request is for the scan that is running.
TargetThis == "this"

\* A request is for the scan generation after the current one.
Target == "next"

\* requestRefresh; a pending request for the same scan is joined.
RequestRefresh(q) ==
  /\ active /\ requests[q].state = "none"
  /\ LET same == {o \in Requests : requests[o].state \in Pending /\ requests[o].target = Target} IN
     requests' = [requests EXCEPT ![q] =
       [state |-> IF \E o \in same : requests[o].state = "running" THEN "running" ELSE "queued",
        target |-> Target]]
  /\ asked' = [asked EXCEPT ![q] = Len(log)]
  /\ UNCHANGED <<source, binding, replica, suppressed, run, events, erased, expired, began>>

\* suppressExternalRecord, and restoreSuppressions for the current generation.
Suppress(i) ==
  /\ Happens
  /\ suppressed' = suppressed \cup {i}
  /\ replica' = [replica EXCEPT ![i] = None]
  /\ erased' = erased \cup {i}
  /\ UNCHANGED <<source, binding, requests, run, expired, began, asked>>

\* purgeExpired of a record whose retention is over.
Purge(i) ==
  /\ replica[i] # None /\ Happens
  /\ replica' = [replica EXCEPT ![i] = None]
  /\ expired' = expired \cup {i}
  /\ UNCHANGED <<source, binding, suppressed, requests, run, erased, began, asked>>

----------------------------------------------------------------------------
Init ==
  /\ log = [i \in Ids |-> [id |-> i, present |-> TRUE]]
  /\ active = TRUE /\ fence = None /\ lease = "none"
  /\ mode = None /\ cursor = None /\ checkpoint = None /\ complete = FALSE
  /\ replica = [i \in Ids |-> None]
  /\ suppressed = {} /\ erased = {} /\ expired = {}
  /\ requests = [q \in Requests |-> [state |-> "none", target |-> "next"]]
  /\ pc = [r \in Runs |-> "idle"]
  /\ held = [r \in Runs |-> None] /\ page = [r \in Runs |-> None]
  /\ events = 0 /\ began = 0
  /\ asked = [q \in Requests |-> 0]

Work(r) ==
  \/ Claim(r) \/ Scan(r) \/ Commit(r) \/ CommitRefused(r) \/ CommitFails(r)
  \/ (\E label \in {"resetting", "failing"} : ScanEnds(r, label))
  \/ Reset(r) \/ Fail(r) \/ Crash(r)

Operator ==
  \/ Pause \/ Activate
  \/ \E sameAccount \in BOOLEAN : Replace(sameAccount)
  \/ \E q \in Requests : RequestRefresh(q)
  \/ \E i \in Ids : Suppress(i) \/ Purge(i)

Next ==
  \/ \E r \in Runs : Work(r)
  \/ Operator
  \/ Expire
  \/ \E i \in Ids, present \in BOOLEAN : Change(i, present)

Spec == Init /\ [][Next]_vars

\* The interval keeps starting runs, a run ends or goes on, and time passes.
FairSpec ==
  /\ Spec
  /\ WF_vars(\E r \in Runs : Claim(r))
  /\ \A r \in Runs : WF_vars(Scan(r) \/ Commit(r) \/ CommitRefused(r) \/ Reset(r) \/ Fail(r))
  /\ WF_vars(Expire)

----------------------------------------------------------------------------
(* Properties                                                              *)

RefreshStates == {"none", "queued", "running", "completed", "superseded"}
Refreshes == [state : RefreshStates, target : {"this", "next"}]

PageOK(p) ==
  /\ DOMAIN p.records \subseteq Ids /\ p.records \in [DOMAIN p.records -> Positions]
  /\ p.deletedIds \subseteq Ids /\ p.complete \in BOOLEAN
  /\ p.nextCursor \in Cursors \cup {None} /\ p.checkpoint \in Positions \cup {None}
  /\ p.complete <=> p.nextCursor = None

\* Type invariant of the binding, the replica and the runs.
TypeOK ==
  /\ log \in Seq([id : Ids, present : BOOLEAN])
  /\ active \in BOOLEAN /\ fence \in Runs \cup {None}
  /\ lease \in {"none", "live", "expired"}
  /\ mode \in Modes \cup {None} /\ cursor \in Cursors \cup {None}
  /\ checkpoint \in Positions \cup {None} /\ complete \in BOOLEAN
  /\ replica \in [Ids -> Records \cup {None}]
  /\ suppressed \subseteq Ids /\ erased \subseteq Ids /\ expired \subseteq Ids
  /\ requests \in [Requests -> Refreshes]
  /\ pc \in [Runs -> {"idle", "scanning", "committing", "resetting", "failing"}]
  /\ held \in [Runs -> Leases \cup {None}]
  /\ DOMAIN page = Runs /\ \A r \in Runs : pc[r] = "committing" => PageOK(page[r])
  /\ events \in 0 .. MaxEvents /\ began \in Positions /\ asked \in [Requests -> Positions]

\* A record a customer had erased is not mirrored again while the account and its reference are
\* the same: not by a page read before, nor a later scan, nor the next generation of the binding.
ErasedStaysErased == \A i \in erased : replica[i] = None

\* The replica reflects the source as of n or later, for the records it may hold at all.
Reflects(n) ==
  \A i \in Ids \ (suppressed \cup expired) :
    \E k \in n .. Len(log) :
      Version(k, i) = IF replica[i] = None THEN None ELSE replica[i].version

\* A replica that is said to be complete reflects, for every record, a state the source had
\* since the scan began, whatever leases were lost, pages repeated and scans resumed or reset.
CompleteIsCurrent == complete => Reflects(began)

\* A refresh is completed only by a scan all of which was read after the request.
RefreshIsFresh ==
  [][\A q \in Requests :
       requests[q].state \in Pending /\ requests'[q].state = "completed" => Reflects(asked[q])']_vars

\* Every refresh of a binding that stays active ends.
EveryRefreshEnds ==
  \A q \in Requests : requests[q].state \in Pending ~> (requests[q].state \notin Pending \/ ~active)

============================================================================
