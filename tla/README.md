# A verification development for noodle-core

This directory holds TLA+ models of the parts of noodle-core whose correctness
depends on the order of things: steps of several processes, crashes, lost
answers, deadlines, threads. It contains the models, the configurations that
check them with TLC on small instances, and proofs checked by TLAPS that hold
for every instance. `PROJECT.json` is the machine-readable index: components,
runs, mutants, the map from definitions to source lines, findings, hazards and
theorems.

Contents: [the system](#1-the-system-inventory) ·
[modules](#2-the-modules-and-the-code) · [runs](#3-the-runs) ·
[findings](#4-what-the-models-disagree-with) · [proofs](#5-what-is-proved) ·
[limits](#6-what-is-only-checked-and-what-is-left-out) · [plan](#7-plan)

To check a run: `tlc -workers 2 -config CoordinationSafety.cfg MCOperationCoordination`.
To check the proofs of a module: `tlapm OperationCoordinationProofs.tla`; the
eight modules with proofs end in `Proofs`.

## 1. The system: inventory

noodle-core (docs/architecture.md) lets an application be described once
(authoring SDK, compiler) and served to MCP clients, browsers and messaging
channels by a self-hosted service. A deployment is compiled into artifacts and
activated by the registry; a request reaches the runtime, which runs a handler
in a sandbox or calls a connector; stores in PostgreSQL (or in memory) keep
what must outlive a request; several service instances share one database.

    clients ──HTTP/MCP──> service (routes, auth, protocol) ──> runtime
                             │                                  │  invokeOperation
           registry <────────┤                                  ├─> compute pool ─ worker threads (QuickJS)
           stores (PostgreSQL/in-memory)                        │        │ host calls (suspend the sandbox)
             ├ coordination, evidence  <────────────────────────┤<───────┘
             ├ oauth, device, connections                       └─> connectors ──> providers (external)
             ├ channels, assistant        <── assistant-gateway workers, sweepers
             └ business information, ...
           asset store (files on one host, several processes)

The table lists, per component, the state it keeps, what it does to it, what is
hard, and what makes it correct. "M" = modelled, "P" = partly, "–" = not
modelled (section 6 says why). Paths are under `src/packages/`.

| component | state | operations | hard behaviour | correct when | |
|---|---|---|---|---|---|
| Coordinated operations: `service/src/operation-coordination*.ts`, `runtime/src/operation-coordination*.ts` | one custody row per external resource, receipts of resolutions, a frame per invocation | acquire, finish, resolvePrevious, review, import | crash between claim and finish; lost claim answers; the nested write outlives its sandbox; recovery races review and account changes | a write whose effect is unknown keeps its resource blocked until exactly its token is resolved; one writer per resource; recovery only under the original binding | M |
| Operation execution: `runtime/src/operation-execution.ts` | the invocation: deadline signal, frames, evidence binding | invokeOperation, nested calls, finally blocks | parents end before children, timeouts against late answers | see coordination and evidence | P |
| Operation evidence: `service/src/operation-evidence*.ts` | a row per operation id: lease, deadline, history expiry, outcome | begin/claim, finish, sweep | retries, redelivery, overlapping sweeps, outcome later than the sweep | provider asked once per history; recorded outcomes true, final, and written before success is reported | P |
| Compute pool: `compute/src/worker-pool.ts`, `worker-entry.ts` | slots, queue, timers on the main thread; run and suspension on each worker thread | execute, dispatch, host calls, result, deadline, exit, recycle, close | messages in flight of runs already settled, dead threads, recycling, queue expiry | each job settles exactly once; no idle worker beside a waiting job; no thread works on for nobody; FIFO | M |
| Compute engine: `compute/src/quickjs-engine.ts` | one sandbox per run | evaluate, suspend, interrupt | an interrupt cannot reach a suspended sandbox | the pool's backstop ends it | P |
| Asset lock: `asset-storage/src/filesystem-coordination.ts` | lock and recovery files, owner record with lease, reservation file | acquire, recover a stale lock, heartbeat, assert, read-modify-write, release | every await is a race; pids and inode numbers are reused; a crash inside recovery | exclusive; a loser is told; no waiting for ever behind a crash | M |
| Asset uploads and reachability: `asset-storage/src/filesystem-store.ts` | reservations, blobs, metadata, quotas | plan, upload, commit, record reachability, revoke | crash between rename of bytes and write of metadata; reservations that expire under an upload; two processes that commit one object | metadata only of bytes that are there; quota never exceeded and found again after faults; recorded deployments never forgotten | P |
| Deployment registry: `service/src/registry*.ts`, `store/postgres-activation.ts` | deployments, the active one per scope, locks, in-memory projection | deploy, retry, activate, roll back, recover | policy read before compile; memory updated after an await | one active per scope, projection follows the store, locks respected | – |
| Channels: `assistant-gateway/src/channel-*.ts` | events with lease and state, delivery receipts | claim, renew, complete, send, record delivery, expire | lease expiry while the first worker still runs; the operator acts under a send; receipts before answers | no double send, per-participant order, bounded attempts, a truthful journal, nothing waits for ever | P |
| OAuth server: `service/src/oauth/*.ts` | codes, refresh-token families, grants | authorize, exchange, rotate, revoke | concurrent rotation and revocation at READ COMMITTED; lost answers | one successor per token, revoked families stay revoked | – |
| Device authorization: `service/src/oauth/device-*.ts` | device codes | poll, approve, deny, consume | concurrent polls; tokens issued before consumption | consumed once | – |
| Confirmations, state handles, tool dispatch: `runtime/src/` | nonces, handles with revisions and quotas, admission latch | issue, consume, read/update, expire | replay, stale revisions | one-shot; revisions monotone | – |
| Admission limits: `admission-limits/src` | windowed counters | admit, release | several instances at the limit | limit never exceeded by more than the design allows | – |
| Control plane: `control-plane/src` | organizations, members, subdomain claims, purges | claim, transfer, reconcile | purge against a concurrent claim | last owner stays, one claimant per name | – |
| Knowledge: `knowledge/src`, `knowledge-operations/src` | staged and published revisions, budgets | stage, publish, crawl | publication against crawl | readers see one complete revision | – |
| Source ingestion: `service/src/business-information/source-ingestion-*.ts` | binding with lease, cursor and checkpoint; replicated records; suppressions; refresh requests | claim, scan, commit a page, reset, fail, pause, replace, refresh, erase, purge | runs overlap; pages are read outside any transaction; erasure under a page in flight; a crash in the middle of a scan | erased stays erased; "complete" is true; a refresh is fresh, and ends | P |
| Business information, workspaces, drafts, conversation history | rows per installation and workspace | CRUD with compare-and-set, retention | nested transactions, lifecycle fences | – | – |
| Connections, credentials: `service/src/connections`, `credential-broker.ts` | account bindings, token caches | connect, rebind, exchange | stale caches, rebinding under a running operation | only the generation coordination sees is modelled | P |
| Compiler, SDK, wire contracts, packaging, CLI, UI, protocol mapping, connectors' I/O | none that outlives a call | – | – | pure computation, I/O or presentation | – |

Interactions that matter to the models: `invokeOperation` takes a coordination
claim before it runs a handler and settles it in a `finally`; the handler runs
in the pool and is *suspended* while a nested call is served on the main
thread; the nested call claims evidence before it calls the connector; both
stores are shared by all instances; the asset store serializes plans, commits
and its state file with the file lock; the workers of the channels and the runs
of the ingestion meet each other only in their tables, under leases.

## 2. The modules and the code

| module | models | reads like |
|---|---|---|
| `Custody` | the abstract promise of coordination: a holder per resource, doubt, proof | `Take`, `Settle`, `Doubt`, `Prove`, `TakeOver` |
| `OperationCoordination` | store, port, frame, invocation, provider, pool's ends of a run | one action per statement between two awaits |
| `OperationCoordinationProofs` | type correctness, the custody invariant and what follows from it | section 5 |
| `OperationCoordinationResolutionProofs` | the refinement, who may end another's custody, one writer | section 5 |
| `OperationEvidence`, `OperationEvidenceProofs` | begin, finish and sweep of one operation id | as above |
| `AssetLock`, `AssetLockProofs` | the file protocol | one action per file-system call |
| `AssetUploads`, `AssetUploadsProofs` | plans, uploads and commits of several processes under that lock | one action per rename |
| `ComputePool`, `ComputePoolProofs` | the pool's event handlers and the threads | one action per event handler, and per turn of a thread |
| `AnswerOnce` | the abstract promise to the sender of a message: waiting, then released or closed for good | `Admit`, `Release`, `Ask`, `Close` |
| `ChannelWork`, `ChannelWorkProofs` | the journal of a channel, its workers, the provider and the operator | one action per transaction |
| `SourceIngestion`, `SourceIngestionProofs` | a binding, its replica, the runs that fill it and those who act on it | one action per transaction, and per scan |
| `MCOperationCoordination`, `MCAssetLock`, `MCAssetUploads`, `MCChannelWork` | symmetry sets, sizes, senders and the imported snapshot of TLC's instances | |

`ComputePool`, `OperationEvidence` and `SourceIngestion` need no such constants
and are checked directly. `OperationCoordination` implements `Custody`, and
`ChannelWork` implements `AnswerOnce`.

**OperationCoordination.** `records` is the table
`external_operation_coordination` (token and state; the sealed rest of a record
is `claim` of the invocation that built it, looked up by `ClaimOf`), `receipts`
the resolutions. `Begin` starts the deadline signal; `Authorized`/
`AcquireFails` is the generation check of `acquire`; `Claim` the insert-or-read
transaction and the recoverability decision; `ClaimReplyLost` a commit whose
answer never arrives. `CallWrite` is the host call of the handler through
`admitCoordinatedAction`, `WriteDenied` and `Dispatch` the two ways the nested
`invokeOperation` goes on, `Land`, `Answer`, `AnswerLost` the provider
(external). `Report` is `reportOutcome`. `StartResolve`, `CheckResolve`,
`ReleasePrevious`, `ResolveFails` are `resolvePrevious`, whose authority and
deadline checks happen an await before the delete. `Review` and `ImportUnknown`
are the operators' interface. `Return`, `Backstop` (`#onDeadline`) and
`LoseWorker` (`#onWorkerLost`) are the ways the sandbox ends, `Finish` and
`FinishFails` the `finally`, `Crash` the end of the process. Three things are
assumed and not modelled: instances agree on the time; tokens are fresh; a
handler reports the truth about the answer it received (the obligation the code
puts on its author).

**OperationEvidence.** Ids do not interact, so the module has one `row`.
`Begin` dates the record, `Claim` inserts it or finds it taken
(`INSERT ... ON CONFLICT DO NOTHING`), `WorkEnds` is the end of the wrapped
work with what it reported, `StartFinish` reads history duration and time,
`Finish` completes under the row's own lease and deadline; each store call may
fail or lose its answer. A sweep is dated once and then runs its UPDATE
(`Resolve`) and its DELETE (`Delete`). The in-memory store does the same in one
piece and is covered by the interleavings. History durations are chosen anew at
each use, as an installation may change them. "returned" also stands for
"accepted".

**AssetLock.** A file is its inode; `lock` and `recovery` are the two paths,
`owner` and `lease` the record in the file, `ino` the handle a process holds.
A freed inode number can be given out again. `Look`…`RemoveClaim` are
`finishRecovery`, `Create`…`LinkClaim` the acquisition loop with
`recoverStaleLock`. Reading another's record and judging it are two steps
(`Inspect`/`Weigh`, `Examine`/`Judge`): `readLockOwner` still awaits the close of
its handle when it has the lease, and `lockOwnerIsActive` asks for the time and
the pid afterwards. `reading` is what was read, whose lease runs down as it was
read, whatever the owner writes meanwhile. `Disown`/`UnlinkOwn` clean up after an
acquisition whose asserts fail when it has linked its file.
`ReadReservations`…`AssertAfterAction` are the protected read-modify-write with
its ownership asserts, `BeatCheck`/`BeatWrite` the heartbeat,
`VerifyRelease`/`Unpublish` the release. A lease is kept as what is
left of it, so time is unbounded. `Stalls` allows a live owner to be suspended
past its lease, or between reading it in an assert and comparing it there;
without it, `Tick` waits for owners to beat. `SlowReaders` allows a contender to
be suspended between reading a live process's lease and comparing it, until that
lease is over; without it, `Tick` waits for the comparison. `reused` is a pid
that answers although its owner is dead; as `lockOwnerIsActive` treats `EPERM`
as alive, it stands for a process of another user, too. The retry limit and the
sleep of the loop are left out: a contender may always try again.

**ComputePool.** The pool's variables are the fields of the class (`#slots`,
`#queue`, `slot.active`, `slot.runs`); each handler runs to its end, so it is
one action including the dispatch that follows (`Pump` is `#pumpQueue`, with
the quirk that it spawns a worker before it drops exhausted entries and may
then have nothing to give it). A thread takes a `run` message, calls the host,
is suspended, gets a reply, ends, may exit by itself or by `terminate()`, and
its exit event arrives later. Messages in flight stay in the queues when a slot
is dropped.

**AssetUploads.** An asset stands for its identity, its key and its bytes: the
id is the hash of the path and the key holds the hash of the content. `bytes`
and `stored` are the two files of an object, `reserved` the reservation file,
`tokens` the registry of each process, `upload` how far an upload is. A plan
and a commit hold the lock of the root over several renames, a lock that is taken
for exclusive, as `AssetLock` shows under its hypotheses; `section` is what
is in the middle of being written. `PlanBegin` sweeps and drops what needs no
reservation any more, `PlanEnd` draws or refuses; `UploadBegin`,
`CheckReservation`, `Stage` and `Commit` are `handleUpload` from one await on
the lock to the next; `MoveBytes`, `WriteMetadata` and `CommitEnd` the three
writes of a commit. `Crash`, `SectionFails`, `RevokeFails`, `Expire` and
`Damage` are faults, `Lapse` the expiry of what nobody can use any more.

**ChannelWork.** A method of the coordinator is a transaction under the lock of
its channel and one action. `state`, `attempts`, `lease` and `over` are fields
of the event rows; a lease that ran out is a member of `over`, work that passed
its deadline one of `late`, so time needs no clock. `Reconciled` is `reconcile`,
which every claim and every preparation of a send does first. `Claim`,
`Complete` and `Fail` are a turn, `PrepareSend`, `AssertSend` and `Sent` a
reply: the last fence, the request and the record of its outcome are separate
steps, so anything can happen between them. `Accept` and `Refuse` are the
provider (external), `Delivery` its callbacks in any order. `ChangeAuthority`,
`Block`, `Forget` and `ExpireHistory` are the operator and the retention.
Rates, cooldowns and spend appear as a refusal that may happen. Renewing a
lease only moves the moment of `LeaseEnds` and is no step.

**SourceIngestion.** Bindings do not interact, so there is one. The source is a
log of changes; a version is the position of the change that wrote it, so what
the replica holds can be compared with what the source was at any time. A
snapshot shows one record per page, as the source is when the page is read, and
may offer the position at which it began as checkpoint; a change feed shows the
changes after the checkpoint. `Claim` is `claimDue`, `Scan` the executor,
`Commit` a page with the lease of the next one, `CommitRefused` a lost lease,
`CommitFails` a commit that failed or whose answer was lost, `Reset` and `Fail`
the other ends of a run. Two counters are kept by what they are compared with:
the fence by the run that was given its newest value, a scan generation by
whether it is the current one. `Suppress` is an erasure, `Purge` the end of a
record's retention, `Replace` the next generation of the binding, for the same
account or another. `erased`, `expired`, `began` and `asked` are history
variables of the properties.

## 3. The runs

Bounds are named in the cfg files. Times are with two TLC workers.

| run | instance | shows |
|---|---|---|
| `coordination_safety` | 2 invocations, 1 imported claim, 2 generations, clock 0..2, 2 calls allowed per invocation, worker loss | `UncertainEffectKeepsCustody`, `AtMostOneWrite`, `ResolvedStaysResolved`, `ExecutingClaimIsRespected`, `RecoveryUnderOriginalBinding`, refinement `ImplementsCustody` |
| `coordination_progress` | 2 invocations, no worker loss, fairness | `OneWriter`: two writes that may still go out never share a resource; `EveryInvocationEnds`, also with a provider that never answers |
| `coordination_worker_loss` | 3 invocations, worker loss | violation of `OneWriter` (section 4) |
| `coordination_reimport` | imported claim, review, import again | violation of `ImportedStaysResolved` (section 4) |
| `evidence` | 2 attempts, 1 sweeper, bound 1, histories {2, 3}, clock 0..4, fairness | `DispatchedOncePerHistory`, `EvidenceIsTrue`, `RecordedStands`, `AnsweredIsRecorded`, `ClaimIsResolved` |
| `asset_lock_recovery` | 2 processes, 1 crash anywhere, pid reused or not, nobody suspended until a lease it holds or has read of a live process is over (`Stalls`, `SlowReaders` FALSE), fairness | `TypeOK`, `MutualExclusion`, `AcknowledgedUpdateSurvives`, `OnlyOwnerReleases`, `SurvivorIsServed` |
| `asset_lock_stalls` | 2 processes over the files of a dead owner or an interrupted recovery, the number of the dead owner's file fixed, any suspension of owners and contenders, fairness | `LoserIsTold`, `SurvivorsEnd` |
| `asset_lock_race` | 3 processes, 1 crash, nobody suspended until a lease is over | violation of `AcknowledgedUpdateSurvives` (section 4) |
| `compute_pool` | 1 worker recycled after 2 runs, 3 jobs with a call each, 1 death, close, fairness | `WorkConserving`, `NoOvertaking`, `SettledOnce`, `EveryJobSettles`, `NoStrayThread` |
| `channel_work` | 2 messages of 1 participant, 2 instances, 2 attempts, 2 of the provider's 4 statuses, 1 act of the operator, fairness | `OldestFirst`, `HistoryInOrder`, `OutcomeIsTrue`, `EvidenceCounts`, refinement `AnsweredOnce`, `EveryMessageSettles` |
| `asset_uploads` | 2 processes, 2 assets of which the quota holds 1, 2 deployments, 2 faults, fairness | `MetadataLast`, `WithinLimits`, `NothingIsForgotten`, `Recovers` |
| `source_ingestion` | 2 overlapping runs, 2 records, 1 refresh, 2 events (changes, faults, acts), fairness | `ErasedStaysErased`, `CompleteIsCurrent`, `RefreshIsFresh`, `EveryRefreshEnds` |

The type invariants, the safety invariants and the action properties of these
runs are all proved too (section 5), each after TLC had found nothing against
it; one type invariant (`AssetLock`) is left in a run. What only TLC checks is
liveness.

Why the bounds are enough. *Coordination:* rows of different resources never
touch each other, so one resource suffices; a custody dispute has three roles
(holder, whoever resolves it, next holder), of which a reviewer or an imported
claim takes one where there are two invocations; `MaxCalls = 2` leaves room for
the second write the frame must refuse; a clock of 0..2 with bound 1 has a claim
whose deadline has passed and another that was made after it. The safety
properties of coordination and the refinement are also proved, for every bound. *Evidence:* a second attempt needs the
first one's row to be resolved and deleted, which takes the shortest history
plus the bound: 4 units reach it for both durations. *Lock:* an
owner, its crash and a recoverer need two processes, the race an old owner and
two recoverers of which one becomes the new owner. A lease of two can be renewed before it is over. Three inodes force numbers
to be reused. The numbers are alike, so whichever the dead owner's file has stands
for all. *Pool:* recycling after two of three jobs, a queue
of two behind a running job, one stray thread beside its replacement.
*Channel:* order and expiry are matters of two messages of one participant, a
lost lease one of two instances; with two attempts a turn is repeated, and
given up. "sent" says no more than the acceptance, and "read" is to "delivered"
what that is to "failed", so two statuses show every order of two. *Uploads:* the quota holds one of two assets, so one process can take
the room another's expired reservation left; two faults reach a crash in a
commit and a damage of what it leaves. A list of one deployment is full with
the second. *Ingestion:* one record behind the cursor and one before it; with
two events a lost lease, an erasure or a lost answer meets a change of the
source; three were checked once, for the safety properties and their
strengthening. The safety properties are proved for every bound.

Where liveness says that each of several things ends, it is written as one
formula (again and again none is left, or in the end all are served): TLC checks
one instead of many, and it is no weaker where what has ended stays ended.

Symmetry is used in safety runs only (`coordination_*`, `asset_lock_race`),
over sets the modules treat alike.

Every property of a passing run has a mutant in `PROJECT.json`: a plausible
slip in the code (a delete that forgets the token, a frame that does not latch,
a lock published by rename, a queue that is not looked at after a drop) that
makes TLC find that property violated under the same configuration. The mutated
forms stand in the modules next to the definition they replace, marked
"Mutant"; no specification uses them.

**Fairness.**
- Coordination: the awaits of `acquire` are resumed by the event loop, the
  pool's backstop is an armed timer, and the `finally` block runs. Nothing is
  assumed of handlers, providers, or the nested call.
- Evidence: time passes, the periodic sweep runs, and the awaits of `begin` end
  (within the execution bound: the guard of `Tick`). Nothing is assumed of a
  dispatched attempt.
- Asset lock: a live process is scheduled and its timers fire (weak fairness
  per process and per heartbeat). Strong fairness of `Tick`: contenders that
  draw fresh leases again and again cannot hold the clock back.
- Pool: armed timers fire and the exit of a thread is reported. Nothing is
  assumed of sandboxed code, of served host calls or of messages.
- Channel: leases run out and work gets late, and some instance goes on with
  its sweep (a timer starts sweeps, every await in one is bounded). Any sweep
  may be abandoned anywhere, and nothing is assumed of the provider.
- Uploads: for each asset some client goes on asking for its upload, and whoever
  has a target uses it; who asks for the lock again and again gets it (strong
  fairness: the lock is taken and released for ever); sections end, abandoned
  reservations run out. The number of faults is bounded, as no store recovers
  from faults that never stop.
- Ingestion: the interval keeps starting runs, a run goes on or ends, leases of
  dead runs expire.

## 4. What the models disagree with

Three statements of the repository do not hold of the code; each has a run that
must find the violation.

1. **A lost sandbox worker opens the resource under a pending write.**
   `#onWorkerLost` (`compute/src/worker-pool.ts:315`) rejects the outer call
   while the nested write still waits for policy or credentials on the main
   thread. The `finally` marks the claim unknown, which is recoverable at once,
   and the next holder's write and the old one may both go out: the port does
   not serialize the resource (`service/test/operation-coordination.test.ts:46`).
   With `WorkerLoss = FALSE`, `OneWriter` holds: the deadline of the nested
   write and the recoverability of the claim are the same instant.
2. **Importing a snapshot again revives a resolved claim.** `importUnknown`
   (`service/src/operation-coordination-postgres.ts:119`) looks at the custody
   row only; the receipt of the resolved claim stays, so the revived claim can
   never be resolved again and the resource stays blocked. The test (line 235)
   calls the import idempotent.
3. **Two recoverers of one stale asset lock.** `finishRecovery` compares the
   inode at the lock path and then unlinks whatever is there
   (`asset-storage/src/filesystem-coordination.ts:404`). The slower of two
   recoverers removes the live lock the faster one has published; a third
   process enters and overwrites an acknowledged reservation. The comment at
   line 83 promises to "serialize state transitions". The run needs three
   processes and one crash, and nobody is suspended for as long as a lease.
   A long suspension alone does the same with two processes and no crash: a
   contender that is suspended between reading a lease and comparing it, at line
   338 and again at 396, takes a lease that was renewed meanwhile for over, and
   line 404 unlinks the live owner's lock (`AssetLockRecovery.cfg` with
   `SlowReaders = TRUE`). With the defaults (a lease of 30 s, renewed every 10 s)
   that is a suspension of some 20 s. With two processes and prompt readers
   neither happens (`asset_lock_recovery`, and `Exclusion` in section 5).

## 5. What is proved

Every theorem holds for all values of the constants that satisfy the named
assumptions of its module; no set of processes, messages or records is assumed
finite unless it is said so.

### Coordination

`OperationCoordinationProofs.tla` (the first five) and
`OperationCoordinationResolutionProofs.tla` prove, for all sets of invocations,
imported claims, resources, generations and epochs and all bounds:

| theorem | states |
|---|---|
| `CoordinationTypeOK` | `Spec => []TypeOK` |
| `CoordinationCustodyInv` | `Spec => [](TypeOK /\ CustodyInv)`, the inductive invariant of custody |
| `CustodyKept` | `Spec => []UncertainEffectKeepsCustody` |
| `OneWriteEach` | `Spec => []AtMostOneWrite` |
| `ResolutionFinal` | `Spec => []ResolvedStaysResolved` |
| `CoordinationImplementsCustody` | `Spec => ImplementsCustody`, the refinement of `Custody` |
| `ExecutingRespected` | `Spec => ExecutingClaimIsRespected` |
| `OriginalBinding` | `Spec => RecoveryUnderOriginalBinding` |
| `OneWriterWithoutLoss` | without worker loss, `Spec => []OneWriter` |

**Assumptions used:** `DisjointTokens` (imported tokens are not drawn again),
`NoneIsNothing`, `ImportedClaimType`, `BoundPositive`, `MaxTimeNat`,
`MaxCallsNat`, `WorkerLossBoolean`; no set is assumed finite. TLC evaluates
them in every coordination run.

**The argument.** None of the properties is inductive. That a dispatched write
is accounted for depends on where its invocation is, so the strengthening
follows the invocation. `CustodyInv` has four parts:

- `FrameInv(i)`: what the latch of the frame keeps. Only an invocation past its
  claim has a frame or a nested write; only the acquirer writes; one call at
  most, and none before the admission.
- `TruthInv(i)`: an effect implies a dispatched write, and what the handler
  reported agrees with the answer it had: "completed" only of an effect,
  "rejected" only of a write that was denied or refused and can no longer land.
- `LeaseInv(i)`: an acquired claim is still in the store, or a receipt for
  exactly its token says who ended it, or its invocation is closed and either
  admitted no write or reported something other than "unknown".
- `RowInv(r, i)`: a row that holds `i`'s token is on `i`'s resource, `i` did
  claim it, only the end of `i` makes it uncertain, and a token with a receipt
  holds nothing. This is what keeps the release of one token from disturbing
  another's custody, and what `ResolvedStaysResolved` needs.

`Begun` goes with the types: past "idle" an invocation has built its claim, and
one that recovers has a predecessor and is past its own claim.

The refinement needs `CustodyInv` for one step: `Finish` may release only a row
that is not uncertain, and `RowInv` says that an uncertain row of an invocation
means it is closed already. Every other action is matched to an abstract one by
a lemma about the rows it writes (`InsertIsTake`, `ReleaseIsSettle`,
`MarkIsDoubt`, `ResolveIsProve`, `ImportIsTakeOver`).

The remaining three theorems are about what was read before an await and used
after it, so their strengthening, `ResolutionInv`, says what stays true of it:

- `DatedInv(i)`: the deadline of a claim is not before the instant its deadline
  signal aborts, and never more than the bound in the future.
- `PreviousInv(i)`: the predecessor an invocation remembers is another, claimed
  token of the same generation and epoch, and as long as that token still holds
  the row, the row is uncertain or its deadline has passed. The recovery looks
  at none of this again before it deletes.
- `ReceiptInv(r, i)`: a token is resolved only after its invocation's deadline
  signal or its end. `DatedInv` gives the first for an executing row, `RowInv`
  the second for an uncertain one.
- `WriterInv(i)`: without worker loss, a nested write that may still go out is
  that of a running invocation. With it this fails, which is finding 1.

`OneWriter` then follows: two writers are both running, so by `LeaseInv` and
`ReceiptInv` both hold the row, which has one token.

Preservation is split by groups of actions that touch the same variables (the
handler's, those that move a control point only, the claim, the finish, a
resolution, an import) with one lemma per group; the theorems combine them by
PTL. TLC checked each part as an invariant before it was proved.

### Evidence (`OperationEvidenceProofs`)

`TypeCorrect`, `EvidenceOfItsClaim`, `EvidenceTrue` (`EvidenceIsTrue`),
`OutcomeStands` (`RecordedStands`), `RecordedBeforeAnswered`
(`AnsweredIsRecorded`), `OneDispatchPerHistory` (`DispatchedOncePerHistory`).
The row and what attempts know of it are tied by `Truth`: a row with an outcome
was completed by the attempt whose lease it has. The last theorem is about
time: `History` adds how the dates of an attempt, of the row and of a running
sweep relate to the clock (`Dates`), and `Remembered`: after a dispatch, either
the row is still the one of that dispatch and expires no earlier than its
history, or that history is over. A late completion moves the expiry of the
history, but never before the end it had; a DELETE of a slow sweep compares
with a time that has passed. The proof uses that `begin`'s awaits end within
the execution bound, the guard of `Tick`.

### Lock (`AssetLockProofs`)

| theorem | states | under |
|---|---|---|
| `TypeCorrect` | `Spec => []TypeOK` | - |
| `LosersAreTold` | `Spec => LoserIsTold` | - |
| `Exclusion` | `Spec => []MutualExclusion` | `FewDie /\ ~Stalls /\ ~SlowReaders` |
| `UpdatesSurvive` | `Spec => []AcknowledgedUpdateSurvives` | `FewDie /\ ~Stalls /\ ~SlowReaders` |
| `LocksAreReleased` | `Spec => OnlyOwnerReleases` | `FewDie /\ ~Stalls /\ ~SlowReaders` |

The first two hold for any finite set of processes, any deaths, suspensions and
inode numbers. The other three need all three hypotheses: TLC finds each of them
violated as soon as one of two processes may be suspended past its lease, or may
be suspended as a reader, or one of three may crash. `~Stalls` (no live owner is
suspended past its lease) is what a lease means. `~SlowReaders` is about
contenders: what one has read of a live process's lease it compares before that
lease, as read, is over. The code does nothing to ensure it, it is likely with
leases of 30 s that are renewed every 10 s. `FewDie` says that nobody dies, however
many processes there are, or that there are only two, of which one may have died
before or die anywhere. A third process beside a dead one, and a slow reader, are
finding 3.

`Base` is the types, that whoever holds a file open is named in it (`OwnFile`),
that the file at the lock path belongs to someone who, alive, holds it open
past its `publish` (`LockOwner`), and that the file of a claim has an owner
(`ClaimOwner`). On `Base` rests `Lost(p)`: once the path
names another file than that of a process inside, this process is on its way to
its error and stays there: its asserts compare the path with its own handle, and
nobody else can link its file again while it is open. That is the whole of
`LosersAreTold`, and needs nothing about leases.

`Safe` is the invariant of the other three. `Survivors`: all live, or at most
one does. `LeasesRun`: the lease of a live owner is not over. `Holds`: the path
names the file of whoever has linked one; so two holders are one. `Calm`: while
all live nobody recovers a lock, because the lease each reads runs
(`LiveOwnersLeaseRuns`), still runs when it is compared (`TickKeepsReading`, with
`~SlowReaders`), and its owner is alive; so whoever recovers is the only survivor
(`RecovererIsAlone`), and what it unlinks belongs to a dead process. `Fresh`:
what was read under the lock is still in the file; `Acked`: the update of who is
past its write is in it.

### Uploads (`AssetUploadsProofs`)

`TypeCorrect`, `MetadataAfterBytes` (`MetadataLast`), `RecordsAreKept`
(`NothingIsForgotten`), `LimitsHold` (`WithinLimits`). The strengthening `Between` says what a commit knows
between its two renames: the bytes it moved are still there or went bad, and if
the object already had metadata it was because its bytes had gone bad. So
metadata are only ever written anew for an object that has none, or a damaged
one.

`LimitsHold` needs `Committed`: the reservations of a commit that is between its
writes are still in the file, its own among them. So the object it describes was
counted before, by its reservation, and what it writes back is no more than what
is there. Only the end of a plan adds reservations, and it has looked at the
limits with all of them; everything else counts a smaller set of objects
(`FewerKeepLimits`). It is assumed that there is a process, and that finitely
many assets are ever planned for (`FinitelyManyAssets`): a sum over an infinite
set has no meaning.

The sum is the library's, defined by recursion over a set, and no induction
principle can be used on it here. The module therefore proves what it needs from
minimal counterexamples (`LeastSet`): the table of the sums over the subsets of
a finite set exists and is unique (`TableIsSum`, `SumsAgree`), a sum of naturals
is a natural, any member can be taken out first (`SumRemove`), and fewer members
sum to no more (`SumMonotone`).

### Pool (`ComputePoolProofs`)

`TypeCorrect`, `SettlesOnce` (`SettledOnce`), `ConservesWork`
(`WorkConserving`), `FirstComeFirstServed` (`NoOvertaking`), for any number of
jobs, workers and deaths and every size of the pool; the slots are finite because
they are at most `MaxWorkers`. All four rest on what `#pumpQueue` does (`PumpCases`): it hands out nothing, spawns a
worker for nobody, or dispatches the entry behind those it rejects. `Books` is
the invariant of settlement: a job in the queue is open, queued once and on no
slot; the job of a slot is open and on no other; a job that was not presented is
open; and what a dropped worker was on is settled, which is why a late result
of it `Concerns` nobody. `ConservesWork` is inductive with the types alone: an
event frees at most one slot (`OneFreed`), so after the dispatch the pool is
full again or the queue is empty. `FirstComeFirstServed` builds on it: `InLine`
says that the queue rises and is empty once the pool is closed. A new job that
gets a worker at once overtakes nobody, because an idle worker means an empty
queue; whoever leaves the queue was rejected, or stood before all that stay.

### Channel (`ChannelWorkProofs`)

`TypeCorrect`, `OldestMessageFirst` (`OldestFirst`), `ContextInOrder`
(`HistoryInOrder`), `OutcomesAreTrue` (`OutcomeIsTrue`), `NoEvidenceIsLost`
(`EvidenceCounts`) and the refinement `ChannelImplementsAnswerOnce`
(`AnsweredOnce`), for any number of messages, participants, instances and acts of
the operator.

The types need three facts: a message that waits for a turn has one left, late
work was admitted, and a loop that works on a message knows which. `Advance` then
says once what any step may do to the states of the events: one of them begins,
as the oldest of its participant that is pending, or one is admitted, or events
are only closed, queued again or left alone. `InOrder` (`OldestFirst`, and that
messages are admitted in order) follows from it, and so does `HistoryInv`: the
context holds messages whose turn is over, and with it that of every earlier one.

`SendInv` and `EvidenceInv` are about the two fences of a send. A loop that has
passed the first holds the lease of an event in "sending"; past the second, the
reply is released, and nobody can come to hold it again. So it reaches the
provider at most once, and what the journal says of it, in the state or beside it
when the receipt is not there yet, is what the provider did or reported. The
refinement maps an event to its phase; a step that changes the phase is matched
to the abstract one by `Advance` and by what `SendInv` says of the release.

### Ingestion (`SourceIngestionProofs`)

`TypeCorrect`, `ErasureLasts` (`ErasedStaysErased`), `CompletenessIsTrue`
(`CompleteIsCurrent`), `RefreshesAreFresh` (`RefreshIsFresh`), for any number of
records, overlapping runs, requests and events.

Erasure: what is erased is suppressed, and what is suppressed is not in the
replica. It needs that a suppression outlives the generation of a binding and
that the upsert looks at it in the transaction that writes.

The other two are about what a whole scan saw while the source changed under it,
and about which of several runs may still commit. `ScanInv` has three parts.

- `StoreInv`: in a snapshot every record before the cursor is exempt, or as the
  source was at some time since the scan read its first page, and no record
  behind the cursor is marked as seen, so that the last page sweeps away what
  was not shown (`SnapshotInv`); the change feed has been followed up to the
  cursor (`ChangesInv`). A replica said to be complete is neither, and reflects
  the source since the scan began.
- `OwnerInv`: the run that has the fence and a live lease knows the cursor and
  the checkpoint as they are, and the page it holds shows what the source was
  at some time since the scan began, from that very cursor (`SnapshotPage`,
  `FeedPage`). This is where a page that was read before a lease was lost is
  told from one that may be committed: it belongs to a run without the fence.
- `AskedInv`: a request the current scan is to serve was made before it began.

Changes of the source only add to what it has been (`Was`, `LogGrows`), so
whatever a page or the replica showed stays true while the source goes on.
`RefreshesAreFresh` follows from a step lemma: only a page that completes a scan
completes a request, and only one the scan was to serve.

## 6. What is only checked, and what is left out

Only model-checked: all liveness (`EveryInvocationEnds`, `ClaimIsResolved`,
`SurvivorIsServed`, `SurvivorsEnd`, `EveryJobSettles`, `NoStrayThread`,
`EveryMessageSettles`, `Recovers`, `EveryRefreshEnds`), which needs fairness and
ENABLED and is out of TLAPS' reach here. Of the lock with suspensions of owners
or readers past a lease, or with three processes of which one dies, `TypeOK` and `LoserIsTold` are
proved; the other safety properties do not hold there.

Assumed throughout: PostgreSQL executes the modelled statements and
transactions atomically; instances agree on the time; pid liveness answers at
once; files are not removed by hand. Model by model:

- *Evidence:* the awaits of `begin` end within the execution bound. The code
  does not bound them; an await longer than the whole history would insert a
  claim that the next sweep deletes.
- *Uploads:* one quota scope and one identity per key. Bytes without metadata,
  left by a crash between the renames, are on the disk but in no total of the
  code, nor of `WithinLimits`. The repair of damaged bytes writes the metadata
  anew and with it forgets `reachableBy` and `retainIndefinitely`
  (`filesystem-store.ts:512`); `NothingIsForgotten` says so. Limits per file
  and per deployment only refuse and are left out, as are the cloud adapters.
- *Coordination:* `RecoveryUnderOriginalBinding` compares the generation of a
  claim, which never changes, with that of the recovering invocation. That the
  authority of a rebound account is looked at again at each step is modelled only
  as far as the generation goes.
- *Lock:* the reservation file's content is the set of updates it holds; the
  run with suspensions has leases of one tick. A record is opened and read in
  one step. An assert of the owner is one step, too: that it was suspended
  between reading its lease and comparing it shows as a failure the assert may
  always have under `Stalls`.
- *Channel:* an apology, a notice and an answer are all a reply; spend, rates
  and cooldowns are a refusal; the tools a turn calls are coordination's matter.
- *Ingestion:* one binding, one record per page; the health of a binding,
  custody budgets and delays are left out (a delay only postpones a claim);
  state "revoked" is never set by this code. A failing `resetCheckpoint` is a
  scan that fails. Erasures are forgotten when the binding reference or the
  account changes: `replaceBinding` carries suppressions over only if both are
  the same (`sameAccount`); the digest a suppression is kept under depends on the
  reference, not on the account. In "changes" mode a purged
  record comes back only if it changes or with the next snapshot: the history
  variable `expired` exempts it from `CompleteIsCurrent`.

Not modelled, for good: computation without state (compiler, SDK, importers,
validation, ranking), presentation (CLI, UI, packaging), wiring and
request/response mapping, the I/O of connectors (providers appear as actions
that may happen, fail or be lost), the QuickJS interpreter, buffered analytics
that lose events by design. They are most of the repository's lines.

Not modelled, although they have state: stores whose every operation is one
conditional statement or one transaction under a row or advisory lock, with
nothing kept across an await - drafts, conversation history, invitations,
confirmation nonces, state handles, counters, service principals. What is hard
in the rest is known and listed here for whoever models it:

- OAuth: the deletion of a token family against the rotation of another member
  whose successor it does not see (`oauth/store-postgres.ts:605`); two retries
  of one exchange whose answer was lost (`:583`); tokens issued before the
  device code is consumed (`oauth/device-flow.ts:174`).
- Deployments: deploys and rollbacks of an organisation are serialised by an
  advisory lock in one transaction; the policy is read before compilation and
  compared in the store's write (`registry-deploy-transaction.ts:256`), the
  in-memory registry is updated after the await of the activation
  (`registry-rollback.ts:157`).

## 7. Plan

1. `RefreshRotation`: rotation and revocation of refresh-token families with
   transactions interleaved at READ COMMITTED; abstract `TokenFamily` (one live
   token per family, revoked stays revoked).
2. `Deployments`: the in-memory projection shown to follow the store.
3. Control plane (subdomain claims, purge reconciliation), publication of
   knowledge revisions.
4. Compositions: `OperationEvidence` under a coordinated nested write;
   `AssetUploads` over an abstract lock that `AssetLock` is shown to implement
   where it does.

Theorems: with compositions, the lock's `MutualExclusion` as the refinement of an
abstract lock, under the hypotheses of `Exclusion`; the safety of whatever is
modelled next.
