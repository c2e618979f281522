----------------------- MODULE OperationCoordination -----------------------
(***************************************************************************)
(* Coordinated external operations: the durable custody of a resource      *)
(* (service/operation-coordination*.ts), the frame that admits at most one *)
(* nested write (runtime/operation-coordination-execution.ts) and the      *)
(* invocation that drives them (runtime/operation-execution.ts).           *)
(*                                                                         *)
(* An invocation runs on any service instance; all instances share the     *)
(* store and are assumed to agree on the time.  Its handler runs in a      *)
(* sandbox that is suspended while a nested call is outstanding; the       *)
(* nested call itself lives on the main thread and outlives the sandbox.   *)
(***************************************************************************)
EXTENDS Integers, FiniteSets

CONSTANTS
  Invocations,   \* coordinated invocations; each draws one fresh token
  Imported,      \* tokens of a reviewed snapshot of another system's custody
  Resources,     \* derived resource identities of one installation
  Generations,   \* connection generations an installation can be bound to
  Epochs,        \* epochs the service instances are configured with
  None,          \* no row, no token, no generation
  ImportedClaim, \* [Imported -> claim]: the content of the snapshot
  Bound,         \* executionBoundMs of the operation
  MaxTime,       \* bound on the clock
  MaxCalls,      \* bound on the nested writes of one invocation
  WorkerLoss     \* may a sandbox worker die while a nested call is outstanding

Tokens == Invocations \cup Imported
Time == 0 .. MaxTime

\* The immutable, sealed part of OperationCoordinationRecord.
Claims == [resource : Resources, generation : Generations, epoch : Epochs,
           deadline : Int]
Rows == [token : Tokens, state : {"executing", "unknown"}]
Evidence == {"completed", "rejected", "unknown"}
Resolutions == {"source_verified", "reviewed"}

ASSUME DisjointTokens == Invocations \cap Imported = {}
ASSUME NoneIsNothing == None \notin Tokens \cup Rows \cup Claims \cup Generations
ASSUME ImportedClaimType == ImportedClaim \in [Imported -> Claims]
ASSUME BoundPositive == Bound \in Nat \ {0}
ASSUME MaxTimeNat == MaxTime \in Nat
ASSUME MaxCallsNat == MaxCalls \in Nat
ASSUME WorkerLossBoolean == WorkerLoss \in BOOLEAN

VARIABLES
  clock,      \* Date.now() of every instance
  authority,  \* the generation the live installation resolves to, None if it no longer does
  records,    \* external_operation_coordination: [Resources -> Rows \cup {None}]
  receipts,   \* external_operation_coordination_resolutions
  pc,         \* where an invocation is
  claim,      \* the record an invocation built, None before
  acquired,   \* did its claim win
  previous,   \* the recoverable predecessor's token of a claim that lost
  cancelAt,   \* when the deadline signal of an invocation aborts
  recovery,   \* progress of its resolvePrevious
  calls,      \* nested writes it dispatched to the provider
  child,      \* its latest admitted nested write
  outcome,    \* what its handler reported
  effects     \* ledger of the provider: invocations whose write took effect

storeVars == <<records, receipts>>
frameVars == <<claim, acquired, previous, cancelAt>>
writeVars == <<calls, child, effects>>
vars == <<clock, authority, records, receipts, pc, claim, acquired, previous,
          cancelAt, recovery, calls, child, outcome, effects>>

----------------------------------------------------------------------------
(* The store                                                               *)

ClaimOf(t) == IF t \in Imported THEN ImportedClaim[t] ELSE claim[t]
Holds(r, t) == records[r] # None /\ records[r].token = t

\* Mutant: the delete forgets the token.
ReleaseAnyRow(r, t) == records' = [records EXCEPT ![r] = None]

\* OperationCoordinationStore.release for the holder's own evidence.
ReleaseRow(r, t) ==
  records' = IF Holds(r, t) THEN [records EXCEPT ![r] = None] ELSE records

\* OperationCoordinationStore.markUnknown.
MarkUnknown(r, t) ==
  records' = IF Holds(r, t) THEN [records EXCEPT ![r].state = "unknown"] ELSE records

ReceiptExists(r, t) == \E p \in Resolutions : <<r, t, p>> \in receipts

\* Mutant: the receipt is written, the row is not deleted.
ResolveKeepingRow(r, t, resolution) ==
  /\ Holds(r, t)
  /\ receipts' = receipts \cup {<<r, t, resolution>>}
  /\ UNCHANGED records

\* Deletes the row and appends the receipt in one transaction.  The receipts' primary key
\* (resource, token) makes the whole transaction fail on a second receipt for one token.
ResolveRow(r, t, resolution) ==
  /\ Holds(r, t)
  /\ ~ReceiptExists(r, t)
  /\ records' = [records EXCEPT ![r] = None]
  /\ receipts' = receipts \cup {<<r, t, resolution>>}

----------------------------------------------------------------------------
Init ==
  /\ clock = 0
  /\ authority \in Generations
  /\ records = [r \in Resources |-> None]
  /\ receipts = {}
  /\ pc = [i \in Invocations |-> "idle"]
  /\ claim = [i \in Invocations |-> None]
  /\ acquired = [i \in Invocations |-> FALSE]
  /\ previous = [i \in Invocations |-> None]
  /\ cancelAt = [i \in Invocations |-> 0]
  /\ recovery = [i \in Invocations |-> "idle"]
  /\ calls = [i \in Invocations |-> 0]
  /\ child = [i \in Invocations |-> "none"]
  /\ outcome = [i \in Invocations |-> "unknown"]
  /\ effects = {}

Aborted(i) == clock >= cancelAt[i]
Goto(i, label) == pc' = [pc EXCEPT ![i] = label]

\* invokeOperation starts the deadline signal, then acquire checks that the installation
\* still resolves to the generation the invocation was bound to.
Begin(i, r, g, e) ==
  /\ pc[i] = "idle"
  /\ clock + Bound <= MaxTime   \* bound: every deadline signal fires within the modelled time
  /\ claim' = [claim EXCEPT ![i] =
       [resource |-> r, generation |-> g, epoch |-> e, deadline |-> clock + Bound]]
  /\ cancelAt' = [cancelAt EXCEPT ![i] = clock + Bound]
  /\ Goto(i, "authorizing")
  /\ UNCHANGED <<clock, authority, storeVars, acquired, previous, recovery, writeVars, outcome>>

\* authority() holds: the record gets its startedAt and deadline.
Authorized(i) ==
  /\ pc[i] = "authorizing"
  /\ authority = claim[i].generation
  /\ claim' = [claim EXCEPT ![i].deadline = clock + Bound]
  /\ Goto(i, "claiming")
  /\ UNCHANGED <<clock, authority, storeVars, acquired, previous, cancelAt, recovery,
                 writeVars, outcome>>

\* authority() throws, or the store is unavailable before the claim: nothing was taken.
AcquireFails(i) ==
  /\ \/ pc[i] = "authorizing" /\ authority # claim[i].generation
     \/ pc[i] = "claiming"
  /\ Goto(i, "closed")
  /\ UNCHANGED <<clock, authority, storeVars, frameVars, recovery, writeVars, outcome>>

\* Mutants: recovery without the deadline, and without the generation.
RecoverableAnyTime(c, t, state) ==
  ClaimOf(t).generation = c.generation /\ ClaimOf(t).epoch = c.epoch
RecoverableAcrossGenerations(c, t, state) ==
  /\ ClaimOf(t).epoch = c.epoch
  /\ state = "unknown" \/ ClaimOf(t).deadline <= c.deadline - Bound

\* May the invocation that built claim c resolve the predecessor t that it found?
\* (startedAt of the new record is its deadline minus the bound.)
Recoverable(c, t, state) ==
  /\ ClaimOf(t).generation = c.generation
  /\ ClaimOf(t).epoch = c.epoch
  /\ state = "unknown" \/ ClaimOf(t).deadline <= c.deadline - Bound

\* The claim transaction: insert if absent, else answer with the row that is there.
Claim(i) ==
  LET r == claim[i].resource IN
  /\ pc[i] = "claiming"
  /\ IF records[r] = None
     THEN /\ records' = [records EXCEPT ![r] = [token |-> i, state |-> "executing"]]
          /\ acquired' = [acquired EXCEPT ![i] = TRUE]
          /\ UNCHANGED previous
     ELSE /\ previous' = [previous EXCEPT ![i] =
               IF Recoverable(claim[i], records[r].token, records[r].state)
               THEN records[r].token ELSE None]
          /\ UNCHANGED <<records, acquired>>
  /\ Goto(i, "running")
  /\ UNCHANGED <<clock, authority, receipts, claim, cancelAt, recovery, writeVars, outcome>>

\* The insert commits but its answer is lost: acquire throws, no frame is opened, and the
\* row stays although no invocation knows it holds it.
ClaimReplyLost(i) ==
  /\ pc[i] = "claiming"
  /\ records[claim[i].resource] = None
  /\ records' = [records EXCEPT ![claim[i].resource] = [token |-> i, state |-> "executing"]]
  /\ Goto(i, "closed")
  /\ UNCHANGED <<clock, authority, receipts, frameVars, recovery, writeVars, outcome>>

----------------------------------------------------------------------------
(* The handler and its nested write                                        *)

\* While a nested call or a host control is outstanding the sandbox is suspended.
Suspended(i) == child[i] \in {"admitted", "inflight"} \/ recovery[i] \in {"checking", "releasing"}
HandlerRuns(i) == pc[i] = "running" /\ ~Suspended(i)

\* Mutant: the frame does not latch writeStarted.
AdmitEveryAction(i) == acquired[i]

\* admitCoordinatedAction on the invocation's frame; writeStarted is child # "none".
AdmitCoordinatedAction(i) == acquired[i] /\ child[i] = "none"

CallWrite(i) ==
  /\ HandlerRuns(i)
  /\ ~Aborted(i)
  /\ AdmitCoordinatedAction(i)
  /\ calls[i] < MaxCalls
  /\ child' = [child EXCEPT ![i] = "admitted"]
  /\ UNCHANGED <<clock, authority, storeVars, pc, frameVars, recovery, calls, outcome, effects>>

\* Policy, credentials, usage admission or the evidence claim refuse, or the deadline is over.
WriteDenied(i) ==
  /\ child[i] = "admitted"
  /\ child' = [child EXCEPT ![i] = "denied"]
  /\ UNCHANGED <<clock, authority, storeVars, pc, frameVars, recovery, calls, outcome, effects>>

\* connector.invoke of the nested write, unless the inherited deadline signal has aborted.
\* Neither the end of the parent nor the loss of its custody is looked at.
Dispatch(i) ==
  /\ child[i] = "admitted"
  /\ ~Aborted(i)
  /\ child' = [child EXCEPT ![i] = "inflight"]
  /\ calls' = [calls EXCEPT ![i] = @ + 1]
  /\ UNCHANGED <<clock, authority, storeVars, pc, frameVars, recovery, outcome, effects>>

\* The provider (external) applies or refuses a request; its answer may get lost.
Land(i) ==
  /\ child[i] \in {"inflight", "lost"}
  /\ i \notin effects
  /\ effects' = effects \cup {i}
  /\ UNCHANGED <<clock, authority, storeVars, pc, frameVars, recovery, calls, child, outcome>>

Answer(i) ==
  /\ child[i] = "inflight"
  /\ child' = [child EXCEPT ![i] = IF i \in effects THEN "applied" ELSE "refused"]
  /\ UNCHANGED <<clock, authority, storeVars, pc, frameVars, recovery, calls, outcome, effects>>

AnswerLost(i) ==
  /\ child[i] = "inflight"
  /\ child' = [child EXCEPT ![i] = "lost"]
  /\ UNCHANGED <<clock, authority, storeVars, pc, frameVars, recovery, calls, outcome, effects>>

\* reportOutcome.  The handler tells the truth: "completed" about a write that answered with
\* success, "rejected" about one that was denied or refused.
Truthful(i, o) ==
  \/ o = "completed" /\ child[i] = "applied"
  \/ o = "rejected" /\ child[i] \in {"denied", "refused"}
  \/ o = "unknown"

Report(i, o) ==
  /\ HandlerRuns(i)
  /\ child[i] # "none"
  /\ Truthful(i, o)
  /\ outcome' = [outcome EXCEPT ![i] = o]
  /\ UNCHANGED <<clock, authority, storeVars, pc, frameVars, recovery, writeVars>>

----------------------------------------------------------------------------
(* Recovery of the predecessor: resolveCoordination -> resolvePrevious     *)

StartResolve(i) ==
  /\ HandlerRuns(i)
  /\ ~Aborted(i)
  /\ previous[i] # None
  /\ recovery[i] = "idle"
  /\ recovery' = [recovery EXCEPT ![i] = "checking"]
  /\ UNCHANGED <<clock, authority, storeVars, pc, frameVars, writeVars, outcome>>

Abandoned(i) == pc[i] = "crashed"

\* The live authority check and the execution deadline of the recovering invocation.
CheckResolve(i) ==
  /\ recovery[i] = "checking"
  /\ ~Abandoned(i)
  /\ recovery' = [recovery EXCEPT ![i] =
       IF authority = claim[i].generation /\ clock <= claim[i].deadline
       THEN "releasing" ELSE "idle"]
  /\ UNCHANGED <<clock, authority, storeVars, pc, frameVars, writeVars, outcome>>

\* release(resource, previous.token, 'source_verified'); its answer may get lost.
ReleasePrevious(i) ==
  /\ recovery[i] = "releasing"
  /\ ~Abandoned(i)
  /\ ResolveRow(claim[i].resource, previous[i], "source_verified")
  /\ \E after \in {"resolved", "idle"} : recovery' = [recovery EXCEPT ![i] = after]
  /\ UNCHANGED <<clock, authority, pc, frameVars, writeVars, outcome>>

\* The predecessor's token is gone, its receipt exists, or the store fails: resolvePrevious throws.
ResolveFails(i) ==
  /\ recovery[i] = "releasing"
  /\ recovery' = [recovery EXCEPT ![i] = "idle"]
  /\ UNCHANGED <<clock, authority, storeVars, pc, frameVars, writeVars, outcome>>

\* Mutant: a review does not wait for the deadline.
ReviewAnyTime(r) ==
  /\ records[r] # None
  /\ ResolveRow(r, records[r].token, "reviewed")
  /\ UNCHANGED <<clock, authority, pc, frameVars, recovery, writeVars, outcome>>

\* OperationCoordinationStore.resolve: a reviewer closes exactly the token that was listed.
Review(r) ==
  /\ records[r] # None
  /\ ~(records[r].state = "executing" /\ ClaimOf(records[r].token).deadline > clock)
  /\ ResolveRow(r, records[r].token, "reviewed")
  /\ UNCHANGED <<clock, authority, pc, frameVars, recovery, writeVars, outcome>>

\* importUnknown: all claims of the batch are inserted or found unchanged, or none is.
ImportUnknown(S) ==
  LET row(t) == [token |-> t, state |-> "unknown"] IN
  /\ \A t \in S : records[ImportedClaim[t].resource] \in {None, row(t)}
  /\ \A t, u \in S : ImportedClaim[t].resource = ImportedClaim[u].resource => t = u
  /\ records' = [r \in Resources |->
       IF \E t \in S : ImportedClaim[t].resource = r
       THEN row(CHOOSE t \in S : ImportedClaim[t].resource = r) ELSE records[r]]
  /\ UNCHANGED <<clock, authority, receipts, pc, frameVars, recovery, writeVars, outcome>>

----------------------------------------------------------------------------
(* The end of an invocation                                                *)

\* The handler returns or throws.
Return(i) ==
  /\ HandlerRuns(i)
  /\ Goto(i, "finishing")
  /\ UNCHANGED <<clock, authority, storeVars, frameVars, recovery, writeVars, outcome>>

\* Mutant: only the in-sandbox interrupt, which cannot reach a suspended handler.
InterruptOnly(i) ==
  /\ HandlerRuns(i)
  /\ Aborted(i)
  /\ Goto(i, "finishing")
  /\ UNCHANGED <<clock, authority, storeVars, frameVars, recovery, writeVars, outcome>>

\* ComputeWorkerPool.#onDeadline: the backstop ends a sandbox, suspended or not.
Backstop(i) ==
  /\ pc[i] = "running"
  /\ Aborted(i)
  /\ Goto(i, "finishing")
  /\ UNCHANGED <<clock, authority, storeVars, frameVars, recovery, writeVars, outcome>>

\* ComputeWorkerPool.#onWorkerLost: the worker thread exits under a suspended handler.
LoseWorker(i) ==
  /\ WorkerLoss
  /\ pc[i] = "running"
  /\ Suspended(i)
  /\ Goto(i, "finishing")
  /\ UNCHANGED <<clock, authority, storeVars, frameVars, recovery, writeVars, outcome>>

\* Mutant: a write without an answer counts as not dispatched.
FinalEvidenceByAnswer(i) == IF child[i] \in {"applied", "refused"} THEN outcome[i] ELSE "rejected"

\* The finally block: didAdmitAction() ? (outcome ?? unknown) : rejected.
FinalEvidence(i) == IF child[i] # "none" THEN outcome[i] ELSE "rejected"

\* lease.finish: only proven completion or proof of no dispatched effect releases custody.
Finish(i) ==
  LET r == claim[i].resource IN
  /\ pc[i] = "finishing"
  /\ IF ~acquired[i] THEN UNCHANGED records
     ELSE IF FinalEvidence(i) \in {"completed", "rejected"} THEN ReleaseRow(r, i)
     ELSE MarkUnknown(r, i)
  /\ Goto(i, "closed")
  /\ UNCHANGED <<clock, authority, receipts, frameVars, recovery, writeVars, outcome>>

\* The terminal store call fails: the row keeps its executing state.
FinishFails(i) ==
  /\ pc[i] = "finishing"
  /\ Goto(i, "closed")
  /\ UNCHANGED <<clock, authority, storeVars, frameVars, recovery, writeVars, outcome>>

\* The process dies: an admitted nested write is never dispatched, an answer never read.
Crash(i) ==
  /\ pc[i] \notin {"idle", "closed", "crashed"}
  /\ Goto(i, "crashed")
  /\ child' = [child EXCEPT ![i] = CASE @ = "admitted" -> "denied"
                                     [] @ = "inflight" -> "lost"
                                     [] OTHER -> @]
  /\ UNCHANGED <<clock, authority, storeVars, frameVars, recovery, calls, outcome, effects>>

----------------------------------------------------------------------------
\* The installation is rebound to another account, or stops resolving.
Rebind(g) ==
  /\ g # authority
  /\ authority' = g
  /\ UNCHANGED <<clock, storeVars, pc, frameVars, recovery, writeVars, outcome>>

Tick ==
  /\ clock < MaxTime
  /\ clock' = clock + 1
  /\ UNCHANGED <<authority, storeVars, pc, frameVars, recovery, writeVars, outcome>>

Handler(i) ==
  \/ CallWrite(i) \/ WriteDenied(i) \/ Dispatch(i) \/ Land(i) \/ Answer(i) \/ AnswerLost(i)
  \/ \E o \in Evidence : Report(i, o)

Lifecycle(i) ==
  \/ \E r \in Resources, g \in Generations, e \in Epochs : Begin(i, r, g, e)
  \/ Authorized(i) \/ AcquireFails(i) \/ Claim(i) \/ ClaimReplyLost(i)
  \/ StartResolve(i) \/ CheckResolve(i) \/ ReleasePrevious(i) \/ ResolveFails(i)
  \/ Return(i) \/ Backstop(i) \/ LoseWorker(i) \/ Finish(i) \/ FinishFails(i) \/ Crash(i)

Operators ==
  \/ \E r \in Resources : Review(r)
  \/ \E S \in SUBSET Imported : S # {} /\ ImportUnknown(S)
  \/ \E g \in Generations \cup {None} : Rebind(g)

Next ==
  \/ \E i \in Invocations : Handler(i) \/ Lifecycle(i)
  \/ Operators
  \/ Tick

\* An invocation's own awaits are resumed by the event loop; the pool's backstop timer and the
\* finally block need nothing from anybody else.
Fairness ==
  \A i \in Invocations :
    /\ WF_vars(Authorized(i) \/ AcquireFails(i) \/ Claim(i))
    /\ WF_vars(Backstop(i))
    /\ WF_vars(Finish(i) \/ FinishFails(i))

Spec == Init /\ [][Next]_vars
FairSpec == Spec /\ Fairness /\ WF_vars(Tick)

----------------------------------------------------------------------------
(* Properties                                                              *)

PCs == {"idle", "authorizing", "claiming", "running", "finishing", "closed", "crashed"}
Writes == {"none", "admitted", "denied", "inflight", "lost", "applied", "refused"}

TypeOK ==
  /\ clock \in Time
  /\ authority \in Generations \cup {None}
  /\ records \in [Resources -> Rows \cup {None}]
  /\ receipts \subseteq Resources \X Tokens \X Resolutions
  /\ pc \in [Invocations -> PCs]
  /\ claim \in [Invocations -> Claims \cup {None}]
  /\ acquired \in [Invocations -> BOOLEAN]
  /\ previous \in [Invocations -> Tokens \cup {None}]
  /\ cancelAt \in [Invocations -> Int]
  /\ recovery \in [Invocations -> {"idle", "checking", "releasing", "resolved"}]
  /\ calls \in [Invocations -> Nat]
  /\ child \in [Invocations -> Writes]
  /\ outcome \in [Invocations -> Evidence]
  /\ effects \subseteq Invocations

\* "Only proven completion or proof of no dispatched effect releases custody": a write that
\* reached the provider either still has its resource in custody, or a resolution of exactly
\* its token is on record, or its handler reported what really happened.  Crashes, lost
\* claims, failed terminal writes and dead workers included.
EffectAccounted(i) ==
  \/ Holds(claim[i].resource, i)
  \/ ReceiptExists(claim[i].resource, i)
  \/ outcome[i] = "completed" /\ i \in effects
  \/ outcome[i] = "rejected" /\ i \notin effects
UncertainEffectKeepsCustody == \A i \in Invocations : calls[i] > 0 => EffectAccounted(i)

\* The frame: an invocation dispatches at most one write, and none unless it acquired the
\* resource itself - a blocked invocation not even after it resolved its predecessor.
AtMostOneWrite ==
  \A i \in Invocations : calls[i] <= 1 /\ (calls[i] = 1 => acquired[i])

\* "Serializes one resource across port instances": two invocations never both have a
\* nested write that may still go out to the same resource.
MayDispatch(i) == child[i] = "admitted" /\ ~Aborted(i)
OneWriter ==
  \A i, j \in Invocations :
    i # j /\ MayDispatch(i) /\ MayDispatch(j) => claim[i].resource # claim[j].resource

\* A resolution is final for a token that was claimed here: the token never holds custody
\* again, so a held token can always still be resolved by exactly one receipt.
ResolvedStaysResolved ==
  \A r \in Resources, i \in Invocations : ReceiptExists(r, i) => ~Holds(r, i)

\* The same for every token, imported ones included: "imports an unknown reviewed custody
\* snapshot idempotently".
ImportedStaysResolved ==
  \A r \in Resources, t \in Imported : ReceiptExists(r, t) => ~Holds(r, t)

\* Nobody but its own holder ends or alters an executing claim before the deadline, whatever
\* a recovering invocation or a reviewer read before.
RespectsExecuting ==
  \A r \in Resources :
    LET row == records[r] IN
      /\ row # None
      /\ row.state = "executing"
      /\ ClaimOf(row.token).deadline > clock
      /\ records'[r] # row
      => pc[row.token] = "finishing" /\ pc'[row.token] = "closed"
ExecutingClaimIsRespected == [][RespectsExecuting]_vars

\* "Connection generation changes neither bypass nor permit recovery of a prior claim": a
\* source-verified receipt is only ever written by an invocation of the same connection
\* generation and epoch as the claim it resolves, still holding the row it was shown.
KeepsBinding ==
  \A r \in Resources, t \in Tokens :
    LET q == <<r, t, "source_verified">> IN
      q \in receipts' \ receipts =>
        /\ Holds(r, t)
        /\ \E i \in Invocations :
             /\ recovery[i] = "releasing" /\ previous[i] = t /\ i # t
             /\ claim[i].generation = ClaimOf(t).generation
             /\ claim[i].epoch = ClaimOf(t).epoch
RecoveryUnderOriginalBinding == [][KeepsBinding]_vars

\* Every invocation ends, also one whose sandbox waits for an answer that never comes.
EveryInvocationEnds ==
  \A i \in Invocations :
    pc[i] \in {"authorizing", "claiming", "running", "finishing"} ~> pc[i] \in {"closed", "crashed"}

\* The abstract specification.
C == INSTANCE Custody WITH
  Nobody <- None,
  holder <- [r \in Resources |-> IF records[r] = None THEN None ELSE records[r].token],
  uncertain <- {r \in Resources : records[r] # None /\ records[r].state = "unknown"},
  proved <- {q \in Resources \X Tokens : ReceiptExists(q[1], q[2])}

\* Every step on the store is one of the abstract custody steps; in particular an uncertain
\* row never leaves without a receipt for its token.
ImplementsCustody == C!CustodySpec
=============================================================================
