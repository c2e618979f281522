-------------------- MODULE OperationCoordinationProofs --------------------
(* Theorems about OperationCoordination for every value of its constants. *)
EXTENDS OperationCoordination, TLAPS

USE DisjointTokens, NoneIsNothing, ImportedClaimType, BoundPositive, MaxTimeNat,
    MaxCallsNat, WorkerLossBoolean

----------------------------------------------------------------------------
(* Type correctness                                                        *)

\* TypeOK is inductive together with this: an invocation that began has built its record, and
\* one that recovers has a predecessor.
Begun ==
  \A i \in Invocations :
    /\ pc[i] # "idle" => claim[i] # None
    /\ recovery[i] # "idle" =>
         previous[i] # None /\ pc[i] \in {"running", "finishing", "closed", "crashed"}

LEMMA InitTypeOK == Init => TypeOK /\ Begun
  BY DEF Init, TypeOK, Begun, Time, PCs, Writes, Evidence

LEMMA ClaimTyped ==
  ASSUME TypeOK, NEW i \in Invocations, claim[i] # None
  PROVE  claim[i] \in Claims /\ claim[i].resource \in Resources
  BY DEF TypeOK, Claims

LEMMA RowTyped ==
  ASSUME TypeOK, NEW r \in Resources, records[r] # None
  PROVE  records[r] \in Rows /\ records[r].token \in Tokens
  BY DEF TypeOK, Rows

\* A type-correct state steps to a type-correct state: what each group of actions assigns.
LEMMA StepTypeOK == TypeOK /\ Begun /\ [Next]_vars => TypeOK'
<1> SUFFICES ASSUME TypeOK, Begun, [Next]_vars PROVE TypeOK'
  OBVIOUS
<1> USE DEF TypeOK, storeVars, frameVars, writeVars, Goto, PCs, Writes, Evidence
<1>1. ASSUME NEW i \in Invocations, Handler(i) PROVE TypeOK'
  <2>1. CASE CallWrite(i) \/ WriteDenied(i) \/ Answer(i) \/ AnswerLost(i)
    BY <2>1 DEF CallWrite, WriteDenied, Answer, AnswerLost
  <2>2. CASE Dispatch(i)
    BY <2>2 DEF Dispatch
  <2>3. CASE Land(i)
    BY <2>3 DEF Land
  <2>4. ASSUME NEW o \in Evidence, Report(i, o) PROVE TypeOK'
    BY <2>4 DEF Report
  <2> QED BY <1>1, <2>1, <2>2, <2>3, <2>4 DEF Handler
<1>2. ASSUME NEW i \in Invocations, Lifecycle(i) PROVE TypeOK'
  <2>1. ASSUME NEW r \in Resources, NEW g \in Generations, NEW e \in Epochs, Begin(i, r, g, e)
        PROVE TypeOK'
    BY <2>1 DEF Begin, Claims, Time
  <2>2. CASE Authorized(i)
    <3>1. claim[i] \in Claims
      BY <2>2 DEF Authorized, Begun
    <3>2. [claim[i] EXCEPT !.deadline = clock + Bound] \in Claims
      BY <3>1 DEF Claims, Time
    <3>3. claim' \in [Invocations -> Claims \cup {None}]
      BY <2>2, <3>2 DEF Authorized
    <3> QED BY <2>2, <3>3 DEF Authorized
  <2>3. CASE AcquireFails(i) \/ StartResolve(i) \/ CheckResolve(i) \/ ResolveFails(i)
    BY <2>3 DEF AcquireFails, StartResolve, CheckResolve, ResolveFails
  <2>4. CASE Claim(i)
    <3>1. claim[i] \in Claims /\ claim[i].resource \in Resources
      BY <2>4, ClaimTyped DEF Claim, Begun
    <3>2. [token |-> i, state |-> "executing"] \in Rows
      BY DEF Rows, Tokens
    <3>3. records' \in [Resources -> Rows \cup {None}]
      BY <2>4, <3>2 DEF Claim
    <3>4. previous' \in [Invocations -> Tokens \cup {None}]
      BY <2>4, <3>1, RowTyped DEF Claim
    <3> QED BY <2>4, <3>3, <3>4 DEF Claim
  <2>5. CASE ClaimReplyLost(i)
    BY <2>5 DEF ClaimReplyLost, Rows, Tokens
  <2>6. CASE ReleasePrevious(i)
    <3>1. claim[i] \in Claims /\ claim[i].resource \in Resources
      BY <2>6, ClaimTyped DEF ReleasePrevious, Begun
    <3> QED BY <2>6, <3>1, RowTyped DEF ReleasePrevious, ResolveRow, Resolutions, Holds
  <2>7. CASE Return(i) \/ Backstop(i) \/ LoseWorker(i) \/ FinishFails(i)
    BY <2>7 DEF Return, Backstop, LoseWorker, FinishFails
  <2>8. CASE Finish(i)
    BY <2>8 DEF Finish, ReleaseRow, MarkUnknown, Holds, Rows
  <2>9. CASE Crash(i)
    BY <2>9 DEF Crash
  <2> QED BY <1>2, <2>1, <2>2, <2>3, <2>4, <2>5, <2>6, <2>7, <2>8, <2>9 DEF Lifecycle
<1>3. CASE Operators
  <2>1. ASSUME NEW r \in Resources, Review(r) PROVE TypeOK'
    BY <2>1, RowTyped DEF Review, ResolveRow, Resolutions
  <2>2. ASSUME NEW S \in SUBSET Imported, ImportUnknown(S) PROVE TypeOK'
    BY <2>2 DEF ImportUnknown, Rows, Tokens
  <2>3. ASSUME NEW g \in Generations \cup {None}, Rebind(g) PROVE TypeOK'
    BY <2>3 DEF Rebind
  <2> QED BY <1>3, <2>1, <2>2, <2>3 DEF Operators
<1>4. CASE Tick
  BY <1>4 DEF Tick, Time
<1>5. CASE UNCHANGED vars
  BY <1>5 DEF vars
<1> QED BY <1>1, <1>2, <1>3, <1>4, <1>5 DEF Next

LEMMA StepBegun == TypeOK /\ Begun /\ [Next]_vars => Begun'
<1> SUFFICES ASSUME TypeOK, Begun, [Next]_vars PROVE Begun'
  OBVIOUS
<1> USE DEF TypeOK, Begun, storeVars, frameVars, writeVars, Goto
<1>1. ASSUME NEW i \in Invocations, NEW r \in Resources, NEW g \in Generations, NEW e \in Epochs,
             Begin(i, r, g, e)
      PROVE  Begun'
  <2>1. claim'[i] \in Claims
    BY <1>1 DEF Begin, Claims, Time
  <2> QED BY <1>1, <2>1 DEF Begin
<1>2. ASSUME NEW i \in Invocations, Authorized(i) PROVE Begun'
  <2>1. claim[i] \in Claims
    BY <1>2 DEF Authorized
  <2>2. clock + Bound \in Int
    BY DEF Time
  <2>3. [claim[i] EXCEPT !.deadline = clock + Bound] \in Claims
    BY <2>1, <2>2 DEF Claims
  <2> QED BY <1>2, <2>3 DEF Authorized
<1>3. ASSUME NEW i \in Invocations,
             AcquireFails(i) \/ Claim(i) \/ ClaimReplyLost(i) \/ StartResolve(i) \/ CheckResolve(i)
             \/ ReleasePrevious(i) \/ ResolveFails(i)
      PROVE  Begun'
  <2>1. CASE AcquireFails(i) \/ ClaimReplyLost(i) \/ ResolveFails(i)
    BY <2>1 DEF AcquireFails, ClaimReplyLost, ResolveFails
  <2>2. CASE StartResolve(i) \/ CheckResolve(i)
    BY <2>2 DEF StartResolve, CheckResolve, HandlerRuns
  <2>3. CASE ReleasePrevious(i)
    BY <2>3 DEF ReleasePrevious
  <2>4. CASE Claim(i)
    BY <2>4 DEF Claim
  <2> QED BY <1>3, <2>1, <2>2, <2>3, <2>4
<1>4. ASSUME NEW i \in Invocations,
             Return(i) \/ Backstop(i) \/ LoseWorker(i) \/ Finish(i) \/ FinishFails(i) \/ Crash(i)
      PROVE  Begun'
  BY <1>4 DEF Return, Backstop, LoseWorker, HandlerRuns, Finish, FinishFails, Crash
<1>5. ASSUME NEW i \in Invocations, Handler(i) PROVE Begun'
  BY <1>5 DEF Handler, CallWrite, WriteDenied, Dispatch, Land, Answer, AnswerLost, Report
<1>6. CASE Operators \/ Tick
  BY <1>6 DEF Operators, Review, ImportUnknown, Rebind, Tick
<1>7. CASE UNCHANGED vars
  BY <1>7 DEF vars
<1> QED BY <1>1, <1>2, <1>3, <1>4, <1>5, <1>6, <1>7 DEF Next, Lifecycle

\* Every variable keeps its type: rows are rows of real tokens, evidence is evidence.
THEOREM CoordinationTypeOK == Spec => []TypeOK
<1>1. Init => TypeOK /\ Begun
  BY InitTypeOK
<1>2. TypeOK /\ Begun /\ [Next]_vars => (TypeOK /\ Begun)'
  BY StepTypeOK, StepBegun
<1> QED BY <1>1, <1>2, PTL DEF Spec
----------------------------------------------------------------------------
(* Custody                                                                 *)

\* Past the claim: the only control points at which an invocation can have a row or a frame.
Claimed(i) == pc[i] \in {"running", "finishing", "closed", "crashed"}

\* The frame of an invocation: no write without the frame, no dispatch without admission.
FrameInv(i) ==
  /\ acquired[i] \/ child[i] # "none" => Claimed(i)
  /\ child[i] # "none" => acquired[i]
  /\ calls[i] = 0 \/ calls[i] = 1
  /\ calls[i] = 1 => child[i] \notin {"none", "admitted"}

\* What the handler knows about its write is true of the provider.
TruthInv(i) ==
  /\ child[i] = "applied" => i \in effects
  /\ child[i] \in {"none", "admitted", "denied", "refused"} => i \notin effects
  /\ outcome[i] = "completed" => child[i] = "applied"
  /\ outcome[i] = "rejected" => child[i] \in {"denied", "refused"}

\* A row of an invocation is its own, and only its own finish makes it uncertain.
RowInv(r, i) ==
  /\ Holds(r, i) => Claimed(i) /\ claim[i].resource = r
  /\ Holds(r, i) /\ records[r].state = "unknown" => pc[i] = "closed"
  /\ ReceiptExists(r, i) => Claimed(i) /\ ~Holds(r, i)

\* An acquired resource stays in custody until a receipt or the holder's own evidence.
LeaseInv(i) ==
  acquired[i] =>
    \/ Holds(claim[i].resource, i)
    \/ ReceiptExists(claim[i].resource, i)
    \/ pc[i] = "closed" /\ (child[i] = "none" \/ outcome[i] # "unknown")

CustodyInv ==
  /\ \A i \in Invocations : FrameInv(i) /\ TruthInv(i) /\ LeaseInv(i)
  /\ \A r \in Resources, i \in Invocations : RowInv(r, i)

LEMMA InitCustodyInv == Init => CustodyInv
  BY DEF Init, CustodyInv, FrameInv, TruthInv, RowInv, LeaseInv, Claimed, Holds, ReceiptExists

\* The steps of an invocation's handler and of the provider leave the store alone.
LEMMA HandlerCustodyInv ==
  ASSUME TypeOK, CustodyInv, NEW k \in Invocations, Handler(k)
  PROVE  CustodyInv'
<1> SUFFICES ASSUME NEW i \in Invocations
             PROVE  (FrameInv(i) /\ TruthInv(i) /\ LeaseInv(i) /\ \A r \in Resources : RowInv(r, i))'
  BY DEF CustodyInv
<1> USE DEF storeVars, frameVars, writeVars
<1>1. FrameInv(i) /\ TruthInv(i) /\ LeaseInv(i) /\ \A r \in Resources : RowInv(r, i)
  BY DEF CustodyInv
<1>2. FrameInv(k) /\ TruthInv(k) /\ LeaseInv(k)
  BY DEF CustodyInv
<1>3. /\ UNCHANGED <<pc, claim, acquired, records, receipts>>
      /\ child \in [Invocations -> Writes]
      /\ calls \in [Invocations -> Nat]
      /\ outcome \in [Invocations -> Evidence]
  BY DEF Handler, CallWrite, WriteDenied, Dispatch, Land, Answer, AnswerLost, Report, TypeOK
<1>4. (\A r \in Resources : RowInv(r, i))'
  BY <1>1, <1>3 DEF RowInv, Claimed, Holds, ReceiptExists
<1>5. LeaseInv(i)'
  <2>1. (child[i] = "none" \/ outcome[i] # "unknown") /\ pc[i] = "closed"
        => child'[i] = "none" \/ outcome'[i] # "unknown"
    BY <1>1, <1>2, <1>3 DEF Handler, CallWrite, WriteDenied, Dispatch, Land, Answer, AnswerLost, Report,
       HandlerRuns, TruthInv
  <2> QED BY <1>1, <1>3, <2>1 DEF LeaseInv, Holds, ReceiptExists
<1>6. FrameInv(i)'
  BY <1>1, <1>2, <1>3 DEF Handler, CallWrite, WriteDenied, Dispatch, Land, Answer, AnswerLost, Report,
     HandlerRuns, FrameInv, Claimed, AdmitCoordinatedAction
<1>7. TruthInv(i)'
  <2>1. CASE CallWrite(k) \/ WriteDenied(k) \/ Dispatch(k)
    BY <2>1, <1>1, <1>3 DEF CallWrite, WriteDenied, Dispatch, TruthInv, AdmitCoordinatedAction
  <2>2. CASE Land(k)
    BY <2>2, <1>1, <1>3 DEF Land, TruthInv
  <2>3. CASE Answer(k) \/ AnswerLost(k)
    BY <2>3, <1>1, <1>3 DEF Answer, AnswerLost, TruthInv
  <2>4. ASSUME NEW o \in Evidence, Report(k, o) PROVE TruthInv(i)'
    BY <2>4, <1>1, <1>3 DEF Report, Truthful, TruthInv, Evidence
  <2> QED BY <2>1, <2>2, <2>3, <2>4 DEF Handler
<1> QED BY <1>4, <1>5, <1>6, <1>7

\* Steps of an invocation that move its control point and touch no row and no receipt.
QuietStep(k) ==
  \/ \E r \in Resources, g \in Generations, e \in Epochs : Begin(k, r, g, e)
  \/ Authorized(k) \/ AcquireFails(k) \/ StartResolve(k) \/ CheckResolve(k)
  \/ ResolveFails(k) \/ Return(k) \/ Backstop(k) \/ LoseWorker(k) \/ FinishFails(k) \/ Crash(k)

LEMMA QuietCustodyInv ==
  ASSUME TypeOK, CustodyInv, NEW k \in Invocations, QuietStep(k)
  PROVE  CustodyInv'
<1> SUFFICES ASSUME NEW i \in Invocations
             PROVE  (FrameInv(i) /\ TruthInv(i) /\ LeaseInv(i) /\ \A r \in Resources : RowInv(r, i))'
  BY DEF CustodyInv
<1> USE DEF storeVars, frameVars, writeVars, Goto
<1>1. FrameInv(i) /\ TruthInv(i) /\ LeaseInv(i) /\ \A r \in Resources : RowInv(r, i)
  BY DEF CustodyInv
<1>2. /\ UNCHANGED <<acquired, calls, outcome, effects, records, receipts>>
      /\ pc \in [Invocations -> PCs]
      /\ child \in [Invocations -> Writes]
  BY DEF QuietStep, Begin, Authorized, AcquireFails, StartResolve, CheckResolve, ResolveFails, Return,
         Backstop, LoseWorker, FinishFails, Crash, TypeOK
<1>3. \/ child' = child
      \/ /\ pc[k] # "closed"
         /\ child' = [child EXCEPT ![k] = CASE @ = "admitted" -> "denied"
                                            [] @ = "inflight" -> "lost"
                                            [] OTHER -> @]
  BY DEF QuietStep, Begin, Authorized, AcquireFails, StartResolve, CheckResolve, ResolveFails, Return,
         Backstop, LoseWorker, FinishFails, Crash
<1>4. \/ /\ pc[i] \in {"idle", "authorizing"}
         /\ ~Claimed(i)
      \/ /\ claim'[i] = claim[i]
         /\ Claimed(i) => Claimed(i)'
         /\ pc[i] = "closed" => pc'[i] = "closed"
  <2>1. CASE \E r \in Resources, g \in Generations, e \in Epochs : Begin(k, r, g, e)
    BY <2>1, <1>2 DEF Begin, Claimed, TypeOK
  <2>2. CASE Authorized(k) \/ AcquireFails(k)
    BY <2>2, <1>2 DEF Authorized, AcquireFails, Claimed, TypeOK
  <2>3. CASE StartResolve(k) \/ CheckResolve(k) \/ ResolveFails(k) \/ Crash(k)
    BY <2>3, <1>2 DEF StartResolve, CheckResolve, ResolveFails, Crash, Claimed
  <2>4. CASE Return(k) \/ Backstop(k) \/ LoseWorker(k) \/ FinishFails(k)
    BY <2>4, <1>2 DEF Return, Backstop, LoseWorker, FinishFails, HandlerRuns, Claimed
  <2> QED BY <2>1, <2>2, <2>3, <2>4 DEF QuietStep
<1>5. /\ child'[i] = "none" <=> child[i] = "none"
      /\ child'[i] # "admitted" \/ child[i] = "admitted"
      /\ child[i] \in {"applied", "refused", "denied"} => child'[i] = child[i]
      /\ child'[i] = "applied" => child[i] = "applied"
      /\ child'[i] = "denied" => child[i] \in {"denied", "admitted"}
      /\ child'[i] = "refused" => child[i] = "refused"
  BY <1>2, <1>3
<1>6. FrameInv(i)'
  BY <1>1, <1>2, <1>4, <1>5 DEF FrameInv
<1>7. TruthInv(i)'
  BY <1>1, <1>2, <1>5 DEF TruthInv
<1>8. LeaseInv(i)'
  BY <1>1, <1>2, <1>4, <1>5 DEF LeaseInv, FrameInv, Holds, ReceiptExists
<1>9. (\A r \in Resources : RowInv(r, i))'
  BY <1>1, <1>2, <1>4 DEF RowInv, Holds, ReceiptExists
<1> QED BY <1>6, <1>7, <1>8, <1>9

\* The claim transaction, answered or not.
LEMMA ClaimCustodyInv ==
  ASSUME TypeOK, Begun, CustodyInv, NEW k \in Invocations, Claim(k) \/ ClaimReplyLost(k)
  PROVE  CustodyInv'
<1> SUFFICES ASSUME NEW i \in Invocations
             PROVE  (FrameInv(i) /\ TruthInv(i) /\ LeaseInv(i) /\ \A r \in Resources : RowInv(r, i))'
  BY DEF CustodyInv
<1> USE DEF storeVars, frameVars, writeVars, Goto
<1>1. FrameInv(i) /\ TruthInv(i) /\ LeaseInv(i) /\ \A r \in Resources : RowInv(r, i)
  BY DEF CustodyInv
<1>2. FrameInv(k) /\ LeaseInv(k) /\ \A r \in Resources : RowInv(r, k)
  BY DEF CustodyInv
<1>3. claim[k].resource \in Resources
  BY ClaimTyped DEF Claim, ClaimReplyLost, Begun
<1>4. /\ UNCHANGED <<claim, receipts, calls, child, outcome, effects>>
      /\ pc[k] = "claiming" /\ pc'[k] \in {"running", "closed"}
      /\ \A j \in Invocations : j # k => pc'[j] = pc[j] /\ acquired'[j] = acquired[j]
  BY DEF Claim, ClaimReplyLost, TypeOK
<1>5. \/ /\ records[claim[k].resource] = None
         /\ records' = [records EXCEPT ![claim[k].resource] = [token |-> k, state |-> "executing"]]
      \/ records' = records /\ acquired' = acquired
  BY DEF Claim, ClaimReplyLost
<1>6. acquired'[k] => Holds(claim[k].resource, k)'
  <2>1. ~acquired[k]
    BY <1>2, <1>4 DEF FrameInv, Claimed
  <2>2. acquired'[k] => records' = [records EXCEPT ![claim[k].resource] =
                                      [token |-> k, state |-> "executing"]]
    BY <2>1, <1>5 DEF Claim, ClaimReplyLost
  <2>3. [token |-> k, state |-> "executing"] \in Rows
    BY DEF Rows, Tokens
  <2> QED BY <2>2, <2>3, <1>3, <1>4 DEF Holds, TypeOK
<1>7. \A r \in Resources, j \in Invocations : j # k =>
        /\ Holds(r, j)' <=> Holds(r, j)
        /\ Holds(r, j) => records'[r] = records[r]
  BY <1>3, <1>5 DEF Holds, TypeOK, Rows
<1>8. FrameInv(i)'
  BY <1>1, <1>2, <1>4 DEF FrameInv, Claimed
<1>9. TruthInv(i)'
  BY <1>1, <1>4 DEF TruthInv
<1>10. LeaseInv(i)'
  <2>1. CASE i = k
    BY <2>1, <1>4, <1>6 DEF LeaseInv, Holds, ReceiptExists
  <2>2. CASE i # k /\ acquired[i]
    <3>1. claim[i].resource \in Resources
      BY <2>2, <1>1, ClaimTyped DEF FrameInv, Claimed, Begun
    <3> QED BY <2>2, <3>1, <1>1, <1>4, <1>7 DEF LeaseInv, Holds, ReceiptExists
  <2>3. CASE i # k /\ ~acquired[i]
    BY <2>3, <1>4 DEF LeaseInv
  <2> QED BY <2>1, <2>2, <2>3
<1>11. ASSUME NEW r \in Resources PROVE RowInv(r, i)'
  <2>1. CASE i = k
    <3>1. ~Holds(r, k) /\ ~ReceiptExists(r, k)
      BY <1>2, <1>4 DEF RowInv, Claimed
    <3>2. Holds(r, k)' => r = claim[k].resource /\ records'[r].state = "executing"
      BY <3>1, <1>3, <1>5 DEF Holds, TypeOK, Rows
    <3> QED BY <2>1, <3>1, <3>2, <1>4 DEF RowInv, Claimed, ReceiptExists
  <2>2. CASE i # k
    <3>1. Holds(r, i)' <=> Holds(r, i)
      BY <2>2, <1>7
    <3>2. Holds(r, i) => records'[r] = records[r]
      BY <2>2, <1>7
    <3>3. ReceiptExists(r, i)' <=> ReceiptExists(r, i)
      BY <1>4 DEF ReceiptExists
    <3> QED BY <2>2, <3>1, <3>2, <3>3, <1>1, <1>4 DEF RowInv, Claimed
  <2> QED BY <2>1, <2>2
<1> QED BY <1>8, <1>9, <1>10, <1>11

\* lease.finish: the holder's evidence releases its own row or marks it uncertain.
LEMMA FinishCustodyInv ==
  ASSUME TypeOK, Begun, CustodyInv, NEW k \in Invocations, Finish(k)
  PROVE  CustodyInv'
<1> SUFFICES ASSUME NEW i \in Invocations
             PROVE  (FrameInv(i) /\ TruthInv(i) /\ LeaseInv(i) /\ \A r \in Resources : RowInv(r, i))'
  BY DEF CustodyInv
<1> USE DEF storeVars, frameVars, writeVars, Goto
<1>1. FrameInv(i) /\ TruthInv(i) /\ LeaseInv(i) /\ \A r \in Resources : RowInv(r, i)
  BY DEF CustodyInv
<1>2. /\ UNCHANGED <<claim, acquired, receipts, calls, child, outcome, effects>>
      /\ pc[k] = "finishing" /\ pc' = [pc EXCEPT ![k] = "closed"]
      /\ pc \in [Invocations -> PCs]
  BY DEF Finish, TypeOK
<1>3. claim[k].resource \in Resources
  BY <1>2, ClaimTyped DEF Begun
<1>4. \A r \in Resources, j \in Invocations : j # k =>
        /\ Holds(r, j)' <=> Holds(r, j)
        /\ Holds(r, j) => records'[r] = records[r]
  BY <1>3 DEF Finish, ReleaseRow, MarkUnknown, Holds, TypeOK, Rows
<1>5. \A r \in Resources : Holds(r, k)' => Holds(r, k)
  BY <1>3 DEF Finish, ReleaseRow, MarkUnknown, Holds, TypeOK, Rows
<1>6. acquired[k] /\ child[k] # "none" /\ outcome[k] = "unknown" =>
        (Holds(claim[k].resource, k) => Holds(claim[k].resource, k)')
  BY <1>2, <1>3 DEF Finish, FinalEvidence, MarkUnknown, Holds, TypeOK, Rows
<1>7. FrameInv(i)' /\ TruthInv(i)'
  BY <1>1, <1>2 DEF FrameInv, TruthInv, Claimed
<1>8. LeaseInv(i)'
  <2>1. CASE i = k
    BY <2>1, <1>1, <1>2, <1>6 DEF LeaseInv, Holds, ReceiptExists
  <2>2. CASE i # k /\ acquired[i]
    <3>1. claim[i].resource \in Resources
      BY <2>2, <1>1, ClaimTyped DEF FrameInv, Claimed, Begun
    <3> QED BY <2>2, <3>1, <1>1, <1>2, <1>4 DEF LeaseInv, Holds, ReceiptExists
  <2>3. CASE ~acquired[i]
    BY <2>3, <1>2 DEF LeaseInv
  <2> QED BY <2>1, <2>2, <2>3
<1>9. ASSUME NEW r \in Resources PROVE RowInv(r, i)'
  <2>1. ReceiptExists(r, i)' <=> ReceiptExists(r, i)
    BY <1>2 DEF ReceiptExists
  <2>2. CASE i = k
    BY <2>1, <2>2, <1>1, <1>2, <1>5 DEF RowInv, Claimed
  <2>3. CASE i # k
    <3>1. Holds(r, i)' <=> Holds(r, i)
      BY <2>3, <1>4
    <3>2. Holds(r, i) => records'[r] = records[r]
      BY <2>3, <1>4
    <3> QED BY <2>1, <2>3, <3>1, <3>2, <1>1, <1>2 DEF RowInv, Claimed
  <2> QED BY <2>2, <2>3
<1> QED BY <1>7, <1>8, <1>9

\* A receipt for a held token: a source-verified recovery or a review.
LEMMA ResolveCustodyInv ==
  ASSUME TypeOK, CustodyInv, NEW q \in Resources, NEW t \in Tokens, NEW p \in Resolutions,
         ResolveRow(q, t, p),
         UNCHANGED <<pc, claim, acquired, calls, child, outcome, effects>>
  PROVE  CustodyInv'
<1> SUFFICES ASSUME NEW i \in Invocations
             PROVE  (FrameInv(i) /\ TruthInv(i) /\ LeaseInv(i) /\ \A r \in Resources : RowInv(r, i))'
  BY DEF CustodyInv
<1>1. FrameInv(i) /\ TruthInv(i) /\ LeaseInv(i) /\ \A r \in Resources : RowInv(r, i)
  BY DEF CustodyInv
<1>2. Holds(q, t) /\ ~Holds(q, i)'
  BY DEF ResolveRow, Holds, TypeOK
<1>3. \A r : r # q => (Holds(r, i)' <=> Holds(r, i)) /\ records'[r] = records[r]
  BY DEF ResolveRow, Holds, TypeOK
<1>4. \A r : ReceiptExists(r, i)' <=> ReceiptExists(r, i) \/ (r = q /\ i = t)
  BY DEF ResolveRow, ReceiptExists
<1>5. Holds(q, i) <=> i = t
  BY <1>2 DEF Holds
<1>6. FrameInv(i)' /\ TruthInv(i)'
  BY <1>1 DEF FrameInv, TruthInv, Claimed
<1>7. LeaseInv(i)'
  BY <1>1, <1>3, <1>4, <1>5 DEF LeaseInv, Holds, ReceiptExists
<1>8. ASSUME NEW r \in Resources PROVE RowInv(r, i)'
  <2>1. CASE r = q
    BY <2>1, <1>1, <1>2, <1>4, <1>5 DEF RowInv, Claimed
  <2>2. CASE r # q
    BY <2>2, <1>1, <1>3, <1>4 DEF RowInv, Claimed
  <2> QED BY <2>1, <2>2
<1> QED BY <1>6, <1>7, <1>8

\* A cutover import inserts rows of imported tokens on free resources only.
LEMMA ImportCustodyInv ==
  ASSUME TypeOK, Begun, CustodyInv, NEW S \in SUBSET Imported, ImportUnknown(S)
  PROVE  CustodyInv'
<1> SUFFICES ASSUME NEW i \in Invocations
             PROVE  (FrameInv(i) /\ TruthInv(i) /\ LeaseInv(i) /\ \A r \in Resources : RowInv(r, i))'
  BY DEF CustodyInv
<1> USE DEF frameVars, writeVars
<1>1. FrameInv(i) /\ TruthInv(i) /\ LeaseInv(i) /\ \A r \in Resources : RowInv(r, i)
  BY DEF CustodyInv
<1>2. UNCHANGED <<pc, claim, acquired, calls, child, outcome, effects, receipts>>
  BY DEF ImportUnknown
<1>3. \A r \in Resources, j \in Invocations :
        /\ Holds(r, j)' <=> Holds(r, j)
        /\ Holds(r, j) => records'[r] = records[r]
  BY DEF ImportUnknown, Holds, TypeOK, Rows
<1>4. FrameInv(i)' /\ TruthInv(i)'
  BY <1>1, <1>2 DEF FrameInv, TruthInv, Claimed
<1>5. LeaseInv(i)'
  <2>1. CASE acquired[i]
    <3>1. claim[i].resource \in Resources
      BY <2>1, <1>1, ClaimTyped DEF FrameInv, Claimed, Begun
    <3> QED BY <2>1, <3>1, <1>1, <1>2, <1>3 DEF LeaseInv, Holds, ReceiptExists
  <2>2. CASE ~acquired[i]
    BY <2>2, <1>2 DEF LeaseInv
  <2> QED BY <2>1, <2>2
<1>6. ASSUME NEW r \in Resources PROVE RowInv(r, i)'
  <2>1. Holds(r, i)' <=> Holds(r, i)
    BY <1>3
  <2>2. Holds(r, i) => records'[r] = records[r]
    BY <1>3
  <2>3. ReceiptExists(r, i)' <=> ReceiptExists(r, i)
    BY <1>2 DEF ReceiptExists
  <2> QED BY <2>1, <2>2, <2>3, <1>1, <1>2 DEF RowInv, Claimed
<1> QED BY <1>4, <1>5, <1>6

\* Every step preserves the custody invariant.
LEMMA StepCustodyInv == TypeOK /\ Begun /\ CustodyInv /\ [Next]_vars => CustodyInv'
<1> SUFFICES ASSUME TypeOK, Begun, CustodyInv, [Next]_vars PROVE CustodyInv'
  OBVIOUS
<1>1. ASSUME NEW i \in Invocations, Handler(i) PROVE CustodyInv'
  BY <1>1, HandlerCustodyInv
<1>2. ASSUME NEW i \in Invocations, Lifecycle(i) PROVE CustodyInv'
  <2>1. CASE QuietStep(i)
    BY <2>1, QuietCustodyInv
  <2>2. CASE Claim(i) \/ ClaimReplyLost(i)
    BY <2>2, ClaimCustodyInv
  <2>3. CASE Finish(i)
    BY <2>3, FinishCustodyInv
  <2>4. CASE ReleasePrevious(i)
    <3>1. claim[i].resource \in Resources /\ previous[i] \in Tokens
      BY <2>4, ClaimTyped DEF ReleasePrevious, Begun, TypeOK
    <3>2. ResolveRow(claim[i].resource, previous[i], "source_verified")
      BY <2>4 DEF ReleasePrevious
    <3>3. UNCHANGED <<pc, claim, acquired, calls, child, outcome, effects>>
      BY <2>4 DEF ReleasePrevious, frameVars, writeVars
    <3>4. "source_verified" \in Resolutions
      BY DEF Resolutions
    <3> QED BY <3>1, <3>2, <3>3, <3>4, ResolveCustodyInv
  <2> QED BY <1>2, <2>1, <2>2, <2>3, <2>4 DEF Lifecycle, QuietStep
<1>3. CASE Operators
  <2>1. ASSUME NEW r \in Resources, Review(r) PROVE CustodyInv'
    <3>1. records[r].token \in Tokens
      BY <2>1, RowTyped DEF Review
    <3>2. ResolveRow(r, records[r].token, "reviewed")
      BY <2>1 DEF Review
    <3>3. UNCHANGED <<pc, claim, acquired, calls, child, outcome, effects>>
      BY <2>1 DEF Review, frameVars, writeVars
    <3>4. "reviewed" \in Resolutions
      BY DEF Resolutions
    <3> QED BY <3>1, <3>2, <3>3, <3>4, ResolveCustodyInv
  <2>2. ASSUME NEW S \in SUBSET Imported, ImportUnknown(S) PROVE CustodyInv'
    BY <2>2, ImportCustodyInv
  <2>3. ASSUME NEW g \in Generations \cup {None}, Rebind(g) PROVE CustodyInv'
    BY <2>3 DEF Rebind, storeVars, frameVars, writeVars, CustodyInv, FrameInv, TruthInv, RowInv,
                LeaseInv, Claimed, Holds, ReceiptExists
  <2> QED BY <1>3, <2>1, <2>2, <2>3 DEF Operators
<1>4. CASE Tick
  BY <1>4 DEF Tick, storeVars, frameVars, writeVars, CustodyInv, FrameInv, TruthInv, RowInv,
              LeaseInv, Claimed, Holds, ReceiptExists
<1>5. CASE UNCHANGED vars
  BY <1>5 DEF vars, CustodyInv, FrameInv, TruthInv, RowInv, LeaseInv, Claimed, Holds, ReceiptExists
<1> QED BY <1>1, <1>2, <1>3, <1>4, <1>5 DEF Next

\* The inductive invariant of custody: what the store, the frames, the evidence and the control
\* points of the invocations imply of each other in every reachable state.
THEOREM CoordinationCustodyInv == Spec => [](TypeOK /\ CustodyInv)
<1>1. Init => TypeOK /\ Begun /\ CustodyInv
  BY InitTypeOK, InitCustodyInv
<1>2. TypeOK /\ Begun /\ CustodyInv /\ [Next]_vars => (TypeOK /\ Begun /\ CustodyInv)'
  BY StepTypeOK, StepBegun, StepCustodyInv
<1> QED BY <1>1, <1>2, PTL DEF Spec

\* A write that reached the provider keeps its resource in custody until a receipt for its
\* token or true evidence of its own holder, through crashes, lost claims and dead workers.
THEOREM CustodyKept == Spec => []UncertainEffectKeepsCustody
<1>1. TypeOK /\ CustodyInv => UncertainEffectKeepsCustody
  <2> SUFFICES ASSUME TypeOK, CustodyInv, NEW i \in Invocations, calls[i] > 0
               PROVE  EffectAccounted(i)
    BY DEF UncertainEffectKeepsCustody
  <2>1. FrameInv(i) /\ TruthInv(i) /\ LeaseInv(i)
    BY DEF CustodyInv
  <2>2. child[i] # "none" /\ acquired[i]
    BY <2>1 DEF FrameInv
  <2> QED BY <2>1, <2>2 DEF TruthInv, LeaseInv, EffectAccounted, TypeOK, Evidence
<1> QED BY <1>1, CoordinationCustodyInv, PTL

\* One invocation sends at most one write, and none without the custody of its resource.
THEOREM OneWriteEach == Spec => []AtMostOneWrite
<1>1. TypeOK /\ CustodyInv => AtMostOneWrite
  BY DEF AtMostOneWrite, CustodyInv, FrameInv
<1> QED BY <1>1, CoordinationCustodyInv, PTL

\* A token with a resolution on record never holds custody again.
THEOREM ResolutionFinal == Spec => []ResolvedStaysResolved
<1>1. TypeOK /\ CustodyInv => ResolvedStaysResolved
  BY DEF ResolvedStaysResolved, CustodyInv, RowInv
<1> QED BY <1>1, CoordinationCustodyInv, PTL
=============================================================================
