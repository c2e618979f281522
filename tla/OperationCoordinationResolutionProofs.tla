--------------- MODULE OperationCoordinationResolutionProofs ---------------
(* Who may end the custody of another: the refinement of Custody, the      *)
(* steps that respect an executing claim and its binding, and one writer.  *)
EXTENDS OperationCoordinationProofs

USE DisjointTokens, NoneIsNothing, ImportedClaimType, BoundPositive, MaxTimeNat,
    MaxCallsNat, WorkerLossBoolean

----------------------------------------------------------------------------
(* The store implements Custody                                            *)

LEMMA InitCustody == Init => C!CustodyInit
  BY DEF Init, C!CustodyInit, ReceiptExists

\* A step that leaves rows and receipts alone is a stutter.
LEMMA StutterOnCustody == UNCHANGED storeVars => UNCHANGED C!custodyVars
  BY DEF storeVars, C!custodyVars, ReceiptExists

LEMMA InsertIsTake ==
  ASSUME TypeOK, NEW r \in Resources, NEW t \in Tokens, records[r] = None,
         records' = [records EXCEPT ![r] = [token |-> t, state |-> "executing"]],
         receipts' = receipts
  PROVE  C!Take(r, t, FALSE)
<1>1. records' \in [Resources -> Rows \cup {None}] /\ records'[r] # None
  BY DEF TypeOK, Rows
<1>2. \A q \in Resources : q # r => records'[q] = records[q]
  BY DEF TypeOK
<1> QED BY <1>1, <1>2 DEF C!Take, ReceiptExists, TypeOK

\* The holder's own evidence settles a row that is not uncertain.
LEMMA ReleaseIsSettle ==
  ASSUME TypeOK, NEW r \in Resources, records[r] # None, records[r].state # "unknown",
         records' = [records EXCEPT ![r] = None], receipts' = receipts
  PROVE  C!Settle(r)
<1>1. \A q \in Resources : q # r => records'[q] = records[q]
  BY DEF TypeOK
<1>2. records'[r] = None
  BY DEF TypeOK
<1>3. records[r].token # None
  BY RowTyped
<1> DEFINE H == [q \in Resources |-> IF records[q] = None THEN None ELSE records[q].token]
           U == {q \in Resources : records[q] # None /\ records[q].state = "unknown"}
           P == {x \in Resources \X Tokens : ReceiptExists(x[1], x[2])}
<1>4. H[r] # None /\ r \notin U
  BY <1>3
<1>5. H' = [H EXCEPT ![r] = None]
  <2>1. \A q \in Resources : H'[q] = [H EXCEPT ![r] = None][q]
    BY <1>1, <1>2
  <2> QED BY <2>1
<1>6. U' = U /\ P' = P
  BY <1>1, <1>2 DEF ReceiptExists
<1> QED BY <1>4, <1>5, <1>6 DEF C!Settle

LEMMA MarkIsDoubt ==
  ASSUME TypeOK, NEW r \in Resources, records[r] # None,
         records' = [records EXCEPT ![r].state = "unknown"], receipts' = receipts
  PROVE  C!Doubt(r)
<1>1. \A q \in Resources : q # r => records'[q] = records[q]
  BY DEF TypeOK
<1>2. records[r] \in Rows
  BY RowTyped
<1>3. records'[r] = [token |-> records[r].token, state |-> "unknown"] /\ records'[r] # None
  BY <1>2 DEF TypeOK, Rows
<1> QED BY <1>1, <1>2, <1>3 DEF C!Doubt, ReceiptExists, Rows

LEMMA ResolveIsProve ==
  ASSUME TypeOK, NEW r \in Resources, NEW t \in Tokens, NEW p \in Resolutions, ResolveRow(r, t, p)
  PROVE  C!Prove(r)
<1>1. \A q \in Resources : q # r => records'[q] = records[q]
  BY DEF TypeOK, ResolveRow
<1>2. records'[r] = None /\ records[r] # None /\ records[r].token = t
  BY DEF TypeOK, ResolveRow, Holds
<1>3. ~ReceiptExists(r, t)
  BY DEF ResolveRow
<1>4. \A q \in Resources, u \in Tokens :
        ReceiptExists(q, u)' <=> ReceiptExists(q, u) \/ (q = r /\ u = t)
  BY DEF ResolveRow, ReceiptExists
<1>5. t # None
  OBVIOUS
<1> DEFINE H == [q \in Resources |-> IF records[q] = None THEN None ELSE records[q].token]
           U == {q \in Resources : records[q] # None /\ records[q].state = "unknown"}
           P == {x \in Resources \X Tokens : ReceiptExists(x[1], x[2])}
<1>6. H[r] = t /\ <<r, t>> \notin P
  BY <1>2, <1>3
<1>7. P' = P \cup {<<r, t>>}
  BY <1>4
<1>8. H' = [H EXCEPT ![r] = None]
  BY <1>1, <1>2
<1>9. U' = U \ {r}
  BY <1>1, <1>2
<1> QED BY <1>5, <1>6, <1>7, <1>8, <1>9 DEF C!Prove

\* A cutover import takes over exactly the resources that were free.
LEMMA ImportIsTakeOver ==
  ASSUME TypeOK, NEW S \in SUBSET Imported, ImportUnknown(S)
  PROVE  \E Q \in SUBSET Resources : \E tokenOf \in [Q -> Tokens] : C!TakeOver(Q, tokenOf)
<1> DEFINE row(t) == [token |-> t, state |-> "unknown"]
           res(t) == ImportedClaim[t].resource
           pick(r) == CHOOSE t \in S : res(t) = r
           Q == {r \in Resources : records[r] = None /\ \E t \in S : res(t) = r}
           tokenOf == [r \in Q |-> pick(r)]
           H == [q \in Resources |-> IF records[q] = None THEN None ELSE records[q].token]
           U == {q \in Resources : records[q] # None /\ records[q].state = "unknown"}
           P == {x \in Resources \X Tokens : ReceiptExists(x[1], x[2])}
<1>1. \A r \in Resources : (\E t \in S : res(t) = r) => pick(r) \in S /\ res(pick(r)) = r
  OBVIOUS
<1>2. \A t \in Tokens : row(t).token = t /\ row(t).state = "unknown" /\ row(t) \in Rows
  BY DEF Rows
<1>3. \A r \in Resources :
        /\ (\E t \in S : res(t) = r) => records'[r] = row(pick(r)) /\ records[r] \in {None, row(pick(r))}
        /\ ~(\E t \in S : res(t) = r) => records'[r] = records[r]
  BY <1>1 DEF ImportUnknown
<1>4. tokenOf \in [Q -> Tokens]
  BY <1>1 DEF Tokens
<1>5. H' = [r \in Resources |-> IF r \in Q THEN tokenOf[r] ELSE H[r]]
  <2>1. ASSUME NEW r \in Resources PROVE H'[r] = IF r \in Q THEN tokenOf[r] ELSE H[r]
    <3>1. CASE \E t \in S : res(t) = r
      <4>1. pick(r) \in Tokens /\ records'[r] = row(pick(r)) /\ records[r] \in {None, row(pick(r))}
        BY <1>1, <1>3, <3>1 DEF Tokens
      <4>2. row(pick(r)) # None /\ row(pick(r)).token = pick(r)
        BY <4>1, <1>2
      <4>3. H'[r] = pick(r)
        BY <4>1, <4>2
      <4>4. CASE records[r] = None
        BY <4>3, <4>4, <3>1
      <4>5. CASE records[r] # None
        BY <4>1, <4>2, <4>3, <4>5
      <4> QED BY <4>4, <4>5
    <3>2. CASE ~(\E t \in S : res(t) = r)
      BY <3>2, <1>3
    <3> QED BY <3>1, <3>2
  <2> QED BY <2>1
<1>6. U' = U \cup Q
  <2>1. ASSUME NEW r \in Resources PROVE r \in U' <=> r \in U \cup Q
    <3>1. CASE \E t \in S : res(t) = r
      <4>1. pick(r) \in Tokens /\ records'[r] = row(pick(r)) /\ records[r] \in {None, row(pick(r))}
        BY <1>1, <1>3, <3>1 DEF Tokens
      <4>2. row(pick(r)) # None /\ row(pick(r)).state = "unknown"
        BY <4>1, <1>2
      <4> QED BY <4>1, <4>2, <3>1
    <3>2. CASE ~(\E t \in S : res(t) = r)
      BY <3>2, <1>3
    <3> QED BY <3>1, <3>2
  <2> QED BY <2>1
<1>7. P' = P /\ \A r \in Q : H[r] = None
  BY DEF ImportUnknown, ReceiptExists
<1>8. C!TakeOver(Q, tokenOf)
  BY <1>4, <1>5, <1>6, <1>7 DEF C!TakeOver
<1>9. Q \in SUBSET Resources
  OBVIOUS
<1> HIDE DEF Q, tokenOf
<1>10. \E map \in [Q -> Tokens] : C!TakeOver(Q, map)
  BY <1>4, <1>8 DEF C!TakeOver
<1> QED BY <1>9, <1>10 DEF C!TakeOver

\* Every step of the system is a step of the abstract custody or leaves it alone.
LEMMA StepCustody ==
  TypeOK /\ Begun /\ CustodyInv /\ [Next]_vars => [C!CustodyNext]_C!custodyVars
<1> SUFFICES ASSUME TypeOK, Begun, CustodyInv, [Next]_vars
             PROVE  C!CustodyNext \/ UNCHANGED C!custodyVars
  OBVIOUS
<1>1. ASSUME NEW i \in Invocations, Handler(i) PROVE UNCHANGED C!custodyVars
  <2>1. UNCHANGED storeVars
    BY <1>1 DEF Handler, CallWrite, WriteDenied, Dispatch, Land, Answer, AnswerLost, Report
  <2> QED BY <2>1, StutterOnCustody
<1>2. ASSUME NEW i \in Invocations, QuietStep(i) PROVE UNCHANGED C!custodyVars
  <2>1. UNCHANGED storeVars
    BY <1>2 DEF QuietStep, Begin, Authorized, AcquireFails, StartResolve, CheckResolve, ResolveFails,
       Return, Backstop, LoseWorker, FinishFails, Crash
  <2> QED BY <2>1, StutterOnCustody
<1>3. ASSUME NEW i \in Invocations, Claim(i) \/ ClaimReplyLost(i)
      PROVE  C!CustodyNext \/ UNCHANGED C!custodyVars
  <2>1. claim[i].resource \in Resources /\ i \in Tokens /\ receipts' = receipts
    BY <1>3, ClaimTyped DEF Claim, ClaimReplyLost, Begun, Tokens
  <2>2. CASE records' = records
    BY <2>1, <2>2, StutterOnCustody DEF storeVars
  <2>3. CASE records' # records
    <3>1. /\ records[claim[i].resource] = None
          /\ records' = [records EXCEPT ![claim[i].resource] = [token |-> i, state |-> "executing"]]
      BY <1>3, <2>3 DEF Claim, ClaimReplyLost
    <3>2. C!Take(claim[i].resource, i, FALSE)
      BY <2>1, <3>1, InsertIsTake
    <3> QED BY <2>1, <3>2 DEF C!CustodyNext
  <2> QED BY <2>2, <2>3
<1>4. ASSUME NEW i \in Invocations, Finish(i) PROVE C!CustodyNext \/ UNCHANGED C!custodyVars
  <2>1. PICK r \in Resources : r = claim[i].resource /\ receipts' = receipts
    BY <1>4, ClaimTyped DEF Finish, Begun
  <2>2. CASE records' = records
    BY <2>1, <2>2, StutterOnCustody DEF storeVars
  <2>3. CASE records' # records /\ records' = [records EXCEPT ![r] = None]
    <3>1. Holds(r, i)
      BY <1>4, <2>1, <2>3 DEF Finish, ReleaseRow, MarkUnknown, Holds, TypeOK, Rows
    <3>2. records[r] # None /\ records[r].state # "unknown"
      BY <1>4, <2>1, <3>1 DEF Finish, CustodyInv, RowInv, Holds
    <3>3. C!Settle(r)
      BY <2>1, <2>3, <3>2, ReleaseIsSettle
    <3> QED BY <2>1, <3>3 DEF C!CustodyNext
  <2>4. CASE Holds(r, i) /\ records' = [records EXCEPT ![r].state = "unknown"]
    <3>1. C!Doubt(r)
      BY <2>1, <2>4, MarkIsDoubt DEF Holds
    <3> QED BY <2>1, <3>1 DEF C!CustodyNext
  <2> QED BY <1>4, <2>1, <2>2, <2>3, <2>4 DEF Finish, ReleaseRow, MarkUnknown
<1>5. ASSUME NEW r \in Resources, NEW t \in Tokens, NEW p \in Resolutions, ResolveRow(r, t, p)
      PROVE  C!CustodyNext
  <2>1. C!Prove(r)
    BY <1>5, ResolveIsProve
  <2> QED BY <2>1 DEF C!CustodyNext
<1>6. ASSUME NEW i \in Invocations, ReleasePrevious(i) PROVE C!CustodyNext
  <2>1. claim[i].resource \in Resources /\ previous[i] \in Tokens
    BY <1>6, ClaimTyped DEF ReleasePrevious, Begun, TypeOK
  <2>2. ResolveRow(claim[i].resource, previous[i], "source_verified")
    BY <1>6 DEF ReleasePrevious
  <2> QED BY <2>1, <2>2, <1>5 DEF Resolutions
<1>7. ASSUME NEW r \in Resources, Review(r) PROVE C!CustodyNext
  <2>1. records[r].token \in Tokens
    BY <1>7, RowTyped DEF Review
  <2>2. ResolveRow(r, records[r].token, "reviewed")
    BY <1>7 DEF Review
  <2> QED BY <2>1, <2>2, <1>5 DEF Resolutions
<1>8. ASSUME NEW S \in SUBSET Imported, ImportUnknown(S) PROVE C!CustodyNext
  BY <1>8, ImportIsTakeOver DEF C!CustodyNext
<1>9. CASE Tick \/ (\E g \in Generations \cup {None} : Rebind(g)) \/ UNCHANGED vars
  BY <1>9, StutterOnCustody DEF Tick, Rebind, vars, storeVars
<1> QED BY <1>1, <1>2, <1>3, <1>4, <1>6, <1>7, <1>8, <1>9 DEF Next, Lifecycle, Operators, QuietStep

\* The store, with the invocations that drive it, implements the abstract custody: every row
\* that goes away was settled by its holder or is proved by a receipt for its token.
THEOREM CoordinationImplementsCustody == Spec => ImplementsCustody
<1>1. Init => C!CustodyInit
  BY InitCustody
<1>2. TypeOK /\ Begun /\ CustodyInv /\ [Next]_vars => [C!CustodyNext]_C!custodyVars
  BY StepCustody
<1>3. Init => TypeOK /\ Begun /\ CustodyInv
  BY InitTypeOK, InitCustodyInv
<1>4. TypeOK /\ Begun /\ CustodyInv /\ [Next]_vars => (TypeOK /\ Begun /\ CustodyInv)'
  BY StepTypeOK, StepBegun, StepCustodyInv
<1> QED BY <1>1, <1>2, <1>3, <1>4, PTL DEF Spec, ImplementsCustody, C!CustodySpec

----------------------------------------------------------------------------
(* Deadlines, predecessors and writers                                     *)

\* The deadline of a claim is dated after the deadline signal, and never in the future.
DatedInv(i) ==
  pc[i] # "idle" => cancelAt[i] <= claim[i].deadline /\ claim[i].deadline <= clock + Bound

\* What an invocation remembers of the predecessor it may resolve stays true: the binding,
\* and that no row of that token can be one which is still executing in time.
PreviousInv(i) ==
  previous[i] # None =>
    /\ Claimed(i)
    /\ previous[i] # i
    /\ previous[i] \in Invocations => Claimed(previous[i])
    /\ ClaimOf(previous[i]).generation = claim[i].generation
    /\ ClaimOf(previous[i]).epoch = claim[i].epoch
    /\ Holds(claim[i].resource, previous[i]) =>
         \/ records[claim[i].resource].state = "unknown"
         \/ ClaimOf(previous[i]).deadline <= clock

\* A token is resolved by others only after its invocation's deadline signal or its end.
ReceiptInv(r, i) == ReceiptExists(r, i) => Aborted(i) \/ pc[i] = "closed"

\* A write that may still go out is that of a suspended handler.
WriterInv(i) == ~WorkerLoss /\ MayDispatch(i) => pc[i] = "running"

ResolutionInv ==
  /\ \A i \in Invocations : DatedInv(i) /\ PreviousInv(i) /\ WriterInv(i)
  /\ \A r \in Resources, i \in Invocations : ReceiptInv(r, i)

LEMMA InitResolutionInv == Init => ResolutionInv
  BY DEF Init, ResolutionInv, DatedInv, PreviousInv, ReceiptInv, WriterInv, MayDispatch, ReceiptExists

\* What the invariant says of one invocation; every lemma below proves it for an arbitrary one.
ResolvesWell(i) ==
  /\ DatedInv(i) /\ PreviousInv(i) /\ WriterInv(i)
  /\ \A r \in Resources : ReceiptInv(r, i)

LEMMA ClaimOfTyped ==
  ASSUME TypeOK, Begun, NEW t \in Tokens, t \in Invocations => Claimed(t)
  PROVE  ClaimOf(t) \in Claims /\ ClaimOf(t).deadline \in Int
  BY DEF ClaimOf, TypeOK, Begun, Claimed, Claims, Tokens

LEMMA DeadlineTyped ==
  ASSUME TypeOK, Begun, NEW i \in Invocations, pc[i] # "idle"
  PROVE  claim[i].deadline \in Int /\ cancelAt[i] \in Int /\ clock \in Int /\ Bound \in Int
  BY DEF TypeOK, Begun, Claims, Time

\* The handler and the provider: only an admission concerns the invariant.
LEMMA HandlerResolutionInv ==
  ASSUME TypeOK, ResolutionInv, NEW k \in Invocations, Handler(k)
  PROVE  ResolutionInv'
<1> SUFFICES ASSUME NEW i \in Invocations PROVE ResolvesWell(i)'
  BY DEF ResolutionInv, ResolvesWell
<1>1. ResolvesWell(i)
  BY DEF ResolutionInv, ResolvesWell
<1>2. /\ UNCHANGED <<clock, pc, claim, previous, cancelAt, records, receipts>>
      /\ child \in [Invocations -> Writes]
  BY DEF Handler, CallWrite, WriteDenied, Dispatch, Land, Answer, AnswerLost, Report, TypeOK,
     storeVars, frameVars
<1>3. child'[i] = "admitted" => child[i] = "admitted" \/ pc[i] = "running"
  BY <1>2 DEF Handler, CallWrite, WriteDenied, Dispatch, Land, Answer, AnswerLost, Report,
     writeVars, HandlerRuns
<1>4. WriterInv(i)'
  BY <1>1, <1>2, <1>3 DEF ResolvesWell, WriterInv, MayDispatch, Aborted
<1>5. DatedInv(i)' /\ \A r \in Resources : ReceiptInv(r, i)'
  BY <1>1, <1>2 DEF ResolvesWell, DatedInv, ReceiptInv, ReceiptExists, Aborted
<1>6. PreviousInv(i)'
  BY <1>1, <1>2 DEF ResolvesWell, PreviousInv, Claimed, ClaimOf, Holds
<1> QED BY <1>4, <1>5, <1>6 DEF ResolvesWell

\* The steps that move a control point and touch no row and no receipt.
LEMMA QuietResolutionInv ==
  ASSUME TypeOK, Begun, CustodyInv, ResolutionInv, NEW k \in Invocations, QuietStep(k)
  PROVE  ResolutionInv'
<1> SUFFICES ASSUME NEW i \in Invocations PROVE ResolvesWell(i)'
  BY DEF ResolutionInv, ResolvesWell
<1>1. ResolvesWell(i) /\ FrameInv(i) /\ \A r \in Resources : RowInv(r, i)
  BY DEF ResolutionInv, ResolvesWell, CustodyInv
<1>2. /\ UNCHANGED <<clock, previous, records, receipts>>
      /\ pc \in [Invocations -> PCs]
      /\ child \in [Invocations -> Writes]
  BY DEF QuietStep, Begin, Authorized, AcquireFails, StartResolve, CheckResolve, ResolveFails, Return,
         Backstop, LoseWorker, FinishFails, Crash, TypeOK, storeVars, frameVars
<1>3. \A j \in Invocations : Claimed(j) =>
        Claimed(j)' /\ claim'[j] = claim[j] /\ cancelAt'[j] = cancelAt[j]
  <2>1. CASE \E r \in Resources, g \in Generations, e \in Epochs : Begin(k, r, g, e)
    BY <2>1, <1>2 DEF Begin, Claimed, TypeOK, Goto
  <2>2. CASE Authorized(k) \/ AcquireFails(k)
    BY <2>2, <1>2 DEF Authorized, AcquireFails, Claimed, TypeOK, Goto, frameVars
  <2>3. CASE StartResolve(k) \/ CheckResolve(k) \/ ResolveFails(k) \/ Crash(k)
    BY <2>3, <1>2 DEF StartResolve, CheckResolve, ResolveFails, Crash, Claimed, Goto, frameVars
  <2>4. CASE Return(k) \/ Backstop(k) \/ LoseWorker(k) \/ FinishFails(k)
    BY <2>4, <1>2 DEF Return, Backstop, LoseWorker, FinishFails, HandlerRuns, Claimed, Goto, frameVars
  <2> QED BY <2>1, <2>2, <2>3, <2>4 DEF QuietStep
<1>4. pc[i] = "closed" => pc'[i] = "closed"
  BY <1>2 DEF QuietStep, Begin, Authorized, AcquireFails, StartResolve, CheckResolve, ResolveFails,
     Return, Backstop, LoseWorker, FinishFails, Crash, HandlerRuns, Goto
<1>5. DatedInv(i)'
  <2>1. CASE i = k /\ \E r \in Resources, g \in Generations, e \in Epochs : Begin(k, r, g, e)
    BY <2>1 DEF Begin, TypeOK, DatedInv, Time
  <2>2. CASE i = k /\ Authorized(k)
    <3>1. claim'[k].deadline = clock + Bound /\ cancelAt'[k] = cancelAt[k]
      BY <2>2 DEF Authorized, TypeOK, Begun, Claims
    <3>2. cancelAt[k] <= clock + Bound
      BY <1>1, <2>2, DeadlineTyped DEF ResolvesWell, DatedInv, Authorized
    <3> QED BY <1>2, <2>2, <3>1, <3>2, DeadlineTyped DEF DatedInv, Time, TypeOK
  <2>3. CASE claim'[i] = claim[i] /\ cancelAt'[i] = cancelAt[i] /\ (pc'[i] # "idle" => pc[i] # "idle")
    BY <2>3, <1>1, <1>2 DEF ResolvesWell, DatedInv
  <2> QED BY <1>2, <2>1, <2>2, <2>3 DEF QuietStep, Begin, Authorized, AcquireFails, StartResolve,
       CheckResolve, ResolveFails, Return, Backstop, LoseWorker, FinishFails, Crash, HandlerRuns,
       Goto, frameVars, TypeOK
<1>6. PreviousInv(i)'
  <2>1. SUFFICES ASSUME previous[i] # None PROVE PreviousInv(i)'
    BY <1>2 DEF PreviousInv
  <2>2. ClaimOf(previous[i])' = ClaimOf(previous[i])
    BY <1>1, <1>2, <1>3, <2>1 DEF ResolvesWell, PreviousInv, ClaimOf, TypeOK, Tokens
  <2> QED BY <1>1, <1>2, <1>3, <2>1, <2>2 DEF ResolvesWell, PreviousInv, Holds
<1>7. ASSUME NEW r \in Resources PROVE ReceiptInv(r, i)'
  <2>1. SUFFICES ASSUME ReceiptExists(r, i) PROVE ReceiptInv(r, i)'
    BY <1>2 DEF ReceiptInv, ReceiptExists
  <2>2. Claimed(i)
    BY <1>1, <2>1 DEF RowInv
  <2> QED BY <1>1, <1>2, <1>3, <1>4, <2>1, <2>2 DEF ResolvesWell, ReceiptInv, Aborted
<1>8. WriterInv(i)'
  <2>1. CASE ~Claimed(i)
    <3>1. child[i] = "none" /\ child'[i] = "none"
      BY <1>1, <1>2, <2>1 DEF FrameInv, QuietStep, Begin, Authorized, AcquireFails, StartResolve,
         CheckResolve, ResolveFails, Return, Backstop, LoseWorker, FinishFails, Crash, writeVars
    <3> QED BY <3>1 DEF WriterInv, MayDispatch
  <2>2. CASE Claimed(i) /\ MayDispatch(i)' /\ ~WorkerLoss
    <3>1. cancelAt'[i] = cancelAt[i]
      BY <1>3, <2>2
    <3>2. child[i] = "admitted"
      BY <1>2, <2>2 DEF MayDispatch, QuietStep, Begin, Authorized, AcquireFails, StartResolve,
         CheckResolve, ResolveFails, Return, Backstop, LoseWorker, FinishFails, Crash, writeVars
    <3>3. pc[i] = "running" /\ ~Aborted(i)
      BY <1>1, <1>2, <2>2, <3>1, <3>2 DEF ResolvesWell, WriterInv, MayDispatch, Aborted
    <3>4. pc'[i] = "running"
      BY <1>2, <2>2, <3>2, <3>3 DEF MayDispatch, QuietStep, Begin, Authorized, AcquireFails,
         StartResolve, CheckResolve, ResolveFails, Return, Backstop, LoseWorker, FinishFails, Crash,
         HandlerRuns, Suspended, Goto
    <3> QED BY <3>4 DEF WriterInv
  <2> QED BY <2>1, <2>2 DEF WriterInv
<1> QED BY <1>5, <1>6, <1>7, <1>8 DEF ResolvesWell

\* The claim transaction: what it reads of the predecessor is what PreviousInv remembers.
LEMMA ClaimResolutionInv ==
  ASSUME TypeOK, Begun, CustodyInv, ResolutionInv, NEW k \in Invocations, Claim(k) \/ ClaimReplyLost(k)
  PROVE  ResolutionInv'
<1> SUFFICES ASSUME NEW i \in Invocations PROVE ResolvesWell(i)'
  BY DEF ResolutionInv, ResolvesWell
<1>1. ResolvesWell(i) /\ FrameInv(i)
  BY DEF ResolutionInv, ResolvesWell, CustodyInv
<1>2. /\ UNCHANGED <<clock, claim, cancelAt, receipts, child>>
      /\ pc[k] = "claiming" /\ pc'[k] \in {"running", "closed"}
      /\ \A j \in Invocations : j # k => pc'[j] = pc[j] /\ previous'[j] = previous[j]
  BY DEF Claim, ClaimReplyLost, TypeOK, storeVars, frameVars, writeVars, Goto
<1>3. ~Claimed(k) /\ previous[k] = None
  BY <1>2 DEF ResolutionInv, PreviousInv, Claimed
<1>4. \A j \in Invocations : Claimed(j) => j # k /\ Claimed(j)'
  BY <1>2, <1>3 DEF Claimed
<1>5. claim[k].resource \in Resources /\ claim[k].deadline \in Int
  BY <1>2, ClaimTyped DEF Begun, Claims
<1>6. DatedInv(i)'
  BY <1>1, <1>2 DEF ResolvesWell, DatedInv
<1>7. WriterInv(i)'
  BY <1>1, <1>2, <1>3 DEF ResolvesWell, WriterInv, MayDispatch, Aborted, FrameInv
<1>8. ASSUME NEW r \in Resources PROVE ReceiptInv(r, i)'
  BY <1>1, <1>2 DEF ResolvesWell, ReceiptInv, ReceiptExists, Aborted
<1>9. CASE i # k
  <2>1. SUFFICES ASSUME previous[i] # None PROVE PreviousInv(i)'
    BY <1>2, <1>6, <1>7, <1>8, <1>9 DEF ResolvesWell, PreviousInv
  <2>2. previous'[i] = previous[i] /\ previous[i] # k
    BY <1>1, <1>2, <1>3, <1>9, <2>1 DEF ResolvesWell, PreviousInv
  <2>3. Holds(claim[i].resource, previous[i])' =>
          /\ Holds(claim[i].resource, previous[i])
          /\ records'[claim[i].resource] = records[claim[i].resource]
    <3>1. claim[i].resource \in Resources
      BY <1>1, <2>1, ClaimTyped DEF ResolvesWell, PreviousInv, Begun, Claimed
    <3>2. CASE records' = records
      BY <1>2, <2>2, <3>2 DEF Holds
    <3>3. CASE records' = [records EXCEPT ![claim[k].resource] = [token |-> k, state |-> "executing"]]
      BY <1>2, <1>5, <2>2, <3>1, <3>3 DEF Holds, TypeOK
    <3> QED BY <3>2, <3>3 DEF Claim, ClaimReplyLost
  <2>4. ClaimOf(previous[i])' = ClaimOf(previous[i])
    BY <1>2, <2>2 DEF ClaimOf
  <2>5. PreviousInv(i)
    BY <1>1 DEF ResolvesWell
  <2> QED BY <1>2, <1>4, <2>1, <2>2, <2>3, <2>4, <2>5 DEF PreviousInv, Holds
<1>10. CASE i = k
  <2>1. SUFFICES ASSUME previous'[k] # None PROVE PreviousInv(k)'
    BY <1>6, <1>7, <1>8, <1>10 DEF ResolvesWell, PreviousInv
  <2>r. PICK r \in Resources : r = claim[k].resource
    BY <1>5
  <2>t. /\ records[r] # None /\ records' = records /\ previous'[k] = records[r].token
        /\ Recoverable(claim[k], records[r].token, records[r].state)
    BY <1>3, <2>1, <2>r DEF Claim, ClaimReplyLost, frameVars, TypeOK
  <2>2. PICK t \in Tokens : t = records[r].token
    BY <2>t, RowTyped
  <2>3. Holds(r, t)
    BY <2>2, <2>t DEF Holds
  <2>4. t \in Invocations => Claimed(t)
    BY <2>3 DEF CustodyInv, RowInv
  <2>5. t # k
    BY <1>3, <2>4
  <2>6. ClaimOf(t).deadline \in Int
    BY <2>4, ClaimOfTyped
  <2>7. claim[k].deadline <= clock + Bound
    BY <1>2 DEF ResolutionInv, DatedInv
  <2>8. records[r].state = "unknown" \/ ClaimOf(t).deadline <= clock
    BY <1>5, <2>t, <2>2, <2>6, <2>7 DEF Recoverable, TypeOK, Time
  <2>9. ClaimOf(t)' = ClaimOf(t) /\ claim' = claim /\ clock' = clock
    BY <1>2 DEF ClaimOf
  <2>10. ClaimOf(t).generation = claim[k].generation /\ ClaimOf(t).epoch = claim[k].epoch
    BY <2>t, <2>2 DEF Recoverable
  <2>11. Claimed(k)' /\ (t \in Invocations => Claimed(t)')
    BY <1>2, <1>4, <2>4, <2>5 DEF Claimed
  <2>12. previous'[k] = t /\ records' = records /\ claim'[k].resource = r
    BY <2>r, <2>t, <2>2, <2>9
  <2>13. ClaimOf(previous[k])' = ClaimOf(t)
    BY <2>9, <2>12 DEF ClaimOf
  <2> QED BY <2>5, <2>8, <2>9, <2>10, <2>11, <2>12, <2>13, <2>3 DEF PreviousInv, Claimed
<1> QED BY <1>9, <1>10, <1>6, <1>7, <1>8 DEF ResolvesWell

\* lease.finish: a row can only go, or become uncertain, under the feet of a recovery.
LEMMA FinishResolutionInv ==
  ASSUME TypeOK, Begun, ResolutionInv, NEW k \in Invocations, Finish(k)
  PROVE  ResolutionInv'
<1> SUFFICES ASSUME NEW i \in Invocations PROVE ResolvesWell(i)'
  BY DEF ResolutionInv, ResolvesWell
<1>1. ResolvesWell(i)
  BY DEF ResolutionInv, ResolvesWell
<1>2. /\ UNCHANGED <<clock, claim, cancelAt, previous, receipts, child>>
      /\ pc[k] = "finishing" /\ pc' = [pc EXCEPT ![k] = "closed"]
      /\ pc \in [Invocations -> PCs]
  BY DEF Finish, TypeOK, frameVars, writeVars, Goto
<1>3. claim[k].resource \in Resources
  BY <1>2, ClaimTyped DEF Begun
<1>4. \A r \in Resources, t \in Tokens : Holds(r, t)' =>
        Holds(r, t) /\ records'[r].state \in {records[r].state, "unknown"}
  BY <1>3 DEF Finish, ReleaseRow, MarkUnknown, Holds, TypeOK, Rows
<1>5. DatedInv(i)' /\ WriterInv(i)' /\ \A r \in Resources : ReceiptInv(r, i)'
  BY <1>1, <1>2 DEF ResolvesWell, DatedInv, WriterInv, MayDispatch, ReceiptInv, ReceiptExists, Aborted
<1>6. \A j \in Invocations : Claimed(j) => Claimed(j)'
  BY <1>2 DEF Claimed
<1>7. PreviousInv(i)'
  <2>1. SUFFICES ASSUME previous[i] # None PROVE PreviousInv(i)'
    BY <1>2 DEF PreviousInv
  <2>2. claim[i].resource \in Resources /\ previous[i] \in Tokens
    BY <1>1, <2>1, ClaimTyped DEF ResolvesWell, PreviousInv, Begun, Claimed, TypeOK
  <2> QED BY <1>1, <1>2, <1>4, <1>6, <2>1, <2>2 DEF ResolvesWell, PreviousInv, ClaimOf
<1> QED BY <1>5, <1>7 DEF ResolvesWell

\* A receipt for a held token that is uncertain or past its deadline.
LEMMA ResolveResolutionInv ==
  ASSUME TypeOK, Begun, CustodyInv, ResolutionInv,
         NEW q \in Resources, NEW t \in Tokens, NEW p \in Resolutions, ResolveRow(q, t, p),
         records[q].state = "unknown" \/ ClaimOf(t).deadline <= clock,
         UNCHANGED <<clock, pc, claim, cancelAt, previous, child>>
  PROVE  ResolutionInv'
<1> SUFFICES ASSUME NEW i \in Invocations PROVE ResolvesWell(i)'
  BY DEF ResolutionInv, ResolvesWell
<1>1. ResolvesWell(i)
  BY DEF ResolutionInv, ResolvesWell
<1>2. \A r, u : Holds(r, u)' => Holds(r, u) /\ records'[r] = records[r]
  BY DEF ResolveRow, Holds, TypeOK
<1>3. \A r : ReceiptExists(r, i)' <=> ReceiptExists(r, i) \/ (r = q /\ i = t)
  BY DEF ResolveRow, ReceiptExists
<1>4. i = t => Aborted(i) \/ pc[i] = "closed"
  <2>1. SUFFICES ASSUME i = t PROVE Aborted(i) \/ pc[i] = "closed"
    OBVIOUS
  <2>2. Holds(q, i) /\ Claimed(i) /\ (records[q].state = "unknown" => pc[i] = "closed")
    BY <2>1 DEF ResolveRow, CustodyInv, RowInv
  <2>3. CASE claim[i].deadline <= clock
    <3>1. cancelAt[i] <= claim[i].deadline
      BY <1>1, <2>2 DEF ResolvesWell, DatedInv, Claimed
    <3>2. cancelAt[i] \in Int /\ clock \in Int /\ claim[i].deadline \in Int
      BY <2>2, DeadlineTyped DEF Claimed
    <3> QED BY <2>3, <3>1, <3>2 DEF Aborted
  <2> QED BY <2>1, <2>2, <2>3 DEF ClaimOf
<1>5. DatedInv(i)' /\ WriterInv(i)'
  BY <1>1 DEF ResolvesWell, DatedInv, WriterInv, MayDispatch, Aborted
<1>6. \A r \in Resources : ReceiptInv(r, i)'
  BY <1>1, <1>3, <1>4 DEF ResolvesWell, ReceiptInv, Aborted
<1>7. PreviousInv(i)'
  BY <1>1, <1>2 DEF ResolvesWell, PreviousInv, ClaimOf, Claimed
<1> QED BY <1>5, <1>6, <1>7 DEF ResolvesWell

\* Imported rows are uncertain from the start.
LEMMA ImportResolutionInv ==
  ASSUME TypeOK, Begun, ResolutionInv, NEW S \in SUBSET Imported, ImportUnknown(S)
  PROVE  ResolutionInv'
<1> SUFFICES ASSUME NEW i \in Invocations PROVE ResolvesWell(i)'
  BY DEF ResolutionInv, ResolvesWell
<1>1. ResolvesWell(i)
  BY DEF ResolutionInv, ResolvesWell
<1>2. UNCHANGED <<clock, pc, claim, cancelAt, previous, receipts, child>>
  BY DEF ImportUnknown, frameVars, writeVars
<1>3. \A r \in Resources : records'[r] = records[r] \/ records'[r].state = "unknown"
  BY DEF ImportUnknown, TypeOK
<1>4. Claimed(i) => claim[i].resource \in Resources
  BY ClaimTyped DEF Begun, Claimed
<1>5. DatedInv(i)' /\ WriterInv(i)' /\ \A r \in Resources : ReceiptInv(r, i)'
  BY <1>1, <1>2 DEF ResolvesWell, DatedInv, WriterInv, MayDispatch, ReceiptInv, ReceiptExists, Aborted
<1>6. PreviousInv(i)'
  BY <1>1, <1>2, <1>3, <1>4 DEF ResolvesWell, PreviousInv, ClaimOf, Claimed, Holds
<1> QED BY <1>5, <1>6 DEF ResolvesWell

\* Time only makes deadlines pass.
LEMMA TickResolutionInv ==
  ASSUME TypeOK, Begun, ResolutionInv, Tick
  PROVE  ResolutionInv'
<1> SUFFICES ASSUME NEW i \in Invocations PROVE ResolvesWell(i)'
  BY DEF ResolutionInv, ResolvesWell
<1>1. ResolvesWell(i)
  BY DEF ResolutionInv, ResolvesWell
<1>2. /\ UNCHANGED <<pc, claim, cancelAt, previous, records, receipts, child>>
      /\ clock' = clock + 1 /\ clock \in Int /\ cancelAt[i] \in Int
  BY DEF Tick, storeVars, frameVars, writeVars, TypeOK, Time
<1>3. DatedInv(i)'
  BY <1>1, <1>2, DeadlineTyped DEF ResolvesWell, DatedInv
<1>4. Aborted(i) => Aborted(i)'
  BY <1>2 DEF Aborted
<1>5. WriterInv(i)' /\ \A r \in Resources : ReceiptInv(r, i)'
  BY <1>1, <1>2, <1>4 DEF ResolvesWell, WriterInv, MayDispatch, ReceiptInv, ReceiptExists
<1>6. PreviousInv(i)'
  <2>1. SUFFICES ASSUME previous[i] # None PROVE PreviousInv(i)'
    BY <1>2 DEF PreviousInv
  <2>2. previous[i] \in Tokens /\ (previous[i] \in Invocations => Claimed(previous[i]))
    BY <1>1, <2>1 DEF ResolvesWell, PreviousInv, TypeOK
  <2>3. ClaimOf(previous[i]).deadline \in Int
    BY <2>2, ClaimOfTyped
  <2>4. ClaimOf(previous[i])' = ClaimOf(previous[i])
    BY <1>2 DEF ClaimOf
  <2> QED BY <1>1, <1>2, <2>3, <2>4 DEF ResolvesWell, PreviousInv, Claimed, Holds
<1> QED BY <1>3, <1>5, <1>6 DEF ResolvesWell

\* A recovering invocation and a reviewer both resolve only what ResolveResolutionInv allows.
LEMMA ReleasePreviousWell ==
  ASSUME TypeOK, Begun, ResolutionInv, NEW i \in Invocations, ReleasePrevious(i)
  PROVE  /\ previous[i] \in Tokens
         /\ claim[i].resource \in Resources
         /\ ResolveRow(claim[i].resource, previous[i], "source_verified")
         /\ Holds(claim[i].resource, previous[i])
         /\ previous[i] # i
         /\ ClaimOf(previous[i]).generation = claim[i].generation
         /\ ClaimOf(previous[i]).epoch = claim[i].epoch
         /\ \/ records[claim[i].resource].state = "unknown"
            \/ ClaimOf(previous[i]).deadline <= clock
<1>1. PreviousInv(i) /\ recovery[i] = "releasing" /\ previous[i] # None
  BY DEF ResolutionInv, ReleasePrevious, Begun
<1>2. previous[i] \in Tokens /\ claim[i].resource \in Resources
  BY <1>1, ClaimTyped DEF PreviousInv, Begun, Claimed, TypeOK
<1>3. ResolveRow(claim[i].resource, previous[i], "source_verified")
  BY DEF ReleasePrevious
<1>4. Holds(claim[i].resource, previous[i])
  BY <1>3 DEF ResolveRow
<1> QED BY <1>1, <1>2, <1>3, <1>4 DEF PreviousInv

LEMMA ReviewWell ==
  ASSUME TypeOK, Begun, CustodyInv, NEW r \in Resources, Review(r)
  PROVE  /\ records[r].token \in Tokens
         /\ ResolveRow(r, records[r].token, "reviewed")
         /\ records[r].state = "unknown" \/ ClaimOf(records[r].token).deadline <= clock
<1>1. records[r] \in Rows /\ records[r].token \in Tokens /\ Holds(r, records[r].token)
  BY RowTyped DEF Review, Holds
<1>2. ClaimOf(records[r].token).deadline \in Int
  BY <1>1, ClaimOfTyped DEF CustodyInv, RowInv
<1> QED BY <1>1, <1>2 DEF Review, Rows, TypeOK, Time

LEMMA StepResolutionInv ==
  TypeOK /\ Begun /\ CustodyInv /\ ResolutionInv /\ [Next]_vars => ResolutionInv'
<1> SUFFICES ASSUME TypeOK, Begun, CustodyInv, ResolutionInv, [Next]_vars PROVE ResolutionInv'
  OBVIOUS
<1>1. ASSUME NEW i \in Invocations, Handler(i) PROVE ResolutionInv'
  BY <1>1, HandlerResolutionInv
<1>2. ASSUME NEW i \in Invocations, Lifecycle(i) PROVE ResolutionInv'
  <2>1. CASE QuietStep(i)
    BY <2>1, QuietResolutionInv
  <2>2. CASE Claim(i) \/ ClaimReplyLost(i)
    BY <2>2, ClaimResolutionInv
  <2>3. CASE Finish(i)
    BY <2>3, FinishResolutionInv
  <2>4. CASE ReleasePrevious(i)
    <3>1. UNCHANGED <<clock, pc, claim, cancelAt, previous, child>>
      BY <2>4 DEF ReleasePrevious, frameVars, writeVars
    <3>2. "source_verified" \in Resolutions
      BY DEF Resolutions
    <3> QED BY <2>4, <3>1, <3>2, ReleasePreviousWell, ResolveResolutionInv
  <2> QED BY <1>2, <2>1, <2>2, <2>3, <2>4 DEF Lifecycle, QuietStep
<1>3. CASE Operators
  <2>1. ASSUME NEW r \in Resources, Review(r) PROVE ResolutionInv'
    <3>1. UNCHANGED <<clock, pc, claim, cancelAt, previous, child>>
      BY <2>1 DEF Review, frameVars, writeVars
    <3>2. "reviewed" \in Resolutions
      BY DEF Resolutions
    <3> QED BY <2>1, <3>1, <3>2, ReviewWell, ResolveResolutionInv
  <2>2. ASSUME NEW S \in SUBSET Imported, ImportUnknown(S) PROVE ResolutionInv'
    BY <2>2, ImportResolutionInv
  <2>3. ASSUME NEW g \in Generations \cup {None}, Rebind(g) PROVE ResolutionInv'
    BY <2>3 DEF Rebind, storeVars, frameVars, writeVars, ResolutionInv, DatedInv, PreviousInv, WriterInv,
       ReceiptInv, MayDispatch, Aborted, Claimed, ClaimOf, Holds, ReceiptExists
  <2> QED BY <1>3, <2>1, <2>2, <2>3 DEF Operators
<1>4. CASE Tick
  BY <1>4, TickResolutionInv
<1>5. CASE UNCHANGED vars
  BY <1>5 DEF vars, ResolutionInv, DatedInv, PreviousInv, WriterInv, ReceiptInv, MayDispatch, Aborted,
     Claimed, ClaimOf, Holds, ReceiptExists
<1> QED BY <1>1, <1>2, <1>3, <1>4, <1>5 DEF Next

CoordinationInv == TypeOK /\ Begun /\ CustodyInv /\ ResolutionInv

LEMMA CoordinationInductive == Spec => []CoordinationInv
<1>1. Init => CoordinationInv
  BY InitTypeOK, InitCustodyInv, InitResolutionInv DEF CoordinationInv
<1>2. CoordinationInv /\ [Next]_vars => CoordinationInv'
  BY StepTypeOK, StepBegun, StepCustodyInv, StepResolutionInv DEF CoordinationInv
<1> QED BY <1>1, <1>2, PTL DEF Spec

\* Which steps can change a row: the holder's finish, a resolution, or a row that was free.
LEMMA StepRespectsExecuting == CoordinationInv /\ [Next]_vars => RespectsExecuting
<1> SUFFICES ASSUME TypeOK, Begun, CustodyInv, ResolutionInv, [Next]_vars, NEW r \in Resources,
                    records[r] # None, records[r].state = "executing",
                    ClaimOf(records[r].token).deadline > clock, records'[r] # records[r]
             PROVE  pc[records[r].token] = "finishing" /\ pc'[records[r].token] = "closed"
  BY DEF CoordinationInv, RespectsExecuting
<1>1. ASSUME NEW i \in Invocations, Handler(i) PROVE FALSE
  BY <1>1 DEF Handler, CallWrite, WriteDenied, Dispatch, Land, Answer, AnswerLost, Report, storeVars
<1>2. ASSUME NEW i \in Invocations, QuietStep(i) PROVE FALSE
  BY <1>2 DEF QuietStep, Begin, Authorized, AcquireFails, StartResolve, CheckResolve, ResolveFails,
     Return, Backstop, LoseWorker, FinishFails, Crash, storeVars
<1>3. ASSUME NEW i \in Invocations, Claim(i) \/ ClaimReplyLost(i) PROVE FALSE
  BY <1>3 DEF Claim, ClaimReplyLost, TypeOK
<1>4. ASSUME NEW i \in Invocations, Finish(i)
      PROVE  pc[records[r].token] = "finishing" /\ pc'[records[r].token] = "closed"
  <2>1. records[r].token = i
    BY <1>4 DEF Finish, ReleaseRow, MarkUnknown, Holds, TypeOK
  <2> QED BY <1>4, <2>1 DEF Finish, Goto, TypeOK
<1>5. ASSUME NEW q \in Resources, NEW t \in Tokens, NEW p \in Resolutions, ResolveRow(q, t, p),
             records[q].state = "unknown" \/ ClaimOf(t).deadline <= clock
      PROVE  FALSE
  <2>1. q = r /\ t = records[r].token
    BY <1>5 DEF ResolveRow, Holds, TypeOK
  <2>2. ClaimOf(t).deadline \in Int /\ clock \in Int
    BY <1>5, ClaimOfTyped DEF ResolveRow, CustodyInv, RowInv, TypeOK, Time
  <2> QED BY <1>5, <2>1, <2>2
<1>6. ASSUME NEW i \in Invocations, ReleasePrevious(i) PROVE FALSE
  BY <1>5, <1>6, ReleasePreviousWell DEF Resolutions
<1>7. ASSUME NEW q \in Resources, Review(q) PROVE FALSE
  BY <1>5, <1>7, ReviewWell DEF Resolutions
<1>8. ASSUME NEW S \in SUBSET Imported, ImportUnknown(S) PROVE FALSE
  <2>1. PICK t \in S : /\ ImportedClaim[t].resource = r
                       /\ records[r] \in {None, [token |-> t, state |-> "unknown"]}
    BY <1>8 DEF ImportUnknown, TypeOK
  <2> QED BY <2>1
<1>9. CASE Tick \/ (\E g \in Generations \cup {None} : Rebind(g)) \/ UNCHANGED vars
  BY <1>9 DEF Tick, Rebind, vars, storeVars
<1> QED BY <1>1, <1>2, <1>3, <1>4, <1>6, <1>7, <1>8, <1>9 DEF Next, Lifecycle, Operators, QuietStep

\* Until its deadline an executing claim belongs to its holder alone: no recovery, review,
\* import or other invocation takes it away, on any interleaving of what they read and write.
THEOREM ExecutingRespected == Spec => ExecutingClaimIsRespected
<1>1. CoordinationInv /\ [Next]_vars => [RespectsExecuting]_vars
  BY StepRespectsExecuting
<1> QED BY <1>1, CoordinationInductive, PTL DEF Spec, ExecutingClaimIsRespected

LEMMA StepKeepsBinding == CoordinationInv /\ [Next]_vars => KeepsBinding
<1> SUFFICES ASSUME TypeOK, Begun, CustodyInv, ResolutionInv, [Next]_vars,
                    NEW r \in Resources, NEW t \in Tokens,
                    <<r, t, "source_verified">> \in receipts' \ receipts
             PROVE  /\ Holds(r, t)
                    /\ \E i \in Invocations :
                         /\ recovery[i] = "releasing" /\ previous[i] = t /\ i # t
                         /\ claim[i].generation = ClaimOf(t).generation
                         /\ claim[i].epoch = ClaimOf(t).epoch
  BY DEF CoordinationInv, KeepsBinding
<1>1. ASSUME receipts' = receipts PROVE FALSE
  BY <1>1
<1>2. ASSUME NEW i \in Invocations, Handler(i) \/ QuietStep(i) PROVE receipts' = receipts
  BY <1>2 DEF Handler, CallWrite, WriteDenied, Dispatch, Land, Answer, AnswerLost, Report, QuietStep,
     Begin, Authorized, AcquireFails, StartResolve, CheckResolve, ResolveFails, Return, Backstop,
     LoseWorker, FinishFails, Crash, storeVars
<1>3. ASSUME NEW i \in Invocations, Claim(i) \/ ClaimReplyLost(i) \/ Finish(i)
      PROVE  receipts' = receipts
  BY <1>3 DEF Claim, ClaimReplyLost, Finish
<1>4. ASSUME NEW q \in Resources, Review(q) PROVE FALSE
  BY <1>4 DEF Review, ResolveRow
<1>5. ASSUME \/ \E S \in SUBSET Imported : ImportUnknown(S)
             \/ \E g \in Generations \cup {None} : Rebind(g)
             \/ Tick \/ UNCHANGED vars
      PROVE  FALSE
  BY <1>1, <1>5 DEF ImportUnknown, Rebind, Tick, vars, storeVars
<1>6. PICK i \in Invocations : ReleasePrevious(i)
  <2>1. CASE \E i \in Invocations : Handler(i)
    BY <1>1, <1>2, <2>1
  <2>2. CASE \E i \in Invocations : Lifecycle(i)
    BY <1>1, <1>2, <1>3, <2>2 DEF Lifecycle, QuietStep
  <2>3. CASE Operators \/ Tick \/ UNCHANGED vars
    BY <1>4, <1>5, <2>3 DEF Operators
  <2> QED BY <2>1, <2>2, <2>3 DEF Next
<1>7. r = claim[i].resource /\ t = previous[i] /\ recovery[i] = "releasing"
  BY <1>6 DEF ReleasePrevious, ResolveRow
<1> QED BY <1>6, <1>7, ReleasePreviousWell

\* Every source-verified receipt is written by an invocation of the generation and the epoch of
\* the claim it resolves, on the very row it was shown, however long the proof took.
THEOREM OriginalBinding == Spec => RecoveryUnderOriginalBinding
<1>1. CoordinationInv /\ [Next]_vars => [KeepsBinding]_vars
  BY StepKeepsBinding
<1> QED BY <1>1, CoordinationInductive, PTL DEF Spec, RecoveryUnderOriginalBinding

\* As long as no sandbox worker dies under a suspended handler, two invocations never both have
\* a nested write that may still go out to one resource.
THEOREM OneWriterWithoutLoss == ASSUME ~WorkerLoss PROVE Spec => []OneWriter
<1>1. ASSUME CoordinationInv, NEW i \in Invocations, MayDispatch(i)
      PROVE  claim[i].resource \in Resources /\ Holds(claim[i].resource, i)
  <2>1. FrameInv(i) /\ LeaseInv(i) /\ WriterInv(i)
    BY <1>1 DEF CoordinationInv, CustodyInv, ResolutionInv
  <2>2. pc[i] = "running" /\ acquired[i] /\ ~Aborted(i)
    BY <1>1, <2>1 DEF WriterInv, FrameInv, MayDispatch
  <2>3. claim[i].resource \in Resources
    BY <1>1, <2>2, ClaimTyped DEF CoordinationInv, Begun
  <2>4. ~ReceiptExists(claim[i].resource, i)
    BY <1>1, <2>2, <2>3 DEF CoordinationInv, ResolutionInv, ReceiptInv
  <2> QED BY <2>1, <2>2, <2>3, <2>4 DEF LeaseInv
<1>2. CoordinationInv => OneWriter
  BY <1>1 DEF OneWriter, Holds
<1> QED BY <1>2, CoordinationInductive, PTL
=============================================================================
