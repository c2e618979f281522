------------------------- MODULE OperationEvidence -------------------------
(***************************************************************************)
(* Durable evidence of one operation id: the claim that is taken before    *)
(* the provider is called, the outcome that is recorded after it, and the  *)
(* sweep that resolves abandoned claims and deletes expired history        *)
(* (service/operation-evidence*.ts, runtime/operation-evidence.ts).        *)
(*                                                                         *)
(* Ids do not interact, so one is modelled, with every attempt that ever   *)
(* presents it: retries, duplicates and the attempts of other instances.   *)
(* The store is shared and its statements are atomic; a sweep is two       *)
(* statements.  Time is counted in days.                                   *)
(***************************************************************************)
EXTENDS Integers, FiniteSets

CONSTANTS
  Attempts,  \* executions of withOperationEvidence for the id; each draws one lease
  Sweepers,  \* instances whose sweeps may overlap
  Bound,     \* executionBoundMs
  Days,      \* history durations the installation may choose, read again at every use
  MaxTime,   \* bound on the clock
  None

ASSUME BoundPositive == Bound \in Nat \ {0}
ASSUME BoundIsShorterThanHistory == Days \subseteq Nat /\ \A d \in Days : Bound < d
ASSUME MaxTimeNat == MaxTime \in Nat
\* "returned" also stands for "accepted": neither claims an effect nor its absence.
Reported == {"completed", "rejected", "returned", "unknown"}

Records == [lease : Attempts, startedAt : Int, deadline : Int, historyExpiresAt : Int,
            outcome : Reported \cup {"dispatching"}]

ASSUME NoneIsNothing == None \notin Attempts \cup Int \cup Records \cup Reported

VARIABLES
  clock,
  row,       \* the row of operation_evidence, None when there is none
  pc,        \* [Attempts -> where the attempt is]
  record,    \* the record an attempt built, None before
  evidence,  \* what its work reported, or the default
  finishAt,  \* the time it finished at, read before the store is called
  sweeping,  \* the time a running sweep was called with and the statement it is at
  effects,   \* attempts whose work took effect at the provider
  dispatchedAt \* ghost: when an attempt's work was dispatched, None if it was not

vars == <<clock, row, pc, record, evidence, finishAt, sweeping, effects, dispatchedAt>>

Goto(a, label) == pc' = [pc EXCEPT ![a] = label]

\* Leaving begin and leaving finish: their local variables are gone.
Begun(a, label) == Goto(a, label) /\ record' = [record EXCEPT ![a] = None]
Finished(a, label) == Goto(a, label) /\ finishAt' = [finishAt EXCEPT ![a] = None]

Init ==
  /\ clock = 0
  /\ row = None
  /\ pc = [a \in Attempts |-> "idle"]
  /\ record = [a \in Attempts |-> None]
  /\ evidence = [a \in Attempts |-> None]
  /\ finishAt = [a \in Attempts |-> None]
  /\ sweeping = [s \in Sweepers |-> [at |-> None, step |-> "idle"]]
  /\ effects = {}
  /\ dispatchedAt = [a \in Attempts |-> None]

----------------------------------------------------------------------------
(* begin                                                                   *)

\* The record is dated before the awaits of the authority checks.
Begin(a, days) ==
  /\ pc[a] = "idle"
  /\ record' = [record EXCEPT ![a] =
       [lease |-> a, startedAt |-> clock, deadline |-> clock + Bound,
        historyExpiresAt |-> clock + days, outcome |-> "dispatching"]]
  /\ Goto(a, "claiming")
  /\ UNCHANGED <<clock, row, evidence, finishAt, sweeping, effects, dispatchedAt>>

\* No authority, no account, or an unreachable store: nothing is dispatched.
BeginFails(a) ==
  /\ pc[a] = "claiming"
  /\ Begun(a, "denied")
  /\ UNCHANGED <<clock, row, evidence, finishAt, sweeping, effects, dispatchedAt>>

\* Mutant: a retry is answered from the evidence instead of being suppressed.
ClaimReplays(a) ==
  /\ pc[a] = "claiming"
  /\ IF row = None
     THEN row' = record[a] /\ Begun(a, "working") /\ dispatchedAt' = [dispatchedAt EXCEPT ![a] = clock]
     ELSE Begun(a, "answered") /\ UNCHANGED <<row, dispatchedAt>>
  /\ UNCHANGED <<clock, evidence, finishAt, sweeping, effects>>

\* INSERT ... ON CONFLICT DO NOTHING: the winner dispatches, the others are suppressed.
Claim(a) ==
  /\ pc[a] = "claiming"
  /\ IF row = None
     THEN /\ row' = record[a]
          /\ Begun(a, "working")
          /\ dispatchedAt' = [dispatchedAt EXCEPT ![a] = clock]
     ELSE Begun(a, "suppressed") /\ UNCHANGED <<row, dispatchedAt>>
  /\ UNCHANGED <<clock, evidence, finishAt, sweeping, effects>>

\* The insert is committed and its answer lost: nothing is dispatched, the row stays.
ClaimAnswerLost(a) ==
  /\ pc[a] = "claiming" /\ row = None
  /\ row' = record[a]
  /\ Begun(a, "denied")
  /\ UNCHANGED <<clock, evidence, finishAt, sweeping, effects, dispatchedAt>>

----------------------------------------------------------------------------
(* work and finish                                                         *)

\* The provider applies the operation, whether or not anybody still waits for it.
TakeEffect(a) ==
  /\ dispatchedAt[a] # None /\ a \notin effects /\ evidence[a] # "rejected"
  /\ effects' = effects \cup {a}
  /\ UNCHANGED <<clock, row, pc, record, evidence, finishAt, sweeping, dispatchedAt>>

\* The work ends.  A connector reports "completed" only of an effect, "rejected" only of
\* none; without a report the outcome is "returned", or "unknown" after an error.
WorkEnds(a, outcome) ==
  /\ pc[a] = "working"
  /\ outcome = "completed" => a \in effects
  /\ outcome = "rejected" => a \notin effects
  /\ evidence' = [evidence EXCEPT ![a] = outcome]
  /\ Goto(a, "finishing")
  /\ UNCHANGED <<clock, row, record, finishAt, sweeping, effects, dispatchedAt>>

\* finish: the current history duration and the time are read, then the store is called.
StartFinish(a) ==
  /\ pc[a] = "finishing"
  /\ finishAt' = [finishAt EXCEPT ![a] = clock]
  /\ Goto(a, "recording")
  /\ UNCHANGED <<clock, row, record, evidence, sweeping, effects, dispatchedAt>>

\* Mutant: the row's own lease is not compared.
AnyLeaseCompletes(a) == row # None /\ row.outcome = "dispatching" /\ row.deadline > finishAt[a]

\* completeOperationEvidence: own lease, still dispatching, within the deadline.
Completes(a) ==
  row # None /\ row.lease = a /\ row.outcome = "dispatching" /\ row.deadline > finishAt[a]

\* The transaction of finish; a failed one becomes "outcome could not be recorded".
Finish(a, days) ==
  /\ pc[a] = "recording"
  /\ IF Completes(a)
     THEN /\ row' = [row EXCEPT !.outcome = evidence[a],
                                !.historyExpiresAt = finishAt[a] + days]
          /\ Finished(a, "answered")
     ELSE Finished(a, "unrecorded") /\ UNCHANGED row
  /\ UNCHANGED <<clock, record, evidence, sweeping, effects, dispatchedAt>>

\* The store fails, or commits without its answer arriving.
FinishFails(a, days) ==
  /\ pc[a] = "recording"
  /\ \/ UNCHANGED row
     \/ /\ Completes(a)
        /\ row' = [row EXCEPT !.outcome = evidence[a], !.historyExpiresAt = finishAt[a] + days]
  /\ Finished(a, "unrecorded")
  /\ UNCHANGED <<clock, record, evidence, sweeping, effects, dispatchedAt>>

\* The instance goes down with the attempt on it.
Crash(a) ==
  /\ pc[a] \in {"claiming", "working", "finishing", "recording"}
  /\ Begun(a, "crashed") /\ finishAt' = [finishAt EXCEPT ![a] = None]
  /\ UNCHANGED <<clock, row, evidence, sweeping, effects, dispatchedAt>>

----------------------------------------------------------------------------
(* sweep                                                                   *)

SweepStarts(s) ==
  /\ sweeping[s].step = "idle"
  /\ sweeping' = [sweeping EXCEPT ![s] = [at |-> clock, step |-> "resolve"]]
  /\ UNCHANGED <<clock, row, pc, record, evidence, finishAt, effects, dispatchedAt>>

\* Mutant: every expired deadline is resolved, whatever has been recorded.
ResolveRecorded(s) ==
  /\ sweeping[s].step = "resolve"
  /\ row' = IF row # None /\ row.deadline <= sweeping[s].at
            THEN [row EXCEPT !.outcome = "unknown"] ELSE row
  /\ sweeping' = [sweeping EXCEPT ![s].step = "delete"]
  /\ UNCHANGED <<clock, pc, record, evidence, finishAt, effects, dispatchedAt>>

\* Mutant: only claims whose process is known to be gone are resolved.
ResolveAbandoned(s) ==
  /\ sweeping[s].step = "resolve"
  /\ row' = IF row # None /\ row.outcome = "dispatching" /\ pc[row.lease] = "crashed"
            THEN [row EXCEPT !.outcome = "unknown"] ELSE row
  /\ sweeping' = [sweeping EXCEPT ![s].step = "delete"]
  /\ UNCHANGED <<clock, pc, record, evidence, finishAt, effects, dispatchedAt>>

\* UPDATE: an abandoned claim becomes "unknown", its history counts from its deadline.
Resolve(s) ==
  /\ sweeping[s].step = "resolve"
  /\ row' = IF row # None /\ row.outcome = "dispatching" /\ row.deadline <= sweeping[s].at
            THEN [row EXCEPT !.outcome = "unknown",
                             !.historyExpiresAt = row.deadline + @ - row.startedAt]
            ELSE row
  /\ sweeping' = [sweeping EXCEPT ![s].step = "delete"]
  /\ UNCHANGED <<clock, pc, record, evidence, finishAt, effects, dispatchedAt>>

\* Mutant: the row is deleted as soon as its claim cannot be completed any more.
DeleteByDeadline(s) ==
  /\ sweeping[s].step = "delete"
  /\ row' = IF row # None /\ row.deadline <= sweeping[s].at THEN None ELSE row
  /\ sweeping' = [sweeping EXCEPT ![s] = [at |-> None, step |-> "idle"]]
  /\ UNCHANGED <<clock, pc, record, evidence, finishAt, effects, dispatchedAt>>

\* DELETE of expired history.
Delete(s) ==
  /\ sweeping[s].step = "delete"
  /\ row' = IF row # None /\ row.historyExpiresAt <= sweeping[s].at THEN None ELSE row
  /\ sweeping' = [sweeping EXCEPT ![s] = [at |-> None, step |-> "idle"]]
  /\ UNCHANGED <<clock, pc, record, evidence, finishAt, effects, dispatchedAt>>

----------------------------------------------------------------------------
\* Assumed: the awaits of begin end within the execution bound.
Tick ==
  /\ clock < MaxTime
  /\ \A a \in Attempts : pc[a] = "claiming" => clock < record[a].deadline
  /\ clock' = clock + 1
  /\ UNCHANGED <<row, pc, record, evidence, finishAt, sweeping, effects, dispatchedAt>>

Attempt(a) ==
  \/ \E days \in Days : Begin(a, days)
  \/ BeginFails(a) \/ Claim(a) \/ ClaimAnswerLost(a)
  \/ TakeEffect(a)
  \/ \E outcome \in Reported : WorkEnds(a, outcome)
  \/ StartFinish(a)
  \/ \E days \in Days : Finish(a, days)
  \/ \E days \in Days : FinishFails(a, days)
  \/ Crash(a)

Sweep(s) == SweepStarts(s) \/ Resolve(s) \/ Delete(s)

Next == (\E a \in Attempts : Attempt(a)) \/ (\E s \in Sweepers : Sweep(s)) \/ Tick

Spec == Init /\ [][Next]_vars

\* Time passes, the periodic sweep runs and the awaits of begin end; nothing is assumed of
\* an attempt that has been dispatched.
FairSpec ==
  /\ Spec
  /\ WF_vars(Tick)
  /\ \A s \in Sweepers : WF_vars(Sweep(s))
  /\ \A a \in Attempts : WF_vars(BeginFails(a) \/ Claim(a) \/ ClaimAnswerLost(a))

----------------------------------------------------------------------------
(* Properties                                                              *)

\* Type invariant of the row, of the attempts and of the sweeps.
TypeOK ==
  /\ clock \in 0 .. MaxTime
  /\ row \in Records \cup {None}
  /\ pc \in [Attempts -> {"idle", "claiming", "denied", "suppressed", "working", "finishing",
                          "recording", "answered", "unrecorded", "crashed"}]
  /\ record \in [Attempts -> Records \cup {None}]
  /\ evidence \in [Attempts -> Reported \cup {None}]
  /\ finishAt \in [Attempts -> 0 .. MaxTime \cup {None}]
  /\ sweeping \in [Sweepers -> [at : Int \cup {None}, step : {"idle", "resolve", "delete"}]]
  /\ effects \subseteq Attempts
  /\ dispatchedAt \in [Attempts -> 0 .. MaxTime \cup {None}]

Dispatched(a) == dispatchedAt[a] # None

\* One id is dispatched at most once within the shortest history duration, counted from the
\* dispatch: retries, duplicates on other instances and sweeps do not reopen it earlier.
DispatchedOncePerHistory ==
  \A a, b \in Attempts : a # b /\ Dispatched(a) /\ Dispatched(b) =>
    \E d \in Days : dispatchedAt[a] - dispatchedAt[b] >= d - Bound
                 \/ dispatchedAt[b] - dispatchedAt[a] >= d - Bound

\* The recorded outcome is what the attempt that holds the row's lease reported, or "unknown":
\* evidence of an earlier attempt whose row is gone never lands on a later one.
EvidenceIsOfItsClaim ==
  row # None /\ row.outcome \notin {"dispatching", "unknown"} => row.outcome = evidence[row.lease]

\* A row that says the operation was rejected is never the row of an effect, and one that
\* says it completed is always.
EvidenceIsTrue ==
  row # None => /\ row.outcome = "rejected" => row.lease \notin effects
                /\ row.outcome = "completed" => row.lease \in effects

\* A recorded or resolved outcome stands until the row is deleted.
RecordedStands ==
  [][row # None /\ row.outcome # "dispatching" /\ row' # None =>
       row'.outcome = row.outcome /\ row'.lease = row.lease]_vars

\* A caller that is given the result of its work was first recorded: there is no success
\* without evidence.
AnsweredIsRecorded ==
  [][\A a \in Attempts : pc[a] # "answered" /\ pc'[a] = "answered" =>
       row' # None /\ row'.lease = a /\ row'.outcome = evidence[a]]_vars

\* Whatever happens to its attempt, a claim does not stay open past its deadline.
ClaimIsResolved ==
  (row # None /\ row.outcome = "dispatching" /\ row.deadline < MaxTime)
    ~> (row = None \/ row.outcome # "dispatching")

============================================================================
