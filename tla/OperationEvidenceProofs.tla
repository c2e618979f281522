---------------------- MODULE OperationEvidenceProofs ----------------------
(* Theorems about OperationEvidence for every value of its constants. *)
EXTENDS OperationEvidence, TLAPS

USE BoundPositive, BoundIsShorterThanHistory, MaxTimeNat, NoneIsNothing

----------------------------------------------------------------------------
(* Type correctness                                                        *)

\* TypeOK is inductive together with this: what an attempt holds at each of its steps.
Local ==
  \A a \in Attempts :
    /\ pc[a] = "claiming" => record[a] # None /\ record[a].lease = a
    /\ pc[a] \in {"finishing", "recording"} => evidence[a] # None
    /\ pc[a] = "recording" => finishAt[a] # None

Typed == TypeOK /\ Local

LEMMA InitTyped == Init => Typed
  BY DEF Init, Typed, TypeOK, Local

LEMMA AttemptTyped == ASSUME Typed, NEW a \in Attempts, Attempt(a) PROVE Typed'
<1> USE DEF Typed, TypeOK, Local, Goto, Begun, Finished, Reported
<1>1. ASSUME NEW days \in Days, Begin(a, days) PROVE Typed'
  <2>1. clock \in Int /\ clock + Bound \in Int /\ clock + days \in Int
    OBVIOUS
  <2>2. [lease |-> a, startedAt |-> clock, deadline |-> clock + Bound,
         historyExpiresAt |-> clock + days, outcome |-> "dispatching"] \in Records
    BY <2>1 DEF Records
  <2> QED BY <1>1, <2>2 DEF Begin
<1>2. CASE BeginFails(a) \/ TakeEffect(a) \/ Crash(a)
  BY <1>2 DEF BeginFails, TakeEffect, Crash
<1>3. CASE Claim(a) \/ ClaimAnswerLost(a)
  <2>1. record[a] \in Records
    BY <1>3 DEF Claim, ClaimAnswerLost
  <2> QED BY <1>3, <2>1 DEF Claim, ClaimAnswerLost
<1>4. ASSUME NEW outcome \in Reported, WorkEnds(a, outcome) PROVE Typed'
  <2>1. evidence' \in [Attempts -> Reported \cup {None}]
    BY <1>4 DEF WorkEnds
  <2>2. pc' \in [Attempts -> {"idle", "claiming", "denied", "suppressed", "working", "finishing",
                            "recording", "answered", "unrecorded", "crashed"}]
    BY <1>4 DEF WorkEnds
  <2>3. Local'
    BY <1>4 DEF WorkEnds
  <2> QED BY <1>4, <2>1, <2>2, <2>3 DEF WorkEnds
<1>5. CASE StartFinish(a)
  BY <1>5 DEF StartFinish
<1>6. ASSUME NEW days \in Days, Finish(a, days) \/ FinishFails(a, days) PROVE Typed'
  <2>1. finishAt[a] + days \in Int /\ evidence[a] \in Reported
    BY <1>6 DEF Finish, FinishFails
  <2>2. row' \in Records \cup {None}
    <3>1. row' = row \/ (row # None /\ row' = [row EXCEPT !.outcome = evidence[a],
                                                       !.historyExpiresAt = finishAt[a] + days])
      BY <1>6 DEF Finish, FinishFails, Completes
    <3>2. CASE row' = row
      BY <3>2
    <3>3. CASE /\ row \in Records
               /\ row' = [row EXCEPT !.outcome = evidence[a], !.historyExpiresAt = finishAt[a] + days]
      BY <2>1, <3>3 DEF Records
    <3> QED BY <3>1, <3>2, <3>3
  <2> QED BY <1>6, <2>2 DEF Finish, FinishFails
<1> QED BY <1>1, <1>2, <1>3, <1>4, <1>5, <1>6 DEF Attempt

LEMMA SweepTyped == ASSUME Typed, NEW s \in Sweepers, Sweep(s) PROVE Typed'
<1> USE DEF Typed, TypeOK, Local
<1>1. CASE SweepStarts(s)
  BY <1>1 DEF SweepStarts
<1>2. CASE Resolve(s)
  <2>1. ASSUME row \in Records
        PROVE  [row EXCEPT !.outcome = "unknown",
                           !.historyExpiresAt = row.deadline + @ - row.startedAt] \in Records
    <3>1. row.deadline + row.historyExpiresAt - row.startedAt \in Int
      BY <2>1 DEF Records
    <3> QED BY <2>1, <3>1 DEF Records, Reported
  <2>2. row' \in Records \cup {None}
    BY <1>2, <2>1 DEF Resolve
  <2> QED BY <1>2, <2>2 DEF Resolve
<1>3. CASE Delete(s)
  BY <1>3 DEF Delete
<1> QED BY <1>1, <1>2, <1>3 DEF Sweep

LEMMA StepTyped == Typed /\ [Next]_vars => Typed'
<1>1. Typed /\ Tick => Typed'
  BY DEF Typed, TypeOK, Local, Tick
<1>2. Typed /\ UNCHANGED vars => Typed'
  BY DEF Typed, TypeOK, Local, vars
<1> QED BY <1>1, <1>2, AttemptTyped, SweepTyped DEF Next

\* Every value has its type in every reachable state.
THEOREM TypeCorrect == Spec => []TypeOK
<1>1. Typed => TypeOK
  BY DEF Typed
<1> QED BY <1>1, InitTyped, StepTyped, PTL DEF Spec

----------------------------------------------------------------------------
(* What the row says                                                       *)

\* EvidenceIsOfItsClaim and EvidenceIsTrue are inductive together with this: who recorded an
\* outcome reports no other one any more, and reports agree with the effects.
Reports ==
  /\ row # None /\ row.outcome \notin {"dispatching", "unknown"} =>
       pc[row.lease] \in {"answered", "unrecorded"}
  /\ \A a \in Attempts : /\ evidence[a] = "rejected" => a \notin effects
                         /\ evidence[a] = "completed" => a \in effects
  /\ \A a \in Attempts : pc[a] = "claiming" => record[a].outcome = "dispatching"

Truth == Reports /\ EvidenceIsOfItsClaim

LEMMA InitTruth == Init => Truth
<1> SUFFICES ASSUME Init PROVE Truth
  OBVIOUS
<1>1. \A a \in Attempts : evidence[a] \notin Reported /\ pc[a] # "claiming"
  BY DEF Init
<1> QED BY <1>1 DEF Init, Truth, Reports, EvidenceIsOfItsClaim, Reported

LEMMA AttemptTruth == ASSUME Typed, Truth, NEW a \in Attempts, Attempt(a) PROVE Truth'
<1> USE DEF Typed, TypeOK, Local, Truth, Reports, EvidenceIsOfItsClaim
<1>0. row # None => row \in Records /\ row.lease \in Attempts
  BY DEF Records
<1>1. ASSUME NEW days \in Days, Begin(a, days) PROVE Truth'
  BY <1>0, <1>1 DEF Begin, Goto
<1>2. CASE BeginFails(a) \/ TakeEffect(a) \/ Crash(a)
  BY <1>0, <1>2 DEF BeginFails, TakeEffect, Crash, Goto, Begun
<1>3. CASE Claim(a) \/ ClaimAnswerLost(a)
  BY <1>0, <1>3 DEF Claim, ClaimAnswerLost, Goto, Begun
<1>4. ASSUME NEW outcome \in Reported, WorkEnds(a, outcome) PROVE Truth'
  BY <1>0, <1>4 DEF WorkEnds, Goto
<1>5. CASE StartFinish(a)
  BY <1>0, <1>5 DEF StartFinish, Goto
<1>6. ASSUME NEW days \in Days, Finish(a, days) \/ FinishFails(a, days) PROVE Truth'
  <2>1. UNCHANGED <<evidence, effects, record>>
        /\ pc' = [pc EXCEPT ![a] = pc'[a]] /\ pc'[a] \in {"answered", "unrecorded"}
    BY <1>6 DEF Finish, FinishFails, Finished, Goto
  <2>2. CASE UNCHANGED row
    BY <1>0, <2>1, <2>2
  <2>3. CASE Completes(a) /\ row' = [row EXCEPT !.outcome = evidence[a], !.historyExpiresAt = finishAt[a] + days]
    <3>1. row'.lease = a /\ row'.outcome = evidence[a]
      BY <1>0, <2>3 DEF Completes, Records
    <3> QED BY <2>1, <3>1
  <2> QED BY <1>6, <2>2, <2>3 DEF Finish, FinishFails
<1> QED BY <1>1, <1>2, <1>3, <1>4, <1>5, <1>6 DEF Attempt

LEMMA StepTruth == Typed /\ Truth /\ [Next]_vars => Truth'
<1> SUFFICES ASSUME Typed, Truth, [Next]_vars PROVE Truth'
  OBVIOUS
<1> USE DEF Truth, Reports, EvidenceIsOfItsClaim
<1>1. ASSUME NEW s \in Sweepers, Sweep(s) PROVE Truth'
  <2>1. UNCHANGED <<pc, record, evidence, effects>>
    BY <1>1 DEF Sweep, SweepStarts, Resolve, Delete
  <2>2. row' = row \/ row' = None \/ (row' # None => row'.outcome = "unknown")
    <3>1. row # None => row \in Records
      BY DEF Typed, TypeOK
    <3> QED BY <1>1, <3>1 DEF Sweep, SweepStarts, Resolve, Delete, Records
  <2> QED BY <2>1, <2>2
<1>2. CASE Tick \/ UNCHANGED vars
  BY <1>2 DEF Tick, vars
<1> QED BY <1>1, <1>2, AttemptTruth DEF Next

LEMMA TruthInductive == Spec => [](Typed /\ Truth)
  BY InitTyped, StepTyped, InitTruth, StepTruth, PTL DEF Spec

\* A recorded outcome is the report of the attempt whose lease the row has, for any number of
\* attempts and sweeps: nothing lands on the row of a later claim.
THEOREM EvidenceOfItsClaim == Spec => []EvidenceIsOfItsClaim
<1>1. Truth => EvidenceIsOfItsClaim
  BY DEF Truth
<1> QED BY <1>1, TruthInductive, PTL

\* "rejected" and "completed" agree with the provider.
THEOREM EvidenceTrue == Spec => []EvidenceIsTrue
<1>1. Typed /\ Truth => EvidenceIsTrue
  <2> SUFFICES ASSUME Typed, Truth, row # None, row.outcome \in {"rejected", "completed"}
               PROVE  /\ row.outcome = "rejected" => row.lease \notin effects
                      /\ row.outcome = "completed" => row.lease \in effects
    BY DEF EvidenceIsTrue
  <2>1. row.lease \in Attempts
    BY DEF Typed, TypeOK, Records
  <2>2. row.outcome = evidence[row.lease]
    BY DEF Truth, EvidenceIsOfItsClaim
  <2>3. \A a \in Attempts : /\ evidence[a] = "rejected" => a \notin effects
                            /\ evidence[a] = "completed" => a \in effects
    BY Zenon DEF Truth, Reports
  <2> QED BY <2>1, <2>2, <2>3, Zenon
<1> QED BY <1>1, TruthInductive, PTL

\* A recorded outcome is neither replaced nor moved to another lease.
THEOREM OutcomeStands == Spec => RecordedStands
<1>1. Typed /\ [Next]_vars =>
        [row # None /\ row.outcome # "dispatching" /\ row' # None =>
           row'.outcome = row.outcome /\ row'.lease = row.lease]_vars
  <2> SUFFICES ASSUME Next, row # None, row.outcome # "dispatching", row' # None
               PROVE  row' = row
    OBVIOUS
  <2>1. ASSUME NEW a \in Attempts, Attempt(a) PROVE row' = row
    BY <2>1 DEF Attempt, Begin, BeginFails, Claim, ClaimAnswerLost, TakeEffect, WorkEnds, StartFinish,
                Finish, FinishFails, Completes, Crash
  <2>2. ASSUME NEW s \in Sweepers, Sweep(s) PROVE row' = row
    BY <2>2 DEF Sweep, SweepStarts, Resolve, Delete
  <2> QED BY <2>1, <2>2 DEF Next, Tick
<1> QED BY <1>1, TruthInductive, PTL DEF Spec, RecordedStands

\* Nobody is told a result that was not first recorded.
THEOREM RecordedBeforeAnswered == Spec => AnsweredIsRecorded
<1>1. Typed /\ [Next]_vars =>
        [\A a \in Attempts : pc[a] # "answered" /\ pc'[a] = "answered" =>
           row' # None /\ row'.lease = a /\ row'.outcome = evidence[a]]_vars
  <2> SUFFICES ASSUME Typed, Next, NEW a \in Attempts, pc[a] # "answered", pc'[a] = "answered"
               PROVE  row' # None /\ row'.lease = a /\ row'.outcome = evidence[a]
    OBVIOUS
  <2>1. ASSUME NEW b \in Attempts, Attempt(b)
        PROVE  \E days \in Days : Finish(a, days) /\ Completes(a)
    BY <2>1 DEF Typed, TypeOK, Attempt, Begin, BeginFails, Claim, ClaimAnswerLost, TakeEffect, WorkEnds,
                StartFinish, Finish, FinishFails, Crash, Goto, Begun, Finished
  <2>2. PICK days \in Days : Finish(a, days) /\ Completes(a)
    BY <2>1 DEF Next, Sweep, SweepStarts, Resolve, Delete, Tick
  <2>3. row' = [row EXCEPT !.outcome = evidence[a], !.historyExpiresAt = finishAt[a] + days]
    BY <2>2 DEF Finish
  <2>4. row \in Records /\ row.lease = a
    BY <2>2 DEF Completes, Typed, TypeOK
  <2>5. row' \in Records
    <3>1. evidence[a] \in Reported /\ finishAt[a] + days \in Int
      BY <2>2 DEF Finish, Typed, TypeOK, Local
    <3> QED BY <2>3, <2>4, <3>1 DEF Records
  <2> QED BY <2>3, <2>4, <2>5 DEF Records
<1> QED BY <1>1, TruthInductive, PTL DEF Spec, AnsweredIsRecorded

----------------------------------------------------------------------------
(* One dispatch per history                                                *)

\* How the dates an attempt, the row and a sweep hold relate to the clock.
Dated(a) ==
  pc[a] = "claiming" =>
    /\ record[a].deadline = record[a].startedAt + Bound
    /\ clock <= record[a].deadline
    /\ \E d \in Days : record[a].historyExpiresAt = record[a].startedAt + d

Past(a) ==
  Dispatched(a) => /\ dispatchedAt[a] <= clock
                   /\ pc[a] = "recording" => dispatchedAt[a] <= finishAt[a]

SweptInThePast(s) == sweeping[s].step # "idle" => sweeping[s].at # None /\ sweeping[s].at <= clock

RowDated == row # None => row.deadline = row.startedAt + Bound

Dates ==
  /\ RowDated
  /\ \A a \in Attempts : Dated(a) /\ Past(a)
  /\ \A s \in Sweepers : SweptInThePast(s)

\* The id is open again after a dispatch only when its history is over: until then the row is
\* the one of the dispatch, and keeps that history whatever is recorded or resolved.
Remembered(a) ==
  Dispatched(a) =>
    \E d \in Days : \/ clock >= dispatchedAt[a] + d - Bound
                    \/ /\ row # None /\ row.lease = a
                       /\ row.historyExpiresAt >= dispatchedAt[a] + d - Bound

History == Dates /\ DispatchedOncePerHistory /\ \A a \in Attempts : Remembered(a)

LEMMA InitHistory == Init => History
<1> SUFFICES ASSUME Init PROVE History
  OBVIOUS
<1>1. \A a \in Attempts : ~Dispatched(a) /\ pc[a] # "claiming"
  BY DEF Init, Dispatched
<1> QED BY <1>1 DEF Init, History, Dates, RowDated, Dated, Past, SweptInThePast, Remembered,
                    DispatchedOncePerHistory

\* Records keep the dates of their claim: a recorded outcome and a resolution only move the
\* end of the history.
LEMMA RowFields ==
  ASSUME NEW r \in Records, NEW o \in Reported, NEW h \in Int
  PROVE  /\ [r EXCEPT !.outcome = o, !.historyExpiresAt = h].lease = r.lease
         /\ [r EXCEPT !.outcome = o, !.historyExpiresAt = h].startedAt = r.startedAt
         /\ [r EXCEPT !.outcome = o, !.historyExpiresAt = h].deadline = r.deadline
         /\ [r EXCEPT !.outcome = o, !.historyExpiresAt = h].historyExpiresAt = h
  BY DEF Records

LEMMA AttemptDates == ASSUME Typed, Dates, NEW a \in Attempts, Attempt(a) PROVE Dates'
<1> USE DEF Typed, TypeOK, Local
<1>0. /\ RowDated
      /\ \A b \in Attempts : Dated(b) /\ Past(b)
      /\ \A s \in Sweepers : SweptInThePast(s)
  BY DEF Dates
<1>1. \A s \in Sweepers : SweptInThePast(s)'
  <2>1. UNCHANGED <<clock, sweeping>>
    BY DEF Attempt, Begin, BeginFails, Claim, ClaimAnswerLost, TakeEffect, WorkEnds, StartFinish,
           Finish, FinishFails, Crash
  <2> QED BY <1>0, <2>1 DEF SweptInThePast
<1>2. RowDated'
  <2>1. CASE UNCHANGED row
    BY <1>0, <2>1 DEF RowDated
  <2>2. ASSUME pc[a] = "claiming", row' = record[a] PROVE RowDated'
    BY <1>0, <2>2 DEF RowDated, Dated
  <2>3. ASSUME NEW days \in Days, pc[a] = "recording", Completes(a),
               row' = [row EXCEPT !.outcome = evidence[a], !.historyExpiresAt = finishAt[a] + days]
        PROVE  RowDated'
    <3>1. row \in Records /\ evidence[a] \in Reported /\ finishAt[a] + days \in Int
      BY <2>3 DEF Completes
    <3>2. row'.deadline = row.deadline /\ row'.startedAt = row.startedAt
      BY <2>3, <3>1, RowFields
    <3> QED BY <1>0, <3>1, <3>2 DEF RowDated
  <2> QED BY <2>1, <2>2, <2>3 DEF Attempt, Begin, BeginFails, Claim, ClaimAnswerLost, TakeEffect,
                                  WorkEnds, StartFinish, Finish, FinishFails, Crash
<1>3. ASSUME NEW b \in Attempts PROVE Dated(b)'
  <2>1. CASE pc'[b] # "claiming"
    BY <2>1 DEF Dated
  <2>2. CASE pc'[b] = "claiming" /\ pc[b] = "claiming" /\ record'[b] = record[b]
    <3>1. UNCHANGED clock
      BY DEF Attempt, Begin, BeginFails, Claim, ClaimAnswerLost, TakeEffect, WorkEnds, StartFinish,
             Finish, FinishFails, Crash
    <3> QED BY <1>0, <2>2, <3>1 DEF Dated
  <2>3. ASSUME NEW days \in Days, Begin(b, days) PROVE Dated(b)'
    <3>1. /\ record'[b] = [lease |-> b, startedAt |-> clock, deadline |-> clock + Bound,
                           historyExpiresAt |-> clock + days, outcome |-> "dispatching"]
          /\ clock' = clock /\ clock \in Int
      BY <2>3 DEF Begin
    <3>2. /\ record'[b].startedAt = clock /\ record'[b].deadline = clock + Bound
          /\ record'[b].historyExpiresAt = clock + days
      BY <3>1
    <3>3. clock' <= clock + Bound
      BY <3>1
    <3> QED BY <3>2, <3>3 DEF Dated
  <2>4. ASSUME pc' = [pc EXCEPT ![a] = pc'[a]], pc'[a] # "claiming",
               record' = record \/ record' = [record EXCEPT ![a] = None]
        PROVE  Dated(b)'
    BY <2>1, <2>2, <2>4
  <2>5. CASE BeginFails(a) \/ Claim(a) \/ ClaimAnswerLost(a) \/ Crash(a)
    BY <2>4, <2>5 DEF BeginFails, Claim, ClaimAnswerLost, Crash, Goto, Begun
  <2>6. CASE TakeEffect(a)
    BY <2>1, <2>2, <2>6 DEF TakeEffect
  <2>7. ASSUME NEW o \in Reported, WorkEnds(a, o) PROVE Dated(b)'
    BY <2>4, <2>7 DEF WorkEnds, Goto
  <2>8. CASE StartFinish(a)
    BY <2>4, <2>8 DEF StartFinish, Goto
  <2>9. ASSUME NEW days \in Days, Finish(a, days) \/ FinishFails(a, days) PROVE Dated(b)'
    BY <2>4, <2>9 DEF Finish, FinishFails, Goto, Finished
  <2>10. ASSUME NEW days \in Days, Begin(a, days), b # a PROVE Dated(b)'
    BY <2>1, <2>2, <2>10 DEF Begin, Goto
  <2> QED BY <2>3, <2>5, <2>6, <2>7, <2>8, <2>9, <2>10 DEF Attempt
<1>4. ASSUME NEW b \in Attempts PROVE Past(b)'
  <2>0. UNCHANGED clock
    BY DEF Attempt, Begin, BeginFails, Claim, ClaimAnswerLost, TakeEffect, WorkEnds, StartFinish,
           Finish, FinishFails, Crash
  <2>1. clock' = clock /\ clock \in Int
    BY <2>0
  <2>2. CASE Claim(b)
    BY <1>0, <2>1, <2>2 DEF Past, Dispatched, Claim, Goto, Begun
  <2>3. CASE StartFinish(b)
    BY <1>0, <2>1, <2>3 DEF Past, Dispatched, StartFinish, Goto
  <2>4. ASSUME dispatchedAt'[b] = dispatchedAt[b], finishAt'[b] = finishAt[b] \/ pc'[b] # "recording",
               pc'[b] = "recording" => pc[b] = "recording"
        PROVE  Past(b)'
    BY <1>0, <2>1, <2>4 DEF Past, Dispatched
  <2>5. Claim(b) \/ StartFinish(b)
        \/ /\ dispatchedAt'[b] = dispatchedAt[b] /\ (finishAt'[b] = finishAt[b] \/ pc'[b] # "recording")
           /\ pc'[b] = "recording" => pc[b] = "recording"
    <3>1. CASE Claim(a)
      BY <3>1 DEF Claim, Goto, Begun
    <3>2. CASE StartFinish(a)
      BY <3>2 DEF StartFinish, Goto
    <3>3. CASE BeginFails(a) \/ ClaimAnswerLost(a) \/ TakeEffect(a) \/ Crash(a)
      BY <3>3 DEF BeginFails, ClaimAnswerLost, TakeEffect, Crash, Goto, Begun
    <3>4. ASSUME NEW days \in Days, Begin(a, days) \/ Finish(a, days) \/ FinishFails(a, days)
          PROVE  /\ dispatchedAt'[b] = dispatchedAt[b] /\ (finishAt'[b] = finishAt[b] \/ pc'[b] # "recording")
                 /\ pc'[b] = "recording" => pc[b] = "recording"
      BY <3>4 DEF Begin, Finish, FinishFails, Goto, Finished
    <3>5. ASSUME NEW o \in Reported, WorkEnds(a, o)
          PROVE  /\ dispatchedAt'[b] = dispatchedAt[b] /\ (finishAt'[b] = finishAt[b] \/ pc'[b] # "recording")
                 /\ pc'[b] = "recording" => pc[b] = "recording"
      BY <3>5 DEF WorkEnds, Goto
    <3> QED BY <3>1, <3>2, <3>3, <3>4, <3>5 DEF Attempt
  <2> QED BY <2>2, <2>3, <2>4, <2>5
<1> QED BY <1>1, <1>2, <1>3, <1>4 DEF Dates

LEMMA SweepDates == ASSUME Typed, Dates, NEW s \in Sweepers, Sweep(s) PROVE Dates'
<1> USE DEF Typed, TypeOK
<1>0. /\ RowDated
      /\ \A b \in Attempts : Dated(b) /\ Past(b)
      /\ \A t \in Sweepers : SweptInThePast(t)
  BY DEF Dates
<1>1. UNCHANGED <<clock, pc, record, finishAt, dispatchedAt>>
  BY DEF Sweep, SweepStarts, Resolve, Delete
<1>2. \A b \in Attempts : Dated(b)' /\ Past(b)'
  BY <1>0, <1>1 DEF Dated, Past, Dispatched
<1>3. \A t \in Sweepers : SweptInThePast(t)'
  BY <1>0, <1>1 DEF SweptInThePast, Sweep, SweepStarts, Resolve, Delete
<1>4. RowDated'
  <2>1. CASE row' = row \/ row' = None
    BY <1>0, <2>1 DEF RowDated
  <2>2. CASE Resolve(s) /\ row' # row
    <3> DEFINE h == row.deadline + row.historyExpiresAt - row.startedAt
    <3>1. row \in Records /\ row' = [row EXCEPT !.outcome = "unknown", !.historyExpiresAt = h]
      BY <2>2 DEF Resolve
    <3>2. h \in Int /\ "unknown" \in Reported
      BY <3>1 DEF Records, Reported
    <3> HIDE DEF h
    <3>3. row'.deadline = row.deadline /\ row'.startedAt = row.startedAt
      BY <3>1, <3>2, RowFields
    <3> QED BY <1>0, <3>1, <3>3 DEF RowDated
  <2> QED BY <2>1, <2>2 DEF Sweep, SweepStarts, Resolve, Delete
<1> QED BY <1>2, <1>3, <1>4 DEF Dates

LEMMA StepDates == Typed /\ Dates /\ [Next]_vars => Dates'
<1> SUFFICES ASSUME Typed, Dates, [Next]_vars PROVE Dates'
  OBVIOUS
<1>1. CASE Tick
  <2>0. /\ clock' = clock + 1 /\ clock \in Int
        /\ UNCHANGED <<row, pc, record, evidence, finishAt, sweeping, effects, dispatchedAt>>
        /\ \A a \in Attempts : pc[a] = "claiming" => clock < record[a].deadline
    BY <1>1 DEF Tick, Typed, TypeOK
  <2>1. RowDated'
    BY <2>0 DEF Dates, RowDated
  <2>2. ASSUME NEW a \in Attempts PROVE Dated(a)'
    <3>1. Dated(a) /\ (pc[a] = "claiming" => record[a] \in Records)
      BY DEF Dates, Typed, TypeOK, Local
    <3>2. pc[a] = "claiming" => record[a].deadline \in Int
      BY <3>1 DEF Records
    <3> QED BY <2>0, <3>1, <3>2 DEF Dated
  <2>3. ASSUME NEW a \in Attempts PROVE Past(a)'
    BY <2>0 DEF Dates, Past, Dispatched, Typed, TypeOK
  <2>4. ASSUME NEW s \in Sweepers PROVE SweptInThePast(s)'
    BY <2>0 DEF Dates, SweptInThePast, Typed, TypeOK
  <2> QED BY <2>1, <2>2, <2>3, <2>4 DEF Dates
<1>2. CASE UNCHANGED vars
  BY <1>2 DEF Dates, RowDated, Dated, Past, SweptInThePast, Dispatched, vars
<1> QED BY <1>1, <1>2, AttemptDates, SweepDates DEF Next

LEMMA AttemptRemembered ==
  ASSUME Typed, Dates, \A b \in Attempts : Remembered(b), NEW a \in Attempts, Attempt(a),
         NEW b \in Attempts
  PROVE  Remembered(b)'
<1> USE DEF Typed, TypeOK, Local
<1>0. UNCHANGED clock
  BY DEF Attempt, Begin, BeginFails, Claim, ClaimAnswerLost, TakeEffect, WorkEnds, StartFinish,
         Finish, FinishFails, Crash
<1>1. clock' = clock /\ clock \in Int /\ (Dispatched(b) => dispatchedAt[b] \in Int)
  BY <1>0 DEF Dispatched
<1>2. CASE UNCHANGED <<row, dispatchedAt>>
  BY <1>1, <1>2 DEF Remembered, Dispatched
<1>3. ASSUME row = None, Dispatched(b)', dispatchedAt'[b] = dispatchedAt[b] PROVE Remembered(b)'
  BY <1>1, <1>3 DEF Remembered, Dispatched
<1>4. CASE Claim(a) /\ row = None
  <2>1. CASE b # a
    BY <1>3, <1>4, <2>1 DEF Claim, Remembered, Dispatched
  <2>2. CASE b = a
    <3>1. /\ row' = record[a] /\ dispatchedAt'[a] = clock
          /\ record[a] \in Records /\ record[a].lease = a
      BY <1>4 DEF Claim
    <3>2. Dated(a)
      BY DEF Dates
    <3>3. PICK d \in Days : record[a].historyExpiresAt = record[a].startedAt + d
      BY <1>4, <3>2 DEF Dated, Claim
    <3>4. record[a].deadline = record[a].startedAt + Bound /\ clock <= record[a].deadline
      BY <1>4, <3>2 DEF Dated, Claim
    <3>5. record[a].startedAt \in Int
      BY <3>1 DEF Records
    <3>6. record[a].historyExpiresAt >= clock + d - Bound
      BY <1>1, <3>3, <3>4, <3>5
    <3> QED BY <2>2, <3>1, <3>6 DEF Remembered
  <2> QED BY <2>1, <2>2
<1>5. CASE ClaimAnswerLost(a)
  BY <1>3, <1>5 DEF ClaimAnswerLost, Remembered, Dispatched
<1>6. ASSUME NEW days \in Days, pc[a] = "recording", Completes(a), UNCHANGED dispatchedAt,
             row' = [row EXCEPT !.outcome = evidence[a], !.historyExpiresAt = finishAt[a] + days]
      PROVE  Remembered(b)'
  <2>1. row \in Records /\ evidence[a] \in Reported /\ finishAt[a] + days \in Int /\ finishAt[a] \in Int
    BY <1>6 DEF Completes
  <2>2. row'.lease = a /\ row'.historyExpiresAt = finishAt[a] + days
    BY <1>6, <2>1, RowFields DEF Completes
  <2>3. row' # None
    <3>1. row' \in Records
      BY <1>6, <2>1 DEF Records
    <3> QED BY <3>1
  <2>4. CASE b # a
    BY <1>1, <1>6, <2>4 DEF Remembered, Dispatched, Completes
  <2>5. CASE b = a
    <3>1. Dispatched(a) => dispatchedAt[a] <= finishAt[a]
      BY <1>6 DEF Dates, Past
    <3>2. Dispatched(a) => row'.historyExpiresAt >= dispatchedAt[a] + days - Bound
      BY <1>1, <2>1, <2>2, <2>5, <3>1
    <3> QED BY <1>6, <2>2, <2>3, <2>5, <3>2 DEF Remembered, Dispatched
  <2> QED BY <2>4, <2>5
<1>7. ASSUME NEW days \in Days, Finish(a, days) \/ FinishFails(a, days) PROVE Remembered(b)'
  BY <1>2, <1>6, <1>7 DEF Finish, FinishFails
<1>8. CASE \/ Claim(a) /\ row # None
           \/ BeginFails(a) \/ TakeEffect(a) \/ StartFinish(a) \/ Crash(a)
  BY <1>2, <1>8 DEF Claim, BeginFails, TakeEffect, StartFinish, Crash
<1>9. ASSUME NEW days \in Days, Begin(a, days) PROVE Remembered(b)'
  BY <1>2, <1>9 DEF Begin
<1>10. ASSUME NEW o \in Reported, WorkEnds(a, o) PROVE Remembered(b)'
  BY <1>2, <1>10 DEF WorkEnds
<1> QED BY <1>4, <1>5, <1>7, <1>8, <1>9, <1>10 DEF Attempt

LEMMA SweepRemembered ==
  ASSUME Typed, Dates, NEW s \in Sweepers, Sweep(s), NEW b \in Attempts, Remembered(b)
  PROVE  Remembered(b)'
<1> USE DEF Typed, TypeOK
<1>1. UNCHANGED <<clock, dispatchedAt>> /\ clock \in Int /\ (Dispatched(b) => dispatchedAt[b] \in Int)
  BY DEF Sweep, SweepStarts, Resolve, Delete, Dispatched
<1>2. CASE row' = row
  BY <1>1, <1>2 DEF Remembered, Dispatched
<1>3. CASE Resolve(s) /\ row' # row
  <2> DEFINE h == row.deadline + row.historyExpiresAt - row.startedAt
  <2>1. row \in Records /\ row' = [row EXCEPT !.outcome = "unknown", !.historyExpiresAt = h]
    BY <1>3 DEF Resolve
  <2>2. h \in Int /\ "unknown" \in Reported
    BY <2>1 DEF Records, Reported
  <2>3. h >= row.historyExpiresAt /\ row.historyExpiresAt \in Int
    BY <2>1 DEF Records, Dates, RowDated
  <2> HIDE DEF h
  <2>4. row'.lease = row.lease /\ row'.historyExpiresAt = h /\ row' # None
    <3>1. row' \in Records
      BY <2>1, <2>2 DEF Records, Reported
    <3> QED BY <2>1, <2>2, <3>1, RowFields
  <2>5. ASSUME Dispatched(b) PROVE Remembered(b)'
    <3>1. PICK d \in Days : \/ clock >= dispatchedAt[b] + d - Bound
                            \/ /\ row # None /\ row.lease = b
                               /\ row.historyExpiresAt >= dispatchedAt[b] + d - Bound
      BY <2>5 DEF Remembered
    <3>2. row.historyExpiresAt >= dispatchedAt[b] + d - Bound => h >= dispatchedAt[b] + d - Bound
      BY <1>1, <2>2, <2>3, <2>5
    <3> QED BY <1>1, <2>4, <3>1, <3>2 DEF Remembered
  <2> QED BY <1>1, <2>5 DEF Remembered, Dispatched
<1>4. CASE Delete(s) /\ row' # row
  <2>1. row \in Records /\ row.historyExpiresAt <= sweeping[s].at /\ sweeping[s].step = "delete"
    BY <1>4 DEF Delete
  <2>2. sweeping[s].at \in Int /\ sweeping[s].at <= clock
    BY <2>1 DEF Dates, SweptInThePast
  <2>3. row.historyExpiresAt <= clock /\ row.historyExpiresAt \in Int
    BY <1>1, <2>1, <2>2 DEF Records
  <2>4. ASSUME Dispatched(b) PROVE Remembered(b)'
    <3>1. PICK d \in Days : \/ clock >= dispatchedAt[b] + d - Bound
                            \/ /\ row # None /\ row.lease = b
                               /\ row.historyExpiresAt >= dispatchedAt[b] + d - Bound
      BY <2>4 DEF Remembered
    <3>2. clock >= dispatchedAt[b] + d - Bound
      BY <1>1, <2>3, <2>4, <3>1
    <3> QED BY <1>1, <3>2 DEF Remembered
  <2> QED BY <1>1, <2>4 DEF Remembered, Dispatched
<1> QED BY <1>2, <1>3, <1>4 DEF Sweep, SweepStarts, Resolve, Delete

LEMMA StepHistory == Typed /\ History /\ [Next]_vars => History'
<1> SUFFICES ASSUME Typed, History, [Next]_vars PROVE History'
  OBVIOUS
<1>0. Dates /\ DispatchedOncePerHistory /\ \A b \in Attempts : Remembered(b)
  BY DEF History
<1>1. Dates'
  BY <1>0, StepDates
<1>2. CASE Tick
  <2>1. clock' = clock + 1 /\ clock \in Int /\ UNCHANGED <<row, dispatchedAt>>
    BY <1>2 DEF Tick, Typed, TypeOK
  <2>2. ASSUME NEW b \in Attempts PROVE Remembered(b)'
    <3>1. Dispatched(b) => dispatchedAt[b] \in Int
      BY DEF Dispatched, Typed, TypeOK
    <3> QED BY <1>0, <2>1, <3>1 DEF Remembered, Dispatched
  <2>3. DispatchedOncePerHistory'
    BY <1>0, <2>1 DEF DispatchedOncePerHistory, Dispatched
  <2> QED BY <1>1, <2>2, <2>3 DEF History
<1>3. CASE UNCHANGED vars
  BY <1>0, <1>1, <1>3 DEF History, DispatchedOncePerHistory, Remembered, Dispatched, vars
<1>4. ASSUME NEW s \in Sweepers, Sweep(s) PROVE History'
  <2>1. UNCHANGED dispatchedAt
    BY <1>4 DEF Sweep, SweepStarts, Resolve, Delete
  <2>2. DispatchedOncePerHistory'
    BY <1>0, <2>1 DEF DispatchedOncePerHistory, Dispatched
  <2> QED BY <1>0, <1>1, <1>4, <2>2, SweepRemembered DEF History
<1>5. ASSUME NEW a \in Attempts, Attempt(a) PROVE History'
  <2>1. \A b \in Attempts : Remembered(b)'
    BY <1>0, <1>5, AttemptRemembered
  <2>2. CASE UNCHANGED dispatchedAt
    <3>1. DispatchedOncePerHistory'
      BY <1>0, <2>2 DEF DispatchedOncePerHistory, Dispatched
    <3> QED BY <1>1, <2>1, <3>1 DEF History
  <2>3. CASE Claim(a) /\ row = None
    <3>1. dispatchedAt' = [dispatchedAt EXCEPT ![a] = clock] /\ clock \in Int
      BY <2>3 DEF Claim, Typed, TypeOK
    <3>2. ASSUME NEW b \in Attempts, b # a, Dispatched(b)
          PROVE  \E d \in Days : clock - dispatchedAt[b] >= d - Bound
      <4>1. PICK d \in Days : clock >= dispatchedAt[b] + d - Bound
        BY <1>0, <2>3, <3>2 DEF Remembered
      <4>2. dispatchedAt[b] \in Int
        BY <3>2 DEF Dispatched, Typed, TypeOK
      <4> QED BY <3>1, <4>1, <4>2
    <3>3. dispatchedAt'[a] = clock /\ \A b \in Attempts : b # a => dispatchedAt'[b] = dispatchedAt[b]
      BY <3>1 DEF Typed, TypeOK
    <3>4. DispatchedOncePerHistory'
      <4> SUFFICES ASSUME NEW b \in Attempts, NEW c \in Attempts, b # c,
                          dispatchedAt'[b] # None, dispatchedAt'[c] # None
                   PROVE  \E d \in Days : \/ dispatchedAt'[b] - dispatchedAt'[c] >= d - Bound
                                          \/ dispatchedAt'[c] - dispatchedAt'[b] >= d - Bound
        BY DEF DispatchedOncePerHistory, Dispatched
      <4>1. CASE b = a
        BY <3>2, <3>3, <4>1 DEF Dispatched
      <4>2. CASE c = a
        BY <3>2, <3>3, <4>2 DEF Dispatched
      <4>3. CASE b # a /\ c # a
        BY <1>0, <3>3, <4>3 DEF DispatchedOncePerHistory, Dispatched
      <4> QED BY <4>1, <4>2, <4>3
    <3> QED BY <1>1, <2>1, <3>4 DEF History
  <2> QED BY <1>5, <2>2, <2>3 DEF Attempt, Begin, BeginFails, Claim, ClaimAnswerLost, TakeEffect,
                                  WorkEnds, StartFinish, Finish, FinishFails, Crash
<1> QED BY <1>2, <1>3, <1>4, <1>5 DEF Next

\* For any number of attempts, sweeps and history durations the provider is asked once per
\* history: a retry is suppressed while the row stands, and the row stands that long.
THEOREM OneDispatchPerHistory == Spec => []DispatchedOncePerHistory
<1>1. History => DispatchedOncePerHistory
  BY DEF History
<1> QED BY <1>1, InitTyped, StepTyped, InitHistory, StepHistory, PTL DEF Spec

============================================================================
