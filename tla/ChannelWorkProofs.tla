-------------------------- MODULE ChannelWorkProofs --------------------------
(* Theorems about ChannelWork for every value of its constants. *)
EXTENDS ChannelWork, TLAPS

USE NumMessagesNat, SenderIsParticipant, LimitsPositive, StatusesOfTheProvider, NoneIsNothing

States == Pending \cup {"none", "refused", "accepted", "delivered", "read", "expired", "failed",
                        "cancelled", "unknown"}

----------------------------------------------------------------------------
(* Operators                                                               *)

\* A status and an outcome have an order.
LEMMA OrderIsNat ==
  ASSUME NEW s \in {"none", "sending", "unknown", "sent", "accepted", "failed", "delivered", "read"}
  PROVE  Order(s) \in Nat
  BY DEF Order

\* What a reconciliation makes of an event.
LEMMA ReconciledEvent ==
  ASSUME TypeOK, NEW m \in Messages
  PROVE  /\ state[m] \notin Pending => Reconciled[m] = state[m]
         /\ state[m] = "sending" => Reconciled[m] \in {"sending", "unknown"}
         /\ state[m] \in {"queued", "running", "reply"} =>
              Reconciled[m] \in {state[m], "queued", "cancelled", "failed", "expired"}
         /\ Reconciled[m] = "queued" =>
              state[m] = "queued" \/ (state[m] = "running" /\ attempts[m] < MaxAttempts)
         /\ Reconciled[m] = "failed" => state[m] \in {"running", "failed"}
  BY DEF Reconciled, Reconcile, TypeOK, Pending

LEMMA ReconciledTyped ==
  ASSUME TypeOK PROVE Reconciled \in [Messages -> States]
<1>1. \A m \in Messages : Reconciled[m] \in States
  BY ReconciledEvent DEF TypeOK, States, Pending
<1>2. Reconciled = [m \in Messages |-> Reconciled[m]]
  BY DEF Reconciled, Reconcile
<1> QED BY <1>1, <1>2

LEMMA FirstIsOldest ==
  ASSUME NEW s, NEW wanted, NEW m \in First(s, wanted)
  PROVE  /\ m \in Messages /\ s[m] = wanted
         /\ \A k \in 1 .. m - 1 : Sender[k] = Sender[m] => s[k] \notin Pending
  BY DEF First

----------------------------------------------------------------------------
(* Type correctness                                                        *)

\* TypeOK is inductive together with these: a message that waits for a turn has one left, late
\* work has been admitted, and a loop that is on a message knows which.
TurnsLeft == \A m \in Messages : state[m] \in {"none", "queued"} => attempts[m] < MaxAttempts
LateIsAdmitted == \A m \in late : state[m] # "none"
OnTask == \A w \in Workers : pc[w] \in {"answering", "prepared", "awaiting"} => task[w] \in Messages

Typed == TypeOK /\ TurnsLeft /\ LateIsAdmitted /\ OnTask

LEMMA InitTyped == Init => Typed
  BY DEF Init, Typed, TypeOK, TurnsLeft, LateIsAdmitted, OnTask, Messages, Pending

\* The event fields after a write.
EventOK ==
  /\ state \in [Messages -> States]
  /\ current \in [Messages -> BOOLEAN]
  /\ attempts \in [Messages -> 0 .. MaxAttempts]
  /\ lease \in [Messages -> Workers \cup {None}]
  /\ over \subseteq Messages /\ late \subseteq Messages
  /\ TurnsLeft /\ LateIsAdmitted

LEMMA WriteTyped ==
  ASSUME TypeOK, NEW s \in [Messages -> States], NEW att, NEW lea, Write(s, att, lea),
         \A m \in Messages : s[m] \in {"queued", "running"} => att[m] \in 0 .. MaxAttempts,
         \A m \in Messages : s[m] = "queued" => att[m] < MaxAttempts,
         \A m \in Messages : lea[m] \in Workers \cup {None}
  PROVE  EventOK'
  BY DEF EventOK, TypeOK, Write, TurnsLeft, LateIsAdmitted, Pending

LEMMA WriteStatesTyped ==
  ASSUME Typed, NEW s \in [Messages -> States], WriteStates(s),
         \A m \in Messages : s[m] = "queued" => attempts[m] < MaxAttempts
  PROVE  EventOK'
<1>1. \A m \in Messages : attempts[m] \in 0 .. MaxAttempts /\ lease[m] \in Workers \cup {None}
  BY DEF Typed, TypeOK
<1> QED BY <1>1, WriteTyped DEF Typed, WriteStates

\* The rest of Typed, for steps that write the event fields.
RestOK ==
  /\ enabled \in BOOLEAN /\ blocked \subseteq Participants /\ known \subseteq Participants
  /\ history \in [Participants -> Seq(Messages)]
  /\ receipts \subseteq Messages /\ inflight \subseteq Messages /\ released \subseteq Messages
  /\ early \in [Messages -> Statuses \cup {"none"}]
  /\ pc \in [Workers -> {"idle", "answering", "replies", "prepared", "awaiting"}]
  /\ task \in [Workers -> Messages \cup {None}]
  /\ sends \in [Messages -> Nat]
  /\ told \in [Messages -> Statuses \cup {"none"}]
  /\ OnTask

LEMMA TypedInParts ==
  ASSUME (changes \in 0 .. MaxChanges)', EventOK', RestOK' PROVE Typed'
  BY DEF EventOK, RestOK, Typed, TypeOK, States, TurnsLeft, LateIsAdmitted

LEMMA ReconciledTurns ==
  ASSUME Typed
  PROVE  /\ \A m \in Messages : Reconciled[m] = "queued" => attempts[m] < MaxAttempts
         /\ Reconciled \in [Messages -> States]
  BY ReconciledEvent, ReconciledTyped DEF Typed, TurnsLeft

\* A function with one value replaced.
LEMMA Replaced ==
  ASSUME NEW S, NEW T, NEW f \in [S -> T], NEW x, NEW v \in T
  PROVE  [f EXCEPT ![x] = v] \in [S -> T]
  OBVIOUS

LEMMA AdmissionTyped ==
  ASSUME Typed, NEW m \in Messages, Admit(m)
  PROVE  EventOK' /\ RestOK'
<1>1. ASSUME NEW s \in {"queued", "reply", "refused"}, WriteStates([state EXCEPT ![m] = s])
      PROVE  EventOK'
  <2>1. [state EXCEPT ![m] = s] \in [Messages -> States]
    BY DEF Typed, TypeOK, States, Pending
  <2>2. \A k \in Messages : [state EXCEPT ![m] = s][k] = "queued" => attempts[k] < MaxAttempts
    BY DEF Typed, TypeOK, TurnsLeft, Admit
  <2> QED BY <1>1, <2>1, <2>2, WriteStatesTyped
<1>2. EventOK'
  BY <1>1 DEF Admit
<1>3. Sender[m] \in Participants /\ <<>> \in Seq(Messages)
  OBVIOUS
<1>4. known' \subseteq Participants
  BY <1>3 DEF Admit, Typed, TypeOK
<1>5. history' \in [Participants -> Seq(Messages)]
  <2>1. ASSUME NEW h \in {<<>>, history[Sender[m]]}
        PROVE  [history EXCEPT ![Sender[m]] = h] \in [Participants -> Seq(Messages)]
    <3>1. history \in [Participants -> Seq(Messages)]
      BY DEF Typed, TypeOK
    <3>2. history[Sender[m]] \in Seq(Messages)
      BY Zenon, <1>3, <3>1
    <3>3. h \in Seq(Messages)
      BY Zenon, <1>3, <2>1, <3>2
    <3> QED BY Zenon, <3>1, <3>3, Replaced
  <2>2. \/ \E h \in {<<>>, history[Sender[m]]} : history' = [history EXCEPT ![Sender[m]] = h]
        \/ history' = history
    BY Zenon DEF Admit
  <2>3. history \in [Participants -> Seq(Messages)]
    BY DEF Typed, TypeOK
  <2> QED BY Zenon, <2>1, <2>2, <2>3
<1>6. UNCHANGED <<enabled, blocked, evidence, loop, provider, released>>
  BY DEF Admit
<1>7. RestOK'
  BY <1>4, <1>5, <1>6 DEF Typed, TypeOK, RestOK, OnTask, evidence, loop, provider
<1> QED BY <1>2, <1>7

LEMMA OperatorTyped ==
  ASSUME Typed,
         \/ \E live \in BOOLEAN : ChangeAuthority(live)
         \/ \E p \in Participants : Block(p) \/ Forget(p)
         \/ \E old \in SUBSET late, cut, gone \in SUBSET known : ExpireHistory(old, cut, gone)
  PROVE  EventOK' /\ RestOK'
<1>1. ASSUME NEW live \in BOOLEAN, ChangeAuthority(live) PROVE EventOK' /\ RestOK'
  BY <1>1 DEF ChangeAuthority, Typed, TypeOK, EventOK, RestOK, OnTask, TurnsLeft, LateIsAdmitted,
              States, evidence,
              loop, provider
<1>2. ASSUME NEW p \in Participants, Block(p) PROVE EventOK' /\ RestOK'
  BY <1>2 DEF Block, Typed, TypeOK, EventOK, RestOK, OnTask, TurnsLeft, LateIsAdmitted, States,
              event, evidence, loop,
              provider
<1>3. ASSUME NEW p \in Participants, Forget(p) PROVE EventOK' /\ RestOK'
  <2> DEFINE s == [m \in Messages |->
               IF Sender[m] = p /\ state[m] # "none" THEN "cancelled" ELSE state[m]]
  <2>1. s \in [Messages -> States] /\ \A m \in Messages : s[m] = "queued" => attempts[m] < MaxAttempts
    BY DEF Typed, TypeOK, TurnsLeft, States
  <2>2. EventOK'
    BY <1>3, <2>1, WriteStatesTyped DEF Forget
  <2> QED BY <1>3, <2>2 DEF Forget, Typed, TypeOK, RestOK, OnTask, evidence, loop, provider
<1>4. ASSUME NEW old \in SUBSET late, NEW cut \in SUBSET known, NEW gone \in SUBSET known,
             ExpireHistory(old, cut, gone)
      PROVE  EventOK' /\ RestOK'
  <2> DEFINE s == [m \in Messages |-> IF m \in old THEN "expired" ELSE state[m]]
  <2>1. s \in [Messages -> States] /\ \A m \in Messages : s[m] = "queued" => attempts[m] < MaxAttempts
    BY DEF Typed, TypeOK, TurnsLeft, States
  <2>2. EventOK'
    BY <1>4, <2>1, WriteStatesTyped DEF ExpireHistory
  <2> QED BY <1>4, <2>2 DEF ExpireHistory, Typed, TypeOK, RestOK, OnTask, evidence, loop, provider
<1> QED BY <1>1, <1>2, <1>3, <1>4

LEMMA ClaimTyped ==
  ASSUME Typed, NEW w \in Workers, Claim(w)
  PROVE  EventOK' /\ RestOK'
<1>1. CASE WriteStates(Reconciled) /\ Leave(w, "replies")
  <2>1. EventOK'
    BY <1>1, ReconciledTurns, WriteStatesTyped
  <2> QED BY <1>1, <2>1 DEF Claim, Leave, Take, Typed, TypeOK, RestOK, OnTask, binding, evidence,
              provider
<1>2. ASSUME NEW m \in Messages, WriteStates([Reconciled EXCEPT ![m] = "cancelled"]), Leave(w, "replies")
      PROVE  EventOK' /\ RestOK'
  <2>1. [Reconciled EXCEPT ![m] = "cancelled"] \in [Messages -> States]
    BY ReconciledTurns DEF States
  <2>2. \A k \in Messages : [Reconciled EXCEPT ![m] = "cancelled"][k] = "queued" => attempts[k] < MaxAttempts
    BY ReconciledTurns
  <2>3. EventOK'
    BY <1>2, <2>1, <2>2, WriteStatesTyped
  <2> QED BY <1>2, <2>3 DEF Claim, Leave, Take, Typed, TypeOK, RestOK, OnTask, binding, evidence,
              provider
<1>3. ASSUME NEW m \in Messages, Reconciled[m] = "queued",
             Write([Reconciled EXCEPT ![m] = "running"], [attempts EXCEPT ![m] = @ + 1],
                   [lease EXCEPT ![m] = w]),
             Take(w, "answering", m)
      PROVE  EventOK' /\ RestOK'
  <2> DEFINE s == [Reconciled EXCEPT ![m] = "running"]
             att == [attempts EXCEPT ![m] = @ + 1]
             lea == [lease EXCEPT ![m] = w]
  <2>1. s \in [Messages -> States]
    BY ReconciledTurns DEF States, Pending
  <2>2. attempts[m] < MaxAttempts
    BY <1>3, ReconciledTurns
  <2>3. \A k \in Messages : att[k] \in 0 .. MaxAttempts /\ (s[k] = "queued" => att[k] < MaxAttempts)
    BY <2>2, ReconciledTurns DEF Typed, TypeOK
  <2>4. \A k \in Messages : lea[k] \in Workers \cup {None}
    BY DEF Typed, TypeOK
  <2>5. EventOK'
    <3> HIDE DEF s, att, lea
    <3> QED BY <1>3, <2>1, <2>3, <2>4, WriteTyped DEF Typed, s, att, lea
  <2> QED BY <1>3, <2>5 DEF Claim, Take, Typed, TypeOK, RestOK, OnTask, binding, evidence, provider
<1> QED BY <1>1, <1>2, <1>3, FirstIsOldest DEF Claim

LEMMA TurnTyped ==
  ASSUME Typed, NEW w \in Workers,
         Complete(w) \/ \E outcome \in {"failed", "cancelled"} : Fail(w, outcome)
  PROVE  EventOK' /\ RestOK'
<1>1. pc[w] = "answering" /\ task[w] \in Messages
  BY DEF Complete, Fail, Typed, OnTask
<1>2. ASSUME NEW s \in {"reply", "failed", "cancelled"}, WriteStates([state EXCEPT ![task[w]] = s])
      PROVE  EventOK'
  <2>1. [state EXCEPT ![task[w]] = s] \in [Messages -> States]
    BY <1>1 DEF Typed, TypeOK, States, Pending
  <2>2. \A k \in Messages : [state EXCEPT ![task[w]] = s][k] = "queued" => attempts[k] < MaxAttempts
    BY <1>1 DEF Typed, TypeOK, TurnsLeft
  <2> QED BY <1>2, <2>1, <2>2, WriteStatesTyped
<1>3. CASE Complete(w)
  <2>1. EventOK'
    BY <1>2, <1>3 DEF Complete, Answer
  <2>2. history' \in [Participants -> Seq(Messages)]
    BY <1>1, <1>3 DEF Complete, Answer, Typed, TypeOK
  <2> QED BY <1>3, <2>1, <2>2
          DEF Complete, Answer, Leave, Take, Typed, TypeOK, RestOK, OnTask, evidence, provider
<1>4. ASSUME NEW outcome \in {"failed", "cancelled"}, Fail(w, outcome)
      PROVE  EventOK' /\ RestOK'
  <2>1. EventOK'
    <3>1. CASE WriteStates([state EXCEPT ![task[w]] = outcome])
      BY <1>2, <3>1
    <3>2. CASE UNCHANGED event
      BY <3>2 DEF event, Typed, TypeOK, EventOK, TurnsLeft, LateIsAdmitted, States
    <3> QED BY <1>4, <3>1, <3>2 DEF Fail
  <2> QED BY <1>4, <2>1 DEF Fail, Leave, Take, Typed, TypeOK, RestOK, OnTask, binding, evidence,
              provider
<1> QED BY <1>3, <1>4

LEMMA PrepareTyped ==
  ASSUME Typed, NEW w \in Workers, PrepareSend(w)
  PROVE  EventOK' /\ RestOK'
<1>1. CASE WriteStates(Reconciled) /\ Leave(w, "idle")
  <2>1. EventOK'
    BY <1>1, ReconciledTurns, WriteStatesTyped
  <2> QED BY <1>1, <2>1
          DEF PrepareSend, Leave, Take, Typed, TypeOK, RestOK, OnTask, binding, evidence, provider
<1>2. ASSUME NEW m \in Messages, WriteStates([Reconciled EXCEPT ![m] = "expired"]), Leave(w, "idle")
      PROVE  EventOK' /\ RestOK'
  <2>1. [Reconciled EXCEPT ![m] = "expired"] \in [Messages -> States]
    BY ReconciledTurns DEF States
  <2>2. \A k \in Messages : [Reconciled EXCEPT ![m] = "expired"][k] = "queued" => attempts[k] < MaxAttempts
    BY ReconciledTurns
  <2>3. EventOK'
    BY <1>2, <2>1, <2>2, WriteStatesTyped
  <2> QED BY <1>2, <2>3
          DEF PrepareSend, Leave, Take, Typed, TypeOK, RestOK, OnTask, binding, evidence, provider
<1>3. ASSUME NEW m \in Messages, Take(w, "prepared", m),
             Write([Reconciled EXCEPT ![m] = "sending"], attempts, [lease EXCEPT ![m] = w])
      PROVE  EventOK' /\ RestOK'
  <2> DEFINE s == [Reconciled EXCEPT ![m] = "sending"]
             lea == [lease EXCEPT ![m] = w]
  <2>1. s \in [Messages -> States]
    BY ReconciledTurns DEF States, Pending
  <2>2. \A k \in Messages : attempts[k] \in 0 .. MaxAttempts /\ (s[k] = "queued" => attempts[k] < MaxAttempts)
    BY ReconciledTurns DEF Typed, TypeOK
  <2>3. \A k \in Messages : lea[k] \in Workers \cup {None}
    BY DEF Typed, TypeOK
  <2>4. EventOK'
    <3> HIDE DEF s, lea
    <3> QED BY <1>3, <2>1, <2>2, <2>3, WriteTyped DEF Typed, s, lea
  <2> QED BY <1>3, <2>4 DEF PrepareSend, Take, Typed, TypeOK, RestOK, OnTask, binding, evidence,
              provider
<1> QED BY <1>1, <1>2, <1>3, FirstIsOldest DEF PrepareSend

LEMMA SendTyped ==
  ASSUME Typed, NEW w \in Workers,
         AssertSend(w) \/ (\E result \in {"accepted", "unknown", "failed"} : Sent(w, result)) \/ Abandon(w)
  PROVE  EventOK' /\ RestOK'
<1>1. CASE AssertSend(w)
  BY <1>1 DEF AssertSend, Goto, Typed, TypeOK, EventOK, RestOK, OnTask, TurnsLeft, LateIsAdmitted,
              States, binding, event,
              evidence
<1>2. ASSUME NEW result \in {"accepted", "unknown", "failed"}, Sent(w, result)
      PROVE  EventOK' /\ RestOK'
  <2> DEFINE m == task[w]
             outcome == IF result = "accepted" /\ early[m] \notin {"none", "sent"} THEN early[m] ELSE result
  <2>1. m \in Messages /\ Record(w, result, outcome)
    BY <1>2 DEF Sent, Record, Typed, OnTask
  <2>2. outcome \in States \ {"queued", "none"}
    BY <2>1 DEF Typed, TypeOK, States, Pending
  <2> HIDE DEF outcome
  <2>3. [state EXCEPT ![m] = outcome] \in [Messages -> States]
    BY <2>1, <2>2 DEF Typed, TypeOK, States
  <2>4. \A k \in Messages : [state EXCEPT ![m] = outcome][k] = "queued" => attempts[k] < MaxAttempts
    BY <2>1, <2>2 DEF Typed, TypeOK, TurnsLeft
  <2>5. EventOK'
    BY <2>1, <2>3, <2>4, WriteStatesTyped DEF Record
  <2> QED BY <2>1, <2>5 DEF Record, Leave, Take, Typed, TypeOK, RestOK, OnTask, binding, provider
<1>3. CASE Abandon(w)
  BY <1>3 DEF Abandon, Leave, Take, Typed, TypeOK, EventOK, RestOK, OnTask, TurnsLeft,
              LateIsAdmitted, States, binding,
              event, evidence, provider
<1> QED BY <1>1, <1>2, <1>3

LEMMA TrafficTyped ==
  ASSUME Typed, NEW m \in Messages,
         \/ LeaseEnds(m) \/ WorkIsLate(m) \/ Accept(m) \/ Refuse(m)
         \/ \E s \in Statuses : Delivery(m, s)
  PROVE  EventOK' /\ RestOK'
<1> USE DEF Typed, TypeOK, EventOK, RestOK, OnTask, TurnsLeft, LateIsAdmitted, States, binding,
            event, evidence, loop,
            provider
<1>1. CASE LeaseEnds(m) \/ WorkIsLate(m)
  BY <1>1 DEF LeaseEnds, WorkIsLate, Pending
<1>2. CASE Accept(m) \/ Refuse(m)
  <2>1. sends' \in [Messages -> Nat]
    <3>1. sends' = [sends EXCEPT ![m] = @ + 1] \/ sends' = sends
      BY <1>2 DEF Accept, Refuse
    <3>2. sends[m] + 1 \in Nat
      OBVIOUS
    <3> QED BY <3>1, <3>2
  <2> QED BY <1>2, <2>1 DEF Accept, Refuse
<1>3. ASSUME NEW s \in Statuses, Delivery(m, s)
      PROVE  EventOK' /\ RestOK'
  <2>1. state' \in [Messages -> States]
    BY <1>3 DEF Delivery, Inform, Pending
  <2>2. TurnsLeft' /\ LateIsAdmitted'
    BY <1>3, <2>1 DEF Delivery, Inform, Pending
  <2>3. early' \in [Messages -> Statuses \cup {"none"}] /\ told' \in [Messages -> Statuses \cup {"none"}]
    <3>1. early' = early \/ early' = [early EXCEPT ![m] = s]
      BY <1>3 DEF Delivery, Inform
    <3>2. told' = told \/ told' = [told EXCEPT ![m] = s]
      BY <1>3 DEF Delivery, Inform
    <3>3. /\ [early EXCEPT ![m] = s] \in [Messages -> Statuses \cup {"none"}]
          /\ [told EXCEPT ![m] = s] \in [Messages -> Statuses \cup {"none"}]
      OBVIOUS
    <3>4. early \in [Messages -> Statuses \cup {"none"}] /\ told \in [Messages -> Statuses \cup {"none"}]
      OBVIOUS
    <3> HIDE DEF Typed, TypeOK, EventOK, RestOK, OnTask, TurnsLeft, LateIsAdmitted, States
    <3> QED BY Zenon, <3>1, <3>2, <3>3, <3>4
  <2>4. UNCHANGED <<binding, current, attempts, lease, over, late, receipts, loop, provider, released>>
    BY <1>3 DEF Delivery, Inform
  <2> QED BY <2>1, <2>2, <2>3, <2>4
<1> QED BY <1>1, <1>2, <1>3

LEMMA StepTyped == Typed /\ [Next]_vars => Typed'
<1> SUFFICES ASSUME Typed, [Next]_vars PROVE Typed'
  OBVIOUS
<1>1. CASE UNCHANGED vars
  BY <1>1 DEF vars, binding, event, evidence, loop, provider, Typed, TypeOK, TurnsLeft,
              LateIsAdmitted, OnTask
<1>2. CASE Operator
  <2>1. changes' \in 0 .. MaxChanges
    BY <1>2 DEF Operator, Typed, TypeOK
  <2>2. EventOK' /\ RestOK'
    BY <1>2, OperatorTyped DEF Operator
  <2> QED BY <2>1, <2>2, TypedInParts
<1>3. CASE Traffic /\ UNCHANGED changes
  <2>1. EventOK' /\ RestOK'
    BY <1>3, AdmissionTyped, TrafficTyped DEF Traffic
  <2> QED BY <1>3, <2>1, TypedInParts DEF Typed, TypeOK
<1>4. ASSUME NEW w \in Workers, Loop(w), UNCHANGED changes
      PROVE  Typed'
  <2>1. EventOK' /\ RestOK'
    BY <1>4, ClaimTyped, TurnTyped, PrepareTyped, SendTyped DEF Loop
  <2> QED BY <1>4, <2>1, TypedInParts DEF Typed, TypeOK
<1> QED BY <1>1, <1>2, <1>3, <1>4 DEF Next

\* The journal, the loops and the provider keep their types.
THEOREM TypeCorrect == Spec => []TypeOK
<1>1. Typed => TypeOK
  BY DEF Typed
<1> QED BY <1>1, InitTyped, StepTyped, PTL DEF Spec

----------------------------------------------------------------------------
(* The moves of the journal                                                *)

Closed == States \ (Pending \cup {"none"})

\* The next states s close events, queue turns again or leave events alone.
Tame(s) ==
  \A m \in Messages :
    /\ s[m] = "none" <=> state[m] = "none"
    /\ state[m] \in Closed => s[m] \in Closed
    /\ state[m] \in {"reply", "sending"} => s[m] \notin {"queued", "running"}
    /\ s[m] \in {"running", "sending"} => s[m] = state[m]

\* An event begins its turn or its send as the oldest one of its participant that is pending.
Begins(m) ==
  /\ \/ state[m] \in {"queued", "running"} /\ state'[m] = "running"
     \/ state[m] = "reply" /\ state'[m] = "sending"
  /\ \A k \in 1 .. m - 1 : Sender[k] = Sender[m] => state'[k] \notin Pending

\* An event is admitted after all before it.
Enters(m) ==
  /\ state[m] = "none" /\ state'[m] \in {"queued", "reply", "refused"}
  /\ \A k \in 1 .. m - 1 : state[k] # "none"

\* What a step may do to the states of the events: one of them begins, or one is admitted
\* and nothing else happens, or none does either.
Advance ==
  \/ Tame(state')
  \/ \E m \in Messages :
       /\ Begins(m)
       /\ \E s \in [Messages -> States] : Tame(s) /\ state' = [s EXCEPT ![m] = state'[m]]
  \/ \E m \in Messages : Enters(m) /\ state' = [state EXCEPT ![m] = state'[m]]

LEMMA ReconciledTame == ASSUME TypeOK PROVE Tame(Reconciled)
  BY ReconciledEvent, ReconciledTyped DEF Tame, TypeOK, Closed, States, Pending

LEMMA StepAdvance == Typed /\ [Next]_vars => Advance
<1> SUFFICES ASSUME Typed, [Next]_vars PROVE Advance
  OBVIOUS
<1>0. state \in [Messages -> States] /\ TypeOK
  BY DEF Typed, TypeOK, States
<1>1. ASSUME UNCHANGED state PROVE Advance
  BY <1>1 DEF Advance, Tame
<1>2. ASSUME NEW m \in Messages, state[m] \in Pending, NEW s \in Closed \cup {"reply"},
             s = "reply" => state[m] = "running",
             state' = [state EXCEPT ![m] = s]
      PROVE  Advance
  BY <1>0, <1>2 DEF Advance, Tame, Closed, States, Pending
<1>3. ASSUME NEW m \in Messages, Admit(m) PROVE Advance
  <2>1. PICK s \in {"queued", "reply", "refused"} : state' = [state EXCEPT ![m] = s]
    BY <1>3 DEF Admit, WriteStates, Write
  <2>2. Enters(m) /\ state' = [state EXCEPT ![m] = state'[m]]
    BY <1>0, <1>3, <2>1 DEF Enters, Admit
  <2> QED BY <2>2 DEF Advance
<1>4. CASE Operator
  <2>1. ASSUME NEW p \in Participants, Forget(p) PROVE Tame(state')
    BY <1>0, <2>1 DEF Forget, WriteStates, Write, Tame, Closed, States, Pending
  <2>2. ASSUME NEW old \in SUBSET late, NEW cut \in SUBSET known, NEW gone \in SUBSET known,
               ExpireHistory(old, cut, gone)
        PROVE  Tame(state')
    BY <1>0, <2>2 DEF Typed, LateIsAdmitted, ExpireHistory, WriteStates, Write, Tame, Closed,
              States, Pending
  <2>3. (\E live \in BOOLEAN : ChangeAuthority(live)) \/ (\E p \in Participants : Block(p))
          => UNCHANGED state
    BY DEF ChangeAuthority, Block, event
  <2> QED BY <1>1, <1>4, <2>1, <2>2, <2>3 DEF Operator, Advance
<1>5. ASSUME NEW w \in Workers, Claim(w) \/ PrepareSend(w) PROVE Advance
  <2>1. Tame(Reconciled) /\ Reconciled \in [Messages -> States]
    BY <1>0, ReconciledTame, ReconciledTyped
  <2>2. ASSUME NEW m \in Messages, Reconciled[m] \in Pending, NEW s \in {"cancelled", "expired"},
               state' = [Reconciled EXCEPT ![m] = s]
        PROVE  Advance
    BY <1>0, <2>1, <2>2 DEF Advance, Tame, Closed, States, Pending
  <2>3. ASSUME NEW m \in Messages, NEW from, m \in First(Reconciled, from), NEW s,
               \/ from = "queued" /\ s = "running"
               \/ from = "reply" /\ s = "sending",
               state' = [Reconciled EXCEPT ![m] = s]
        PROVE  Advance
    <3>1. Reconciled[m] = from
          /\ \A k \in 1 .. m - 1 : Sender[k] = Sender[m] => Reconciled[k] \notin Pending
      BY <2>3, FirstIsOldest
    <3>2. /\ from = "queued" => state[m] \in {"queued", "running"}
          /\ from = "reply" => state[m] = "reply"
      BY <1>0, <3>1, ReconciledEvent DEF Pending
    <3>3. state'[m] = s /\ \A k \in 1 .. m - 1 : state'[k] = Reconciled[k]
      BY <2>1, <2>3 DEF Messages
    <3>4. Begins(m)
      BY <2>3, <3>1, <3>2, <3>3 DEF Begins
    <3> QED BY <2>1, <2>3, <3>3, <3>4 DEF Advance
  <2>4. CASE state' = Reconciled
    BY <2>1, <2>4 DEF Advance
  <2>5. CASE Claim(w)
    <3>1. \A m \in First(Reconciled, "queued") : m \in Messages /\ Reconciled[m] \in Pending
      BY FirstIsOldest DEF Pending
    <3>2. \/ state' = Reconciled
          \/ \E m \in First(Reconciled, "queued") : state' = [Reconciled EXCEPT ![m] = "cancelled"]
          \/ \E m \in First(Reconciled, "queued") : state' = [Reconciled EXCEPT ![m] = "running"]
      BY <2>5 DEF Claim, WriteStates, Write
    <3> QED BY <2>2, <2>3, <2>4, <3>1, <3>2
  <2>6. CASE PrepareSend(w)
    <3>1. \A m \in First(Reconciled, "reply") : m \in Messages /\ Reconciled[m] \in Pending
      BY FirstIsOldest DEF Pending
    <3>2. \/ state' = Reconciled
          \/ \E m \in First(Reconciled, "reply") : state' = [Reconciled EXCEPT ![m] = "expired"]
          \/ \E m \in First(Reconciled, "reply") : state' = [Reconciled EXCEPT ![m] = "sending"]
      BY <2>6 DEF PrepareSend, WriteStates, Write
    <3> QED BY <2>2, <2>3, <2>4, <3>1, <3>2
  <2> QED BY <1>5, <2>5, <2>6
<1>6. ASSUME NEW w \in Workers,
             Complete(w) \/ \E outcome \in {"failed", "cancelled"} : Fail(w, outcome)
      PROVE  Advance
  <2>1. task[w] \in Messages
    BY <1>6 DEF Complete, Fail, Typed, OnTask
  <2>2. CASE Complete(w)
    BY <1>2, <2>1, <2>2 DEF Complete, Leased, Answer, WriteStates, Write, Pending
  <2>3. ASSUME NEW outcome \in {"failed", "cancelled"}, Fail(w, outcome) PROVE Advance
    BY <1>1, <1>2, <2>1, <2>3 DEF Fail, WriteStates, Write, event, Pending, Closed, States
  <2> QED BY <1>6, <2>2, <2>3
<1>7. ASSUME NEW w \in Workers, NEW result \in {"accepted", "unknown", "failed"}, Sent(w, result)
      PROVE  Advance
  <2>1. PICK outcome : Record(w, result, outcome) /\ outcome \in Closed
    <3> DEFINE o == IF result = "accepted" /\ early[task[w]] \notin {"none", "sent"}
                    THEN early[task[w]] ELSE result
    <3>1. Record(w, result, o) /\ task[w] \in Messages
      BY <1>7 DEF Sent, Record, Typed, OnTask
    <3>2. o \in Closed
      BY <3>1 DEF Closed, States, Pending, Typed, TypeOK
    <3> QED BY <3>1, <3>2
  <2>2. task[w] \in Messages /\ state' = [state EXCEPT ![task[w]] = outcome]
        /\ state[task[w]] \in {"sending", "unknown"}
    BY <2>1 DEF Record, WriteStates, Write, Typed, OnTask
  <2> QED BY <1>0, <2>1, <2>2 DEF Advance, Tame, Closed, States, Pending
<1>8. ASSUME NEW m \in Messages, NEW s \in Statuses, Delivery(m, s) PROVE Advance
  <2>1. \/ state' = state
        \/ /\ state[m] \in {"sending", "unknown", "accepted", "failed", "delivered", "read"}
           /\ state' = [state EXCEPT ![m] = IF s = "sent" THEN "accepted" ELSE s]
    BY <1>8 DEF Delivery, Inform
  <2> QED BY <1>0, <2>1 DEF Advance, Tame, Closed, States, Pending
<1>9. ASSUME \/ \E m \in Messages : LeaseEnds(m) \/ WorkIsLate(m) \/ Accept(m) \/ Refuse(m)
             \/ \E w \in Workers : AssertSend(w) \/ Abandon(w)
             \/ UNCHANGED vars
      PROVE  UNCHANGED state
  BY <1>9 DEF LeaseEnds, WorkIsLate, Accept, Refuse, AssertSend, Abandon, vars, event
<1>10. CASE Traffic
  BY <1>1, <1>3, <1>8, <1>9, <1>10 DEF Traffic
<1>11. ASSUME NEW w \in Workers, Loop(w) PROVE Advance
  BY <1>1, <1>5, <1>6, <1>7, <1>9, <1>11 DEF Loop
<1> QED BY <1>1, <1>4, <1>9, <1>10, <1>11 DEF Next

----------------------------------------------------------------------------
(* Order                                                                   *)

Admitted == \A m \in Messages : \A k \in 1 .. m - 1 : state[k] = "none" => state[m] = "none"

InOrder == OldestFirst /\ Admitted

LEMMA InitInOrder == Init => InOrder
  BY DEF Init, InOrder, OldestFirst, Admitted, Messages

\* No step of the journal lets a message overtake: only the oldest begins, none comes back
\* once it is settled, and those after it are admitted later.
LEMMA StepInOrder == Typed /\ InOrder /\ Advance => InOrder'
<1> SUFFICES ASSUME Typed, InOrder, Advance PROVE InOrder'
  OBVIOUS
<1>1. state \in [Messages -> States] /\ \A m \in Messages : 1 .. m - 1 \subseteq Messages
  BY DEF Typed, TypeOK, States, Messages
<1>2. CASE Tame(state')
  BY <1>1, <1>2 DEF InOrder, OldestFirst, Admitted, Tame, Closed, Pending
<1>3. ASSUME NEW m \in Messages, Begins(m), NEW s \in [Messages -> States], Tame(s),
             state' = [s EXCEPT ![m] = state'[m]]
      PROVE  InOrder'
  <2>1. Admitted'
    BY <1>1, <1>3 DEF InOrder, Admitted, Tame, Begins
  <2>2. \A n \in Messages : n # m => state'[n] = s[n]
    BY <1>3
  <2>3. ASSUME NEW n \in Messages, state'[n] \in {"running", "sending"},
               NEW k \in 1 .. n - 1, Sender[k] = Sender[n]
        PROVE  state'[k] \notin Pending
    <3>1. CASE n = m
      BY <1>3, <2>3, <3>1 DEF Begins
    <3>2. CASE n # m
      <4>1. state[n] = state'[n] /\ state[k] \notin Pending \cup {"none"}
        BY <1>1, <1>3, <2>2, <2>3, <3>2 DEF Tame, InOrder, OldestFirst, Admitted
      <4>2. k # m
        BY <1>3, <4>1 DEF Begins, Pending
      <4> QED BY <1>1, <1>3, <2>2, <4>1, <4>2 DEF Tame, Closed
    <3> QED BY <3>1, <3>2
  <2> QED BY <2>1, <2>3 DEF InOrder, OldestFirst
<1>4. ASSUME NEW m \in Messages, Enters(m), state' = [state EXCEPT ![m] = state'[m]]
      PROVE  InOrder'
  <2>1. \A n \in Messages : n # m => state'[n] = state[n]
    BY <1>1, <1>4
  <2>2. Admitted'
    BY <1>1, <1>4, <2>1 DEF InOrder, Admitted, Enters
  <2>3. ASSUME NEW n \in Messages, state'[n] \in {"running", "sending"},
               NEW k \in 1 .. n - 1, Sender[k] = Sender[n]
        PROVE  state'[k] \notin Pending
    <3>1. n # m /\ state[n] = state'[n]
      BY <1>4, <2>1, <2>3 DEF Enters
    <3>2. k # m
      BY <1>1, <1>4, <2>3, <3>1 DEF InOrder, Admitted, Enters
    <3> QED BY <1>1, <2>1, <2>3, <3>1, <3>2 DEF InOrder, OldestFirst
  <2> QED BY <2>2, <2>3 DEF InOrder, OldestFirst
<1> QED BY <1>2, <1>3, <1>4 DEF Advance

\* A participant's messages are worked on one at a time, in the order of their admission.
THEOREM OldestMessageFirst == Spec => []OldestFirst
<1>1. Init => Typed /\ InOrder
  BY InitTyped, InitInOrder
<1>2. Typed /\ InOrder /\ [Next]_vars => (Typed /\ InOrder)'
  BY StepTyped, StepAdvance, StepInOrder
<1>3. InOrder => OldestFirst
  BY DEF InOrder
<1> QED BY <1>1, <1>2, <1>3, PTL DEF Spec

\* In the states s, the turn of a message is over and so is every earlier message of its
\* participant.
Answered(s, m) ==
  /\ s[m] \notin {"none", "queued", "running"}
  /\ \A k \in 1 .. m - 1 : Sender[k] = Sender[m] => s[k] \notin Pending

\* The context of a participant holds answered messages of its own.
HistoryInv ==
  /\ \A p \in Participants : \A i \in 1 .. Len(history[p]) :
       Sender[history[p][i]] = p /\ Answered(state, history[p][i])
  /\ HistoryInOrder

LEMMA InitHistory == Init => HistoryInv
  BY DEF Init, HistoryInv, HistoryInOrder

LEMMA StepAnswered ==
  ASSUME Typed, InOrder, Advance, NEW m \in Messages, Answered(state, m)
  PROVE  Answered(state', m)
<1>1. state \in [Messages -> States] /\ 1 .. m - 1 \subseteq Messages
  BY DEF Typed, TypeOK, States, Messages
<1>2. state[m] \in Closed \cup {"reply", "sending"}
  BY <1>1 DEF Answered, Closed, States, Pending
<1>3. \A k \in 1 .. m - 1 : Sender[k] = Sender[m] => state[k] \in Closed
  BY <1>1 DEF Answered, Closed, InOrder, Admitted
<1>4. CASE Tame(state')
  BY <1>1, <1>2, <1>3, <1>4 DEF Answered, Tame, Closed, States, Pending
<1>5. ASSUME NEW n \in Messages, Begins(n), NEW s \in [Messages -> States], Tame(s),
             state' = [s EXCEPT ![n] = state'[n]]
      PROVE  Answered(state', m)
  <2>1. \A k \in 1 .. m - 1 : Sender[k] = Sender[m] => k # n
    BY <1>3, <1>5 DEF Begins, Closed, Pending
  <2>2. state'[m] \notin {"none", "queued", "running"}
    BY <1>1, <1>2, <1>5 DEF Begins, Tame, Closed, States, Pending
  <2> QED BY <1>1, <1>3, <1>5, <2>1, <2>2 DEF Answered, Tame, Closed
<1>6. ASSUME NEW n \in Messages, Enters(n), state' = [state EXCEPT ![n] = state'[n]]
      PROVE  Answered(state', m)
  <2>1. n # m /\ \A k \in 1 .. m - 1 : Sender[k] = Sender[m] => k # n
    BY <1>2, <1>3, <1>6 DEF Enters, Closed, Pending
  <2> QED BY <1>1, <1>6, <2>1 DEF Answered
<1> QED BY <1>4, <1>5, <1>6 DEF Advance

\* What a step does to the contexts.
LEMMA HistoryMoves ==
  ASSUME Typed, [Next]_vars, NEW p \in Participants
  PROVE  \/ history'[p] \in {history[p], <<>>}
         \/ \E m \in Messages :
              /\ Sender[m] = p /\ state[m] = "running" /\ state' = [state EXCEPT ![m] = "reply"]
              /\ history'[p] = Append(history[p], m)
<1>1. history \in [Participants -> Seq(Messages)]
  BY DEF Typed, TypeOK
<1>2. ASSUME NEW m \in Messages, Admit(m) PROVE history'[p] \in {history[p], <<>>}
  <2>1. Sender[m] \in Participants
    OBVIOUS
  <2>2. ASSUME NEW h \in {<<>>, history[Sender[m]]}, history' = [history EXCEPT ![Sender[m]] = h]
        PROVE  history'[p] \in {history[p], <<>>}
    BY <1>1, <2>1, <2>2
  <2>3. \/ \E h \in {<<>>, history[Sender[m]]} : history' = [history EXCEPT ![Sender[m]] = h]
        \/ history' = history
    BY <1>2, Zenon DEF Admit
  <2> QED BY <2>2, <2>3
<1>3. ASSUME Operator PROVE history'[p] \in {history[p], <<>>}
  BY <1>1, <1>3 DEF Operator, ChangeAuthority, Block, Forget, ExpireHistory
<1>4. ASSUME NEW w \in Workers, Complete(w)
      PROVE  \/ history'[p] = history[p]
             \/ \E m \in Messages :
                  /\ Sender[m] = p /\ state[m] = "running" /\ state' = [state EXCEPT ![m] = "reply"]
                  /\ history'[p] = Append(history[p], m)
  <2>1. task[w] \in Messages /\ state[task[w]] = "running"
        /\ state' = [state EXCEPT ![task[w]] = "reply"]
    BY <1>4 DEF Complete, Leased, Answer, WriteStates, Write, Typed, OnTask
  <2>2. history' = [history EXCEPT ![Sender[task[w]]] = Append(@, task[w])]
    BY <1>4 DEF Complete, Answer
  <2>3. CASE Sender[task[w]] = p
    BY <1>1, <2>1, <2>2, <2>3
  <2>4. CASE Sender[task[w]] # p
    BY <1>1, <2>2, <2>4
  <2> QED BY <2>3, <2>4
<1>5. ASSUME \/ UNCHANGED vars
             \/ \E m \in Messages : LeaseEnds(m) \/ WorkIsLate(m) \/ Accept(m) \/ Refuse(m)
             \/ \E m \in Messages, s \in Statuses : Delivery(m, s)
             \/ \E w \in Workers : Claim(w) \/ PrepareSend(w) \/ AssertSend(w) \/ Abandon(w)
             \/ \E w \in Workers, outcome \in {"failed", "cancelled"} : Fail(w, outcome)
             \/ \E w \in Workers, result \in {"accepted", "unknown", "failed"} : Sent(w, result)
      PROVE  history' = history
  BY <1>5 DEF vars, binding, LeaseEnds, WorkIsLate, Accept, Refuse, Delivery, Inform, Claim,
              PrepareSend,
              AssertSend, Abandon, Fail, Sent, Record
<1>6. CASE Traffic
  BY <1>2, <1>5, <1>6 DEF Traffic
<1>7. ASSUME NEW w \in Workers, Loop(w)
      PROVE  \/ history'[p] = history[p]
             \/ \E m \in Messages :
                  /\ Sender[m] = p /\ state[m] = "running" /\ state' = [state EXCEPT ![m] = "reply"]
                  /\ history'[p] = Append(history[p], m)
  BY <1>4, <1>5, <1>7 DEF Loop
<1> QED BY <1>3, <1>5, <1>6, <1>7 DEF Next

LEMMA StepHistory == Typed /\ InOrder /\ HistoryInv /\ [Next]_vars => HistoryInv'
<1> SUFFICES ASSUME Typed, InOrder, HistoryInv, [Next]_vars PROVE HistoryInv'
  OBVIOUS
<1>1. Advance /\ InOrder'
  BY StepAdvance, StepInOrder
<1>2. history \in [Participants -> Seq(Messages)]
  BY DEF Typed, TypeOK
<1>3. ASSUME NEW p \in Participants
      PROVE  /\ \A i \in 1 .. Len(history'[p]) : Sender[history'[p][i]] = p /\ Answered(state', history'[p][i])
             /\ \A i, j \in 1 .. Len(history'[p]) : i < j => history'[p][i] < history'[p][j]
  <2>1. \A i \in 1 .. Len(history[p]) : /\ history[p][i] \in Messages /\ Sender[history[p][i]] = p
                                        /\ Answered(state, history[p][i]) /\ Answered(state', history[p][i])
    BY <1>1, <1>2, StepAnswered DEF HistoryInv
  <2>2. \A i, j \in 1 .. Len(history[p]) : i < j => history[p][i] < history[p][j]
    BY DEF HistoryInv, HistoryInOrder
  <2>3. CASE history'[p] = history[p]
    BY <2>1, <2>2, <2>3
  <2>4. CASE history'[p] = <<>>
    BY <2>4
  <2>5. ASSUME NEW m \in Messages, Sender[m] = p, state[m] = "running",
               state' = [state EXCEPT ![m] = "reply"], history'[p] = Append(history[p], m)
        PROVE  /\ \A i \in 1 .. Len(history'[p]) : Sender[history'[p][i]] = p /\ Answered(state', history'[p][i])
               /\ \A i, j \in 1 .. Len(history'[p]) : i < j => history'[p][i] < history'[p][j]
    <3>1. Answered(state', m)
      BY <2>5 DEF Answered, InOrder, OldestFirst, Typed, TypeOK, Pending, Messages
    <3>2. \A i \in 1 .. Len(history[p]) : history[p][i] < m
      <4>1. TAKE i \in 1 .. Len(history[p])
      <4>2. history[p][i] # m /\ ~(m \in 1 .. history[p][i] - 1)
        BY <2>1, <2>5 DEF Answered, Pending
      <4> QED BY <2>1, <4>2 DEF Messages
    <3>3. history[p] \in Seq(Messages) /\ Len(history'[p]) = Len(history[p]) + 1
          /\ (\A i \in 1 .. Len(history[p]) : history'[p][i] = history[p][i])
          /\ history'[p][Len(history[p]) + 1] = m
      BY <1>2, <2>5
    <3>4. Len(history[p]) \in Nat
      BY <3>3
    <3>5. ASSUME NEW i \in 1 .. Len(history'[p])
          PROVE  Sender[history'[p][i]] = p /\ Answered(state', history'[p][i])
      <4>1. CASE i = Len(history[p]) + 1
        BY <2>5, <3>1, <3>3, <4>1
      <4>2. CASE i \in 1 .. Len(history[p])
        BY <2>1, <3>3, <4>2
      <4> QED BY <3>3, <3>4, <4>1, <4>2
    <3>6. ASSUME NEW i \in 1 .. Len(history'[p]), NEW j \in 1 .. Len(history'[p]), i < j
          PROVE  history'[p][i] < history'[p][j]
      <4>1. i \in 1 .. Len(history[p])
        BY <3>3, <3>4, <3>6
      <4>2. CASE j = Len(history[p]) + 1
        BY <3>2, <3>3, <4>1, <4>2
      <4>3. CASE j \in 1 .. Len(history[p])
        BY <2>2, <3>3, <3>6, <4>1, <4>3
      <4> QED BY <3>3, <3>4, <4>2, <4>3
    <3> QED BY <3>5, <3>6
  <2> QED BY <2>3, <2>4, <2>5, HistoryMoves
<1> QED BY <1>3 DEF HistoryInv, HistoryInOrder

\* A participant's context holds each turn once and in order, whoever ran it.
THEOREM ContextInOrder == Spec => []HistoryInOrder
<1>1. Init => Typed /\ InOrder /\ HistoryInv
  BY InitTyped, InitInOrder, InitHistory
<1>2. Typed /\ InOrder /\ HistoryInv /\ [Next]_vars => (Typed /\ InOrder /\ HistoryInv)'
  BY StepTyped, StepAdvance, StepInOrder, StepHistory
<1>3. HistoryInv => HistoryInOrder
  BY DEF HistoryInv
<1> QED BY <1>1, <1>2, <1>3, PTL DEF Spec

----------------------------------------------------------------------------
(* Sends and their evidence                                                *)

BeforeSend == {"none", "queued", "running", "reply"}
Outcomes == {"accepted", "failed", "delivered", "read"}

\* Worker w holds the reply of m and has not passed the last fence.
Holds(w, m) == pc[w] = "prepared" /\ task[w] = m /\ lease[m] = w /\ state[m] = "sending"

\* A released reply is not answered anew, and only a released one reaches the provider, once.
SendInv ==
  \A m \in Messages :
    /\ m \in released => state[m] \in {"sending", "unknown", "cancelled", "expired"} \cup Outcomes
    /\ m \notin released => sends[m] = 0 /\ m \notin inflight /\ m \notin receipts
    /\ m \in inflight => sends[m] = 0
    /\ m \in released => \A w \in Workers : ~Holds(w, m)

\* What is stored of the delivery: before the receipt beside the event, after it in its state.
EvidenceInv ==
  \A m \in Messages :
    /\ m \notin receipts => early[m] = told[m]
    /\ m \in receipts => state[m] \in Outcomes \cup {"cancelled", "expired"}
    /\ m \in receipts /\ state[m] \in Outcomes => Order(state[m]) >= Order(told[m])
    /\ state[m] \in {"accepted", "delivered", "read"} => sends[m] > 0
    /\ state[m] = "failed" /\ m \in released =>
         IF m \in receipts THEN told[m] = "failed" ELSE sends[m] = 0 /\ m \notin inflight

LEMMA InitSends == Init => SendInv /\ EvidenceInv
  BY DEF Init, SendInv, EvidenceInv, Outcomes

\* A step of the journal alone: what was released may be closed or left unknown, and nobody
\* comes to hold it.
JournalStep ==
  /\ UNCHANGED <<receipts, early, told, inflight, sends, released>>
  /\ \A m \in Messages :
       \/ state'[m] = state[m] \/ state'[m] \in {"cancelled", "expired"}
       \/ state[m] = "sending" /\ state'[m] = "unknown"
       \/ state[m] \in BeforeSend /\ state'[m] \in BeforeSend \cup {"sending", "failed", "refused"}
  /\ \A m \in Messages, w \in Workers : Holds(w, m)' => Holds(w, m) \/ state[m] \in BeforeSend

LEMMA JournalKeepsSends ==
  ASSUME SendInv, EvidenceInv, JournalStep PROVE SendInv' /\ EvidenceInv'
<1>1. SendInv'
  BY DEF SendInv, JournalStep, BeforeSend, Outcomes
<1>2. ASSUME NEW m \in Messages
      PROVE  /\ m \notin receipts => early[m] = told[m]
             /\ m \in receipts => state'[m] \in Outcomes \cup {"cancelled", "expired"}
             /\ m \in receipts /\ state'[m] \in Outcomes => Order(state'[m]) >= Order(told[m])
             /\ state'[m] \in {"accepted", "delivered", "read"} => sends[m] > 0
             /\ state'[m] = "failed" /\ m \in released =>
                  IF m \in receipts THEN told[m] = "failed" ELSE sends[m] = 0 /\ m \notin inflight
  BY DEF SendInv, EvidenceInv, JournalStep, BeforeSend, Outcomes
<1> QED BY <1>1, <1>2 DEF EvidenceInv, JournalStep

LEMMA ReconciledSends ==
  ASSUME Typed, NEW m \in Messages
  PROVE  \/ Reconciled[m] = state[m] \/ Reconciled[m] \in {"cancelled", "expired"}
         \/ state[m] = "sending" /\ Reconciled[m] = "unknown"
         \/ state[m] \in {"queued", "running", "reply"} /\ Reconciled[m] \in {"queued", "failed"}
  BY ReconciledEvent DEF Typed, Pending

LEMMA AdmissionSteps ==
  ASSUME Typed,
         (\E m \in Messages : Admit(m) \/ LeaseEnds(m) \/ WorkIsLate(m)) \/ Operator \/ UNCHANGED vars
  PROVE  JournalStep
<1>0. /\ state \in [Messages -> States] /\ lease \in [Messages -> Workers \cup {None}]
      /\ pc \in [Workers -> {"idle", "answering", "replies", "prepared", "awaiting"}]
      /\ task \in [Workers -> Messages \cup {None}]
  BY DEF Typed, TypeOK, States
<1>1. CASE \E m \in Messages : Admit(m)
  <2>1. PICK m \in Messages : Admit(m)
    BY <1>1
  <2>2. PICK s \in {"queued", "reply", "refused"} : WriteStates([state EXCEPT ![m] = s])
    BY <2>1 DEF Admit
  <2>3. UNCHANGED <<evidence, loop, provider, released>> /\ state[m] = "none"
    BY <2>1 DEF Admit
  <2> QED BY <1>0, <2>2, <2>3
          DEF JournalStep, WriteStates, Write, Holds, BeforeSend, evidence, loop, provider
<1>2. CASE (\E m \in Messages : LeaseEnds(m) \/ WorkIsLate(m)) \/ UNCHANGED vars
  BY <1>2 DEF LeaseEnds, WorkIsLate, vars, event, evidence, loop, provider, JournalStep, Holds
<1>3. CASE Operator
  <2>1. ASSUME NEW p \in Participants, Forget(p) PROVE JournalStep
    BY <1>0, <2>1 DEF Forget, WriteStates, Write, evidence, loop, provider, JournalStep, Holds
  <2>2. ASSUME NEW old \in SUBSET late, NEW cut \in SUBSET known, NEW gone \in SUBSET known,
               ExpireHistory(old, cut, gone)
        PROVE  JournalStep
    BY <1>0, <2>2 DEF ExpireHistory, WriteStates, Write, evidence, loop, provider, JournalStep, Holds
  <2>3. ASSUME (\E live \in BOOLEAN : ChangeAuthority(live)) \/ (\E p \in Participants : Block(p))
        PROVE  JournalStep
    BY <2>3 DEF ChangeAuthority, Block, event, evidence, loop, provider, JournalStep, Holds
  <2> QED BY <1>3, <2>1, <2>2, <2>3 DEF Operator
<1> QED BY <1>1, <1>2, <1>3

LEMMA LoopSteps ==
  ASSUME Typed, NEW w \in Workers,
         \/ Claim(w) \/ PrepareSend(w) \/ Complete(w) \/ Abandon(w)
         \/ \E outcome \in {"failed", "cancelled"} : Fail(w, outcome)
  PROVE  JournalStep
<1>0. /\ state \in [Messages -> States] /\ lease \in [Messages -> Workers \cup {None}]
      /\ pc \in [Workers -> {"idle", "answering", "replies", "prepared", "awaiting"}]
      /\ task \in [Workers -> Messages \cup {None}]
  BY DEF Typed, TypeOK, States
<1>1. CASE Claim(w)
  <2>1. UNCHANGED <<evidence, provider, released>>
    BY <1>1 DEF Claim
  <2>2. ASSUME NEW m \in Messages, NEW s \in {"cancelled", "running"}, NEW l, NEW att, NEW lea,
               s = "running" => Reconciled[m] = "queued",
               l # "prepared", NEW t,
               Write([Reconciled EXCEPT ![m] = s], att, lea), Take(w, l, t),
               lea = lease \/ lea = [lease EXCEPT ![m] = w]
        PROVE  JournalStep
    <3>1. \A n \in Messages : state'[n] = IF n = m THEN s ELSE Reconciled[n]
      BY <2>2, ReconciledTurns DEF Write
    <3>2. s = "running" => state[m] \in {"queued", "running"}
      BY <2>2, ReconciledEvent DEF Typed
    <3>3. \A n \in Messages, v \in Workers : Holds(v, n)' => Holds(v, n)
      <4>1. TAKE n \in Messages, v \in Workers
      <4>2. HAVE Holds(v, n)'
      <4>3. state[n] = "sending" /\ n # m
        BY <2>2, <3>1, <4>2, ReconciledSends DEF Holds
      <4>4. lease[n] = v
        BY <1>0, <2>2, <4>2, <4>3 DEF Holds, Write
      <4>5. pc[v] = "prepared" /\ task[v] = n
        BY <1>0, <2>2, <4>2 DEF Holds, Take
      <4> QED BY <4>3, <4>4, <4>5 DEF Holds
    <3> QED BY <2>1, <2>2, <3>1, <3>2, <3>3, ReconciledSends DEF JournalStep, BeforeSend, evidence,
              provider
  <2>3. ASSUME WriteStates(Reconciled), Leave(w, "replies") PROVE JournalStep
    <3>1. \A n \in Messages, v \in Workers : Holds(v, n)' => Holds(v, n)
      BY <1>0, <2>3, ReconciledSends DEF Holds, WriteStates, Write, Leave, Take
    <3> QED BY <2>1, <2>3, <3>1, ReconciledSends
            DEF JournalStep, WriteStates, Write, BeforeSend, evidence, provider
  <2>4. ASSUME NEW m \in First(Reconciled, "queued"), WriteStates([Reconciled EXCEPT ![m] = "cancelled"]),
               Leave(w, "replies")
        PROVE  JournalStep
    BY <2>2, <2>4, FirstIsOldest DEF WriteStates, Leave
  <2>5. ASSUME NEW m \in First(Reconciled, "queued"), Take(w, "answering", m),
               Write([Reconciled EXCEPT ![m] = "running"], [attempts EXCEPT ![m] = @ + 1],
                     [lease EXCEPT ![m] = w])
        PROVE  JournalStep
    BY <2>2, <2>5, FirstIsOldest
  <2> QED BY <1>1, <2>3, <2>4, <2>5 DEF Claim
<1>2. CASE PrepareSend(w)
  <2>1. UNCHANGED <<evidence, provider, released>>
    BY <1>2 DEF PrepareSend
  <2>2. ASSUME WriteStates(Reconciled), Leave(w, "idle") PROVE JournalStep
    <3>1. \A n \in Messages, v \in Workers : Holds(v, n)' => Holds(v, n)
      BY <1>0, <2>2, ReconciledSends DEF Holds, WriteStates, Write, Leave, Take
    <3> QED BY <2>1, <2>2, <3>1, ReconciledSends
            DEF JournalStep, WriteStates, Write, BeforeSend, evidence, provider
  <2>3. ASSUME NEW m \in Messages, WriteStates([Reconciled EXCEPT ![m] = "expired"]), Leave(w, "idle")
        PROVE  JournalStep
    <3>1. \A n \in Messages : state'[n] = IF n = m THEN "expired" ELSE Reconciled[n]
      BY <2>3, ReconciledTurns DEF WriteStates, Write
    <3>2. \A n \in Messages, v \in Workers : Holds(v, n)' => Holds(v, n)
      BY <1>0, <2>3, <3>1, ReconciledSends DEF Holds, WriteStates, Write, Leave, Take
    <3> QED BY <2>1, <3>1, <3>2, ReconciledSends DEF JournalStep, BeforeSend, evidence, provider
  <2>4. ASSUME NEW m \in Messages, Reconciled[m] = "reply", Take(w, "prepared", m),
               Write([Reconciled EXCEPT ![m] = "sending"], attempts, [lease EXCEPT ![m] = w])
        PROVE  JournalStep
    <3>1. \A n \in Messages : state'[n] = IF n = m THEN "sending" ELSE Reconciled[n]
      BY <2>4, ReconciledTurns DEF Write
    <3>2. state[m] = "reply"
      BY <2>4, ReconciledSends
    <3>3. \A n \in Messages, v \in Workers : Holds(v, n)' => Holds(v, n) \/ n = m
      <4>1. TAKE n \in Messages, v \in Workers
      <4>2. HAVE Holds(v, n)'
      <4>3. SUFFICES ASSUME n # m PROVE Holds(v, n)
        OBVIOUS
      <4>4. state[n] = "sending"
        BY <3>1, <4>2, <4>3, ReconciledSends DEF Holds
      <4>5. lease[n] = v
        BY <1>0, <2>4, <4>2, <4>3 DEF Holds, Write
      <4>6. pc[v] = "prepared" /\ task[v] = n
        BY <1>0, <2>4, <4>2, <4>3 DEF Holds, Take
      <4> QED BY <4>4, <4>5, <4>6 DEF Holds
    <3> QED BY <2>1, <3>1, <3>2, <3>3, ReconciledSends DEF JournalStep, BeforeSend, evidence, provider
  <2>5. \A m \in First(Reconciled, "reply") : m \in Messages /\ Reconciled[m] = "reply"
    BY FirstIsOldest
  <2> QED BY <1>2, <2>2, <2>3, <2>4, <2>5 DEF PrepareSend
<1>3. CASE Complete(w)
  <2>1. task[w] \in Messages
    BY <1>3 DEF Complete, Typed, OnTask
  <2> QED BY <1>0, <1>3, <2>1
          DEF Complete, Leased, Answer, WriteStates, Write, Leave, Take, JournalStep, Holds,
              BeforeSend,
              evidence, provider
<1>4. ASSUME NEW outcome \in {"failed", "cancelled"}, Fail(w, outcome) PROVE JournalStep
  <2>1. task[w] \in Messages
    BY <1>4 DEF Fail, Typed, OnTask
  <2>2. CASE state[task[w]] = "running" /\ WriteStates([state EXCEPT ![task[w]] = outcome])
    BY <1>0, <1>4, <2>1, <2>2
       DEF Fail, WriteStates, Write, Leave, Take, JournalStep, Holds, BeforeSend, evidence, provider
  <2>3. CASE UNCHANGED event
    BY <1>0, <1>4, <2>3
       DEF Fail, Leave, Take, JournalStep, Holds, event, evidence, provider
  <2> QED BY <1>4, <2>2, <2>3 DEF Fail
<1>5. CASE Abandon(w)
  BY <1>0, <1>5 DEF Abandon, Leave, Take, JournalStep, Holds, event, evidence, provider
<1> QED BY <1>1, <1>2, <1>3, <1>4, <1>5

LEMMA AssertKeepsSends ==
  ASSUME Typed, SendInv, EvidenceInv, NEW w \in Workers, AssertSend(w)
  PROVE  SendInv' /\ EvidenceInv'
<1> DEFINE n == task[w]
<1>1. n \in Messages /\ Holds(w, n) /\ n \notin released /\ pc' = [pc EXCEPT ![w] = "awaiting"]
  BY DEF AssertSend, Goto, Holds, SendInv, Typed, OnTask
<1>2. /\ released' = released \cup {n} /\ inflight' = inflight \cup {n}
      /\ UNCHANGED <<state, lease, task, receipts, early, told, sends>>
  BY DEF AssertSend, Goto, event, evidence
<1>3. \A m \in Messages, v \in Workers : Holds(v, m)' => Holds(v, m) /\ m # n
  BY <1>1, <1>2 DEF Holds, Typed, TypeOK
<1> HIDE DEF n
<1>4. SendInv'
  BY <1>1, <1>2, <1>3 DEF SendInv, Holds
<1>5. EvidenceInv'
  BY <1>1, <1>2 DEF EvidenceInv, SendInv, Holds, Outcomes
<1> QED BY <1>4, <1>5

LEMMA SentKeepsSends ==
  ASSUME Typed, SendInv, EvidenceInv, NEW w \in Workers,
         NEW result \in {"accepted", "unknown", "failed"}, Sent(w, result)
  PROVE  SendInv' /\ EvidenceInv'
<1> DEFINE n == task[w]
           outcome == IF result = "accepted" /\ early[n] \notin {"none", "sent"} THEN early[n] ELSE result
<1>1. n \in Messages /\ Record(w, result, outcome)
  BY DEF Sent, Record, Typed, OnTask
<1>2. outcome \in Outcomes \cup {"unknown"}
  BY <1>1 DEF Outcomes, Typed, TypeOK
<1>3. state[n] \in {"sending", "unknown"} /\ n \notin receipts /\ early[n] = told[n]
  BY <1>1 DEF Record, EvidenceInv, Outcomes
<1>4. result = "accepted" => /\ outcome # "unknown" /\ sends[n] > 0 /\ n \in released
                             /\ Order(outcome) >= Order(told[n])
                             /\ outcome = "failed" => told[n] = "failed"
  <2>1. result = "accepted" => sends[n] > 0 /\ n \in released
    BY <1>1 DEF Record, SendInv
  <2>2. told[n] \in {"none", "sent", "failed", "delivered", "read"}
    BY <1>1 DEF Typed, TypeOK
  <2> QED BY <1>3, <2>1, <2>2 DEF Order
<1>5. result # "accepted" => /\ outcome = result /\ result \in {"unknown", "failed"}
                             /\ result = "failed" => n \notin inflight /\ sends[n] = 0
  BY <1>1 DEF Record
<1>6. /\ \A m \in Messages : state'[m] = IF m = n THEN outcome ELSE state[m]
      /\ \A m \in Messages : lease'[m] = lease[m] \/ state'[m] # "sending"
      /\ receipts' = (IF result = "accepted" THEN receipts \cup {n} ELSE receipts)
      /\ \A m \in Messages : m # n \/ result # "accepted" => early'[m] = early[m]
      /\ pc' = [pc EXCEPT ![w] = "replies"] /\ task' = [task EXCEPT ![w] = None]
      /\ UNCHANGED <<told, inflight, sends, released>>
  <2> HIDE DEF outcome
  <2>1. state' = [state EXCEPT ![n] = outcome]
        /\ lease' = [m \in Messages |-> IF state'[m] \in {"running", "sending", "unknown"} THEN lease[m] ELSE None]
    BY <1>1 DEF Record, WriteStates, Write, provider
  <2>2. early' = IF result = "accepted" THEN [early EXCEPT ![n] = "none"] ELSE early
    BY <1>1 DEF Record
  <2> QED BY <1>1, <2>1, <2>2 DEF Record, Leave, Take, provider, Typed, TypeOK
<1> HIDE DEF n, outcome
<1>7. \A m \in Messages, v \in Workers : Holds(v, m)' => Holds(v, m)
  BY <1>1, <1>2, <1>6 DEF Holds, Typed, TypeOK, Outcomes
<1>8. SendInv'
  BY <1>1, <1>2, <1>4, <1>6, <1>7 DEF SendInv
<1>9. EvidenceInv'
  <2>1. ASSUME NEW m \in Messages, m # n
        PROVE  /\ state'[m] = state[m] /\ early'[m] = early[m] /\ (m \in receipts' <=> m \in receipts)
    BY <1>6, <2>1
  <2>2. ASSUME NEW m \in Messages, m = n
        PROVE  /\ m \notin receipts' => early'[m] = told[m]
               /\ m \in receipts' => state'[m] \in Outcomes \cup {"cancelled", "expired"}
               /\ m \in receipts' /\ state'[m] \in Outcomes => Order(state'[m]) >= Order(told[m])
               /\ state'[m] \in {"accepted", "delivered", "read"} => sends[m] > 0
               /\ state'[m] = "failed" /\ m \in released =>
                    IF m \in receipts' THEN told[m] = "failed" ELSE sends[m] = 0 /\ m \notin inflight
    BY <1>2, <1>3, <1>4, <1>5, <1>6, <2>2
  <2> QED BY <1>6, <2>1, <2>2 DEF EvidenceInv
<1> QED BY <1>8, <1>9

LEMMA ProviderKeepsSends ==
  ASSUME Typed, SendInv, EvidenceInv, NEW m \in Messages, Accept(m) \/ Refuse(m)
  PROVE  SendInv' /\ EvidenceInv'
<1>1. UNCHANGED <<state, lease, pc, task, receipts, early, told, released>>
  BY DEF Accept, Refuse, event, evidence, loop
<1>2. m \in released /\ sends[m] = 0 /\ inflight' = inflight \ {m}
  BY DEF Accept, Refuse, SendInv
<1>3. \A n \in Messages : sends'[n] = IF n = m /\ sends' # sends THEN 1 ELSE sends[n]
  <2>1. sends' = [sends EXCEPT ![m] = sends[m] + 1] \/ sends' = sends
    BY DEF Accept, Refuse
  <2>2. sends \in [Messages -> Nat] /\ sends[m] + 1 = 1
    BY <1>2 DEF Typed, TypeOK
  <2>3. [sends EXCEPT ![m] = sends[m] + 1][m] = 1
    BY <2>2
  <2>4. \A n \in Messages \ {m} : [sends EXCEPT ![m] = sends[m] + 1][n] = sends[n]
    BY <2>2
  <2> QED BY <2>1, <2>3, <2>4
<1>4. \A n \in Messages, w \in Workers : Holds(w, n)' <=> Holds(w, n)
  BY <1>1 DEF Holds
<1>5. SendInv'
  BY <1>1, <1>2, <1>3, <1>4 DEF SendInv
<1>6. m \in inflight /\ (state[m] = "failed" => m \in receipts)
  BY <1>2 DEF Accept, Refuse, EvidenceInv
<1>7. EvidenceInv'
  BY <1>1, <1>2, <1>3, <1>6 DEF EvidenceInv, Outcomes
<1> QED BY <1>5, <1>7

LEMMA DeliveryKeepsSends ==
  ASSUME Typed, SendInv, EvidenceInv, NEW m \in Messages, NEW s \in Statuses, Delivery(m, s)
  PROVE  SendInv' /\ EvidenceInv'
<1> DEFINE next == IF s = "sent" THEN "accepted" ELSE s
<1>1. /\ sends[m] > 0
      /\ \A n \in Messages : n # m => state'[n] = state[n] /\ early'[n] = early[n] /\ told'[n] = told[n]
      /\ UNCHANGED <<lease, pc, task, receipts, inflight, sends, released>>
  BY DEF Delivery, Inform, loop, provider, Typed, TypeOK
<1>2. told'[m] = IF Order(s) > Order(told[m]) THEN s ELSE told[m]
  BY DEF Delivery, Inform, Typed, TypeOK
<1>3. m \notin receipts => /\ state'[m] = state[m]
                           /\ early'[m] = IF Order(s) > Order(early[m]) THEN s ELSE early[m]
  BY DEF Delivery, Inform, Typed, TypeOK
<1>4. m \in receipts => /\ early'[m] = early[m]
                        /\ state'[m] = IF state[m] \in Outcomes /\ Order(s) > Order(state[m])
                                       THEN next ELSE state[m]
  BY DEF Delivery, Inform, Typed, TypeOK, EvidenceInv, Outcomes
<1>5. m \in released
  BY <1>1 DEF SendInv
<1>6. \A n \in Messages, w \in Workers : Holds(w, n)' => Holds(w, n)
  BY <1>1, <1>3, <1>4 DEF Holds, Outcomes
<1>7. next \in Outcomes /\ Order(next) = Order(s)
  BY DEF Order, Outcomes
<1>8. SendInv'
  BY <1>1, <1>3, <1>4, <1>5, <1>6, <1>7 DEF SendInv
<1>9. told[m] \in {"none", "sent", "failed", "delivered", "read"}
  BY DEF Typed, TypeOK
<1>10. EvidenceInv'
  <2>1. ASSUME m \notin receipts
        PROVE  /\ early'[m] = told'[m]
               /\ state[m] \in {"accepted", "delivered", "read"} => sends[m] > 0
               /\ state[m] = "failed" => sends[m] = 0
    BY <1>2, <1>3, <1>5, <2>1 DEF EvidenceInv
  <2>2. ASSUME m \in receipts
        PROVE  /\ state'[m] \in Outcomes \cup {"cancelled", "expired"}
               /\ state'[m] \in Outcomes => Order(state'[m]) >= Order(told'[m])
               /\ state'[m] = "failed" => told'[m] = "failed"
    <3>1. state[m] \in Outcomes => Order(state[m]) >= Order(told[m])
      BY <2>2 DEF EvidenceInv
    <3>2. state[m] = "failed" => told[m] = "failed"
      BY <1>5, <2>2 DEF EvidenceInv
    <3> QED BY <1>2, <1>4, <1>7, <1>9, <2>2, <3>1, <3>2 DEF EvidenceInv, Outcomes, Order
  <2> QED BY <1>1, <1>3, <2>1, <2>2 DEF EvidenceInv
<1> QED BY <1>8, <1>10

LEMMA StepSends == Typed /\ SendInv /\ EvidenceInv /\ [Next]_vars => (SendInv /\ EvidenceInv)'
<1> SUFFICES ASSUME Typed, SendInv, EvidenceInv, [Next]_vars PROVE SendInv' /\ EvidenceInv'
  OBVIOUS
<1>1. ASSUME NEW w \in Workers, Loop(w) PROVE SendInv' /\ EvidenceInv'
  BY <1>1, LoopSteps, JournalKeepsSends, AssertKeepsSends, SentKeepsSends DEF Loop
<1>2. CASE Traffic
  BY <1>2, AdmissionSteps, JournalKeepsSends, ProviderKeepsSends, DeliveryKeepsSends DEF Traffic
<1>3. CASE Operator \/ UNCHANGED vars
  BY <1>3, AdmissionSteps, JournalKeepsSends
<1> QED BY <1>1, <1>2, <1>3 DEF Next

SendsInv == Typed /\ SendInv /\ EvidenceInv

LEMMA SendsInvariant == Spec => []SendsInv
<1>1. Init => SendsInv
  BY InitTyped, InitSends DEF SendsInv
<1>2. SendsInv /\ [Next]_vars => SendsInv'
  BY StepTyped, StepSends DEF SendsInv
<1> QED BY <1>1, <1>2, PTL DEF Spec

\* What the journal says of a send is what the provider did or reported.
THEOREM OutcomesAreTrue == Spec => []OutcomeIsTrue
<1>1. SendsInv => OutcomeIsTrue
  BY DEF SendsInv, OutcomeIsTrue, EvidenceInv
<1> QED BY <1>1, SendsInvariant, PTL

\* The recorded outcome of a send is at least as far as any callback said, whenever it came.
THEOREM NoEvidenceIsLost == Spec => []EvidenceCounts
<1>1. SendsInv => EvidenceCounts
  <2> SUFFICES ASSUME SendsInv, NEW m \in receipts, state[m] \notin {"cancelled", "expired"}
               PROVE  Order(state[m]) >= Order(told[m])
    BY DEF EvidenceCounts
  <2> QED BY DEF SendsInv, EvidenceInv, Typed, TypeOK
<1> QED BY <1>1, SendsInvariant, PTL

----------------------------------------------------------------------------
(* Refinement of AnswerOnce                                                *)

\* The phase of a message, as AnsweredOnce maps it.
Phase == [m \in Messages |->
  IF m \in released THEN "released"
  ELSE IF state[m] = "none" THEN "unseen"
  ELSE IF state[m] \in Pending THEN "waiting" ELSE "closed"]

LEMMA InitPromise == Init => Promise!Init
  BY DEF Init, Promise!Init

\* A step that writes the journal closes messages or admits one.
LEMMA JournalPromise ==
  ASSUME Typed, SendInv, Advance, UNCHANGED <<sends, released>>
  PROVE  [Promise!Next]_<<Phase, sends>>
<1>1. state \in [Messages -> States]
  BY DEF Typed, TypeOK, States
<1>2. ASSUME \A m \in Messages \ released :
               /\ state'[m] = "none" <=> state[m] = "none"
               /\ state[m] \in Closed => state'[m] \notin Pending
      PROVE  [Promise!Next]_<<Phase, sends>>
  <2>0. PICK S \in SUBSET Messages :
          S = {m \in Messages \ released : Phase[m] = "waiting" /\ state'[m] \notin Pending}
    OBVIOUS
  <2>1. \A m \in S : Phase[m] \in {"unseen", "waiting"}
    BY <2>0
  <2>2. Phase' = [m \in Messages |-> IF m \in S THEN "closed" ELSE Phase[m]]
    BY <1>1, <1>2, <2>0 DEF Phase, Closed, States, Pending
  <2>3. Promise!Close(S)
    BY <2>1, <2>2 DEF Promise!Close, Phase
  <2> QED BY <2>3 DEF Promise!Next
<1>3. CASE Tame(state')
  BY <1>1, <1>2, <1>3 DEF Tame, Closed, States, Pending
<1>4. ASSUME NEW m \in Messages, Begins(m), NEW s \in [Messages -> States], Tame(s),
             state' = [s EXCEPT ![m] = state'[m]]
      PROVE  [Promise!Next]_<<Phase, sends>>
  <2>1. \A n \in Messages \ {m} : state'[n] = s[n]
    BY <1>4
  <2>2. state[m] \in Pending /\ state'[m] \in Pending
    BY <1>4 DEF Begins, Pending
  <2> QED BY <1>1, <1>2, <1>4, <2>1, <2>2 DEF Tame, Closed, States, Pending
<1>5. ASSUME NEW m \in Messages, Enters(m), state' = [state EXCEPT ![m] = state'[m]]
      PROVE  [Promise!Next]_<<Phase, sends>>
  <2>1. \A n \in Messages : n # m => state'[n] = state[n]
    BY <1>1, <1>5
  <2>2. m \notin released /\ state[m] = "none"
    BY <1>5 DEF Enters, SendInv, Outcomes
  <2>3. CASE state'[m] = "refused"
    <3>1. Phase' = [n \in Messages |-> IF n \in {m} THEN "closed" ELSE Phase[n]]
      BY <2>1, <2>2, <2>3 DEF Phase, Pending
    <3>2. Promise!Close({m})
      BY <2>2, <3>1 DEF Promise!Close, Phase
    <3>3. {m} \in SUBSET Messages
      OBVIOUS
    <3> QED BY <3>2, <3>3 DEF Promise!Next
  <2>4. CASE state'[m] \in Pending
    <3>1. Phase' = [Phase EXCEPT ![m] = "waiting"] /\ Phase[m] = "unseen"
      BY <2>1, <2>2, <2>4 DEF Phase, Pending
    <3>2. Promise!Admit(m)
      BY <3>1 DEF Promise!Admit, Promise!Moves, Phase
    <3> QED BY <3>2 DEF Promise!Next
  <2> QED BY <1>5, <2>3, <2>4 DEF Enters, Pending
<1> QED BY <1>3, <1>4, <1>5 DEF Advance

\* The last fence releases a waiting reply; the provider accepts a released one once.
LEMMA StepPromise ==
  Typed /\ SendInv /\ [Next]_vars => [Promise!Next]_<<Phase, sends>>
<1> SUFFICES ASSUME Typed, SendInv, [Next]_vars PROVE [Promise!Next]_<<Phase, sends>>
  OBVIOUS
<1>1. ASSUME NEW w \in Workers, AssertSend(w) PROVE [Promise!Next]_<<Phase, sends>>
  <2>1. PICK m \in Messages : m = task[w] /\ state[m] = "sending" /\ m \notin released
    BY <1>1 DEF AssertSend, SendInv, Holds, Typed, OnTask
  <2>2. released' = released \cup {m} /\ UNCHANGED <<state, sends>>
    BY <1>1, <2>1 DEF AssertSend, event
  <2>3. Phase' = [Phase EXCEPT ![m] = "released"] /\ Phase[m] = "waiting"
    BY <2>1, <2>2 DEF Phase, Pending
  <2>4. Promise!Release(m)
    BY <2>2, <2>3 DEF Promise!Release, Promise!Moves, Phase
  <2> QED BY <2>1, <2>4 DEF Promise!Next
<1>2. ASSUME NEW m \in Messages, Accept(m) PROVE [Promise!Next]_<<Phase, sends>>
  <2>1. m \in released /\ sends[m] = 0 /\ sends' = [sends EXCEPT ![m] = 1]
    <3>1. m \in released /\ sends[m] = 0
      BY <1>2 DEF Accept, SendInv
    <3>2. sends[m] + 1 = 1
      BY <3>1
    <3>3. sends' = [sends EXCEPT ![m] = sends[m] + 1]
      BY <1>2 DEF Accept
    <3> QED BY <3>1, <3>2, <3>3
  <2>2. UNCHANGED <<state, released>>
    BY <1>2 DEF Accept, event
  <2>3. Phase' = Phase /\ Phase[m] = "released"
    BY <2>1, <2>2 DEF Phase
  <2>4. Promise!Ask(m)
    BY <2>1, <2>3 DEF Promise!Ask, Phase
  <2> QED BY <2>4 DEF Promise!Next
<1>3. ASSUME UNCHANGED <<sends, released>> PROVE [Promise!Next]_<<Phase, sends>>
  BY <1>3, StepAdvance, JournalPromise
<1>4. CASE Traffic
  BY <1>2, <1>3, <1>4
     DEF Traffic, Admit, LeaseEnds, WorkIsLate, Refuse, Delivery, Inform, provider
<1>5. ASSUME NEW w \in Workers, Loop(w) PROVE [Promise!Next]_<<Phase, sends>>
  BY <1>1, <1>3, <1>5 DEF Loop, Claim, Complete, Answer, Fail, PrepareSend, Sent, Record, Abandon,
              provider
<1>6. CASE Operator \/ UNCHANGED vars
  BY <1>3, <1>6 DEF Operator, ChangeAuthority, Block, Forget, ExpireHistory, vars, provider
<1> QED BY <1>4, <1>5, <1>6 DEF Next

\* Across leases, retries, crashes and instances the channel worker answers each message at
\* most once, and never one that was closed: it implements AnswerOnce.
THEOREM ChannelImplementsAnswerOnce == Spec => AnsweredOnce
<1>1. SendsInv /\ [Next]_vars => [Promise!Next]_<<Phase, sends>>
  BY StepPromise DEF SendsInv
<1> QED BY <1>1, InitPromise, SendsInvariant, PTL DEF Spec, AnsweredOnce, Promise!Spec, Phase

=============================================================================
