---------------------------- MODULE ChannelWork ----------------------------
(***************************************************************************)
(* One messaging channel: incoming messages become events of a durable     *)
(* journal, workers of several instances lease their turns, write replies  *)
(* and hand them to the provider, whose delivery callbacks come back       *)
(* (assistant-gateway/channel-work.ts, channel-inbox.ts,                   *)
(* channel-coordinator.ts, service/channels/runtime.ts).                   *)
(*                                                                         *)
(* A method of the coordinator is one transaction under the lock of its    *)
(* channel, so it is one action.  Messages are numbered in the order of    *)
(* their admission, which is the order of the event ids; the redelivery    *)
(* of an admitted message finds its receipt and changes nothing.  A lease  *)
(* may run out and work may become late at any moment; a renewal           *)
(* (renewChannelTurn), which only moves that moment, is not a step.        *)
(***************************************************************************)
EXTENDS Integers, Sequences, FiniteSets

CONSTANTS
  NumMessages,  \* bound: messages the channel receives
  Participants,
  Sender,       \* [1 .. NumMessages -> Participants]
  Workers,      \* worker loops, one per instance
  Concurrent,   \* limits.concurrent
  MaxAttempts,  \* turns of one message
  Statuses,     \* bound: the statuses the provider calls back
  MaxChanges,   \* bound on the acts of the operator and of the retention
  None

ASSUME NumMessagesNat == NumMessages \in Nat

Messages == 1 .. NumMessages

ASSUME SenderIsParticipant == Sender \in [Messages -> Participants]
ASSUME LimitsPositive == Concurrent \in Nat \ {0} /\ MaxAttempts \in Nat \ {0} /\ MaxChanges \in Nat
ASSUME StatusesOfTheProvider == Statuses \subseteq {"sent", "failed", "delivered", "read"}
ASSUME NoneIsNothing == None \notin Messages \cup Workers

VARIABLES
  changes,
  enabled,   \* binding.state = 'enabled'
  blocked,   \* participants the operator blocks
  known,     \* participants with a stored context
  history,   \* [Participants -> the messages whose turns are in the stored context]
  state,     \* [Messages -> event.state, "none" before its admission]
  current,   \* admitted under the generation and deployment the binding has now
  attempts,
  lease,     \* [Messages -> the worker that drew the event's lease]
  over,      \* running and sending events whose lease has run out
  late,      \* pending events older than the work deadline
  receipts,  \* messages with a 'receipt:' row: their provider id is known
  early,     \* [Messages -> delivery evidence that came before the receipt]
  pc, task,  \* [Workers -> where its loop is, the message it is on]
  inflight,  \* requests on their way to the provider
  sends,     \* [Messages -> how often the provider accepted the reply]
  released,  \* ghost: messages that have passed the last fence before the provider
  told       \* ghost: [Messages -> the furthest status called back so far]

binding == <<enabled, blocked, known, history>>
event == <<state, current, attempts, lease, over, late>>
evidence == <<receipts, early, told>>
loop == <<pc, task>>
provider == <<inflight, sends>>
vars == <<changes, binding, event, evidence, loop, provider, released>>

Pending == {"queued", "running", "reply", "sending"}

Init ==
  /\ changes = 0 /\ enabled = TRUE /\ blocked = {} /\ known = {}
  /\ history = [p \in Participants |-> <<>>]
  /\ state = [m \in Messages |-> "none"]
  /\ current = [m \in Messages |-> FALSE]
  /\ attempts = [m \in Messages |-> 0]
  /\ lease = [m \in Messages |-> None]
  /\ over = {} /\ late = {}
  /\ receipts = {}
  /\ early = [m \in Messages |-> "none"]
  /\ pc = [w \in Workers |-> "idle"]
  /\ task = [w \in Workers |-> None]
  /\ inflight = {}
  /\ sends = [m \in Messages |-> 0]
  /\ released = {}
  /\ told = [m \in Messages |-> "none"]

----------------------------------------------------------------------------
(* The journal                                                             *)

\* writeChannelEvent: the new states and, for those that are still read in them, the other
\* fields of the events.  What a state never reads again is forgotten; a turn that is claimed
\* again begins another attempt, with a lease of its own.
Write(s, att, lea) ==
  /\ state' = s
  /\ current' = [m \in Messages |-> s[m] \in Pending /\ (state[m] = "none" \/ current[m])]
  /\ attempts' = [m \in Messages |-> IF s[m] \in {"queued", "running"} THEN att[m] ELSE 0]
  /\ lease' = [m \in Messages |-> IF s[m] \in {"running", "sending", "unknown"} THEN lea[m] ELSE None]
  /\ over' = {m \in over : /\ s[m] = state[m] /\ s[m] \in {"running", "sending"}
                          /\ att[m] = attempts[m]}
  /\ late' = {m \in late : s[m] \in Pending}

WriteStates(s) == Write(s, attempts, lease)

Disallowed(m) == ~enabled \/ ~current[m] \/ Sender[m] \in blocked

\* reconcile: what every claim and every preparation of a send first makes of the pending
\* events, given the number of turns and what becomes of a send whose lease has expired.
Reconcile(turns, expiredSend) ==
  [m \in Messages |->
    CASE state[m] = "sending" -> IF m \in over THEN expiredSend ELSE "sending"
      [] state[m] \in Pending \ {"sending"} /\ Disallowed(m) -> "cancelled"
      [] state[m] = "running" /\ ~Disallowed(m) /\ m \in over ->
           IF attempts[m] >= turns \/ m \in late THEN "failed" ELSE "queued"
      [] state[m] \in {"queued", "reply"} /\ ~Disallowed(m) /\ m \in late -> "expired"
      [] OTHER -> state[m]]

\* Mutants: an expired send is sent again, taken for failed, left alone.
ReconcileResends == Reconcile(MaxAttempts, "reply")
ReconcileFails == Reconcile(MaxAttempts, "failed")
ReconcileLeaves == Reconcile(MaxAttempts, "sending")

\* The outcome of an expired send is unknown: it is never sent again.
Reconciled == Reconcile(MaxAttempts, "unknown")

\* Mutant: the oldest event in the state, whatever its participant is waiting for.
AnyFirst(s, wanted) ==
  {m \in Messages : s[m] = wanted /\ \A k \in 1 .. m - 1 : s[k] # wanted}

\* The oldest event in the wanted state none of whose participant's older events is pending.
First(s, wanted) ==
  LET free == {m \in Messages :
        s[m] = wanted /\ \A k \in 1 .. m - 1 : Sender[k] = Sender[m] => s[k] \notin Pending} IN
  {m \in free : \A k \in free : m <= k}

\* leased: the guard of a renewal and of a completion.
Leased(w) ==
  LET m == task[w] IN
  state[m] = "running" /\ lease[m] = w /\ m \notin over /\ ~Disallowed(m)

Goto(w, label) == pc' = [pc EXCEPT ![w] = label] /\ UNCHANGED task
Take(w, label, m) == pc' = [pc EXCEPT ![w] = label] /\ task' = [task EXCEPT ![w] = m]
Leave(w, label) == Take(w, label, None)

----------------------------------------------------------------------------
(* Admission and the operator                                              *)

\* receiveChannelMessages.  Rates, cooldowns and limits refuse; an unsupported message is
\* answered with a notice at once, a refused one may be.  A stored context that is too old or
\* belongs to another deployment starts afresh.
Admit(m) ==
  /\ state[m] = "none" /\ \A k \in 1 .. m - 1 : state[k] # "none"
  /\ \/ /\ enabled /\ Sender[m] \notin blocked
        /\ \E s \in {"queued", "reply"} : WriteStates([state EXCEPT ![m] = s])
        /\ known' = known \cup {Sender[m]}
        /\ \E h \in {<<>>, history[Sender[m]]} : history' = [history EXCEPT ![Sender[m]] = h]
     \/ /\ WriteStates([state EXCEPT ![m] = "refused"])
        /\ UNCHANGED <<known, history>>
     \/ /\ enabled /\ Sender[m] \notin blocked /\ Sender[m] \in known
        /\ WriteStates([state EXCEPT ![m] = "reply"])
        /\ UNCHANGED <<known, history>>
  /\ UNCHANGED <<enabled, blocked, evidence, loop, provider, released>>

\* setState, configure, checkCredentials, an overrun of settleChannelSpend: each makes a new
\* generation, to which no admitted event belongs.
ChangeAuthority(live) ==
  /\ enabled' = live
  /\ current' = [m \in Messages |-> FALSE]
  /\ UNCHANGED <<blocked, known, history, state, attempts, lease, over, late, evidence, loop, provider,
                 released>>

\* block and unblock; a block may also run out.
Block(p) ==
  /\ blocked' = IF p \in blocked THEN blocked \ {p} ELSE blocked \cup {p}
  /\ UNCHANGED <<enabled, known, history, event, evidence, loop, provider, released>>

\* forget: the context goes, every event of the participant is cancelled, settled ones too.
Forget(p) ==
  /\ known' = known \ {p}
  /\ history' = [history EXCEPT ![p] = <<>>]
  /\ WriteStates([m \in Messages |->
       IF Sender[m] = p /\ state[m] # "none" THEN "cancelled" ELSE state[m]])
  /\ UNCHANGED <<enabled, blocked, evidence, loop, provider, released>>

\* expireHistory: late events may be beyond the retention, so may any context, or all that
\* was said in it - the time of a message is the provider's.
ExpireHistory(old, cut, gone) ==
  /\ old \subseteq late /\ gone \subseteq cut
  /\ known' = known \ gone
  /\ history' = [p \in Participants |-> IF p \in cut THEN <<>> ELSE history[p]]
  /\ WriteStates([m \in Messages |-> IF m \in old THEN "expired" ELSE state[m]])
  /\ UNCHANGED <<enabled, blocked, evidence, loop, provider, released>>

----------------------------------------------------------------------------
(* Turns                                                                   *)

\* claimChannelTurn.  Without a turn the loop goes on to the replies.
Claim(w) ==
  /\ pc[w] = "idle"
  /\ LET s == Reconciled
         full == Cardinality({m \in Messages : s[m] = "running"}) >= Concurrent
         candidate == IF enabled /\ ~full THEN First(s, "queued") ELSE {} IN
     \/ /\ candidate = {}
        /\ WriteStates(s) /\ Leave(w, "replies")
     \/ \E m \in candidate :
          /\ WriteStates([s EXCEPT ![m] = "cancelled"]) /\ Leave(w, "replies")
     \/ \E m \in candidate :
          /\ Sender[m] \in known
          /\ Write([s EXCEPT ![m] = "running"], [attempts EXCEPT ![m] = @ + 1], [lease EXCEPT ![m] = w])
          /\ Take(w, "answering", m)
  /\ UNCHANGED <<binding, evidence, provider, released>>

\* The reply of a turn is put into the journal and into the participant's context.
Answer(w) ==
  /\ Sender[task[w]] \in known
  /\ history' = [history EXCEPT ![Sender[task[w]]] = Append(@, task[w])]
  /\ WriteStates([state EXCEPT ![task[w]] = "reply"])
  /\ Leave(w, "replies")
  /\ UNCHANGED <<enabled, blocked, known, evidence, provider, released>>

\* Mutant: the lease is not compared.
CompleteUnfenced(w) == pc[w] = "answering" /\ Answer(w)

\* completeChannelTurn, with the answer or with the apology for an error.
Complete(w) == pc[w] = "answering" /\ Leased(w) /\ Answer(w)

\* fail, after both completions were refused or when a tapped button is not answered: only
\* the turn's own run is closed, its lease may have expired.
Fail(w, outcome) ==
  /\ pc[w] = "answering"
  /\ IF state[task[w]] = "running" /\ lease[task[w]] = w
     THEN WriteStates([state EXCEPT ![task[w]] = outcome])
     ELSE UNCHANGED event
  /\ Leave(w, "replies")
  /\ UNCHANGED <<binding, evidence, provider, released>>

----------------------------------------------------------------------------
(* Replies                                                                 *)

\* prepareChannelSend; a reply outside the 24 hours after the last message, or without a
\* context, expires.
PrepareSend(w) ==
  /\ pc[w] = "replies"
  /\ LET s == Reconciled
         candidate == IF enabled THEN First(s, "reply") ELSE {} IN
     \/ /\ candidate = {}
        /\ WriteStates(s) /\ Leave(w, "idle")
     \/ \E m \in candidate :
          /\ WriteStates([s EXCEPT ![m] = "expired"]) /\ Leave(w, "idle")
     \/ \E m \in candidate :
          /\ Sender[m] \in known
          /\ Write([s EXCEPT ![m] = "sending"], attempts, [lease EXCEPT ![m] = w])
          /\ Take(w, "prepared", m)
  /\ UNCHANGED <<binding, evidence, provider, released>>

\* assertChannelSend, the last fence, and the request that leaves behind it.
AssertSend(w) ==
  LET m == task[w] IN
  /\ pc[w] = "prepared"
  /\ state[m] = "sending" /\ lease[m] = w /\ m \notin over /\ ~Disallowed(m)
  /\ Sender[m] \in known
  /\ released' = released \cup {m}
  /\ inflight' = inflight \cup {m}
  /\ Goto(w, "awaiting")
  /\ UNCHANGED <<binding, event, evidence, sends>>

\* The provider's answer, or the timeout of the request, is recorded as an outcome.
Record(w, result, outcome) ==
  LET m == task[w] IN
  /\ pc[w] = "awaiting"
  /\ result = "accepted" => sends[m] > 0
  /\ result = "failed" => m \notin inflight /\ sends[m] = 0
  /\ lease[m] = w /\ state[m] \in {"sending", "unknown"}
  /\ WriteStates([state EXCEPT ![m] = outcome])
  /\ receipts' = IF result = "accepted" THEN receipts \cup {m} ELSE receipts
  /\ early' = IF result = "accepted" THEN [early EXCEPT ![m] = "none"] ELSE early
  /\ Leave(w, "replies")
  /\ UNCHANGED <<binding, told, provider, released>>

\* updateChannelSend: recorded even when the lease has expired; delivery evidence that came
\* first is joined to an acceptance, whose receipt then hides it.
Sent(w, result) ==
  LET first == early[task[w]] IN
  Record(w, result, IF result = "accepted" /\ first \notin {"none", "sent"} THEN first ELSE result)

\* A refused fence, an error of the store or of the provider's set-up, a crash: the sweep of
\* the channel ends where it is and the next one begins.
Abandon(w) ==
  /\ pc[w] # "idle"
  /\ Leave(w, "idle")
  /\ UNCHANGED <<binding, event, evidence, provider, released>>

----------------------------------------------------------------------------
(* The provider                                                            *)

Accept(m) ==
  /\ m \in inflight
  /\ inflight' = inflight \ {m}
  /\ sends' = [sends EXCEPT ![m] = @ + 1]
  /\ UNCHANGED <<binding, event, evidence, loop, released>>

Refuse(m) ==
  /\ m \in inflight
  /\ inflight' = inflight \ {m}
  /\ UNCHANGED <<binding, event, evidence, loop, sends, released>>

\* order and rank of recordChannelDelivery
Order(s) == CASE s \in {"none", "sending", "unknown"} -> 0 [] s \in {"sent", "accepted"} -> 1
              [] s = "failed" -> 2 [] s = "delivered" -> 3 [] s = "read" -> 4

\* A callback is joined to the event, or kept for it, when it says more.
Inform(m, s, more(_, _)) ==
  /\ sends[m] > 0
  /\ told' = IF Order(s) > Order(told[m]) THEN [told EXCEPT ![m] = s] ELSE told
  /\ IF m \notin receipts
     THEN /\ early' = IF more(s, early[m]) THEN [early EXCEPT ![m] = s] ELSE early
          /\ UNCHANGED state
     ELSE /\ state' = IF /\ state[m] \in {"sending", "unknown", "accepted", "failed", "delivered", "read"}
                         /\ more(s, state[m])
                      THEN [state EXCEPT ![m] = IF s = "sent" THEN "accepted" ELSE s] ELSE state
          /\ UNCHANGED early
  /\ UNCHANGED <<binding, current, attempts, lease, over, late, receipts, loop, provider, released>>

\* Mutant: the latest callback wins.
DeliveryOverwrites(m, s) == LET any(new, old) == TRUE IN Inform(m, s, any)

\* recordChannelDelivery: callbacks come in any order, late and repeatedly.
Delivery(m, s) == LET further(new, old) == Order(new) > Order(old) IN Inform(m, s, further)

----------------------------------------------------------------------------
LeaseEnds(m) ==
  /\ state[m] \in {"running", "sending"} /\ m \notin over
  /\ over' = over \cup {m}
  /\ UNCHANGED <<binding, state, current, attempts, lease, late, evidence, loop, provider, released>>

WorkIsLate(m) ==
  /\ state[m] \in Pending /\ m \notin late
  /\ late' = late \cup {m}
  /\ UNCHANGED <<binding, state, current, attempts, lease, over, evidence, loop, provider, released>>

\* A sweep of the channel: one turn, then the replies that are due.
Loop(w) ==
  \/ Claim(w) \/ Complete(w) \/ \E outcome \in {"failed", "cancelled"} : Fail(w, outcome)
  \/ PrepareSend(w) \/ AssertSend(w)
  \/ \E result \in {"accepted", "unknown", "failed"} : Sent(w, result)
  \/ Abandon(w)

Operator ==
  /\ changes < MaxChanges /\ changes' = changes + 1
  /\ \/ \E live \in BOOLEAN : ChangeAuthority(live)
     \/ \E p \in Participants : Block(p) \/ Forget(p)
     \/ \E old \in SUBSET late, cut, gone \in SUBSET known : ExpireHistory(old, cut, gone)

Traffic ==
  \/ \E m \in Messages : Admit(m) \/ LeaseEnds(m) \/ WorkIsLate(m)
  \/ \E m \in Messages : Accept(m) \/ Refuse(m)
  \/ \E m \in Messages, s \in Statuses : Delivery(m, s)

Next ==
  \/ (Traffic \/ \E w \in Workers : Loop(w)) /\ UNCHANGED changes
  \/ Operator

Spec == Init /\ [][Next]_vars

\* Time passes: leases, whose renewal the deadline of the turn bounds, run out and work gets
\* late.  A timer starts sweeps again and again and every await in one is bounded, so some
\* instance goes on sweeping.  Nothing is assumed of the provider, and any sweep may be
\* abandoned wherever it is.
FairSpec ==
  /\ Spec
  /\ WF_vars((\E m \in Messages : LeaseEnds(m) \/ WorkIsLate(m)) /\ UNCHANGED changes)
  /\ WF_vars((\E w \in Workers : Loop(w)) /\ UNCHANGED changes)

----------------------------------------------------------------------------
(* Properties                                                              *)

\* Type invariant of the journal, of the loops and of the provider.
TypeOK ==
  /\ changes \in 0 .. MaxChanges
  /\ enabled \in BOOLEAN /\ blocked \subseteq Participants /\ known \subseteq Participants
  /\ history \in [Participants -> Seq(Messages)]
  /\ state \in [Messages -> Pending \cup {"none", "refused", "accepted", "delivered", "read",
                                          "expired", "failed", "cancelled", "unknown"}]
  /\ current \in [Messages -> BOOLEAN]
  /\ attempts \in [Messages -> 0 .. MaxAttempts]
  /\ lease \in [Messages -> Workers \cup {None}]
  /\ over \subseteq Messages /\ late \subseteq Messages
  /\ receipts \subseteq Messages /\ inflight \subseteq Messages /\ released \subseteq Messages
  /\ early \in [Messages -> Statuses \cup {"none"}]
  /\ pc \in [Workers -> {"idle", "answering", "replies", "prepared", "awaiting"}]
  /\ task \in [Workers -> Messages \cup {None}]
  /\ sends \in [Messages -> Nat]
  /\ told \in [Messages -> Statuses \cup {"none"}]

\* A participant's messages are worked on one at a time and in the order of their admission:
\* neither a turn that is run again nor an expired lease lets a later one begin first.
OldestFirst ==
  \A m \in Messages : state[m] \in {"running", "sending"} =>
    \A k \in 1 .. m - 1 : Sender[k] = Sender[m] => state[k] \notin Pending

\* The context a participant's next turn sees holds each earlier turn at most once and in
\* order, although a turn may be run by several workers.
HistoryInOrder ==
  \A p \in Participants : \A i, j \in 1 .. Len(history[p]) :
    i < j => history[p][i] < history[p][j]

\* What the journal says of a send agrees with the provider: acceptance and delivery are
\* recorded only of a reply that went out, failure never of one that was delivered.
OutcomeIsTrue ==
  \A m \in Messages :
    /\ state[m] \in {"accepted", "delivered", "read"} => sends[m] > 0
    /\ state[m] = "failed" /\ m \in released => sends[m] = 0 \/ told[m] = "failed"

\* Delivery evidence is not lost: whether it came before or after the answer that names the
\* message, late or out of order, the recorded outcome is at least as far.
EvidenceCounts ==
  \A m \in receipts : state[m] \notin {"cancelled", "expired"} =>
    Order(state[m]) >= Order(told[m])

\* A message is answered at most once, never after it was closed, across leases, retries,
\* crashes and instances.
Promise == INSTANCE AnswerOnce WITH
  phase <- [m \in Messages |->
    IF m \in released THEN "released"
    ELSE IF state[m] = "none" THEN "unseen"
    ELSE IF state[m] \in Pending THEN "waiting" ELSE "closed"],
  asked <- sends
AnsweredOnce == Promise!Spec

\* No admitted message stays in the queue for ever, whatever happens to the workers that
\* take it up, to the channel and to the provider: again and again there is none left.
EveryMessageSettles == []<>(\A m \in Messages : state[m] \notin Pending)

============================================================================
