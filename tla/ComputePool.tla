---------------------------- MODULE ComputePool ----------------------------
(***************************************************************************)
(* The sandbox pool (compute/worker-pool.ts) and the worker threads it     *)
(* feeds (compute/worker-entry.ts).  The pool lives on one event loop: an  *)
(* event - a call of execute or close, a message, an exit, a timer - runs  *)
(* to its end.  The threads run beside it and exchange messages with it    *)
(* over two queues each.  Timers may fire at any time they are armed.      *)
(*                                                                         *)
(* A hosted handler is suspended while a call of its is outstanding, so a  *)
(* run has at most one; host_call, host_control and log are one kind of    *)
(* call here, they differ in the function of the job that serves them.     *)
(***************************************************************************)
EXTENDS Integers, Sequences, FiniteSets, Functions

CONSTANTS
  NumJobs,      \* bound: calls of execute
  Workers,      \* bound: worker threads that exist at one time, the dying ones included
  MaxWorkers,   \* options.maxWorkers
  RecycleAfter, \* WORKER_RECYCLE_AFTER_RUNS
  MaxCalls,     \* maxHostCalls of every job
  MaxDeaths,    \* bound on the threads that exit by themselves
  None

ASSUME MaxWorkersPositive == MaxWorkers \in Nat \ {0}
ASSUME RecyclePositive == RecycleAfter \in Nat \ {0}
ASSUME BoundsNat == NumJobs \in Nat /\ MaxCalls \in Nat /\ MaxDeaths \in Nat

\* Jobs are numbered in the order in which execute is called.
Jobs == 1 .. NumJobs

ASSUME NoneIsNothing == None \notin Jobs \cup Workers

VARIABLES
  closed,
  queue,     \* entries waiting for a worker, oldest first
  overdue,   \* queued jobs whose budget is exhausted
  slots,     \* the workers in #slots; a worker that is not in it is dropped
  active,    \* slot.active, kept by close() on the dropped slots
  runs,      \* finished runs of a slot
  outcome,   \* how the promise of a job settled
  serving,   \* host calls being served: worker and run its continuation is bound to
  thread,    \* "none", "live" or "exited" with the exit event still to come
  task,      \* the run a thread executes
  suspended, \* is it waiting for the answer of a call
  calls,     \* calls a job has made
  toWorker,  \* messages to a thread
  toMain,    \* messages from a thread
  deaths,
  arrived    \* the number of calls of execute so far

pool == <<closed, queue, overdue, slots, active, runs, outcome, serving, arrived>>
threads == <<thread, task, suspended, calls, deaths>>
vars == <<pool, threads, toWorker, toMain>>

Run(j) == [t |-> "run", job |-> j]
Reply(j) == [t |-> "reply", job |-> j]
Result(j) == [t |-> "result", job |-> j]
Call(j) == [t |-> "call", job |-> j]
Messages == [t : {"run", "reply", "result", "call"}, job : Jobs]

Settled(j) == outcome[j] # "none"
Outcomes == {"none", "answered", "timeout", "queue_timeout", "lost", "closed"}

Init ==
  /\ closed = FALSE /\ queue = <<>> /\ overdue = {} /\ slots = {}
  /\ active = [w \in Workers |-> None]
  /\ runs = [w \in Workers |-> 0]
  /\ outcome = [j \in Jobs |-> "none"]
  /\ serving = {} /\ arrived = 0
  /\ thread = [w \in Workers |-> "none"]
  /\ task = [w \in Workers |-> None]
  /\ suspended = [w \in Workers |-> FALSE]
  /\ calls = [j \in Jobs |-> 0]
  /\ deaths = 0
  /\ toWorker = [w \in Workers |-> <<>>]
  /\ toMain = [w \in Workers |-> <<>>]

----------------------------------------------------------------------------
(* The pool.  S, a and o are the slots, their active runs and the outcomes *)
(* the event has produced when it comes to look for a worker.              *)

\* The first idle slot (which one is left open), or a spawned one while the pool is not full.
Candidates(S, a) ==
  LET idle == {w \in S : a[w] = None} IN
  IF idle # {} THEN idle
  ELSE IF Cardinality(S) < MaxWorkers THEN {w \in Workers \ S : thread[w] = "none"}
  ELSE {}

Full(S, a) == (\A w \in S : a[w] # None) /\ Cardinality(S) >= MaxWorkers

\* #dispatch on worker w, spawned when it has no thread yet.
Dispatch(w, j, S, a) ==
  /\ slots' = S \cup {w}
  /\ thread' = [thread EXCEPT ![w] = "live"]
  /\ runs' = [runs EXCEPT ![w] = @ + 1]
  /\ active' = [a EXCEPT ![w] = j]
  /\ toWorker' = [toWorker EXCEPT ![w] = Append(@, Run(j))]

\* The exhausted entries at the head of the queue, which #pumpQueue rejects on its way, are the first n.
OverduePrefix(n) ==
  /\ \A i \in 1 .. n : queue[i] \in overdue
  /\ n < Len(queue) => queue[n + 1] \notin overdue

\* #pumpQueue.  An event frees at most one worker, so at most one entry is dispatched.
Pump(S, a, o) ==
  IF queue = <<>> \/ Full(S, a)
  THEN /\ slots' = S /\ active' = a /\ outcome' = o
       /\ UNCHANGED <<queue, overdue, thread, runs, toWorker>>
  ELSE \E w \in Candidates(S, a), n \in 0 .. Len(queue) :
         LET late == {queue[i] : i \in 1 .. n} IN
         /\ OverduePrefix(n)
         /\ outcome' = [j \in Jobs |-> IF j \in late THEN "queue_timeout" ELSE o[j]]
         /\ overdue' = overdue \ late
         /\ IF n = Len(queue)
            THEN /\ queue' = <<>>
                 /\ slots' = S \cup {w} /\ active' = a /\ UNCHANGED toWorker
                 /\ thread' = [thread EXCEPT ![w] = "live"] /\ UNCHANGED runs
            ELSE queue' = SubSeq(queue, n + 2, Len(queue)) /\ Dispatch(w, queue[n + 1], S, a)

\* Mutant: the entry is put in front.
EnqueueFirst(j) ==
  /\ queue' = <<j>> \o queue
  /\ UNCHANGED <<slots, active, runs, outcome, thread, toWorker>>

Enqueue(j) ==
  /\ queue' = Append(queue, j)
  /\ UNCHANGED <<slots, active, runs, outcome, thread, toWorker>>

Execute(j) ==
  /\ j = arrived + 1
  /\ arrived' = j
  /\ \/ closed /\ outcome' = [outcome EXCEPT ![j] = "closed"]
        /\ UNCHANGED <<queue, slots, active, runs, thread, toWorker>>
     \/ ~closed /\ (\E w \in Candidates(slots, active) : Dispatch(w, j, slots, active))
        /\ UNCHANGED <<queue, outcome>>
     \/ ~closed /\ Full(slots, active) /\ Enqueue(j)
  /\ UNCHANGED <<closed, overdue, serving, task, suspended, calls, deaths, toMain>>

\* The budget of a queued job runs out; its expiry timer is due but has not run yet.
Elapse(j) ==
  /\ j \in Range(queue)
  /\ j \notin overdue
  /\ overdue' = overdue \cup {j}
  /\ UNCHANGED <<closed, queue, slots, active, runs, outcome, serving, arrived, threads,
                 toWorker, toMain>>

Without(s, i) == [k \in 1 .. Len(s) - 1 |-> IF k < i THEN s[k] ELSE s[k + 1]]

\* #expireQueued
ExpireQueued(j) ==
  /\ j \in overdue
  /\ \E i \in DOMAIN queue : queue[i] = j /\ queue' = Without(queue, i)
  /\ overdue' = overdue \ {j}
  /\ outcome' = [outcome EXCEPT ![j] = "queue_timeout"]
  /\ UNCHANGED <<closed, slots, active, runs, serving, arrived, threads, toWorker, toMain>>

\* Mutant: the message is taken for the run the slot has by now.
ConcernsSlot(w, m) == active[w] # None

\* The message is about the run this slot is on, and nothing has settled it.
Concerns(w, m) == active[w] = m.job /\ ~Settled(m.job)

\* #onMessage of a result, with #release: recycle after enough runs, then look at the queue.
OnResult(w) ==
  /\ toMain[w] # <<>> /\ Head(toMain[w]).t = "result"
  /\ toMain' = [toMain EXCEPT ![w] = Tail(@)]
  /\ LET j == Head(toMain[w]).job
         recycle == runs[w] >= RecycleAfter
         S == IF recycle THEN slots \ {w} ELSE slots
         a == [active EXCEPT ![w] = None] IN
     IF Concerns(w, Head(toMain[w]))
     THEN /\ Pump(S, a, [outcome EXCEPT ![j] = "answered"])
          /\ UNCHANGED <<closed, serving, arrived, task, suspended, calls, deaths>>
     ELSE UNCHANGED <<pool, threads, toWorker>>

\* #onMessage of host_call, host_control or log: the job's own function is called.
OnCall(w) ==
  /\ toMain[w] # <<>> /\ Head(toMain[w]).t = "call"
  /\ toMain' = [toMain EXCEPT ![w] = Tail(@)]
  /\ serving' = IF Concerns(w, Head(toMain[w]))
                THEN serving \cup {<<w, active[w]>>} ELSE serving
  /\ UNCHANGED <<closed, queue, overdue, slots, active, runs, outcome, arrived, threads, toWorker>>

\* respond, ack: the function returned or threw; the answer goes out if the run is still on.
Respond(w, j) ==
  /\ <<w, j>> \in serving
  /\ serving' = serving \ {<<w, j>>}
  /\ toWorker' = IF active[w] = j /\ ~Settled(j) /\ w \in slots
                 THEN [toWorker EXCEPT ![w] = Append(@, Reply(j))] ELSE toWorker
  /\ UNCHANGED <<closed, queue, overdue, slots, active, runs, outcome, arrived, threads, toMain>>

\* Mutant: the worker that missed its deadline stays in the pool.
DeadlineKeepsSlot(w) ==
  /\ w \in slots /\ active[w] # None
  /\ Pump(slots, [active EXCEPT ![w] = None], [outcome EXCEPT ![active[w]] = "timeout"])
  /\ UNCHANGED <<closed, serving, arrived, task, suspended, calls, deaths, toMain>>

\* Mutant: the queue is not looked at after a drop.
DeadlineNoPump(w) ==
  /\ w \in slots /\ active[w] # None
  /\ outcome' = [outcome EXCEPT ![active[w]] = "timeout"]
  /\ active' = [active EXCEPT ![w] = None]
  /\ slots' = slots \ {w}
  /\ UNCHANGED <<closed, queue, overdue, runs, serving, arrived, threads, toWorker, toMain>>

\* #onDeadline, the backstop timer of the active run.
OnDeadline(w) ==
  /\ w \in slots /\ active[w] # None
  /\ Pump(slots \ {w}, [active EXCEPT ![w] = None], [outcome EXCEPT ![active[w]] = "timeout"])
  /\ UNCHANGED <<closed, serving, arrived, task, suspended, calls, deaths, toMain>>

\* Mutant: the active run of the lost worker is forgotten.
LostSilently(w) ==
  /\ thread[w] = "exited" /\ w \in slots
  /\ Pump(slots \ {w}, [active EXCEPT ![w] = None], outcome)
  /\ UNCHANGED <<closed, serving, arrived, task, suspended, calls, deaths, toMain>>

\* #onWorkerLost: the exit of a thread whose slot was not dropped.
OnWorkerLost(w) ==
  /\ thread[w] = "exited" /\ w \in slots
  /\ Pump(slots \ {w}, [active EXCEPT ![w] = None],
          IF active[w] = None THEN outcome ELSE [outcome EXCEPT ![active[w]] = "lost"])
  /\ UNCHANGED <<closed, serving, arrived, task, suspended, calls, deaths, toMain>>

\* The exit of a dropped one: nothing left to do, and its name can be used again.
Forget(w) ==
  /\ thread[w] = "exited" /\ w \notin slots
  /\ thread' = [thread EXCEPT ![w] = "none"]
  /\ active' = [active EXCEPT ![w] = None]
  /\ runs' = [runs EXCEPT ![w] = 0]
  /\ toWorker' = [toWorker EXCEPT ![w] = <<>>]
  /\ toMain' = [toMain EXCEPT ![w] = <<>>]
  /\ UNCHANGED <<closed, queue, overdue, slots, outcome, serving, arrived, task, suspended, calls, deaths>>

\* close(): every queued and every running job is rejected, every slot dropped.
Close ==
  /\ ~closed
  /\ closed' = TRUE
  /\ queue' = <<>> /\ overdue' = {} /\ slots' = {}
  /\ outcome' = [j \in Jobs |->
       IF j \in Range(queue) \/ \E w \in slots : active[w] = j
       THEN "closed" ELSE outcome[j]]
  /\ UNCHANGED <<active, runs, serving, arrived, threads, toWorker, toMain>>

----------------------------------------------------------------------------
(* A worker thread                                                         *)

\* A message is taken up when the thread's event loop turns, also while a run is suspended.
TakeRun(w) ==
  /\ thread[w] = "live" /\ toWorker[w] # <<>> /\ Head(toWorker[w]).t = "run"
  /\ task[w] = None
  /\ task' = [task EXCEPT ![w] = Head(toWorker[w]).job]
  /\ toWorker' = [toWorker EXCEPT ![w] = Tail(@)]
  /\ UNCHANGED <<pool, thread, suspended, calls, deaths, toMain>>

TakeReply(w) ==
  /\ thread[w] = "live" /\ toWorker[w] # <<>> /\ Head(toWorker[w]).t = "reply"
  /\ suspended' = [suspended EXCEPT ![w] = FALSE]
  /\ toWorker' = [toWorker EXCEPT ![w] = Tail(@)]
  /\ UNCHANGED <<pool, thread, task, calls, deaths, toMain>>

\* The handler calls the host; the sandbox is suspended until the answer comes.
CallHost(w) ==
  /\ thread[w] = "live" /\ task[w] # None /\ ~suspended[w]
  /\ calls[task[w]] < MaxCalls
  /\ calls' = [calls EXCEPT ![task[w]] = @ + 1]
  /\ suspended' = [suspended EXCEPT ![w] = TRUE]
  /\ toMain' = [toMain EXCEPT ![w] = Append(@, Call(task[w]))]
  /\ UNCHANGED <<pool, thread, task, deaths, toWorker>>

\* handleRun ends, with an output or with an error of the sandbox.
Finish(w) ==
  /\ thread[w] = "live" /\ task[w] # None /\ ~suspended[w]
  /\ task' = [task EXCEPT ![w] = None]
  /\ toMain' = [toMain EXCEPT ![w] = Append(@, Result(task[w]))]
  /\ UNCHANGED <<pool, thread, suspended, calls, deaths, toWorker>>

Ends(w) ==
  /\ thread[w] = "live"
  /\ thread' = [thread EXCEPT ![w] = "exited"]
  /\ task' = [task EXCEPT ![w] = None]
  /\ suspended' = [suspended EXCEPT ![w] = FALSE]
  /\ UNCHANGED <<pool, calls, toWorker, toMain>>

\* worker.terminate() of a dropped slot takes effect.
Terminated(w) == w \notin slots /\ Ends(w) /\ UNCHANGED deaths

\* The thread exits by itself: out of memory, an uncaught error.
Dies(w) == w \in slots /\ deaths < MaxDeaths /\ Ends(w) /\ deaths' = deaths + 1

----------------------------------------------------------------------------
Event ==
  \/ \E j \in Jobs : Execute(j) \/ Elapse(j) \/ ExpireQueued(j)
  \/ \E w \in Workers : OnResult(w) \/ OnCall(w) \/ OnDeadline(w) \/ OnWorkerLost(w) \/ Forget(w)
  \/ \E w \in Workers, j \in Jobs : Respond(w, j)
  \/ Close

Thread(w) == TakeRun(w) \/ TakeReply(w) \/ CallHost(w) \/ Finish(w) \/ Terminated(w) \/ Dies(w)

\* The caller has no more jobs and nothing is under way.
Rest ==
  /\ arrived = NumJobs /\ closed
  /\ \A w \in Workers : thread[w] = "none"
  /\ serving = {}
  /\ UNCHANGED vars

Next == Event \/ (\E w \in Workers : Thread(w)) \/ Rest

Spec == Init /\ [][Next]_vars

\* Armed timers fire and exit events arrive; nothing is assumed of the sandboxed code, of
\* the functions that serve its calls, or of the delivery of its messages.
Fairness ==
  /\ \A w \in Workers : WF_vars(OnDeadline(w)) /\ WF_vars(OnWorkerLost(w))
                       /\ WF_vars(Terminated(w)) /\ WF_vars(Forget(w))
  /\ \A j \in Jobs : WF_vars(Elapse(j)) /\ WF_vars(ExpireQueued(j))

FairSpec == Spec /\ Fairness

----------------------------------------------------------------------------
(* Properties                                                              *)

\* Type invariant of the pool, of the threads and of the queues between them.
TypeOK ==
  /\ closed \in BOOLEAN /\ arrived \in 0 .. NumJobs
  /\ queue \in Seq(Jobs)
  /\ overdue \subseteq Range(queue)
  /\ slots \subseteq Workers /\ Cardinality(slots) <= MaxWorkers
  /\ active \in [Workers -> Jobs \cup {None}]
  /\ runs \in [Workers -> 0 .. RecycleAfter]
  /\ outcome \in [Jobs -> Outcomes]
  /\ serving \subseteq Workers \X Jobs
  /\ thread \in [Workers -> {"none", "live", "exited"}]
  /\ task \in [Workers -> Jobs \cup {None}]
  /\ suspended \in [Workers -> BOOLEAN]
  /\ calls \in [Jobs -> 0 .. MaxCalls] /\ deaths \in 0 .. MaxDeaths
  /\ toWorker \in [Workers -> Seq(Messages)] /\ toMain \in [Workers -> Seq(Messages)]

\* No job waits while a worker is idle or the pool could spawn one: every event that frees
\* a worker hands it on.
WorkConserving == queue # <<>> => Full(slots, active)

\* Jobs reach a worker in the order in which execute was called, whatever was dropped,
\* recycled or expired meanwhile.
Waits(j) == j \in Range(queue)
NoOvertaking ==
  \A i, k \in 1 .. arrived : i < k /\ Waits(i) => Waits(k) \/ outcome[k] = "queue_timeout"

\* A job is settled once: a late result, an exit, a timer or close() never changes what its
\* caller was told.
SettledOnce ==
  [][\A j \in Jobs : Settled(j) => outcome'[j] = outcome[j]]_vars

\* Every job settles, even when its code never returns, its calls are never answered or its
\* thread disappears: again and again all that were presented so far are.
EveryJobSettles == []<>(\A j \in 1 .. arrived : Settled(j))

\* A thread that still works on a settled job is taken down: again and again there is none.
NoStrayThread == []<>(\A w \in Workers : task[w] # None => ~Settled(task[w]))

============================================================================
