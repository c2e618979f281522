------------------------- MODULE ComputePoolProofs -------------------------
(***************************************************************************)
(* Theorems about ComputePool, for any number of jobs, workers, calls and  *)
(* deaths and every size of the pool: the types, that a job is settled     *)
(* once, that no job waits beside idle capacity, and that none overtakes.  *)
(***************************************************************************)
EXTENDS ComputePool, FiniteSetTheorems, SequenceTheorems, TLAPS

\* A name without a thread belongs to no slot, has no run and none behind it; a slot that is idle
\* was not yet due to be recycled.
Fresh ==
  /\ IsFiniteSet(slots)
  /\ \A w \in Workers : thread[w] = "none" => runs[w] = 0 /\ active[w] = None /\ w \notin slots
  /\ \A w \in slots : active[w] = None => runs[w] < RecycleAfter

Typed == TypeOK /\ Fresh

\* TypeOK in two parts: what #pumpQueue works on, and the rest.
PumpTypes ==
  /\ queue \in Seq(Jobs) /\ overdue \subseteq Range(queue)
  /\ slots \subseteq Workers /\ Cardinality(slots) <= MaxWorkers
  /\ active \in [Workers -> Jobs \cup {None}] /\ runs \in [Workers -> 0 .. RecycleAfter]
  /\ outcome \in [Jobs -> Outcomes]
  /\ thread \in [Workers -> {"none", "live", "exited"}] /\ toWorker \in [Workers -> Seq(Messages)]
  /\ Fresh

OtherTypes ==
  /\ closed \in BOOLEAN /\ arrived \in 0 .. NumJobs
  /\ serving \subseteq Workers \X Jobs
  /\ task \in [Workers -> Jobs \cup {None}] /\ suspended \in [Workers -> BOOLEAN]
  /\ calls \in [Jobs -> 0 .. MaxCalls] /\ deaths \in 0 .. MaxDeaths
  /\ toMain \in [Workers -> Seq(Messages)]

LEMMA TypedParts == Typed <=> PumpTypes /\ OtherTypes
  BY DEF Typed, TypeOK, PumpTypes, OtherTypes

LEMMA TypedPartsNext == PumpTypes' /\ OtherTypes' => Typed'
  BY DEF Typed, TypeOK, PumpTypes, OtherTypes

\* A queued job is open, queued once and on no worker.
Waiting ==
  \A i \in 1 .. Len(queue) :
    /\ outcome[queue[i]] = "none" /\ queue[i] <= arrived
    /\ \A k \in 1 .. Len(queue) : queue[k] = queue[i] => k = i
    /\ \A w \in slots : active[w] # queue[i]

\* The job of a slot is open and on no other slot.
Working ==
  \A w \in slots : active[w] # None =>
    /\ outcome[active[w]] = "none" /\ active[w] <= arrived
    /\ \A v \in slots : active[v] = active[w] => v = w

\* A job that was not presented yet is open.
Unborn == \A j \in Jobs : j > arrived => outcome[j] = "none"

\* What a dropped worker was on is settled: only close() leaves a run on it.
Dropped == \A w \in Workers : active[w] # None /\ w \notin slots => outcome[active[w]] # "none"

Books == Waiting /\ Working /\ Unborn /\ Dropped

\* The step settles no job twice.
Once == \A j \in Jobs : Settled(j) => outcome'[j] = outcome[j]

\* What an event may hand to #pumpQueue: slots of which some are dropped or become idle.
Freed(S, a, o) ==
  /\ S \subseteq slots /\ a \in [Workers -> Jobs \cup {None}] /\ o \in [Jobs -> Outcomes]
  /\ \A w \in Workers : a[w] \in {None, active[w]}
  /\ \A w \in S : a[w] = None => runs[w] < RecycleAfter

\* It settles open jobs that neither wait nor stay on a slot, and a dropped slot has no run.
Answers(S, a, o) ==
  /\ \A j \in Jobs : o[j] = outcome[j] \/
       /\ outcome[j] = "none" /\ o[j] # "none" /\ j <= arrived
       /\ \A i \in 1 .. Len(queue) : queue[i] # j
       /\ \A v \in S : a[v] # j
  /\ \A w \in slots \ S : a[w] = None

----------------------------------------------------------------------------
(* Sequences                                                               *)

\* The queue after the entries up to n and the one that is dispatched.
LEMMA RestOfQueue ==
  ASSUME NEW T, NEW s \in Seq(T), NEW n \in 0 .. Len(s) - 1
  PROVE  /\ SubSeq(s, n + 2, Len(s)) \in Seq(T)
         /\ Len(SubSeq(s, n + 2, Len(s))) = Len(s) - n - 1
         /\ \A i \in 1 .. Len(s) - n - 1 : SubSeq(s, n + 2, Len(s))[i] = s[n + 1 + i]
<1>1. Len(s) \in Nat /\ n \in Int /\ n + 2 \in Int
  BY LenProperties
<1>2. \A i \in n + 2 .. Len(s) : s[i] \in T
  BY <1>1, ElementOfSeq
<1>3. /\ SubSeq(s, n + 2, Len(s)) \in Seq(T)
      /\ Len(SubSeq(s, n + 2, Len(s))) = IF n + 2 <= Len(s) THEN Len(s) - (n + 2) + 1 ELSE 0
      /\ \A i \in 1 .. Len(s) - (n + 2) + 1 : SubSeq(s, n + 2, Len(s))[i] = s[(n + 2) + i - 1]
  BY <1>1, <1>2, SubSeqProperties
<1>4. Len(s) - (n + 2) + 1 = Len(s) - n - 1 /\ (n + 2 <= Len(s) \/ Len(s) - n - 1 = 0)
  BY <1>1
<1>5. Len(SubSeq(s, n + 2, Len(s))) = Len(s) - n - 1
  BY <1>3, <1>4
<1>6. ASSUME NEW i \in 1 .. Len(s) - n - 1 PROVE SubSeq(s, n + 2, Len(s))[i] = s[n + 1 + i]
  <2>1. i \in 1 .. Len(s) - (n + 2) + 1 /\ (n + 2) + i - 1 = n + 1 + i
    BY <1>1
  <2>2. SubSeq(s, n + 2, Len(s))[i] = s[(n + 2) + i - 1]
    BY <1>3, <2>1
  <2> QED
    BY <2>1, <2>2
<1> QED
  BY <1>3, <1>5, <1>6

\* The queue without its i-th entry.
LEMMA WithoutEntry ==
  ASSUME NEW T, NEW s \in Seq(T), NEW i \in 1 .. Len(s)
  PROVE  /\ Without(s, i) \in Seq(T)
         /\ Len(Without(s, i)) = Len(s) - 1
         /\ \A k \in 1 .. Len(s) - 1 : Without(s, i)[k] = IF k < i THEN s[k] ELSE s[k + 1]
<1>1. Len(s) \in Nat
  BY LenProperties
<1>2. \A k \in 1 .. Len(s) - 1 : (IF k < i THEN s[k] ELSE s[k + 1]) \in T
  BY <1>1, ElementOfSeq
<1>3. Without(s, i) \in [1 .. Len(s) - 1 -> T]
  BY <1>2 DEF Without
<1>4. Len(s) - 1 \in Nat
  BY <1>1
<1>5. Without(s, i) \in Seq(T)
  BY <1>3, <1>4, SeqDef
<1>6. DOMAIN Without(s, i) = 1 .. Len(Without(s, i)) /\ Len(Without(s, i)) \in Nat
  BY <1>5, LenProperties
<1>7. Len(Without(s, i)) = Len(s) - 1
  BY <1>3, <1>4, <1>6
<1> QED
  BY <1>5, <1>7 DEF Without

----------------------------------------------------------------------------
(* #pumpQueue                                                              *)

\* The worker #pumpQueue takes: an idle slot, or one it spawns while there is room.
LEMMA CandidateType ==
  ASSUME Typed, NEW S \in SUBSET slots, NEW a \in [Workers -> Jobs \cup {None}], NEW w \in Candidates(S, a),
         \A v \in S : a[v] = None => runs[v] < RecycleAfter
  PROVE  /\ w \in Workers /\ runs[w] < RecycleAfter
         /\ IsFiniteSet(S \cup {w}) /\ Cardinality(S \cup {w}) <= MaxWorkers
         /\ (w \in S /\ a[w] = None) \/ (w \notin slots /\ active[w] = None /\ Cardinality(S) < MaxWorkers /\ \A v \in S : a[v] # None)
<1>1. IsFiniteSet(S) /\ Cardinality(S) <= Cardinality(slots) /\ Cardinality(S) \in Nat
  BY FS_Subset, FS_CardinalityType DEF Typed, Fresh
<1>2. Cardinality(slots) <= MaxWorkers /\ S \subseteq Workers /\ Cardinality(slots) \in Nat
  BY FS_CardinalityType DEF Typed, TypeOK, Fresh
<1>3. CASE w \in S /\ a[w] = None
  <2>1. S \cup {w} = S
    BY <1>3
  <2> QED
    BY <1>1, <1>2, <1>3, <2>1, MaxWorkersPositive
<1>4. CASE w \in Workers \ S /\ thread[w] = "none" /\ Cardinality(S) < MaxWorkers /\ \A v \in S : a[v] # None
  <2>1. w \notin slots /\ runs[w] = 0 /\ active[w] = None
    BY <1>4 DEF Typed, Fresh
  <2>2. IsFiniteSet(S \cup {w}) /\ Cardinality(S \cup {w}) = Cardinality(S) + 1
    BY <1>1, <1>4, FS_AddElement
  <2> QED
    BY <1>1, <1>4, <2>1, <2>2, MaxWorkersPositive, RecyclePositive
<1> QED
  BY <1>3, <1>4 DEF Candidates

\* #dispatch of one of the queued jobs, or of the one that is being presented.
LEMMA DispatchTyped ==
  ASSUME Typed, NEW S \in SUBSET slots, NEW a \in [Workers -> Jobs \cup {None}], NEW w \in Candidates(S, a),
         \A v \in Workers : a[v] \in {None, active[v]},
         \A v \in S : a[v] = None => runs[v] < RecycleAfter, NEW j \in Jobs, Dispatch(w, j, S, a)
  PROVE  /\ slots' \subseteq Workers /\ Cardinality(slots') <= MaxWorkers
         /\ active' \in [Workers -> Jobs \cup {None}] /\ runs' \in [Workers -> 0 .. RecycleAfter]
         /\ thread' \in [Workers -> {"none", "live", "exited"}] /\ toWorker' \in [Workers -> Seq(Messages)]
         /\ Fresh'
<1>1. /\ w \in Workers /\ runs[w] < RecycleAfter
      /\ IsFiniteSet(S \cup {w}) /\ Cardinality(S \cup {w}) <= MaxWorkers
  BY CandidateType
<1>2. /\ slots' = S \cup {w} /\ thread' = [thread EXCEPT ![w] = "live"] /\ runs' = [runs EXCEPT ![w] = @ + 1]
      /\ active' = [a EXCEPT ![w] = j] /\ toWorker' = [toWorker EXCEPT ![w] = Append(@, Run(j))]
  BY DEF Dispatch
<1>3. slots \subseteq Workers /\ runs \in [Workers -> 0 .. RecycleAfter]
      /\ thread \in [Workers -> {"none", "live", "exited"}] /\ toWorker \in [Workers -> Seq(Messages)]
  BY DEF Typed, TypeOK
<1>4. runs[w] + 1 \in 0 .. RecycleAfter
  BY <1>1, <1>3, RecyclePositive
<1>5. Append(toWorker[w], Run(j)) \in Seq(Messages)
  <2>1. Run(j) \in Messages
    BY DEF Run, Messages
  <2> QED
    BY <1>1, <1>3, <2>1, AppendProperties
<1>6. j # None
  BY NoneIsNothing
<1>7. Fresh'
  <2>1. \A v \in Workers : thread'[v] = "none" => runs'[v] = 0 /\ active'[v] = None /\ v \notin slots'
    BY <1>1, <1>2, <1>3 DEF Typed, Fresh
  <2>2. \A v \in slots' : active'[v] = None => runs'[v] < RecycleAfter
    BY <1>1, <1>2, <1>3, <1>6
  <2> QED
    BY <1>1, <1>2, <2>1, <2>2 DEF Fresh
<1> QED
  BY <1>1, <1>2, <1>3, <1>4, <1>5, <1>7

LEMMA BelowLast ==
  ASSUME NEW last \in Nat, NEW n \in 0 .. last, n # last PROVE n < last /\ n \in 0 .. last - 1
  OBVIOUS

\* The ways #pumpQueue ends: nothing to hand out or nobody to hand it to; every entry it
\* looked at was exhausted; or the entry after n exhausted ones is dispatched.
LEMMA PumpCases ==
  ASSUME Typed, NEW S, NEW a, NEW o, Pump(S, a, o), Freed(S, a, o)
  PROVE  \/ /\ queue = <<>> \/ Full(S, a)
            /\ slots' = S /\ active' = a /\ outcome' = o
            /\ UNCHANGED <<queue, overdue, thread, runs, toWorker>>
         \/ \E w \in Candidates(S, a) :
              /\ overdue' = {} /\ queue' = <<>>
              /\ outcome' = [j \in Jobs |-> IF \E i \in 1 .. Len(queue) : queue[i] = j THEN "queue_timeout" ELSE o[j]]
              /\ slots' = S \cup {w} /\ active' = a /\ thread' = [thread EXCEPT ![w] = "live"]
              /\ UNCHANGED <<runs, toWorker>>
         \/ \E w \in Candidates(S, a), n \in 0 .. Len(queue) - 1 :
              /\ queue # <<>> /\ overdue' \subseteq overdue
              /\ \A i \in 1 .. n + 1 : queue[i] \notin overdue'
              /\ queue' = SubSeq(queue, n + 2, Len(queue))
              /\ outcome' = [j \in Jobs |-> IF \E i \in 1 .. n : queue[i] = j THEN "queue_timeout" ELSE o[j]]
              /\ Dispatch(w, queue[n + 1], S, a)
<1>1. Len(queue) \in Nat /\ DOMAIN queue = 1 .. Len(queue)
  BY LenProperties DEF Typed, TypeOK
<1>2. CASE queue = <<>> \/ Full(S, a)
  BY <1>2 DEF Pump
<1>3. ASSUME queue # <<>>, ~Full(S, a),
             NEW w \in Candidates(S, a), NEW n \in 0 .. Len(queue), OverduePrefix(n),
             outcome' = [j \in Jobs |-> IF j \in {queue[i] : i \in 1 .. n} THEN "queue_timeout" ELSE o[j]],
             overdue' = overdue \ {queue[i] : i \in 1 .. n}
      PROVE  /\ outcome' = [j \in Jobs |-> IF \E i \in 1 .. n : queue[i] = j THEN "queue_timeout" ELSE o[j]]
             /\ n = Len(queue) => overdue' = {}
             /\ n # Len(queue) => \A i \in 1 .. n + 1 : queue[i] \notin overdue'
             /\ n # Len(queue) => n \in 0 .. Len(queue) - 1
  <2>1. outcome' = [j \in Jobs |-> IF \E i \in 1 .. n : queue[i] = j THEN "queue_timeout" ELSE o[j]]
    <3>1. \A j \in Jobs : j \in {queue[i] : i \in 1 .. n} <=> \E i \in 1 .. n : queue[i] = j
      OBVIOUS
    <3> QED
      BY <1>3, <3>1
  <2>2. ASSUME n = Len(queue) PROVE overdue' = {}
    <3>1. overdue \subseteq {queue[i] : i \in 1 .. n}
      BY <1>1, <2>2 DEF Typed, TypeOK, Range
    <3> QED
      BY <1>3, <3>1
  <2>3. ASSUME n # Len(queue), NEW i \in 1 .. n + 1 PROVE queue[i] \notin overdue'
    <3>1. CASE i \in 1 .. n
      BY <1>3, <3>1
    <3>2. CASE i = n + 1
      <4>1. n < Len(queue)
        BY <1>1, <2>3, BelowLast
      <4>2. queue[n + 1] \notin overdue
        BY <1>3, <4>1 DEF OverduePrefix
      <4> QED
        BY <1>3, <3>2, <4>2
    <3> QED
      BY <1>1, <3>1, <3>2
  <2>4. n # Len(queue) => n \in 0 .. Len(queue) - 1
    BY <1>1, BelowLast
  <2> QED
    BY <2>1, <2>2, <2>3, <2>4
<1>4. CASE ~(queue = <<>> \/ Full(S, a))
  <2>1. PICK w \in Candidates(S, a), n \in 0 .. Len(queue) :
          /\ OverduePrefix(n)
          /\ outcome' = [j \in Jobs |-> IF j \in {queue[i] : i \in 1 .. n} THEN "queue_timeout" ELSE o[j]]
          /\ overdue' = overdue \ {queue[i] : i \in 1 .. n}
          /\ IF n = Len(queue)
             THEN /\ queue' = <<>>
                  /\ slots' = S \cup {w} /\ active' = a /\ UNCHANGED toWorker
                  /\ thread' = [thread EXCEPT ![w] = "live"] /\ UNCHANGED runs
             ELSE queue' = SubSeq(queue, n + 2, Len(queue)) /\ Dispatch(w, queue[n + 1], S, a)
    BY <1>4 DEF Pump
  <2>2. /\ outcome' = [j \in Jobs |-> IF \E i \in 1 .. n : queue[i] = j THEN "queue_timeout" ELSE o[j]]
        /\ n = Len(queue) => overdue' = {}
        /\ n # Len(queue) => \A i \in 1 .. n + 1 : queue[i] \notin overdue'
        /\ n # Len(queue) => n \in 0 .. Len(queue) - 1
    BY <1>3, <1>4, <2>1
  <2>3. CASE n = Len(queue)
    BY <2>1, <2>2, <2>3
  <2>4. CASE n # Len(queue)
    <3>1. overdue' \subseteq overdue
      BY <2>1
    <3> QED
      BY <1>4, <2>1, <2>2, <2>4, <3>1
  <2> QED
    BY <2>3, <2>4
<1> QED
  BY <1>2, <1>4

LEMMA PumpTyped ==
  ASSUME Typed, NEW S, NEW a, NEW o, Pump(S, a, o), Freed(S, a, o)
  PROVE  PumpTypes'
<1>1. /\ queue \in Seq(Jobs) /\ overdue \subseteq Range(queue) /\ slots \subseteq Workers
      /\ runs \in [Workers -> 0 .. RecycleAfter] /\ thread \in [Workers -> {"none", "live", "exited"}]
      /\ toWorker \in [Workers -> Seq(Messages)] /\ Fresh /\ Cardinality(slots) <= MaxWorkers
  BY DEF Typed, TypeOK
<1>2. /\ S \in SUBSET slots /\ a \in [Workers -> Jobs \cup {None}] /\ o \in [Jobs -> Outcomes]
      /\ \A v \in S : a[v] = None => runs[v] < RecycleAfter
      /\ \A v \in Workers : a[v] \in {None, active[v]}
  BY DEF Freed
<1>3. Len(queue) \in Nat /\ DOMAIN queue = 1 .. Len(queue)
  BY <1>1, LenProperties
<1>4. CASE /\ slots' = S /\ active' = a /\ outcome' = o
           /\ UNCHANGED <<queue, overdue, thread, runs, toWorker>>
  <2>1. IsFiniteSet(S) /\ Cardinality(S) <= MaxWorkers
    <3>1. Cardinality(S) <= Cardinality(slots) /\ IsFiniteSet(S)
      BY <1>1, <1>2, FS_Subset DEF Fresh
    <3>2. Cardinality(S) \in Nat /\ Cardinality(slots) \in Nat
      BY <1>1, <3>1, FS_CardinalityType DEF Fresh
    <3> QED
      BY <1>1, <3>1, <3>2, MaxWorkersPositive
  <2>2. Fresh'
    BY <1>1, <1>2, <1>4, <2>1 DEF Fresh
  <2> QED
    BY <1>1, <1>2, <1>4, <2>1, <2>2 DEF PumpTypes
<1>5. ASSUME NEW w \in Candidates(S, a), overdue' = {}, queue' = <<>>,
             outcome' = [j \in Jobs |-> IF \E i \in 1 .. Len(queue) : queue[i] = j THEN "queue_timeout" ELSE o[j]],
             slots' = S \cup {w}, active' = a, thread' = [thread EXCEPT ![w] = "live"], UNCHANGED <<runs, toWorker>>
      PROVE  /\ queue' \in Seq(Jobs) /\ overdue' \subseteq Range(queue') /\ outcome' \in [Jobs -> Outcomes]
             /\ slots' \subseteq Workers /\ Cardinality(slots') <= MaxWorkers
             /\ thread' \in [Workers -> {"none", "live", "exited"}]
             /\ Fresh'
  <2>1. /\ w \in Workers /\ runs[w] < RecycleAfter
        /\ IsFiniteSet(S \cup {w}) /\ Cardinality(S \cup {w}) <= MaxWorkers
    BY <1>2, CandidateType
  <2>2. Fresh'
    BY <1>1, <1>2, <1>5, <2>1 DEF Fresh
  <2>3. outcome' \in [Jobs -> Outcomes]
    BY <1>2, <1>5 DEF Outcomes
  <2> QED
    BY <1>1, <1>2, <1>5, <2>1, <2>2, <2>3, EmptySeq
<1>6. ASSUME NEW w \in Candidates(S, a), NEW n \in 0 .. Len(queue) - 1, overdue' \subseteq overdue,
             \A i \in 1 .. n + 1 : queue[i] \notin overdue', queue' = SubSeq(queue, n + 2, Len(queue)),
             outcome' = [j \in Jobs |-> IF \E i \in 1 .. n : queue[i] = j THEN "queue_timeout" ELSE o[j]]
      PROVE  /\ queue[n + 1] \in Jobs
             /\ queue' \in Seq(Jobs) /\ overdue' \subseteq Range(queue') /\ outcome' \in [Jobs -> Outcomes]
  <2>1. /\ queue' \in Seq(Jobs) /\ Len(queue') = Len(queue) - n - 1
        /\ \A i \in 1 .. Len(queue) - n - 1 : queue'[i] = queue[n + 1 + i]
    BY <1>1, <1>6, RestOfQueue
  <2>2. DOMAIN queue' = 1 .. Len(queue) - n - 1
    BY <2>1, LenProperties
  <2>3. ASSUME NEW j \in overdue' PROVE j \in Range(queue')
    <3>1. PICK i \in 1 .. Len(queue) : queue[i] = j
      BY <1>1, <1>3, <1>6 DEF Range
    <3>2. i \notin 1 .. n + 1
      BY <1>6, <3>1
    <3>3. i - (n + 1) \in 1 .. Len(queue) - n - 1 /\ n + 1 + (i - (n + 1)) = i
      BY <1>3, <3>2
    <3>4. queue'[i - (n + 1)] = j
      BY <2>1, <3>1, <3>3
    <3> QED
      BY <2>2, <3>3, <3>4 DEF Range
  <2>4. n + 1 \in 1 .. Len(queue)
    BY <1>3
  <2>5. queue[n + 1] \in Jobs
    BY <1>1, <2>4, ElementOfSeq
  <2>6. outcome' \in [Jobs -> Outcomes]
    BY <1>2, <1>6 DEF Outcomes
  <2> QED
    BY <2>1, <2>3, <2>5, <2>6
<1> QED
  <2>1. CASE \E w \in Candidates(S, a) :
              /\ overdue' = {} /\ queue' = <<>>
              /\ outcome' = [j \in Jobs |-> IF \E i \in 1 .. Len(queue) : queue[i] = j THEN "queue_timeout" ELSE o[j]]
              /\ slots' = S \cup {w} /\ active' = a /\ thread' = [thread EXCEPT ![w] = "live"]
              /\ UNCHANGED <<runs, toWorker>>
    BY <1>1, <1>2, <1>5, <2>1 DEF PumpTypes
  <2>2. CASE \E w \in Candidates(S, a), n \in 0 .. Len(queue) - 1 :
              /\ queue # <<>> /\ overdue' \subseteq overdue
              /\ \A i \in 1 .. n + 1 : queue[i] \notin overdue'
              /\ queue' = SubSeq(queue, n + 2, Len(queue))
              /\ outcome' = [j \in Jobs |-> IF \E i \in 1 .. n : queue[i] = j THEN "queue_timeout" ELSE o[j]]
              /\ Dispatch(w, queue[n + 1], S, a)
    <3>1. PICK w \in Candidates(S, a), n \in 0 .. Len(queue) - 1 :
              /\ queue # <<>> /\ overdue' \subseteq overdue
              /\ \A i \in 1 .. n + 1 : queue[i] \notin overdue'
              /\ queue' = SubSeq(queue, n + 2, Len(queue))
              /\ outcome' = [j \in Jobs |-> IF \E i \in 1 .. n : queue[i] = j THEN "queue_timeout" ELSE o[j]]
              /\ Dispatch(w, queue[n + 1], S, a)
      BY <2>2
    <3>2. /\ queue[n + 1] \in Jobs
          /\ queue' \in Seq(Jobs) /\ overdue' \subseteq Range(queue') /\ outcome' \in [Jobs -> Outcomes]
      BY <1>6, <3>1
    <3>3. /\ slots' \subseteq Workers /\ Cardinality(slots') <= MaxWorkers
          /\ active' \in [Workers -> Jobs \cup {None}] /\ runs' \in [Workers -> 0 .. RecycleAfter]
          /\ thread' \in [Workers -> {"none", "live", "exited"}] /\ toWorker' \in [Workers -> Seq(Messages)]
          /\ Fresh'
      BY <1>2, <3>1, <3>2, DispatchTyped
    <3> QED
      BY <3>2, <3>3 DEF PumpTypes
  <2> QED
    BY <1>4, <2>1, <2>2, PumpCases

----------------------------------------------------------------------------
(* Type correctness                                                        *)

LEMMA InitTyped == Init => Typed
<1> SUFFICES ASSUME Init PROVE PumpTypes /\ OtherTypes
  BY TypedParts
<1>1. IsFiniteSet({}) /\ Cardinality({}) = 0
  BY FS_EmptySet
<1>2. <<>> \in Seq(Jobs) /\ <<>> \in Seq(Messages)
  BY EmptySeq
<1>3. PumpTypes
  BY <1>1, <1>2, MaxWorkersPositive, RecyclePositive DEF Init, PumpTypes, Fresh, Outcomes
<1>4. OtherTypes
  <2>1. 0 \in 0 .. NumJobs /\ 0 \in 0 .. MaxCalls /\ 0 \in 0 .. MaxDeaths
    BY BoundsNat
  <2> QED
    BY <1>2, <2>1 DEF Init, OtherTypes
<1> QED
  BY <1>3, <1>4

LEMMA PumpStays ==
  PumpTypes /\ UNCHANGED <<queue, overdue, slots, active, runs, outcome, thread, toWorker>> => PumpTypes'
  BY DEF PumpTypes, Fresh

LEMMA OthersStay ==
  OtherTypes /\ UNCHANGED <<closed, arrived, serving, task, suspended, calls, deaths, toMain>> => OtherTypes'
  BY DEF OtherTypes

\* The events that take a run off its worker.
ResultSlots(w) == IF runs[w] >= RecycleAfter THEN slots \ {w} ELSE slots
Cleared(w) == [active EXCEPT ![w] = None]

LEMMA ResultFrees ==
  ASSUME Typed, NEW w \in Workers, NEW j \in Jobs
  PROVE  Freed(ResultSlots(w), Cleared(w), [outcome EXCEPT ![j] = "answered"])
<1>1. \A v \in ResultSlots(w) : Cleared(w)[v] = None => runs[v] < RecycleAfter
  <2>1. w \in ResultSlots(w) => runs[w] < RecycleAfter
    BY RecyclePositive DEF ResultSlots, Typed, TypeOK
  <2> QED
    BY <2>1 DEF ResultSlots, Cleared, Typed, TypeOK, Fresh
<1> QED
  BY <1>1 DEF Freed, ResultSlots, Cleared, Typed, TypeOK, Outcomes

LEMMA DropFrees ==
  ASSUME Typed, NEW w \in slots, NEW o \in [Jobs -> Outcomes]
  PROVE  Freed(slots \ {w}, Cleared(w), o)
  BY DEF Freed, Cleared, Typed, TypeOK, Fresh

LEMMA ResultPumps ==
  ASSUME Typed, NEW w \in Workers, OnResult(w), Concerns(w, Head(toMain[w]))
  PROVE  /\ active[w] \in Jobs /\ ~Settled(active[w])
         /\ Pump(ResultSlots(w), Cleared(w), [outcome EXCEPT ![active[w]] = "answered"])
<1>1. Head(toMain[w]) \in Messages
  BY HeadTailProperties DEF OnResult, Typed, TypeOK
<1>2. Head(toMain[w]).job \in Jobs
  BY <1>1 DEF Messages
<1> QED
  BY <1>2 DEF OnResult, Concerns, ResultSlots, Cleared

LEMMA EventsTyped ==
  ASSUME Typed, NEW w \in Workers, OnResult(w) \/ OnDeadline(w) \/ OnWorkerLost(w)
  PROVE  Typed'
<1>0. PumpTypes /\ OtherTypes
  BY TypedParts
<1>1. CASE OnResult(w)
  <2>1. toMain' \in [Workers -> Seq(Messages)]
    <3>1. Tail(toMain[w]) \in Seq(Messages)
      BY <1>0, <1>1, HeadTailProperties DEF OnResult, OtherTypes
    <3> QED
      BY <1>0, <1>1, <3>1 DEF OnResult, OtherTypes
  <2>2. OtherTypes'
    BY <1>0, <1>1, <2>1 DEF OnResult, OtherTypes, pool, threads
  <2>3. PumpTypes'
    <3>1. CASE Concerns(w, Head(toMain[w]))
      BY <1>1, <3>1, ResultPumps, ResultFrees, PumpTyped
    <3>2. CASE ~Concerns(w, Head(toMain[w]))
      BY <1>0, <1>1, <3>2, PumpStays DEF OnResult, pool, threads
    <3> QED
      BY <3>1, <3>2
  <2> QED
    BY <2>2, <2>3, TypedPartsNext
<1>2. CASE OnDeadline(w)
  <2>1. [outcome EXCEPT ![active[w]] = "timeout"] \in [Jobs -> Outcomes]
    BY <1>0 DEF PumpTypes, Outcomes
  <2>2. PumpTypes'
    BY <1>2, <2>1, DropFrees, PumpTyped DEF OnDeadline, Cleared
  <2> QED
    BY <1>0, <1>2, <2>2, OthersStay, TypedPartsNext DEF OnDeadline
<1>3. CASE OnWorkerLost(w)
  <2> DEFINE o == IF active[w] = None THEN outcome ELSE [outcome EXCEPT ![active[w]] = "lost"]
  <2>1. o \in [Jobs -> Outcomes]
    BY <1>0 DEF PumpTypes, Outcomes
  <2>2. PumpTypes'
    BY <1>3, <2>1, DropFrees, PumpTyped DEF OnWorkerLost, Cleared
  <2> QED
    BY <1>0, <1>3, <2>2, OthersStay, TypedPartsNext DEF OnWorkerLost
<1> QED
  BY <1>1, <1>2, <1>3

LEMMA CallerTyped ==
  ASSUME Typed, NEW j \in Jobs, Execute(j) \/ Elapse(j) \/ ExpireQueued(j)
  PROVE  Typed'
<1>0. PumpTypes /\ OtherTypes
  BY TypedParts
<1>1. CASE Execute(j)
  <2>1. arrived' \in 0 .. NumJobs
    BY <1>1, BoundsNat DEF Execute, Jobs
  <2>2. OtherTypes'
    BY <1>0, <1>1, <2>1 DEF Execute, OtherTypes
  <2>0. overdue' = overdue
    BY <1>1 DEF Execute
  <2>3. ASSUME outcome' = [outcome EXCEPT ![j] = "closed"],
               UNCHANGED <<queue, slots, active, runs, thread, toWorker>>
        PROVE  PumpTypes'
    BY <1>0, <2>0, <2>3 DEF PumpTypes, Fresh, Outcomes
  <2>4. ASSUME \E w \in Candidates(slots, active) : Dispatch(w, j, slots, active), UNCHANGED <<queue, outcome>>
        PROVE  PumpTypes'
    <3>1. PICK w \in Candidates(slots, active) : Dispatch(w, j, slots, active)
      BY <2>4
    <3>2. /\ slots \in SUBSET slots /\ active \in [Workers -> Jobs \cup {None}]
          /\ \A v \in Workers : active[v] \in {None, active[v]}
          /\ \A v \in slots : active[v] = None => runs[v] < RecycleAfter
      BY <1>0 DEF PumpTypes, Fresh
    <3>3. /\ slots' \subseteq Workers /\ Cardinality(slots') <= MaxWorkers
          /\ active' \in [Workers -> Jobs \cup {None}] /\ runs' \in [Workers -> 0 .. RecycleAfter]
          /\ thread' \in [Workers -> {"none", "live", "exited"}] /\ toWorker' \in [Workers -> Seq(Messages)]
          /\ Fresh'
      BY <3>1, <3>2, DispatchTyped
    <3> QED
      BY <1>0, <2>0, <2>4, <3>3 DEF PumpTypes
  <2>5. ASSUME Enqueue(j) PROVE PumpTypes'
    <3>1. /\ Append(queue, j) \in Seq(Jobs)
          /\ Len(Append(queue, j)) = Len(queue) + 1
          /\ \A i \in 1 .. Len(queue) : Append(queue, j)[i] = queue[i]
      BY <1>0, AppendProperties DEF PumpTypes
    <3>2. DOMAIN queue = 1 .. Len(queue) /\ Len(queue) \in Nat
      BY <1>0, LenProperties DEF PumpTypes
    <3>3. DOMAIN Append(queue, j) = 1 .. Len(queue) + 1
      BY <3>1, LenProperties
    <3>4. Range(queue) \subseteq Range(Append(queue, j))
      BY <3>1, <3>2, <3>3 DEF Range
    <3> QED
      <4>1. overdue \subseteq Range(Append(queue, j))
        BY <1>0, <3>4 DEF PumpTypes
      <4> QED
        BY <1>0, <2>0, <2>5, <3>1, <4>1 DEF Enqueue, PumpTypes, Fresh
  <2>6. \/ closed /\ outcome' = [outcome EXCEPT ![j] = "closed"]
           /\ UNCHANGED <<queue, slots, active, runs, thread, toWorker>>
        \/ (\E w \in Candidates(slots, active) : Dispatch(w, j, slots, active)) /\ UNCHANGED <<queue, outcome>>
        \/ Enqueue(j)
    BY <1>1 DEF Execute
  <2>7. PumpTypes'
    BY <2>3, <2>4, <2>5, <2>6
  <2> QED
    BY <2>2, <2>7, TypedPartsNext
<1>2. CASE Elapse(j)
  <2>1. PumpTypes'
    BY <1>0, <1>2 DEF Elapse, PumpTypes, Fresh, threads
  <2> QED
    BY <1>0, <1>2, <2>1, OthersStay, TypedPartsNext DEF Elapse, threads
<1>3. CASE ExpireQueued(j)
  <2>1. PICK i \in DOMAIN queue : queue[i] = j /\ queue' = Without(queue, i)
    BY <1>3 DEF ExpireQueued
  <2>2. DOMAIN queue = 1 .. Len(queue) /\ Len(queue) \in Nat
    BY <1>0, LenProperties DEF PumpTypes
  <2>3. /\ queue' \in Seq(Jobs) /\ Len(queue') = Len(queue) - 1
        /\ \A k \in 1 .. Len(queue) - 1 : queue'[k] = IF k < i THEN queue[k] ELSE queue[k + 1]
    <3>1. queue \in Seq(Jobs) /\ i \in 1 .. Len(queue)
      BY <1>0, <2>2 DEF PumpTypes
    <3> QED BY <2>1, <3>1, WithoutEntry
  <2>4. DOMAIN queue' = 1 .. Len(queue) - 1
    BY <2>3, LenProperties
  <2>5. ASSUME NEW x \in overdue' PROVE x \in Range(queue')
    <3>1. x # j /\ x \in Range(queue)
      BY <1>0, <1>3 DEF ExpireQueued, PumpTypes
    <3>2. PICK k \in 1 .. Len(queue) : queue[k] = x
      BY <2>2, <3>1 DEF Range
    <3>3. k # i
      BY <2>1, <3>1, <3>2
    <3>4. CASE k < i
      <4>1. k \in 1 .. Len(queue) - 1
        BY <2>1, <2>2, <3>4
      <4>2. queue'[k] = x
        BY <2>3, <3>2, <3>4, <4>1
      <4> QED
        BY <2>4, <4>1, <4>2 DEF Range
    <3>5. CASE k > i
      <4>1. k - 1 \in 1 .. Len(queue) - 1 /\ ~(k - 1 < i) /\ k - 1 + 1 = k
        BY <2>1, <2>2, <3>5
      <4>2. queue'[k - 1] = x
        BY <2>3, <3>2, <4>1
      <4> QED
        BY <2>4, <4>1, <4>2 DEF Range
    <3> QED
      BY <2>1, <2>2, <3>3, <3>4, <3>5
  <2>6. PumpTypes'
    BY <1>0, <1>3, <2>3, <2>5 DEF ExpireQueued, PumpTypes, Fresh, Outcomes, threads
  <2> QED
    BY <1>0, <1>3, <2>6, OthersStay, TypedPartsNext DEF ExpireQueued, threads
<1> QED
  BY <1>1, <1>2, <1>3

LEMMA HeadType ==
  ASSUME NEW f \in [Workers -> Seq(Messages)], NEW w \in Workers, f[w] # <<>>
  PROVE  Head(f[w]).job \in Jobs /\ Tail(f[w]) \in Seq(Messages)
<1>1. Head(f[w]) \in Messages /\ Tail(f[w]) \in Seq(Messages)
  BY HeadTailProperties
<1> QED
  BY <1>1 DEF Messages

LEMMA AppendType ==
  ASSUME NEW f \in [Workers -> Seq(Messages)], NEW w \in Workers, NEW m \in Messages
  PROVE  [f EXCEPT ![w] = Append(@, m)] \in [Workers -> Seq(Messages)]
<1>1. Append(f[w], m) \in Seq(Messages)
  BY AppendProperties
<1> QED
  BY <1>1

LEMMA CallsTyped ==
  ASSUME Typed, NEW w \in Workers, OnCall(w) \/ (\E j \in Jobs : Respond(w, j)) \/ Forget(w)
  PROVE  Typed'
<1>0. PumpTypes /\ OtherTypes
  BY TypedParts
<1>1. CASE OnCall(w)
  <2>1. Head(toMain[w]).job \in Jobs /\ Tail(toMain[w]) \in Seq(Messages)
    BY <1>0, <1>1, HeadType DEF OnCall, OtherTypes
  <2>2. serving' \subseteq Workers \X Jobs
    BY <1>0, <1>1, <2>1 DEF OnCall, OtherTypes, Concerns
  <2>3. OtherTypes'
    BY <1>0, <1>1, <2>1, <2>2 DEF OnCall, OtherTypes, threads
  <2> QED
    BY <1>0, <1>1, <2>3, PumpStays, TypedPartsNext DEF OnCall, threads
<1>2. ASSUME NEW j \in Jobs, Respond(w, j) PROVE Typed'
  <2>1. Reply(j) \in Messages
    BY DEF Reply, Messages
  <2>2. toWorker' \in [Workers -> Seq(Messages)]
    BY <1>0, <1>2, <2>1, AppendType DEF Respond, PumpTypes
  <2>3. PumpTypes'
    BY <1>0, <1>2, <2>2 DEF Respond, PumpTypes, Fresh, threads
  <2>4. OtherTypes'
    BY <1>0, <1>2 DEF Respond, OtherTypes, threads
  <2> QED
    BY <2>3, <2>4, TypedPartsNext
<1>3. CASE Forget(w)
  <2>1. <<>> \in Seq(Messages)
    BY EmptySeq
  <2>2. PumpTypes'
    BY <1>0, <1>3, <2>1, RecyclePositive DEF Forget, PumpTypes, Fresh
  <2>3. OtherTypes'
    BY <1>0, <1>3, <2>1 DEF Forget, OtherTypes
  <2> QED
    BY <2>2, <2>3, TypedPartsNext
<1> QED
  BY <1>1, <1>2, <1>3

LEMMA CloseTyped == ASSUME Typed, Close PROVE Typed'
<1>0. PumpTypes /\ OtherTypes
  BY TypedParts
<1>1. IsFiniteSet({}) /\ Cardinality({}) = 0 /\ <<>> \in Seq(Jobs)
  BY FS_EmptySet, EmptySeq
<1>2. outcome' \in [Jobs -> Outcomes]
  BY <1>0 DEF Close, PumpTypes, Outcomes
<1>3. PumpTypes'
  BY <1>0, <1>1, <1>2, MaxWorkersPositive DEF Close, PumpTypes, Fresh, threads
<1>4. OtherTypes'
  BY <1>0 DEF Close, OtherTypes, threads
<1> QED
  BY <1>3, <1>4, TypedPartsNext

LEMMA ThreadsTyped == ASSUME Typed, NEW w \in Workers, Thread(w) PROVE Typed'
<1>0. PumpTypes /\ OtherTypes
  BY TypedParts
<1>1. CASE TakeRun(w) \/ TakeReply(w)
  <2>1. Head(toWorker[w]).job \in Jobs /\ Tail(toWorker[w]) \in Seq(Messages)
    BY <1>0, <1>1, HeadType DEF TakeRun, TakeReply, PumpTypes
  <2>2. PumpTypes'
    BY <1>0, <1>1, <2>1 DEF TakeRun, TakeReply, PumpTypes, Fresh, pool
  <2>3. OtherTypes'
    BY <1>0, <1>1, <2>1 DEF TakeRun, TakeReply, OtherTypes, pool
  <2> QED
    BY <2>2, <2>3, TypedPartsNext
<1>2. CASE CallHost(w) \/ Finish(w)
  <2>1. task[w] \in Jobs /\ calls \in [Jobs -> 0 .. MaxCalls] /\ toMain \in [Workers -> Seq(Messages)]
    BY <1>0, <1>2 DEF CallHost, Finish, OtherTypes
  <2>2. Call(task[w]) \in Messages /\ Result(task[w]) \in Messages
    BY <2>1 DEF Call, Result, Messages
  <2>3. \E m \in Messages : toMain' = [toMain EXCEPT ![w] = Append(@, m)]
    BY <1>2, <2>2 DEF CallHost, Finish
  <2>4. toMain' \in [Workers -> Seq(Messages)]
    BY <2>1, <2>3, AppendType
  <2>5. calls' \in [Jobs -> 0 .. MaxCalls]
    <3>1. CASE CallHost(w)
      <4>1. calls[task[w]] < MaxCalls /\ calls' = [calls EXCEPT ![task[w]] = @ + 1]
        BY <3>1 DEF CallHost
      <4>2. calls[task[w]] + 1 \in 0 .. MaxCalls
        BY <2>1, <4>1, BoundsNat
      <4> QED
        BY <2>1, <4>1, <4>2
    <3>2. CASE Finish(w)
      BY <2>1, <3>2 DEF Finish
    <3> QED
      BY <1>2, <3>1, <3>2
  <2>6. UNCHANGED <<closed, arrived, serving, deaths>>
    BY <1>2 DEF CallHost, Finish, pool
  <2>7. task' \in [Workers -> Jobs \cup {None}] /\ suspended' \in [Workers -> BOOLEAN]
    BY <1>0, <1>2 DEF CallHost, Finish, OtherTypes
  <2>8. OtherTypes'
    BY <1>0, <2>4, <2>5, <2>6, <2>7 DEF OtherTypes
  <2>9. PumpTypes'
    BY <1>0, <1>2, PumpStays DEF CallHost, Finish, pool
  <2> QED
    BY <2>8, <2>9, TypedPartsNext
<1>3. CASE Terminated(w) \/ Dies(w)
  <2>1. Ends(w) /\ deaths' \in 0 .. MaxDeaths
    BY <1>0, <1>3, BoundsNat DEF Terminated, Dies, OtherTypes
  <2>2. PumpTypes'
    BY <1>0, <2>1 DEF Ends, PumpTypes, Fresh, pool
  <2>3. OtherTypes'
    BY <1>0, <2>1 DEF Ends, OtherTypes, pool
  <2> QED
    BY <2>2, <2>3, TypedPartsNext
<1> QED
  BY <1>1, <1>2, <1>3 DEF Thread

LEMMA NextTyped == Typed /\ [Next]_vars => Typed'
<1> SUFFICES ASSUME Typed, [Next]_vars PROVE Typed'
  OBVIOUS
<1>1. CASE \E j \in Jobs : Execute(j) \/ Elapse(j) \/ ExpireQueued(j)
  BY <1>1, CallerTyped
<1>2. CASE \E w \in Workers : OnResult(w) \/ OnDeadline(w) \/ OnWorkerLost(w)
  BY <1>2, EventsTyped
<1>3. CASE \E w \in Workers : OnCall(w) \/ Forget(w) \/ \E j \in Jobs : Respond(w, j)
  BY <1>3, CallsTyped
<1>4. CASE Close
  BY <1>4, CloseTyped
<1>5. CASE \E w \in Workers : Thread(w)
  BY <1>5, ThreadsTyped
<1>6. CASE UNCHANGED vars
  BY <1>6, TypedParts, PumpStays, OthersStay, TypedPartsNext DEF vars, pool, threads
<1> QED
  BY <1>1, <1>2, <1>3, <1>4, <1>5, <1>6 DEF Next, Event, Rest

\* Every variable keeps its type, for every number of jobs and workers; in particular the pool
\* never has more workers than it may and none runs longer than until it is recycled.
THEOREM TypeCorrect == Spec => []TypeOK
<1>1. Spec => []Typed
  BY InitTyped, NextTyped, PTL DEF Spec
<1>2. Typed => TypeOK
  BY DEF Typed
<1> QED
  BY <1>1, <1>2, PTL

----------------------------------------------------------------------------
(* A job is settled once                                                   *)

\* Waiting, for one entry.
LEMMA Queued ==
  ASSUME Typed, Books, NEW i \in 1 .. Len(queue)
  PROVE  /\ queue[i] \in Jobs /\ outcome[queue[i]] = "none" /\ queue[i] <= arrived
         /\ \A k \in 1 .. Len(queue) : queue[k] = queue[i] => k = i
         /\ \A w \in slots : active[w] # queue[i]
  BY ElementOfSeq DEF Typed, TypeOK, Books, Waiting

\* What the event keeps of a slot, before a worker is looked for.
LEMMA Kept ==
  ASSUME Typed, Books, NEW S, NEW a, NEW o, Freed(S, a, o), Answers(S, a, o), NEW v \in S, a[v] # None
  PROVE  /\ v \in slots /\ v \in Workers /\ a[v] = active[v] /\ a[v] \in Jobs
         /\ o[a[v]] = "none" /\ a[v] <= arrived
         /\ \A u \in S : a[u] = a[v] => u = v
         /\ \A i \in 1 .. Len(queue) : queue[i] # a[v]
<1>1. v \in slots /\ v \in Workers /\ a[v] = active[v] /\ a[v] \in Jobs
  BY DEF Freed, Typed, TypeOK
<1>2. /\ outcome[a[v]] = "none" /\ a[v] <= arrived
      /\ \A u \in slots : active[u] = a[v] => u = v
  BY <1>1 DEF Books, Working
<1>3. o[a[v]] = outcome[a[v]]
  BY <1>1 DEF Answers
<1>4. ASSUME NEW u \in S, a[u] = a[v] PROVE u = v
  <2>1. u \in slots /\ u \in Workers
    BY DEF Freed, Typed, TypeOK
  <2>2. a[u] = active[u]
    BY <1>4, <2>1 DEF Freed
  <2> QED
    BY <1>1, <1>2, <1>4, <2>1, <2>2
<1>5. \A i \in 1 .. Len(queue) : queue[i] # a[v]
  BY <1>1, Queued
<1> QED
  BY <1>1, <1>2, <1>3, <1>4, <1>5

\* A worker without a slot, before one is looked for.
LEMMA Off ==
  ASSUME Typed, Books, NEW S, NEW a, NEW o, Freed(S, a, o), Answers(S, a, o),
         NEW v \in Workers, v \notin S, a[v] # None
  PROVE  a[v] \in Jobs /\ o[a[v]] # "none" /\ outcome[a[v]] # "none"
<1>1. v \notin slots
  BY DEF Answers
<1>2. a[v] = active[v] /\ a[v] \in Jobs
  BY DEF Freed, Typed, TypeOK
<1>3. outcome[a[v]] # "none"
  BY <1>1, <1>2 DEF Books, Dropped
<1> QED
  BY <1>2, <1>3 DEF Answers

LEMMA PumpBooks ==
  ASSUME Typed, Books, NEW S, NEW a, NEW o, Pump(S, a, o), Freed(S, a, o), Answers(S, a, o),
         arrived' = arrived
  PROVE  Books' /\ Once
<1>0. /\ Len(queue) \in Nat /\ arrived \in Nat /\ slots \subseteq Workers
      /\ queue \in Seq(Jobs) /\ o \in [Jobs -> Outcomes] /\ outcome \in [Jobs -> Outcomes]
      /\ a \in [Workers -> Jobs \cup {None}]
  BY LenProperties, BoundsNat DEF Typed, TypeOK, Freed
<1>1. CASE /\ slots' = S /\ active' = a /\ outcome' = o
           /\ UNCHANGED <<queue, overdue, thread, runs, toWorker>>
  <2>1. Waiting'
    <3> SUFFICES ASSUME NEW i \in 1 .. Len(queue)
                 PROVE  /\ o[queue[i]] = "none" /\ queue[i] <= arrived
                        /\ \A k \in 1 .. Len(queue) : queue[k] = queue[i] => k = i
                        /\ \A w \in S : a[w] # queue[i]
      BY <1>1 DEF Waiting
    <3>1. /\ queue[i] \in Jobs /\ outcome[queue[i]] = "none" /\ queue[i] <= arrived
          /\ \A k \in 1 .. Len(queue) : queue[k] = queue[i] => k = i
      BY Queued
    <3>2. o[queue[i]] = "none"
      BY <3>1 DEF Answers
    <3>3. ASSUME NEW w \in S PROVE a[w] # queue[i]
      BY <3>1, Kept, NoneIsNothing
    <3> QED
      BY <3>1, <3>2, <3>3
  <2>2. Working'
    BY <1>1, Kept DEF Working
  <2>3. Unborn'
    BY <1>0, <1>1 DEF Unborn, Books, Answers, Jobs
  <2>4. Dropped'
    BY <1>1, Off DEF Dropped
  <2>5. Once
    BY <1>1 DEF Once, Settled, Answers
  <2> QED
    BY <2>1, <2>2, <2>3, <2>4, <2>5 DEF Books
<1>2. ASSUME NEW w \in Candidates(S, a), queue' = <<>>,
             outcome' = [j \in Jobs |-> IF \E i \in 1 .. Len(queue) : queue[i] = j THEN "queue_timeout" ELSE o[j]],
             slots' = S \cup {w}, active' = a
      PROVE  Books' /\ Once
  <2>0. w \in Workers /\ a[w] = None
    BY CandidateType, <1>0 DEF Freed
  <2>1. Waiting'
    <3>1. Len(queue') = 0
      BY <1>2
    <3> QED
      BY <3>1 DEF Waiting
  <2>2. Working'
    <3> SUFFICES ASSUME NEW v \in S \cup {w}, a[v] # None
                 PROVE  /\ outcome'[a[v]] = "none" /\ a[v] <= arrived
                        /\ \A u \in S \cup {w} : a[u] = a[v] => u = v
      BY <1>2 DEF Working
    <3>1. v \in S
      BY <2>0
    <3>2. /\ a[v] \in Jobs /\ o[a[v]] = "none" /\ a[v] <= arrived
          /\ \A u \in S : a[u] = a[v] => u = v
          /\ \A i \in 1 .. Len(queue) : queue[i] # a[v]
      BY <3>1, Kept
    <3>3. outcome'[a[v]] = "none"
      BY <1>2, <3>2
    <3> QED
      BY <2>0, <3>2, <3>3
  <2>3. Unborn'
    <3> SUFFICES ASSUME NEW j \in Jobs, j > arrived PROVE outcome'[j] = "none"
      BY DEF Unborn
    <3>1. outcome[j] = "none" /\ o[j] = outcome[j]
      BY <1>0 DEF Books, Unborn, Answers, Jobs
    <3>2. \A i \in 1 .. Len(queue) : queue[i] # j
      BY <1>0, Queued DEF Jobs
    <3> QED
      BY <1>2, <3>1, <3>2
  <2>4. Dropped'
    <3> SUFFICES ASSUME NEW v \in Workers, a[v] # None, v \notin S \cup {w} PROVE outcome'[a[v]] # "none"
      BY <1>2 DEF Dropped
    <3>1. a[v] \in Jobs /\ o[a[v]] # "none"
      BY Off
    <3> QED
      BY <1>2, <3>1
  <2>5. Once
    <3> SUFFICES ASSUME NEW j \in Jobs, outcome[j] # "none" PROVE outcome'[j] = outcome[j]
      BY DEF Once, Settled
    <3>1. o[j] = outcome[j]
      BY DEF Answers
    <3>2. \A i \in 1 .. Len(queue) : queue[i] # j
      BY Queued
    <3> QED
      BY <1>2, <3>1, <3>2
  <2> QED
    BY <2>1, <2>2, <2>3, <2>4, <2>5 DEF Books
<1>3. ASSUME NEW w \in Candidates(S, a), NEW n \in 0 .. Len(queue) - 1,
             queue' = SubSeq(queue, n + 2, Len(queue)),
             outcome' = [j \in Jobs |-> IF \E i \in 1 .. n : queue[i] = j THEN "queue_timeout" ELSE o[j]],
             Dispatch(w, queue[n + 1], S, a)
      PROVE  Books' /\ Once
  <2> DEFINE d == queue[n + 1]
  <2>0. w \in Workers /\ a[w] = None
    BY CandidateType, <1>0 DEF Freed
  <2>1. slots' = S \cup {w} /\ active' = [a EXCEPT ![w] = d]
    BY <1>3 DEF Dispatch
  <2>2. n + 1 \in 1 .. Len(queue)
    BY <1>0
  <2>3. /\ d \in Jobs /\ outcome[d] = "none" /\ d <= arrived
        /\ \A k \in 1 .. Len(queue) : queue[k] = d => k = n + 1
    BY <2>2, Queued
  <2>4. d # None
    BY <2>3, NoneIsNothing
  <2>5. ASSUME NEW j \in Jobs, \A i \in 1 .. Len(queue) : queue[i] # j PROVE outcome'[j] = o[j]
    <3>1. \A i \in 1 .. n : queue[i] # j
      BY <1>0, <2>5
    <3> QED
      BY <1>3, <3>1
  <2>6. ASSUME NEW i \in n + 1 .. Len(queue) PROVE outcome'[queue[i]] = "none"
    <3>1. i \in 1 .. Len(queue)
      BY <1>0
    <3>2. /\ queue[i] \in Jobs /\ outcome[queue[i]] = "none"
          /\ \A k \in 1 .. Len(queue) : queue[k] = queue[i] => k = i
      BY <3>1, Queued
    <3>3. o[queue[i]] = "none"
      BY <3>1, <3>2 DEF Answers
    <3>4. \A k \in 1 .. n : queue[k] # queue[i]
      BY <1>0, <3>2
    <3> QED
      BY <1>3, <3>2, <3>3, <3>4
  <2>7. ASSUME NEW v \in S, v # w, a[v] # None
        PROVE  /\ active'[v] = a[v] /\ a[v] \in Jobs /\ outcome'[a[v]] = "none" /\ a[v] <= arrived
               /\ \A u \in S : a[u] = a[v] => u = v
               /\ \A i \in 1 .. Len(queue) : queue[i] # a[v]
    <3>1. /\ v \in Workers /\ a[v] \in Jobs /\ o[a[v]] = "none" /\ a[v] <= arrived
          /\ \A u \in S : a[u] = a[v] => u = v
          /\ \A i \in 1 .. Len(queue) : queue[i] # a[v]
      BY <2>7, Kept
    <3>2. outcome'[a[v]] = "none"
      BY <2>5, <3>1
    <3> QED
      BY <1>0, <2>1, <2>7, <3>1, <3>2
  <2>8. active'[w] = d
    BY <1>0, <2>0, <2>1
  <2>9. Waiting'
    <3>1. /\ Len(queue') = Len(queue) - n - 1
          /\ \A i \in 1 .. Len(queue) - n - 1 : queue'[i] = queue[n + 1 + i]
      BY <1>0, <1>3, RestOfQueue
    <3> SUFFICES ASSUME NEW i \in 1 .. Len(queue) - n - 1
                 PROVE  /\ outcome'[queue'[i]] = "none" /\ queue'[i] <= arrived'
                        /\ \A k \in 1 .. Len(queue) - n - 1 : queue'[k] = queue'[i] => k = i
                        /\ \A v \in slots' : active'[v] # queue'[i]
      BY <3>1 DEF Waiting
    <3>2. /\ n + 1 + i \in n + 1 .. Len(queue) /\ n + 1 + i \in 1 .. Len(queue) /\ n + 1 + i # n + 1
          /\ queue'[i] = queue[n + 1 + i]
      BY <1>0, <3>1
    <3>3. /\ queue[n + 1 + i] \in Jobs /\ queue[n + 1 + i] <= arrived
          /\ \A k \in 1 .. Len(queue) : queue[k] = queue[n + 1 + i] => k = n + 1 + i
      BY <3>2, Queued
    <3>4. ASSUME NEW k \in 1 .. Len(queue) - n - 1, queue'[k] = queue'[i] PROVE k = i
      <4>1. n + 1 + k \in 1 .. Len(queue) /\ queue'[k] = queue[n + 1 + k]
        BY <1>0, <3>1
      <4>2. n + 1 + k = n + 1 + i
        BY <3>2, <3>3, <3>4, <4>1
      <4> QED
        BY <1>0, <4>2
    <3>5. ASSUME NEW v \in slots' PROVE active'[v] # queue'[i]
      <4>1. CASE v = w
        BY <2>2, <2>8, <3>2, <3>3, <4>1
      <4>2. CASE v # w /\ a[v] = None
        <5>1. v \in Workers
          BY <1>0, <2>1, <3>5, <4>2 DEF Freed
        <5>2. active'[v] = None
          BY <1>0, <2>1, <4>2, <5>1
        <5> QED
          BY <3>2, <3>3, <5>2, NoneIsNothing
      <4>3. CASE v # w /\ a[v] # None
        <5>1. v \in S
          BY <2>1, <3>5, <4>3
        <5> QED
          BY <2>7, <3>2, <4>3, <5>1
      <4> QED
        BY <4>1, <4>2, <4>3
    <3>6. outcome'[queue'[i]] = "none"
      BY <2>6, <3>2
    <3> QED
      BY <3>2, <3>3, <3>4, <3>5, <3>6
  <2>10. Working'
    <3> SUFFICES ASSUME NEW v \in slots', active'[v] # None
                 PROVE  /\ outcome'[active'[v]] = "none" /\ active'[v] <= arrived
                        /\ \A u \in slots' : active'[u] = active'[v] => u = v
      BY DEF Working
    <3>1. ASSUME NEW u \in slots', u # w
          PROVE  u \in S /\ u \in Workers /\ active'[u] = a[u] /\ active'[u] # d
      <4>1. u \in S /\ u \in Workers
        BY <1>0, <2>1, <3>1 DEF Freed
      <4>2. active'[u] = a[u]
        BY <1>0, <2>1, <3>1, <4>1
      <4>3. a[u] # d
        BY <2>2, <2>4, <2>7, <3>1, <4>1
      <4> QED
        BY <4>1, <4>2, <4>3
    <3>2. CASE v = w
      <4>1. outcome'[d] = "none"
        BY <1>0, <2>2, <2>6
      <4> QED
        BY <2>3, <2>8, <3>1, <3>2, <4>1
    <3>3. CASE v # w
      BY <2>7, <2>8, <3>1, <3>3
    <3> QED
      BY <3>2, <3>3
  <2>11. Unborn'
    <3> SUFFICES ASSUME NEW j \in Jobs, j > arrived PROVE outcome'[j] = "none"
      BY DEF Unborn
    <3>1. outcome[j] = "none" /\ o[j] = outcome[j]
      BY <1>0 DEF Books, Unborn, Answers, Jobs
    <3>2. \A i \in 1 .. Len(queue) : queue[i] # j
      BY <1>0, Queued DEF Jobs
    <3> QED
      BY <2>5, <3>1, <3>2
  <2>12. Dropped'
    <3> SUFFICES ASSUME NEW v \in Workers, active'[v] # None, v \notin slots' PROVE outcome'[active'[v]] # "none"
      BY DEF Dropped
    <3>1. v \notin S /\ v # w /\ active'[v] = a[v]
      BY <1>0, <2>1
    <3>2. a[v] \in Jobs /\ o[a[v]] # "none" /\ outcome[a[v]] # "none"
      BY <3>1, Off
    <3>3. \A i \in 1 .. Len(queue) : queue[i] # a[v]
      BY <3>2, Queued
    <3> QED
      BY <2>5, <3>1, <3>2, <3>3
  <2>13. Once
    <3> SUFFICES ASSUME NEW j \in Jobs, outcome[j] # "none" PROVE outcome'[j] = outcome[j]
      BY DEF Once, Settled
    <3>1. o[j] = outcome[j]
      BY DEF Answers
    <3>2. \A i \in 1 .. Len(queue) : queue[i] # j
      BY Queued
    <3> QED
      BY <2>5, <3>1, <3>2
  <2> QED
    BY <2>9, <2>10, <2>11, <2>12, <2>13 DEF Books
<1> QED
  BY <1>1, <1>2, <1>3, PumpCases

\* One slot is freed, and perhaps dropped.
OneFreed(S, a) == \E w \in slots : (S = slots \/ S = slots \ {w}) /\ a = Cleared(w)

LEMMA PumpConserves ==
  ASSUME Typed, WorkConserving, NEW S, NEW a, NEW o, Pump(S, a, o), Freed(S, a, o), OneFreed(S, a)
  PROVE  WorkConserving'
<1>0. /\ slots \subseteq Workers /\ IsFiniteSet(slots) /\ Cardinality(slots) \in Nat
      /\ active \in [Workers -> Jobs \cup {None}] /\ queue \in Seq(Jobs) /\ Len(queue) \in Nat
  BY FS_CardinalityType, LenProperties DEF Typed, TypeOK, Fresh
<1>1. CASE /\ queue = <<>> \/ Full(S, a)
           /\ slots' = S /\ active' = a /\ queue' = queue
  BY <1>1 DEF WorkConserving, Full
<1>2. CASE queue' = <<>>
  BY <1>2 DEF WorkConserving
<1>3. ASSUME NEW v \in Candidates(S, a), NEW n \in 0 .. Len(queue) - 1, queue # <<>>,
             Dispatch(v, queue[n + 1], S, a)
      PROVE  WorkConserving'
  <2>1. (\A u \in slots : active[u] # None) /\ Cardinality(slots) >= MaxWorkers
    BY <1>3 DEF WorkConserving, Full
  <2>2. PICK w \in slots : (S = slots \/ S = slots \ {w}) /\ a = Cleared(w)
    BY DEF OneFreed
  <2>3. a[w] = None /\ \A u \in slots : u # w => a[u] # None
    BY <1>0, <2>1, <2>2 DEF Cleared
  <2>4. slots' = S \cup {v} /\ active' = [a EXCEPT ![v] = queue[n + 1]] /\ v \in Workers
    BY <1>3, CandidateType DEF Dispatch, Freed
  <2>5. queue[n + 1] # None
    BY <1>0, NoneIsNothing, ElementOfSeq
  <2>6. CASE S = slots
    <3>1. v = w
      BY <2>2, <2>3, <2>6 DEF Candidates
    <3>2. slots' = slots
      BY <2>4, <2>6, <3>1
    <3>3. \A u \in slots' : active'[u] # None
      BY <1>0, <2>2, <2>3, <2>4, <2>5, <3>1, <3>2 DEF Cleared
    <3> QED
      BY <2>1, <3>2, <3>3 DEF WorkConserving, Full
  <2>7. CASE S = slots \ {w}
    <3>1. v \notin S
      BY <2>2, <2>3, <2>7 DEF Candidates
    <3>2. IsFiniteSet(S) /\ Cardinality(S) = Cardinality(slots) - 1 /\ Cardinality(S) \in Nat
      BY <1>0, <2>2, <2>7, FS_RemoveElement, FS_CardinalityType, FS_Subset
    <3>3. Cardinality(slots') = Cardinality(slots)
      <4>1. Cardinality(S \cup {v}) = Cardinality(S) + 1
        BY <3>1, <3>2, FS_AddElement
      <4> QED
        BY <1>0, <2>4, <3>2, <4>1
    <3>4. \A u \in slots' : active'[u] # None
      BY <1>0, <2>2, <2>3, <2>4, <2>5, <2>7 DEF Cleared
    <3> QED
      BY <2>1, <3>3, <3>4 DEF WorkConserving, Full
  <2> QED
    BY <2>2, <2>6, <2>7
<1> QED
  BY <1>1, <1>2, <1>3, PumpCases

\* Everything the theorems below need to hold at once.
Kind == Typed /\ Books /\ WorkConserving

LEMMA KindStays == Kind /\ UNCHANGED <<queue, slots, active, outcome, arrived>> => Books' /\ WorkConserving' /\ Once
  BY DEF Kind, Books, Waiting, Working, Unborn, Dropped, WorkConserving, Full, Once

\* An event that frees the slot of w and settles its run, if it had one.
LEMMA FreeingKeeps ==
  ASSUME Kind, NEW w \in slots, NEW S, S = slots \/ S = slots \ {w},
         NEW o \in [Jobs -> Outcomes], arrived' = arrived,
         IF active[w] = None THEN o = outcome ELSE \E r \in Outcomes \ {"none"} : o = [outcome EXCEPT ![active[w]] = r],
         Freed(S, Cleared(w), o), Pump(S, Cleared(w), o)
  PROVE  Books' /\ WorkConserving' /\ Once
<1>0. Typed /\ Books /\ WorkConserving
  BY DEF Kind
<1>1. /\ slots \subseteq Workers /\ active \in [Workers -> Jobs \cup {None}] /\ queue \in Seq(Jobs)
      /\ outcome \in [Jobs -> Outcomes]
  BY <1>0 DEF Typed, TypeOK
<1>2. Answers(S, Cleared(w), o)
  <2>1. \A v \in slots \ S : Cleared(w)[v] = None
    BY <1>1 DEF Cleared
  <2>2. CASE active[w] = None
    BY <2>1, <2>2 DEF Answers
  <2>3. CASE active[w] # None
    <3>1. /\ active[w] \in Jobs /\ outcome[active[w]] = "none" /\ active[w] <= arrived
          /\ \A v \in slots : active[v] = active[w] => v = w
      BY <1>0, <1>1, <2>3 DEF Books, Working
    <3>2. \A i \in 1 .. Len(queue) : queue[i] # active[w]
      BY <1>0, Queued
    <3>3. \A v \in S : Cleared(w)[v] # active[w]
      BY <1>1, <2>3, <3>1 DEF Cleared
    <3>4. PICK r \in Outcomes \ {"none"} : o = [outcome EXCEPT ![active[w]] = r]
      BY <2>3
    <3> QED
      BY <1>1, <2>1, <3>1, <3>2, <3>3, <3>4 DEF Answers
  <2> QED
    BY <2>2, <2>3
<1>3. OneFreed(S, Cleared(w))
  BY DEF OneFreed
<1> QED
  BY <1>0, <1>2, <1>3, PumpBooks, PumpConserves

LEMMA EventsKeep ==
  ASSUME Kind, NEW w \in Workers, OnResult(w) \/ OnDeadline(w) \/ OnWorkerLost(w)
  PROVE  Books' /\ WorkConserving' /\ Once
<1>0. Typed /\ Books /\ outcome \in [Jobs -> Outcomes] /\ active \in [Workers -> Jobs \cup {None}]
  BY DEF Kind, Typed, TypeOK
<1>1. CASE OnResult(w) /\ Concerns(w, Head(toMain[w]))
  <2>1. /\ active[w] \in Jobs /\ ~Settled(active[w])
        /\ Pump(ResultSlots(w), Cleared(w), [outcome EXCEPT ![active[w]] = "answered"])
    BY <1>0, <1>1, ResultPumps
  <2>2. active[w] # None
    BY <2>1, NoneIsNothing
  <2>3. w \in slots
    BY <1>0, <2>1, <2>2 DEF Books, Dropped, Settled
  <2>4. Freed(ResultSlots(w), Cleared(w), [outcome EXCEPT ![active[w]] = "answered"])
    BY <1>0, <2>1, ResultFrees
  <2>5. ResultSlots(w) = slots \/ ResultSlots(w) = slots \ {w}
    BY DEF ResultSlots
  <2>6. arrived' = arrived
    BY <1>1 DEF OnResult, pool
  <2>7. "answered" \in Outcomes \ {"none"} /\ [outcome EXCEPT ![active[w]] = "answered"] \in [Jobs -> Outcomes]
    BY <1>0 DEF Outcomes
  <2> QED
    BY <2>1, <2>2, <2>3, <2>4, <2>5, <2>6, <2>7, FreeingKeeps
<1>2. CASE OnResult(w) /\ ~Concerns(w, Head(toMain[w]))
  BY <1>2, KindStays DEF OnResult, pool
<1>3. CASE OnDeadline(w)
  <2>1. /\ w \in slots /\ active[w] # None /\ arrived' = arrived
        /\ Pump(slots \ {w}, Cleared(w), [outcome EXCEPT ![active[w]] = "timeout"])
    BY <1>3 DEF OnDeadline, Cleared
  <2>2. "timeout" \in Outcomes \ {"none"} /\ [outcome EXCEPT ![active[w]] = "timeout"] \in [Jobs -> Outcomes]
    BY <1>0 DEF Outcomes
  <2>3. Freed(slots \ {w}, Cleared(w), [outcome EXCEPT ![active[w]] = "timeout"])
    BY <1>0, <2>1, <2>2, DropFrees
  <2> QED
    BY <2>1, <2>2, <2>3, FreeingKeeps
<1>4. CASE OnWorkerLost(w)
  <2> DEFINE o == IF active[w] = None THEN outcome ELSE [outcome EXCEPT ![active[w]] = "lost"]
  <2>1. w \in slots /\ arrived' = arrived /\ Pump(slots \ {w}, Cleared(w), o)
    BY <1>4 DEF OnWorkerLost, Cleared
  <2>2. "lost" \in Outcomes \ {"none"} /\ o \in [Jobs -> Outcomes]
    BY <1>0 DEF Outcomes
  <2>3. Freed(slots \ {w}, Cleared(w), o)
    BY <1>0, <2>1, <2>2, DropFrees
  <2>4. IF active[w] = None THEN o = outcome ELSE \E r \in Outcomes \ {"none"} : o = [outcome EXCEPT ![active[w]] = r]
    BY <2>2
  <2> HIDE DEF o
  <2> QED
    BY <2>1, <2>2, <2>3, <2>4, FreeingKeeps
<1> QED
  BY <1>1, <1>2, <1>3, <1>4

\* The new job is none of those that wait or run.
LEMMA Newcomer ==
  ASSUME Kind, NEW j \in Jobs, j = arrived + 1
  PROVE  /\ outcome[j] = "none"
         /\ \A i \in 1 .. Len(queue) : queue[i] # j
         /\ \A w \in slots : active[w] # j
<1>1. arrived \in Nat /\ Typed /\ Books
  BY BoundsNat DEF Kind, Typed, TypeOK
<1>2. outcome[j] = "none"
  BY <1>1 DEF Books, Unborn, Jobs
<1>3. \A i \in 1 .. Len(queue) : queue[i] # j
  BY <1>1, Queued DEF Jobs
<1>4. ASSUME NEW w \in slots, active[w] = j PROVE FALSE
  <2>1. active[w] <= arrived
    BY <1>1, <1>4, NoneIsNothing DEF Books, Working
  <2> QED
    BY <1>1, <1>4, <2>1
<1> QED
  BY <1>2, <1>3, <1>4

LEMMA ExecuteKeeps ==
  ASSUME Kind, NEW j \in Jobs, Execute(j)
  PROVE  Books' /\ WorkConserving' /\ Once
<1>0. /\ Typed /\ Books /\ WorkConserving /\ arrived \in Nat /\ queue \in Seq(Jobs) /\ Len(queue) \in Nat
      /\ outcome \in [Jobs -> Outcomes] /\ active \in [Workers -> Jobs \cup {None}] /\ slots \subseteq Workers
  BY LenProperties, BoundsNat DEF Kind, Typed, TypeOK
<1>1. j = arrived + 1 /\ arrived' = j /\ overdue' = overdue
  BY DEF Execute
<1>2. /\ outcome[j] = "none"
      /\ \A i \in 1 .. Len(queue) : queue[i] # j
      /\ \A w \in slots : active[w] # j
  BY <1>1, Newcomer
<1>3. ASSUME outcome' = [outcome EXCEPT ![j] = "closed"], UNCHANGED <<queue, slots, active>>
      PROVE  Books' /\ WorkConserving' /\ Once
  <2>1. Waiting'
    <3> SUFFICES ASSUME NEW i \in 1 .. Len(queue)
                 PROVE  /\ outcome'[queue[i]] = "none" /\ queue[i] <= arrived'
                        /\ \A k \in 1 .. Len(queue) : queue[k] = queue[i] => k = i
                        /\ \A w \in slots : active[w] # queue[i]
      BY <1>3 DEF Waiting
    <3>1. /\ queue[i] \in Jobs /\ outcome[queue[i]] = "none" /\ queue[i] <= arrived
          /\ \A k \in 1 .. Len(queue) : queue[k] = queue[i] => k = i
          /\ \A w \in slots : active[w] # queue[i]
      BY <1>0, Queued
    <3>2. outcome'[queue[i]] = "none"
      BY <1>0, <1>2, <1>3, <3>1
    <3>3. queue[i] <= arrived'
      BY <1>0, <1>1, <3>1 DEF Jobs
    <3> QED
      BY <3>1, <3>2, <3>3
  <2>2. Working'
    <3> SUFFICES ASSUME NEW v \in slots, active[v] # None
                 PROVE  /\ outcome'[active[v]] = "none" /\ active[v] <= arrived'
                        /\ \A u \in slots : active[u] = active[v] => u = v
      BY <1>3 DEF Working
    <3>1. /\ active[v] \in Jobs /\ outcome[active[v]] = "none" /\ active[v] <= arrived /\ active[v] # j
          /\ \A u \in slots : active[u] = active[v] => u = v
      BY <1>0, <1>2 DEF Books, Working
    <3>2. active[v] <= arrived'
      BY <1>0, <1>1, <3>1 DEF Jobs
    <3> QED
      BY <1>0, <1>3, <3>1, <3>2
  <2>3. Unborn'
    BY <1>0, <1>1, <1>3 DEF Books, Unborn, Jobs
  <2>4. Dropped'
    BY <1>0, <1>3 DEF Books, Dropped
  <2>5. WorkConserving'
    BY <1>0, <1>3 DEF WorkConserving, Full
  <2>6. Once
    BY <1>0, <1>2, <1>3 DEF Once, Settled
  <2> QED
    BY <2>1, <2>2, <2>3, <2>4, <2>5, <2>6 DEF Books
<1>4. ASSUME NEW w \in Candidates(slots, active), Dispatch(w, j, slots, active), UNCHANGED <<queue, outcome>>
      PROVE  Books' /\ WorkConserving' /\ Once
  <2>1. /\ w \in Workers /\ active[w] = None
        /\ (w \in slots /\ active[w] = None) \/ (w \notin slots /\ Cardinality(slots) < MaxWorkers)
    <3>1. \A v \in slots : active[v] = None => runs[v] < RecycleAfter
      BY <1>0 DEF Typed, Fresh
    <3>2. slots \in SUBSET slots
      OBVIOUS
    <3> QED
      BY <1>0, <3>1, <3>2, CandidateType
  <2>2. slots' = slots \cup {w} /\ active' = [active EXCEPT ![w] = j]
    BY <1>4 DEF Dispatch
  <2>3. queue = <<>>
    <3>1. ~Full(slots, active)
      <4>1. Cardinality(slots) \in Nat
        BY <1>0, FS_CardinalityType DEF Typed, Fresh
      <4> QED
        BY <2>1, <4>1, MaxWorkersPositive DEF Full
    <3> QED
      BY <1>0, <3>1 DEF WorkConserving
  <2>4. Len(queue') = 0 /\ queue' = <<>>
    BY <1>4, <2>3
  <2>5. Waiting' /\ WorkConserving'
    BY <2>4 DEF Waiting, WorkConserving
  <2>6. Working'
    <3> SUFFICES ASSUME NEW v \in slots', active'[v] # None
                 PROVE  /\ outcome[active'[v]] = "none" /\ active'[v] <= arrived'
                        /\ \A u \in slots' : active'[u] = active'[v] => u = v
      BY <1>4 DEF Working
    <3>1. active'[w] = j /\ \A u \in slots' : u # w => u \in slots /\ active'[u] = active[u] /\ active'[u] # j
      BY <1>0, <1>2, <2>1, <2>2
    <3>2. CASE v = w
      BY <1>1, <1>2, <3>1, <3>2 DEF Jobs
    <3>3. CASE v # w
      <4>1. /\ v \in slots /\ active'[v] = active[v] /\ active[v] # j /\ active[v] \in Jobs
            /\ outcome[active[v]] = "none" /\ active[v] <= arrived
            /\ \A u \in slots : active[u] = active[v] => u = v
        BY <1>0, <3>1, <3>3 DEF Books, Working
      <4>2. active[v] <= arrived'
        BY <1>0, <1>1, <4>1 DEF Jobs
      <4> QED
        BY <3>1, <4>1, <4>2
    <3> QED
      BY <3>2, <3>3
  <2>7. Unborn'
    BY <1>0, <1>1, <1>4 DEF Books, Unborn, Jobs
  <2>8. Dropped'
    BY <1>0, <1>4, <2>1, <2>2 DEF Books, Dropped
  <2>9. Once
    BY <1>4 DEF Once
  <2> QED
    BY <2>5, <2>6, <2>7, <2>8, <2>9 DEF Books
<1>5. ASSUME Enqueue(j), Full(slots, active) PROVE Books' /\ WorkConserving' /\ Once
  <2>1. UNCHANGED <<slots, active, outcome>>
    BY <1>5 DEF Enqueue
  <2>2. /\ Len(queue') = Len(queue) + 1 /\ queue'[Len(queue) + 1] = j
        /\ \A i \in 1 .. Len(queue) : queue'[i] = queue[i]
    BY <1>0, <1>5, AppendProperties DEF Enqueue
  <2>3. Waiting'
    <3> SUFFICES ASSUME NEW i \in 1 .. Len(queue) + 1
                 PROVE  /\ outcome[queue'[i]] = "none" /\ queue'[i] <= arrived'
                        /\ \A k \in 1 .. Len(queue) + 1 : queue'[k] = queue'[i] => k = i
                        /\ \A w \in slots : active[w] # queue'[i]
      BY <2>1, <2>2 DEF Waiting
    <3>1. CASE i = Len(queue) + 1
      <4>1. \A k \in 1 .. Len(queue) + 1 : k = Len(queue) + 1 \/ queue'[k] # j
        BY <1>0, <1>2, <2>2
      <4> QED
        BY <1>1, <1>2, <2>2, <3>1, <4>1 DEF Jobs
    <3>2. CASE i # Len(queue) + 1
      <4>1. i \in 1 .. Len(queue)
        BY <1>0, <3>2
      <4>2. /\ queue[i] \in Jobs /\ outcome[queue[i]] = "none" /\ queue[i] <= arrived
            /\ \A k \in 1 .. Len(queue) : queue[k] = queue[i] => k = i
            /\ \A w \in slots : active[w] # queue[i]
        BY <1>0, <4>1, Queued
      <4>3. queue[i] <= arrived' /\ queue[i] # j
        BY <1>0, <1>1, <1>2, <4>1, <4>2 DEF Jobs
      <4>4. ASSUME NEW k \in 1 .. Len(queue) + 1, queue'[k] = queue[i] PROVE k = i
        <5>1. k # Len(queue) + 1
          BY <2>2, <4>3, <4>4
        <5>2. k \in 1 .. Len(queue)
          BY <1>0, <5>1
        <5> QED
          BY <2>2, <4>2, <4>4, <5>2
      <4> QED
        BY <2>2, <4>1, <4>2, <4>3, <4>4
    <3> QED
      BY <3>1, <3>2
  <2>4. Working'
    <3> SUFFICES ASSUME NEW v \in slots, active[v] # None
                 PROVE  /\ outcome[active[v]] = "none" /\ active[v] <= arrived'
                        /\ \A u \in slots : active[u] = active[v] => u = v
      BY <2>1 DEF Working
    <3>1. /\ active[v] \in Jobs /\ outcome[active[v]] = "none" /\ active[v] <= arrived
          /\ \A u \in slots : active[u] = active[v] => u = v
      BY <1>0 DEF Books, Working
    <3>2. active[v] <= arrived'
      BY <1>0, <1>1, <3>1 DEF Jobs
    <3> QED
      BY <3>1, <3>2
  <2>5. Unborn'
    BY <1>0, <1>1, <2>1 DEF Books, Unborn, Jobs
  <2>6. Dropped'
    BY <1>0, <2>1 DEF Books, Dropped
  <2>7. WorkConserving' /\ Once
    BY <1>5, <2>1 DEF WorkConserving, Full, Once
  <2> QED
    BY <2>3, <2>4, <2>5, <2>6, <2>7 DEF Books
<1> QED
  BY <1>3, <1>4, <1>5 DEF Execute

LEMMA ExpireKeeps ==
  ASSUME Kind, NEW j \in Jobs, ExpireQueued(j)
  PROVE  Books' /\ WorkConserving' /\ Once
<1>0. /\ Typed /\ Books /\ WorkConserving /\ arrived \in Nat /\ queue \in Seq(Jobs) /\ Len(queue) \in Nat
      /\ DOMAIN queue = 1 .. Len(queue)
      /\ outcome \in [Jobs -> Outcomes] /\ active \in [Workers -> Jobs \cup {None}] /\ slots \subseteq Workers
  BY LenProperties, BoundsNat DEF Kind, Typed, TypeOK
<1>1. PICK i \in 1 .. Len(queue) : queue[i] = j /\ queue' = Without(queue, i)
  BY <1>0 DEF ExpireQueued
<1>2. outcome' = [outcome EXCEPT ![j] = "queue_timeout"] /\ UNCHANGED <<slots, active, arrived>>
  BY DEF ExpireQueued
<1>3. /\ Len(queue') = Len(queue) - 1
      /\ \A k \in 1 .. Len(queue) - 1 : queue'[k] = IF k < i THEN queue[k] ELSE queue[k + 1]
  BY <1>0, <1>1, WithoutEntry
<1>4. /\ outcome[j] = "none" /\ j <= arrived
      /\ \A k \in 1 .. Len(queue) : queue[k] = j => k = i
      /\ \A w \in slots : active[w] # j
  BY <1>0, <1>1, Queued
<1>5. Waiting'
  <2> DEFINE at(k) == IF k < i THEN k ELSE k + 1
  <2>1. \A k \in 1 .. Len(queue) - 1 : at(k) \in 1 .. Len(queue) /\ at(k) # i /\ queue'[k] = queue[at(k)]
    BY <1>0, <1>3
  <2>2. \A k, l \in 1 .. Len(queue) - 1 : at(k) = at(l) => k = l
    BY <1>0
  <2> HIDE DEF at
  <2> SUFFICES ASSUME NEW k \in 1 .. Len(queue) - 1
               PROVE  /\ outcome'[queue'[k]] = "none" /\ queue'[k] <= arrived
                      /\ \A l \in 1 .. Len(queue) - 1 : queue'[l] = queue'[k] => l = k
                      /\ \A w \in slots : active[w] # queue'[k]
    BY <1>2, <1>3 DEF Waiting
  <2>3. at(k) \in 1 .. Len(queue) /\ at(k) # i /\ queue'[k] = queue[at(k)]
    BY <2>1
  <2>4. /\ queue[at(k)] \in Jobs /\ outcome[queue[at(k)]] = "none" /\ queue[at(k)] <= arrived
        /\ \A l \in 1 .. Len(queue) : queue[l] = queue[at(k)] => l = at(k)
        /\ \A w \in slots : active[w] # queue[at(k)]
    BY <1>0, <2>3, Queued
  <2>5. queue[at(k)] # j
    BY <1>4, <2>3
  <2>6. outcome'[queue'[k]] = "none"
    BY <1>0, <1>2, <2>3, <2>4, <2>5
  <2>7. ASSUME NEW l \in 1 .. Len(queue) - 1, queue'[l] = queue'[k] PROVE l = k
    <3>1. at(l) \in 1 .. Len(queue) /\ queue'[l] = queue[at(l)]
      BY <2>1
    <3>2. at(l) = at(k)
      BY <2>3, <2>4, <2>7, <3>1
    <3> QED
      BY <2>2, <3>2
  <2> QED
    BY <2>3, <2>4, <2>6, <2>7
<1>6. Working'
  <2> SUFFICES ASSUME NEW v \in slots, active[v] # None
               PROVE  /\ outcome'[active[v]] = "none" /\ active[v] <= arrived
                      /\ \A u \in slots : active[u] = active[v] => u = v
    BY <1>2 DEF Working
  <2>1. /\ active[v] \in Jobs /\ outcome[active[v]] = "none" /\ active[v] <= arrived /\ active[v] # j
        /\ \A u \in slots : active[u] = active[v] => u = v
    BY <1>0, <1>4 DEF Books, Working
  <2> QED
    BY <1>0, <1>2, <2>1
<1>7. Unborn'
  BY <1>0, <1>2, <1>4 DEF Books, Unborn, Jobs
<1>8. Dropped'
  BY <1>0, <1>2 DEF Books, Dropped
<1>9. WorkConserving'
  <2>1. queue # <<>>
    BY <1>0, <1>1
  <2> QED
    BY <1>0, <1>2, <2>1 DEF WorkConserving, Full
<1>10. Once
  BY <1>0, <1>2, <1>4 DEF Once, Settled
<1> QED
  BY <1>5, <1>6, <1>7, <1>8, <1>9, <1>10 DEF Books

LEMMA CloseKeeps ==
  ASSUME Kind, Close
  PROVE  Books' /\ WorkConserving' /\ Once
<1>0. /\ Typed /\ Books /\ arrived \in Nat /\ queue \in Seq(Jobs) /\ Len(queue) \in Nat
      /\ DOMAIN queue = 1 .. Len(queue)
      /\ outcome \in [Jobs -> Outcomes] /\ active \in [Workers -> Jobs \cup {None}] /\ slots \subseteq Workers
  BY LenProperties, BoundsNat DEF Kind, Typed, TypeOK
<1>1. /\ queue' = <<>> /\ slots' = {} /\ UNCHANGED <<active, arrived>>
      /\ outcome' = [j \in Jobs |->
           IF j \in Range(queue) \/ \E w \in slots : active[w] = j THEN "closed" ELSE outcome[j]]
  BY DEF Close
<1>2. \A j \in Jobs : j \in Range(queue) => \E i \in 1 .. Len(queue) : queue[i] = j
  BY <1>0 DEF Range
<1>3. ASSUME NEW j \in Jobs, j \in Range(queue) \/ \E w \in slots : active[w] = j
      PROVE  outcome[j] = "none" /\ j <= arrived
  <2>1. CASE j \in Range(queue)
    BY <1>0, <1>2, <2>1, Queued
  <2>2. CASE \E w \in slots : active[w] = j
    BY <1>0, <2>2, NoneIsNothing DEF Books, Working
  <2> QED
    BY <1>3, <2>1, <2>2
<1>4. Waiting' /\ Working' /\ WorkConserving'
  <2>1. Len(queue') = 0
    BY <1>1
  <2> QED
    BY <1>1, <2>1 DEF Waiting, Working, WorkConserving
<1>5. Unborn'
  <2> SUFFICES ASSUME NEW j \in Jobs, j > arrived PROVE outcome'[j] = "none"
    BY <1>1 DEF Unborn
  <2>1. outcome[j] = "none"
    BY <1>0 DEF Books, Unborn
  <2>2. ~(j \in Range(queue) \/ \E w \in slots : active[w] = j)
    BY <1>0, <1>3 DEF Jobs
  <2> QED
    BY <1>1, <2>1, <2>2
<1>6. Dropped'
  <2> SUFFICES ASSUME NEW w \in Workers, active[w] # None PROVE outcome'[active[w]] # "none"
    BY <1>1 DEF Dropped
  <2>1. active[w] \in Jobs
    BY <1>0
  <2>2. CASE w \in slots
    <3>1. \E v \in slots : active[v] = active[w]
      BY <2>2
    <3> QED
      BY <1>1, <2>1, <3>1
  <2>3. CASE w \notin slots
    BY <1>0, <1>1, <2>1, <2>3 DEF Books, Dropped
  <2> QED
    BY <2>2, <2>3
<1>7. Once
  BY <1>1, <1>3 DEF Once, Settled
<1> QED
  BY <1>4, <1>5, <1>6, <1>7 DEF Books

\* The name of a dropped worker is freed.
LEMMA ForgetKeeps ==
  ASSUME Kind, NEW w \in Workers, Forget(w)
  PROVE  Books' /\ WorkConserving' /\ Once
<1>0. /\ Typed /\ Books /\ WorkConserving
      /\ active \in [Workers -> Jobs \cup {None}] /\ slots \subseteq Workers
  BY DEF Kind, Typed, TypeOK
<1>1. w \notin slots /\ active' = [active EXCEPT ![w] = None] /\ UNCHANGED <<queue, slots, outcome, arrived>>
  BY DEF Forget
<1>2. \A v \in slots : active'[v] = active[v]
  BY <1>0, <1>1
<1>3. Waiting' /\ Working' /\ Unborn'
  BY <1>0, <1>1, <1>2 DEF Books, Waiting, Working, Unborn
<1>4. Dropped'
  BY <1>0, <1>1 DEF Books, Dropped
<1>5. WorkConserving' /\ Once
  BY <1>0, <1>1, <1>2 DEF WorkConserving, Full, Once
<1> QED
  BY <1>3, <1>4, <1>5 DEF Books

LEMMA NextKeeps == Kind /\ [Next]_vars => Kind' /\ Once
<1> SUFFICES ASSUME Kind, [Next]_vars PROVE Books' /\ WorkConserving' /\ Once
  BY NextTyped DEF Kind
<1>1. ASSUME NEW j \in Jobs, Execute(j) \/ Elapse(j) \/ ExpireQueued(j) PROVE Books' /\ WorkConserving' /\ Once
  BY <1>1, ExecuteKeeps, ExpireKeeps, KindStays DEF Elapse
<1>2. ASSUME NEW w \in Workers, OnCall(w) \/ (\E j \in Jobs : Respond(w, j)) \/ Forget(w)
      PROVE  Books' /\ WorkConserving' /\ Once
  BY <1>2, ForgetKeeps, KindStays DEF OnCall, Respond
<1>3. ASSUME NEW w \in Workers, Thread(w) PROVE Books' /\ WorkConserving' /\ Once
  <2>1. UNCHANGED pool
    BY <1>3 DEF Thread, TakeRun, TakeReply, CallHost, Finish, Terminated, Dies, Ends
  <2> QED
    BY <2>1, KindStays DEF pool
<1>4. CASE UNCHANGED vars
  BY <1>4, KindStays DEF vars, pool
<1> QED
  BY <1>1, <1>2, <1>3, <1>4, EventsKeep, CloseKeeps DEF Next, Event, Rest

LEMMA InitKind == Init => Kind
<1> SUFFICES ASSUME Init PROVE Books /\ WorkConserving
  BY InitTyped DEF Kind
<1>1. queue = <<>> /\ Len(queue) = 0 /\ slots = {} /\ \A w \in Workers : active[w] = None
  BY DEF Init
<1> QED
  BY <1>1 DEF Init, Books, Waiting, Working, Unborn, Dropped, WorkConserving

\* A job is settled once, whatever the order in which results, exits, deadlines and close() arrive.
THEOREM SettlesOnce == Spec => SettledOnce
<1>1. Kind /\ [Next]_vars => Kind'
  BY NextKeeps
<1>2. Kind /\ [Next]_vars => [\A j \in Jobs : Settled(j) => outcome'[j] = outcome[j]]_vars
  BY NextKeeps DEF Once
<1> QED
  BY InitKind, <1>1, <1>2, PTL DEF Spec, SettledOnce

\* No job waits while a worker is idle or the pool could spawn one, whatever the size of the pool.
THEOREM ConservesWork == Spec => []WorkConserving
<1>1. Kind /\ [Next]_vars => Kind'
  BY NextKeeps
<1>2. Kind => WorkConserving
  BY DEF Kind
<1> QED
  BY InitKind, <1>1, <1>2, PTL DEF Spec

----------------------------------------------------------------------------
(* The order of the queue                                                  *)

\* The queue is in the order of the calls of execute, and empty once the pool is closed.
Rising == \A i, k \in 1 .. Len(queue) : i < k => queue[i] < queue[k]
InLine == Rising /\ NoOvertaking /\ (closed => queue = <<>>)

LEMMA WaitsAt == ASSUME Typed, NEW j PROVE Waits(j) <=> \E i \in 1 .. Len(queue) : queue[i] = j
<1>1. DOMAIN queue = 1 .. Len(queue)
  BY LenProperties DEF Typed, TypeOK
<1> QED
  BY <1>1 DEF Waits, Range

LEMMA WaitsAtNext == ASSUME Typed', NEW j PROVE Waits(j)' <=> \E i \in 1 .. Len(queue') : queue'[i] = j
<1>1. DOMAIN queue' = 1 .. Len(queue')
  BY LenProperties DEF Typed, TypeOK
<1> QED
  BY <1>1 DEF Waits, Range

\* Nobody overtakes when nobody joins and who leaves was rejected or is before those that stay.
LEMMA NobodyOvertakes ==
  ASSUME Typed, NoOvertaking, Once, arrived' = arrived,
         \A j \in Jobs : Waits(j)' => Waits(j),
         \A j, k \in Jobs : Waits(j)' /\ Waits(k) /\ ~Waits(k)' /\ j < k => outcome'[k] = "queue_timeout"
  PROVE  NoOvertaking'
<1> SUFFICES ASSUME NEW j \in 1 .. arrived, NEW k \in 1 .. arrived, j < k, Waits(j)', ~Waits(k)'
             PROVE  outcome'[k] = "queue_timeout"
  BY DEF NoOvertaking
<1>1. j \in Jobs /\ k \in Jobs
  BY BoundsNat DEF Typed, TypeOK, Jobs
<1>2. Waits(k) \/ outcome[k] = "queue_timeout"
  BY <1>1 DEF NoOvertaking
<1>3. CASE Waits(k)
  BY <1>1, <1>3
<1>4. CASE outcome[k] = "queue_timeout"
  BY <1>1, <1>4 DEF Once, Settled
<1> QED
  BY <1>2, <1>3, <1>4

LEMMA LineStays == InLine /\ UNCHANGED <<queue, closed, arrived, outcome>> => InLine'
  BY DEF InLine, Rising, NoOvertaking, Waits

\* #pumpQueue hands out from the head of the queue.
LEMMA PumpInLine ==
  ASSUME Kind, InLine, Typed', Once, arrived' = arrived, closed' = closed,
         NEW S, NEW a, NEW o, Pump(S, a, o), Freed(S, a, o)
  PROVE  InLine'
<1>0. Typed /\ queue \in Seq(Jobs) /\ Len(queue) \in Nat /\ Jobs \subseteq Nat
  <2>1. Typed /\ queue \in Seq(Jobs)
    BY DEF Kind, Typed, TypeOK
  <2>2. Len(queue) \in Nat
    BY <2>1, LenProperties
  <2> QED BY <2>1, <2>2 DEF Jobs
<1>1. CASE queue' = queue
  <2>1. \A j \in Jobs : Waits(j)' <=> Waits(j)
    BY <1>1 DEF Waits
  <2>2. NoOvertaking'
    BY <1>0, <2>1, NobodyOvertakes DEF InLine
  <2> QED
    BY <1>1, <2>2 DEF InLine, Rising
<1>2. CASE queue' = <<>>
  <2>1. Len(queue') = 0 /\ \A j : ~Waits(j)'
    BY <1>2, WaitsAtNext
  <2> QED
    BY <1>2, <2>1 DEF InLine, Rising, NoOvertaking
<1>3. ASSUME NEW n \in 0 .. Len(queue) - 1, queue # <<>>, queue' = SubSeq(queue, n + 2, Len(queue)),
             outcome' = [j \in Jobs |-> IF \E i \in 1 .. n : queue[i] = j THEN "queue_timeout" ELSE o[j]]
      PROVE  InLine'
  <2>1. /\ Len(queue') = Len(queue) - n - 1
        /\ \A i \in 1 .. Len(queue) - n - 1 : queue'[i] = queue[n + 1 + i]
    BY <1>0, <1>3, RestOfQueue
  <2>2. \A i \in 1 .. Len(queue') : n + 1 + i \in 1 .. Len(queue) /\ queue'[i] = queue[n + 1 + i]
    BY <1>0, <2>1
  <2>3. Rising'
    <3> SUFFICES ASSUME NEW i \in 1 .. Len(queue'), NEW k \in 1 .. Len(queue'), i < k
                 PROVE  queue'[i] < queue'[k]
      BY DEF Rising
    <3>1. n + 1 + i < n + 1 + k
      BY <1>0
    <3> QED
      BY <2>2, <3>1 DEF InLine, Rising
  <2>4. \A j \in Jobs : Waits(j)' => Waits(j)
    BY <1>0, <2>2, WaitsAt, WaitsAtNext
  <2>5. ASSUME NEW j \in Jobs, NEW k \in Jobs, Waits(j)', Waits(k), ~Waits(k)', j < k
        PROVE  outcome'[k] = "queue_timeout"
    <3>1. PICK x \in 1 .. Len(queue') : queue'[x] = j
      BY <2>5, WaitsAtNext
    <3>2. PICK y \in 1 .. Len(queue) : queue[y] = k
      BY <1>0, <2>5, WaitsAt
    <3>3. ASSUME y > n + 1 PROVE FALSE
      <4>1. y - (n + 1) \in 1 .. Len(queue') /\ n + 1 + (y - (n + 1)) = y
        BY <1>0, <2>1, <3>3
      <4>2. queue'[y - (n + 1)] = k
        BY <2>2, <3>2, <4>1
      <4> QED
        BY <2>5, <4>1, <4>2, WaitsAtNext
    <3>4. ASSUME y = n + 1 PROVE FALSE
      <4>1. n + 1 + x \in 1 .. Len(queue) /\ queue[n + 1 + x] = j /\ y < n + 1 + x
        BY <1>0, <2>2, <3>1, <3>4
      <4>2. k < j
        BY <3>2, <4>1 DEF InLine, Rising
      <4> QED
        BY <1>0, <2>5, <4>2
    <3>5. y \in 1 .. n
      BY <1>0, <3>3, <3>4
    <3> QED
      BY <1>3, <3>2, <3>5
  <2>6. NoOvertaking'
    BY <1>0, <2>4, <2>5, NobodyOvertakes DEF InLine
  <2> QED
    BY <1>3, <2>3, <2>6 DEF InLine
<1>4. CASE \E w \in Candidates(S, a), n \in 0 .. Len(queue) - 1 :
              /\ queue # <<>> /\ queue' = SubSeq(queue, n + 2, Len(queue))
              /\ outcome' = [j \in Jobs |-> IF \E i \in 1 .. n : queue[i] = j THEN "queue_timeout" ELSE o[j]]
  BY <1>3, <1>4
<1>5. \/ queue' = queue \/ queue' = <<>>
      \/ \E w \in Candidates(S, a), n \in 0 .. Len(queue) - 1 :
           /\ queue # <<>> /\ queue' = SubSeq(queue, n + 2, Len(queue))
           /\ outcome' = [j \in Jobs |-> IF \E i \in 1 .. n : queue[i] = j THEN "queue_timeout" ELSE o[j]]
  BY <1>0, PumpCases
<1> QED
  BY <1>1, <1>2, <1>4, <1>5

LEMMA EventsInLine ==
  ASSUME Kind, InLine, Typed', Once, NEW w \in Workers, OnResult(w) \/ OnDeadline(w) \/ OnWorkerLost(w)
  PROVE  InLine'
<1>0. Typed /\ outcome \in [Jobs -> Outcomes] /\ active \in [Workers -> Jobs \cup {None}]
  BY DEF Kind, Typed, TypeOK
<1>1. CASE OnResult(w) /\ Concerns(w, Head(toMain[w]))
  <2>1. /\ active[w] \in Jobs /\ ~Settled(active[w]) /\ UNCHANGED <<closed, arrived>>
        /\ Pump(ResultSlots(w), Cleared(w), [outcome EXCEPT ![active[w]] = "answered"])
    BY <1>0, <1>1, ResultPumps DEF OnResult
  <2>2. Freed(ResultSlots(w), Cleared(w), [outcome EXCEPT ![active[w]] = "answered"])
    BY <1>0, <2>1, ResultFrees
  <2> QED
    BY <2>1, <2>2, PumpInLine
<1>2. CASE OnResult(w) /\ ~Concerns(w, Head(toMain[w]))
  BY <1>2, LineStays DEF OnResult, pool
<1>3. CASE OnDeadline(w)
  <2>1. /\ w \in slots /\ UNCHANGED <<closed, arrived>>
        /\ Pump(slots \ {w}, Cleared(w), [outcome EXCEPT ![active[w]] = "timeout"])
    BY <1>3 DEF OnDeadline, Cleared
  <2>2. [outcome EXCEPT ![active[w]] = "timeout"] \in [Jobs -> Outcomes]
    BY <1>0 DEF Outcomes
  <2> QED
    BY <1>0, <2>1, <2>2, DropFrees, PumpInLine
<1>4. CASE OnWorkerLost(w)
  <2> DEFINE o == IF active[w] = None THEN outcome ELSE [outcome EXCEPT ![active[w]] = "lost"]
  <2>1. w \in slots /\ UNCHANGED <<closed, arrived>> /\ Pump(slots \ {w}, Cleared(w), o)
    BY <1>4 DEF OnWorkerLost, Cleared
  <2>2. o \in [Jobs -> Outcomes]
    BY <1>0 DEF Outcomes
  <2> HIDE DEF o
  <2> QED
    BY <1>0, <2>1, <2>2, DropFrees, PumpInLine
<1> QED
  BY <1>1, <1>2, <1>3, <1>4

\* A new job joins behind all others; it gets a worker at once only when nobody waits.
LEMMA ExecuteInLine ==
  ASSUME Kind, InLine, Typed', NEW j \in Jobs, Execute(j)
  PROVE  InLine'
<1>0. /\ Typed /\ WorkConserving /\ arrived \in Nat /\ queue \in Seq(Jobs) /\ Len(queue) \in Nat
      /\ slots \subseteq Workers
  BY LenProperties, BoundsNat DEF Kind, Typed, TypeOK
<1>1. j = arrived + 1 /\ arrived' = j /\ closed' = closed
  BY DEF Execute
<1>2. ASSUME queue = <<>>, queue' = queue PROVE InLine'
  <2>1. Len(queue') = 0 /\ \A k : ~Waits(k)'
    BY <1>2, WaitsAtNext
  <2> QED
    BY <1>2, <2>1 DEF InLine, Rising, NoOvertaking
<1>3. ASSUME NEW w \in Candidates(slots, active) PROVE queue = <<>>
  <2>1. /\ w \in Workers /\ active[w] = None
        /\ (w \in slots /\ active[w] = None) \/ (w \notin slots /\ Cardinality(slots) < MaxWorkers)
    <3>1. \A v \in slots : active[v] = None => runs[v] < RecycleAfter
      BY <1>0 DEF Typed, Fresh
    <3>2. slots \in SUBSET slots /\ active \in [Workers -> Jobs \cup {None}]
      BY <1>0 DEF Typed, TypeOK
    <3> QED
      BY <1>0, <1>3, <3>1, <3>2, CandidateType
  <2>2. Cardinality(slots) \in Nat
    BY <1>0, FS_CardinalityType DEF Typed, Fresh
  <2>3. ~Full(slots, active)
    BY <2>1, <2>2, MaxWorkersPositive DEF Full
  <2> QED
    BY <1>0, <2>3 DEF WorkConserving
<1>4. ASSUME ~closed, Enqueue(j) PROVE InLine'
  <2>1. /\ Len(queue') = Len(queue) + 1 /\ queue'[Len(queue) + 1] = j
        /\ \A i \in 1 .. Len(queue) : queue'[i] = queue[i]
        /\ outcome' = outcome
    BY <1>0, <1>4, AppendProperties DEF Enqueue
  <2>2. \A i \in 1 .. Len(queue) : queue[i] \in Nat /\ queue[i] < j
    <3> SUFFICES ASSUME NEW i \in 1 .. Len(queue) PROVE queue[i] \in Nat /\ queue[i] < j
      OBVIOUS
    <3>1. queue[i] \in Jobs /\ queue[i] <= arrived
      BY <1>0, Queued DEF Kind
    <3>2. queue[i] \in Nat
      BY <3>1, BoundsNat DEF Jobs
    <3> QED
      BY <1>0, <1>1, <3>1, <3>2
  <2>3. Rising'
    <3> SUFFICES ASSUME NEW i \in 1 .. Len(queue'), NEW k \in 1 .. Len(queue'), i < k
                 PROVE  queue'[i] < queue'[k]
      BY DEF Rising
    <3>1. i \in 1 .. Len(queue)
      BY <1>0, <2>1
    <3>2. CASE k = Len(queue) + 1
      BY <2>1, <2>2, <3>1, <3>2
    <3>3. CASE k \in 1 .. Len(queue)
      BY <2>1, <3>1, <3>3 DEF InLine, Rising
    <3> QED
      BY <1>0, <2>1, <3>2, <3>3
  <2>4. \A k : Waits(k)' <=> Waits(k) \/ k = j
    <3>1. \A i : i \in 1 .. Len(queue') <=> i \in 1 .. Len(queue) \/ i = Len(queue) + 1
      BY <1>0, <2>1
    <3> QED
      BY <1>0, <2>1, <3>1, WaitsAt, WaitsAtNext
  <2>5. NoOvertaking'
    <3> SUFFICES ASSUME NEW i \in 1 .. arrived', NEW k \in 1 .. arrived', i < k, Waits(i)'
                 PROVE  Waits(k)' \/ outcome'[k] = "queue_timeout"
      BY DEF NoOvertaking
    <3>1. CASE k = j
      BY <2>4, <3>1
    <3>2. CASE k # j
      <4>1. i \in 1 .. arrived /\ k \in 1 .. arrived /\ i # j
        BY <1>0, <1>1, <3>2
      <4>2. Waits(k) \/ outcome[k] = "queue_timeout"
        BY <2>4, <4>1 DEF InLine, NoOvertaking
      <4> QED
        BY <2>1, <2>4, <4>2
    <3> QED
      BY <3>1, <3>2
  <2> QED
    BY <1>1, <1>4, <2>3, <2>5 DEF InLine
<1> QED
  BY <1>2, <1>3, <1>4 DEF Execute, InLine

LEMMA ExpireInLine ==
  ASSUME Kind, InLine, Typed', Once, NEW j \in Jobs, ExpireQueued(j)
  PROVE  InLine'
<1>0. /\ Typed /\ queue \in Seq(Jobs) /\ Len(queue) \in Nat /\ DOMAIN queue = 1 .. Len(queue)
      /\ outcome \in [Jobs -> Outcomes]
  BY LenProperties DEF Kind, Typed, TypeOK
<1>1. PICK i \in 1 .. Len(queue) : queue[i] = j /\ queue' = Without(queue, i)
  BY <1>0 DEF ExpireQueued
<1>2. outcome'[j] = "queue_timeout" /\ UNCHANGED <<closed, arrived>>
  BY <1>0 DEF ExpireQueued
<1> DEFINE at(k) == IF k < i THEN k ELSE k + 1
<1>3. /\ Len(queue') = Len(queue) - 1
      /\ \A k \in 1 .. Len(queue) - 1 : queue'[k] = IF k < i THEN queue[k] ELSE queue[k + 1]
  BY <1>0, <1>1, WithoutEntry
<1>4. \A k \in 1 .. Len(queue') : at(k) \in 1 .. Len(queue) /\ queue'[k] = queue[at(k)]
  BY <1>0, <1>3
<1>5. \A k, l \in 1 .. Len(queue') : k < l => at(k) < at(l)
  BY <1>0, <1>3
<1>6. \A k \in 1 .. Len(queue) : k = i \/ \E l \in 1 .. Len(queue') : at(l) = k
  <2> SUFFICES ASSUME NEW k \in 1 .. Len(queue), k # i PROVE \E l \in 1 .. Len(queue') : at(l) = k
    OBVIOUS
  <2>1. CASE k < i
    BY <1>0, <1>3, <2>1
  <2>2. CASE k > i
    <3>1. k - 1 \in 1 .. Len(queue') /\ at(k - 1) = k
      BY <1>0, <1>3, <2>2
    <3> QED
      BY <3>1
  <2> QED
    BY <2>1, <2>2
<1> HIDE DEF at
<1>7. Rising'
  BY <1>4, <1>5 DEF InLine, Rising
<1>8. \A k \in Jobs : Waits(k)' => Waits(k)
  BY <1>0, <1>4, WaitsAt, WaitsAtNext
<1>9. \A k \in Jobs : Waits(k) /\ ~Waits(k)' => k = j
  <2> SUFFICES ASSUME NEW k \in Jobs, Waits(k), k # j PROVE Waits(k)'
    OBVIOUS
  <2>1. PICK x \in 1 .. Len(queue) : queue[x] = k
    BY <1>0, WaitsAt
  <2>2. PICK l \in 1 .. Len(queue') : at(l) = x
    BY <1>1, <1>6, <2>1
  <2> QED
    BY <1>4, <2>1, <2>2, WaitsAtNext
<1>10. NoOvertaking'
  BY <1>0, <1>2, <1>8, <1>9, NobodyOvertakes DEF InLine
<1>11. ~closed
  BY <1>0, <1>1 DEF InLine
<1> QED
  BY <1>2, <1>7, <1>10, <1>11 DEF InLine

LEMMA NextInLine == Kind /\ InLine /\ [Next]_vars => InLine'
<1> SUFFICES ASSUME Kind, InLine, [Next]_vars PROVE InLine'
  OBVIOUS
<1>0. Typed' /\ Once
  BY NextKeeps DEF Kind
<1>1. ASSUME NEW j \in Jobs, Execute(j) \/ Elapse(j) \/ ExpireQueued(j) PROVE InLine'
  BY <1>0, <1>1, ExecuteInLine, ExpireInLine, LineStays DEF Elapse
<1>2. ASSUME NEW w \in Workers, OnCall(w) \/ (\E j \in Jobs : Respond(w, j)) \/ Forget(w) PROVE InLine'
  BY <1>2, LineStays DEF OnCall, Respond, Forget
<1>3. ASSUME NEW w \in Workers, Thread(w) PROVE InLine'
  <2>1. UNCHANGED pool
    BY <1>3 DEF Thread, TakeRun, TakeReply, CallHost, Finish, Terminated, Dies, Ends
  <2> QED
    BY <2>1, LineStays DEF pool
<1>4. CASE UNCHANGED vars
  BY <1>4, LineStays DEF vars, pool
<1>5. CASE Close
  <2>1. queue' = <<>>
    BY <1>5 DEF Close
  <2>2. Len(queue') = 0 /\ \A j : ~Waits(j)'
    BY <1>0, <2>1, WaitsAtNext
  <2> QED
    BY <2>1, <2>2 DEF InLine, Rising, NoOvertaking
<1> QED
  BY <1>0, <1>1, <1>2, <1>3, <1>4, <1>5, EventsInLine DEF Next, Event, Rest

\* Jobs reach a worker in the order of the calls of execute, for any number of jobs, workers and
\* deaths: one that was called later and no longer waits was rejected in the queue.
THEOREM FirstComeFirstServed == Spec => []NoOvertaking
<1>1. Init => InLine
  <2> SUFFICES ASSUME Init PROVE InLine
    OBVIOUS
  <2>1. queue = <<>> /\ Len(queue) = 0 /\ \A j : ~Waits(j)
    BY DEF Init, Waits, Range
  <2> QED
    BY <2>1 DEF InLine, Rising, NoOvertaking
<1>2. Kind /\ [Next]_vars => Kind'
  BY NextKeeps
<1>3. Kind /\ InLine /\ [Next]_vars => InLine'
  BY NextInLine
<1>4. InLine => NoOvertaking
  BY DEF InLine
<1> QED
  BY InitKind, <1>1, <1>2, <1>3, <1>4, PTL DEF Spec

=============================================================================
