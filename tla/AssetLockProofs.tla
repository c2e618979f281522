-------------------------- MODULE AssetLockProofs --------------------------
(***************************************************************************)
(* Theorems about AssetLock.  For all constants: the types, and that an    *)
(* owner that lost its lock never reports success.  While neither a live   *)
(* owner nor a contender that has read its lease is suspended until that   *)
(* lease is over, for any number of processes as long as nobody dies and   *)
(* for two whatever dies: mutual exclusion, no acknowledged update lost,   *)
(* no lock taken from a live owner.                                        *)
(***************************************************************************)
EXTENDS AssetLock, FiniteSetTheorems, TLAPS

\* An acquisition that holds its file open knows it by its own record.
OwnFile ==
  \A p \in Processes : alive[p] /\ pc[p] \in Owning => ino[p] \in Inodes /\ owner[ino[p]] = p

Holding == Owning \ {"publish"}

\* The file at the lock path has an owner; a live one holds it open.
LockOwner ==
  lock # None =>
    /\ owner[lock] \in Processes
    /\ alive[owner[lock]] => pc[owner[lock]] \in Holding /\ ino[owner[lock]] = lock

\* So has the file of a claim.
ClaimOwner == recovery # None => owner[recovery] \in Processes

Base == TypeOK /\ OwnFile /\ LockOwner /\ ClaimOwner

----------------------------------------------------------------------------
(* Type correctness and the files                                          *)

LEMMA InitBase == Init => Base
<1> SUFFICES ASSUME Init PROVE Base
  OBVIOUS
<1>1. PICK file \in [Dead -> Inodes] :
       /\ \A d, e \in Dead : file[d] = file[e] => d = e
       /\ owner = [n \in Inodes |->
            IF \E d \in Dead : file[d] = n THEN CHOOSE d \in Dead : file[d] = n ELSE None]
       /\ lock \in {None} \cup {file[d] : d \in Dead}
       /\ recovery \in {None} \cup {file[d] : d \in Dead}
  BY DEF Init
<1>2. ASSUME NEW n \in Inodes, \E d \in Dead : file[d] = n
      PROVE  (CHOOSE d \in Dead : file[d] = n) \in Dead
  BY <1>2
<1>3. owner \in [Inodes -> Processes \cup {None}]
  BY <1>1, <1>2, DeadProcesses
<1>4. lock \in Inodes \cup {None} /\ recovery \in Inodes \cup {None}
  BY <1>1
<1>5. TypeOK
  BY <1>3, <1>4 DEF Init, TypeOK, Labels
<1>6. LockOwner
  <2>1. ASSUME lock # None PROVE owner[lock] \in Dead
    <3>1. lock \in Inodes /\ \E d \in Dead : file[d] = lock
      BY <1>1, <2>1
    <3> QED
      BY <1>1, <1>2, <3>1
  <2> QED
    BY <2>1, DeadProcesses DEF Init, LockOwner
<1>8. ClaimOwner
  <2>1. ASSUME recovery # None PROVE owner[recovery] \in Dead
    <3>1. recovery \in Inodes /\ \E d \in Dead : file[d] = recovery
      BY <1>1, <2>1
    <3> QED
      BY <1>1, <1>2, <3>1
  <2> QED
    BY <2>1, DeadProcesses DEF ClaimOwner
<1>7. OwnFile
  BY DEF Init, OwnFile, Owning
<1> QED
  BY <1>5, <1>6, <1>7, <1>8 DEF Base

\* The steps of an acquisition that holds no file.
Searching == {"look", "relook", "pin", "examine", "judge", "match", "removeLock", "checkClaim",
              "removeClaim", "create", "disown", "unlinkOwn", "inspect", "weigh", "linkClaim", "failed"}

Searches(p) ==
  \/ Look(p) \/ Pin(p) \/ Examine(p) \/ Judge(p) \/ Match(p) \/ RemoveLock(p)
  \/ CheckClaim(p) \/ RemoveClaim(p) \/ Disown(p) \/ UnlinkOwn(p)
  \/ Inspect(p) \/ Weigh(p) \/ LinkClaim(p)

\* What is read of a record is whose it is, and a lease that is not over.
LEMMA ReadsReading ==
  ASSUME TypeOK, NEW p \in Processes, NEW n \in Inodes, owner[n] \in Processes, ReadLockOwner(p, n)
  PROVE  /\ reading' \in [Processes -> Readings \cup {None}]
         /\ \A q \in Processes : q # p => reading'[q] = reading[q]
         /\ lease[n] > 0 => reading'[p] # None
<1> DEFINE r == [of |-> owner[n], left |-> lease[n]]
<1>1. lease[n] # 0 => r \in Readings
  BY LeasePositive DEF TypeOK, Readings
<1>2. reading' = [reading EXCEPT ![p] = IF lease[n] = 0 THEN None ELSE r]
  BY DEF ReadLockOwner
<1> HIDE DEF r
<1> QED
  BY <1>1, <1>2, NoneIsNothing DEF TypeOK

LEMMA SearchesEffect ==
  ASSUME TypeOK, LockOwner, ClaimOwner, NEW p \in Processes, Searches(p)
  PROVE  /\ pc[p] \in Searching
         /\ \E l \in Searching : pc' = [pc EXCEPT ![p] = l]
         /\ ino' = ino \/ ino' = [ino EXCEPT ![p] = None]
         /\ lock' = lock \/ lock' = None
         /\ recovery' \in {recovery, lock, None} /\ claimed' \in [Processes -> Inodes \cup {None}]
         /\ reading' \in [Processes -> Readings \cup {None}]
         /\ \A q \in Processes : q # p => reading'[q] = reading[q]
         /\ UNCHANGED <<files, heartbeat, result, process, data>>
<1> USE DEF TypeOK, Goto, Fail, Searching
<1>1. CASE Look(p) BY <1>1 DEF Look, paths, found
<1>2. CASE Pin(p) BY <1>2 DEF Pin, paths, found
<1>3. CASE Examine(p)
  <2>1. CASE recovery = None BY <1>3, <2>1 DEF Examine, paths
  <2>2. CASE recovery # None
    <3>1. recovery \in Inodes /\ owner[recovery] \in Processes /\ ReadLockOwner(p, recovery)
      BY <1>3, <2>2 DEF Examine, ClaimOwner
    <3> QED
      BY <1>3, <2>2, <3>1, ReadsReading DEF Examine, paths
  <2> QED
    BY <2>1, <2>2
<1>4. CASE Judge(p) BY <1>4 DEF Judge, paths, found
<1>5. CASE Match(p) BY <1>5 DEF Match, paths, found
<1>6. CASE RemoveLock(p) BY <1>6 DEF RemoveLock, paths, found
<1>7. CASE CheckClaim(p) BY <1>7 DEF CheckClaim, paths, found
<1>8. CASE RemoveClaim(p) BY <1>8 DEF RemoveClaim, paths, found
<1>9. CASE Disown(p) BY <1>9 DEF Disown, paths, found
<1>10. CASE UnlinkOwn(p) BY <1>10 DEF UnlinkOwn, paths, found
<1>11. CASE Inspect(p)
  <2>1. CASE lock = None BY <1>11, <2>1 DEF Inspect, paths
  <2>2. CASE lock # None
    <3>1. lock \in Inodes /\ owner[lock] \in Processes /\ ReadLockOwner(p, lock)
      BY <1>11, <2>2 DEF Inspect, LockOwner
    <3> QED
      BY <1>11, <2>2, <3>1, ReadsReading DEF Inspect, paths
  <2> QED
    BY <2>1, <2>2
<1>12. CASE Weigh(p) BY <1>12 DEF Weigh, paths, found
<1>13. CASE LinkClaim(p) BY <1>13 DEF LinkClaim, paths, found
<1> QED
  BY <1>1, <1>2, <1>3, <1>4, <1>5, <1>6, <1>7, <1>8, <1>9, <1>10, <1>11, <1>12, <1>13 DEF Searches

LEMMA SearchesBase == ASSUME Base, NEW p \in Processes, Searches(p) PROVE Base'
<1>1. TypeOK /\ LockOwner /\ ClaimOwner
  BY DEF Base
<1>2. PICK l \in Searching : pc' = [pc EXCEPT ![p] = l]
  BY <1>1, SearchesEffect
<1>3. l \in Labels /\ l \notin Owning /\ pc[p] \notin Owning
  BY <1>1, SearchesEffect DEF Searching, Labels, Owning
<1>4. /\ ino' = ino \/ ino' = [ino EXCEPT ![p] = None]
      /\ lock' = lock \/ lock' = None
      /\ recovery' \in {recovery, lock, None} /\ claimed' \in [Processes -> Inodes \cup {None}]
      /\ reading' \in [Processes -> Readings \cup {None}]
      /\ UNCHANGED <<owner, lease, heartbeat, result, alive, reused, reservations, seen>>
  BY <1>1, SearchesEffect DEF files, process, data
<1>5. TypeOK'
  BY <1>1, <1>2, <1>3, <1>4 DEF TypeOK
<1>6. \A q \in Processes : q # p => pc'[q] = pc[q] /\ ino'[q] = ino[q]
  BY <1>1, <1>2, <1>4 DEF TypeOK
<1>7. pc'[p] \notin Owning
  BY <1>1, <1>2, <1>3 DEF TypeOK
<1>8. OwnFile'
  BY <1>4, <1>6, <1>7 DEF Base, OwnFile
<1>9. LockOwner'
  BY <1>3, <1>4, <1>6 DEF Base, LockOwner, Holding
<1>10. ClaimOwner'
  BY <1>1, <1>4 DEF LockOwner, ClaimOwner
<1> QED
  BY <1>5, <1>8, <1>9, <1>10 DEF Base

LEMMA CreateBase == ASSUME Base, NEW p \in Processes, Create(p) PROVE Base'
<1>1. PICK n \in Free : /\ ino' = [ino EXCEPT ![p] = n] /\ owner' = [owner EXCEPT ![n] = p]
                        /\ lease' = [lease EXCEPT ![n] = Lease]
  BY DEF Create
<1>2. n \in Inodes /\ n # lock /\ n # recovery /\ \A q \in Processes : n # ino[q]
  BY DEF Free, Linked
<1>3. pc' = [pc EXCEPT ![p] = "publish"] /\ pc[p] = "create"
      /\ UNCHANGED <<lock, recovery, claimed, reading, heartbeat, result, alive, reused, reservations, seen>>
  BY DEF Create, Goto, paths, found, process, data
<1>4. TypeOK'
  BY <1>1, <1>2, <1>3, LeasePositive DEF Base, TypeOK, Labels, Owning
<1>5. OwnFile'
  BY <1>1, <1>2, <1>3 DEF Base, TypeOK, OwnFile
<1>6. LockOwner'
  <2> SUFFICES ASSUME lock # None
               PROVE  /\ owner'[lock] \in Processes
                      /\ alive[owner'[lock]] => pc'[owner'[lock]] \in Holding /\ ino'[owner'[lock]] = lock
    BY <1>3 DEF LockOwner
  <2>1. owner'[lock] = owner[lock] /\ owner[lock] \in Processes
    BY <1>1, <1>2 DEF Base, TypeOK, LockOwner
  <2>2. alive[owner[lock]] => owner[lock] # p
    BY <1>3 DEF Base, LockOwner, Holding, Owning
  <2> QED
    BY <1>1, <1>3, <2>1, <2>2 DEF Base, TypeOK, LockOwner
<1>7. ClaimOwner'
  BY <1>1, <1>2, <1>3 DEF Base, TypeOK, ClaimOwner
<1> QED
  BY <1>4, <1>5, <1>6, <1>7 DEF Base

LEMMA PublishBase == ASSUME Base, NEW p \in Processes, alive[p], Publish(p) PROVE Base'
<1>1. pc[p] = "publish" /\ ino[p] \in Inodes /\ owner[ino[p]] = p
      /\ UNCHANGED <<recovery, owner, lease, claimed, reading, heartbeat, result, alive, reused, reservations, seen>>
  BY DEF Publish, Base, OwnFile, Owning, files, found, process, data
<1>0. ClaimOwner'
  BY <1>1 DEF Base, ClaimOwner
<1>2. CASE lock = None
  <2>1. lock' = ino[p] /\ pc' = [pc EXCEPT ![p] = "confirm"] /\ ino' = ino
    BY <1>2 DEF Publish, Goto
  <2>2. TypeOK'
    BY <1>1, <2>1 DEF Base, TypeOK, Labels, Owning
  <2>3. OwnFile' /\ LockOwner'
    BY <1>1, <2>1 DEF Base, TypeOK, OwnFile, LockOwner, Holding, Owning
  <2> QED
    BY <1>0, <2>2, <2>3 DEF Base
<1>3. CASE lock # None
  <2>1. lock' = lock /\ pc' = [pc EXCEPT ![p] = "inspect"] /\ ino' = [ino EXCEPT ![p] = None]
    BY <1>3 DEF Publish, Goto
  <2>2. TypeOK'
    BY <1>1, <2>1 DEF Base, TypeOK, Labels, Owning
  <2>3. OwnFile'
    BY <1>1, <2>1 DEF Base, TypeOK, OwnFile, Owning
  <2>4. LockOwner'
    BY <1>1, <2>1 DEF Base, TypeOK, LockOwner, Holding
  <2> QED
    BY <1>0, <2>2, <2>3, <2>4 DEF Base
<1> QED
  BY <1>2, <1>3

\* The owner's own steps: it goes on with its file, or fails because the path names another.
Owns(p) ==
  \/ Confirm(p) \/ ReadReservations(p) \/ AssertBeforeWrite(p) \/ WriteReservations(p)
  \/ AssertAfterAction(p) \/ VerifyRelease(p)

LEMMA OwnsEffect ==
  ASSUME Base, NEW p \in Processes, alive[p], Owns(p)
  PROVE  /\ pc[p] \in Holding \ {"unpublish"}
         /\ \/ \E l \in Holding \ {"confirm"} : pc' = [pc EXCEPT ![p] = l] /\ ino' = ino
            \/ /\ lock # ino[p] /\ ino' = [ino EXCEPT ![p] = None]
               /\ \E l \in {"disown", "failed"} : pc' = [pc EXCEPT ![p] = l]
         /\ result' \in [Processes -> {"none", "ok", "error"}]
         /\ reservations' \in SUBSET Processes /\ seen' \in [Processes -> SUBSET Processes]
         /\ claimed' \in [Processes -> Inodes \cup {None}]
         /\ UNCHANGED <<paths, files, reading, heartbeat, process>>
<1> USE DEF Base, TypeOK, Goto, Fail, AtPath, Holding, Owning
<1>1. CASE Confirm(p) BY <1>1 DEF Confirm, OwnFile, data
<1>2. CASE ReadReservations(p) BY <1>2 DEF ReadReservations, found
<1>3. CASE AssertBeforeWrite(p) BY <1>3 DEF AssertBeforeWrite, AssertOwned, found, data
<1>4. CASE WriteReservations(p) BY <1>4 DEF WriteReservations, found
<1>5. CASE AssertAfterAction(p) BY <1>5 DEF AssertAfterAction, AssertOwned, found, data
<1>6. CASE VerifyRelease(p)
  <2>1. owner[ino[p]] = p
    BY <1>6 DEF VerifyRelease, OwnFile
  <2> QED
    BY <1>6, <2>1 DEF VerifyRelease, found, data
<1> QED
  BY <1>1, <1>2, <1>3, <1>4, <1>5, <1>6 DEF Owns

LEMMA OwnsBase == ASSUME Base, NEW p \in Processes, alive[p], Owns(p) PROVE Base'
<1>1. /\ pc[p] \in Holding
      /\ result' \in [Processes -> {"none", "ok", "error"}]
      /\ reservations' \in SUBSET Processes /\ seen' \in [Processes -> SUBSET Processes]
      /\ claimed' \in [Processes -> Inodes \cup {None}]
      /\ UNCHANGED <<lock, recovery, owner, lease, reading, heartbeat, alive, reused>>
  BY OwnsEffect DEF paths, files, process
<1>2. ino[p] \in Inodes /\ owner[ino[p]] = p
  BY <1>1 DEF Base, OwnFile, Holding
<1>3. ASSUME NEW l \in Holding, pc' = [pc EXCEPT ![p] = l], ino' = ino PROVE Base'
  <2>1. TypeOK'
    BY <1>1, <1>3 DEF Base, TypeOK, Labels, Holding
  <2>2. OwnFile' /\ ClaimOwner'
    BY <1>1, <1>2, <1>3 DEF Base, TypeOK, OwnFile, ClaimOwner
  <2>3. LockOwner'
    BY <1>1, <1>3 DEF Base, TypeOK, LockOwner
  <2> QED
    BY <2>1, <2>2, <2>3 DEF Base
<1>4. ASSUME lock # ino[p], NEW l \in {"disown", "failed"}, pc' = [pc EXCEPT ![p] = l],
             ino' = [ino EXCEPT ![p] = None]
      PROVE  Base'
  <2>1. TypeOK'
    BY <1>1, <1>4 DEF Base, TypeOK, Labels
  <2>2. OwnFile' /\ ClaimOwner'
    BY <1>1, <1>4 DEF Base, TypeOK, OwnFile, ClaimOwner, Owning
  <2>3. LockOwner'
    BY <1>1, <1>4 DEF Base, TypeOK, LockOwner
  <2> QED
    BY <2>1, <2>2, <2>3 DEF Base
<1> QED
  BY <1>3, <1>4, OwnsEffect

LEMMA UnpublishBase == ASSUME Base, NEW p \in Processes, Unpublish(p) PROVE Base'
<1>1. /\ lock' = None /\ \E l \in {"done", "failed"} : pc' = [pc EXCEPT ![p] = l]
      /\ ino' = [ino EXCEPT ![p] = None] \/ ino' = [ino EXCEPT ![p] = lock]
      /\ UNCHANGED <<recovery, owner, lease, claimed, reading, heartbeat, result, alive, reused, reservations, seen>>
  BY DEF Unpublish, Goto, files, found, process, data
<1>2. TypeOK'
  BY <1>1 DEF Base, TypeOK, Labels
<1>3. OwnFile' /\ LockOwner' /\ ClaimOwner'
  BY <1>1 DEF Base, TypeOK, OwnFile, LockOwner, ClaimOwner, Owning
<1> QED
  BY <1>2, <1>3 DEF Base

LEMMA BeatBase == ASSUME Base, NEW p \in Processes, BeatCheck(p) \/ BeatWrite(p) PROVE Base'
<1>1. /\ lease' \in [Inodes -> 0 .. Lease] /\ heartbeat' \in [Processes -> {"idle", "renewing", "failed"}]
      /\ UNCHANGED <<lock, recovery, owner, pc, ino, claimed, reading, result, alive, reused, reservations, seen>>
  BY LeasePositive DEF Base, TypeOK, BeatCheck, BeatWrite, paths, files, found, process, data
<1> QED
  BY <1>1 DEF Base, TypeOK, OwnFile, LockOwner, ClaimOwner

\* What is left of a reading after a tick is a reading.
LEMMA TickReadings == ASSUME Base, Tick PROVE reading' \in [Processes -> Readings \cup {None}]
<1>1. ASSUME NEW r \in Readings, r.left # 1 PROVE [r EXCEPT !.left = @ - 1] \in Readings
  BY <1>1, LeasePositive DEF Readings
<1>2. ASSUME NEW p \in Processes
      PROVE  (IF reading[p] = None \/ reading[p].left = 1 THEN None
              ELSE [reading[p] EXCEPT !.left = @ - 1]) \in Readings \cup {None}
  BY <1>1 DEF Base, TypeOK
<1> QED
  BY <1>2 DEF Tick

LEMMA TickBase == ASSUME Base, Tick PROVE Base'
<1>1. lease' \in [Inodes -> 0 .. Lease]
  <2>1. \A n \in Inodes : lease[n] \in 0 .. Lease
    BY DEF Base, TypeOK
  <2>2. \A n \in Inodes : (IF lease[n] = 0 THEN 0 ELSE lease[n] - 1) \in 0 .. Lease
    BY <2>1, LeasePositive
  <2> QED
    BY <2>2 DEF Tick
<1>2. UNCHANGED <<lock, recovery, owner, heartbeat, pc, ino, claimed, result, alive, reused, reservations, seen>>
  BY DEF Tick, paths, process, data
<1> QED
  BY <1>1, <1>2, TickReadings DEF Base, TypeOK, OwnFile, LockOwner, ClaimOwner

LEMMA CrashBase == ASSUME Base, NEW p \in Processes, Crash(p) PROVE Base'
<1>1. /\ alive' = [alive EXCEPT ![p] = FALSE] /\ \E b \in BOOLEAN : reused' = [reused EXCEPT ![p] = b]
      /\ ino' = ino \/ ino' = [ino EXCEPT ![p] = None]
      /\ heartbeat' = [heartbeat EXCEPT ![p] = "idle"]
      /\ reading' = [reading EXCEPT ![p] = None]
      /\ UNCHANGED <<lock, recovery, owner, lease, pc, claimed, result, reservations, seen>>
  BY DEF Crash, Base, TypeOK, paths, files, data
<1>2. TypeOK'
  BY <1>1 DEF Base, TypeOK
<1>3. OwnFile' /\ LockOwner' /\ ClaimOwner'
  BY <1>1 DEF Base, TypeOK, OwnFile, LockOwner, ClaimOwner
<1> QED
  BY <1>2, <1>3 DEF Base

\* A step of a process is one of these.
LEMMA StepKinds ==
  ASSUME NEW p \in Processes, Step(p)
  PROVE  alive[p] /\ (Searches(p) \/ Create(p) \/ Publish(p) \/ Owns(p) \/ Unpublish(p))
  BY DEF Step, Searches, Owns

LEMMA NextBase == Base /\ [Next]_vars => Base'
<1> SUFFICES ASSUME Base, [Next]_vars PROVE Base'
  OBVIOUS
<1>1. ASSUME NEW p \in Processes, Step(p) PROVE Base'
  BY <1>1, StepKinds, SearchesBase, CreateBase, PublishBase, OwnsBase, UnpublishBase
<1>2. ASSUME NEW p \in Processes, BeatCheck(p) \/ BeatWrite(p) \/ Crash(p) PROVE Base'
  BY <1>2, BeatBase, CrashBase
<1>3. CASE UNCHANGED vars
  BY <1>3 DEF Base, TypeOK, OwnFile, LockOwner, ClaimOwner, vars
<1> QED
  BY <1>1, <1>2, <1>3, TickBase DEF Next, Rest

LEMMA SpecBase == Spec => []Base
  BY InitBase, NextBase, PTL DEF Spec

\* Every variable keeps its type, for any processes, inode numbers, lease, crashes and stalls.
THEOREM TypeCorrect == Spec => []TypeOK
<1>1. Base => TypeOK
  BY DEF Base
<1> QED
  BY <1>1, SpecBase, PTL

----------------------------------------------------------------------------
(* The loser is told                                                       *)

InsideLabels == {"held", "prepared", "commit", "written"}

\* The path names another file while the process is inside, or it is on its way to its error.
Lost(p) ==
  /\ pc[p] # "done"
  /\ \/ ~alive[p] \/ pc[p] = "failed"
     \/ pc[p] \in {"closing", "unpublish"} /\ result[p] = "error"
     \/ pc[p] \in InsideLabels /\ lock # ino[p]

\* Nobody else can link the file of a live owner again.
LEMMA OthersPublish ==
  ASSUME Base, NEW p \in Processes, NEW q \in Processes, p # q, alive[q], alive[p],
         pc[p] \in Owning, Publish(q)
  PROVE  lock' # ino[p] \/ lock' = lock
  BY DEF Base, OwnFile, Publish, Owning

\* What a step of another process leaves alone.
LEMMA OthersStep ==
  ASSUME Base, NEW p \in Processes, NEW q \in Processes, p # q, Step(q)
  PROVE  pc'[p] = pc[p] /\ ino'[p] = ino[p] /\ result'[p] = result[p] /\ alive' = alive
<1> USE DEF Base, TypeOK
<1>1. CASE Searches(q)
  BY <1>1, SearchesEffect DEF process
<1>2. CASE Create(q)
  BY <1>2 DEF Create, Goto, process
<1>3. CASE Publish(q)
  BY <1>3 DEF Publish, Goto, process
<1>4. CASE Unpublish(q)
  BY <1>4 DEF Unpublish, Goto, process
<1>5. CASE Confirm(q) \/ ReadReservations(q) \/ WriteReservations(q) \/ VerifyRelease(q)
  BY <1>5 DEF Confirm, ReadReservations, WriteReservations, VerifyRelease, Goto, Fail, process
<1>6. CASE AssertBeforeWrite(q) \/ AssertAfterAction(q)
  BY <1>6 DEF AssertBeforeWrite, AssertAfterAction, AssertOwned, Goto, process
<1> QED
  BY <1>1, <1>2, <1>3, <1>4, <1>5, <1>6, StepKinds DEF Owns

LEMMA StaysLost == ASSUME NEW p \in Processes PROVE Base /\ Lost(p) /\ [Next]_vars => Lost(p)'
<1> SUFFICES ASSUME Base, Lost(p), [Next]_vars PROVE Lost(p)'
  OBVIOUS
<1>0. TypeOK /\ alive \in [Processes -> BOOLEAN] /\ pc \in [Processes -> Labels]
  BY DEF Base, TypeOK
<1>1. ASSUME Step(p) PROVE Lost(p)'
  <2>1. alive[p] /\ pc[p] \in {"failed", "closing", "unpublish"} \cup InsideLabels
    BY <1>1 DEF Step, Lost
  <2>2. CASE Searches(p)
    <3>1. Searching \cap ({"closing", "unpublish"} \cup InsideLabels) = {}
      BY DEF Searching, InsideLabels
    <3>2. pc[p] = "failed"
      BY <1>0, <2>1, <2>2, <3>1, SearchesEffect DEF Base
    <3> QED
      BY <2>2, <3>2 DEF Searches, Look, Pin, Examine, Judge, Match, RemoveLock, CheckClaim, RemoveClaim,
                        Disown, UnlinkOwn, Inspect, Weigh, LinkClaim
  <2>3. CASE Create(p) \/ Publish(p) \/ Confirm(p)
    BY <2>1, <2>3 DEF Create, Publish, Confirm, InsideLabels
  <2>4. CASE ReadReservations(p) \/ WriteReservations(p)
    <3>1. lock # ino[p] /\ UNCHANGED <<lock, ino>> /\ pc[p] \in InsideLabels /\ pc'[p] \in InsideLabels
      BY <1>0, <2>1, <2>4 DEF Lost, ReadReservations, WriteReservations, Goto, InsideLabels, paths
    <3> QED
      BY <3>1 DEF Lost, InsideLabels
  <2>5. CASE AssertBeforeWrite(p) \/ AssertAfterAction(p)
    <3>1. lock # ino[p]
      BY <2>1, <2>5 DEF Lost, AssertBeforeWrite, AssertAfterAction
    <3>2. Asserted(p) = {FALSE}
      BY <3>1 DEF Asserted, Owned, AtPath
    <3>3. pc'[p] = "closing" /\ result'[p] = "error"
      BY <1>0, <2>5, <3>2 DEF Base, AssertBeforeWrite, AssertAfterAction, AssertOwned, Goto, TypeOK
    <3> QED
      BY <3>3 DEF Lost
  <2>6. CASE VerifyRelease(p)
    <3>1. result'[p] = "error" /\ pc'[p] \in {"unpublish", "failed"}
      BY <1>0, <2>1, <2>6 DEF Lost, InsideLabels, VerifyRelease, Goto, Fail
    <3> QED
      BY <3>1 DEF Lost
  <2>7. CASE Unpublish(p)
    <3>1. pc'[p] = "failed"
      BY <1>0, <2>1, <2>7 DEF Lost, InsideLabels, Unpublish, Goto
    <3> QED
      BY <3>1 DEF Lost
  <2> QED
    BY <1>1, <2>2, <2>3, <2>4, <2>5, <2>6, <2>7, StepKinds DEF Owns
<1>2. ASSUME NEW q \in Processes, q # p, Step(q) PROVE Lost(p)'
  <2>1. pc'[p] = pc[p] /\ ino'[p] = ino[p] /\ result'[p] = result[p] /\ alive' = alive
    BY <1>2, OthersStep
  <2>2. CASE alive[p] /\ pc[p] \in InsideLabels /\ lock # ino[p]
    <3>1. ino[p] \in Inodes /\ ino[p] # None /\ pc[p] \in Owning
      BY <2>2, NoneIsNothing DEF Base, OwnFile, Owning, InsideLabels
    <3>2. lock' # ino[p]
      <4>1. CASE Searches(q)
        BY <1>0, <2>2, <3>1, <4>1, SearchesEffect DEF Base
      <4>2. CASE Create(q) \/ Unpublish(q)
        BY <2>2, <3>1, <4>2 DEF Create, Unpublish, paths
      <4>3. CASE Publish(q)
        BY <1>2, <2>2, <3>1, <4>3, StepKinds, OthersPublish
      <4>4. CASE Owns(q)
        BY <1>2, <2>2, <4>4, StepKinds, OwnsEffect DEF paths
      <4> QED
        BY <1>2, <4>1, <4>2, <4>3, <4>4, StepKinds
    <3> QED
      BY <2>1, <2>2, <3>2 DEF Lost
  <2> QED
    BY <2>1, <2>2 DEF Lost
<1>3. ASSUME NEW q \in Processes, BeatCheck(q) \/ BeatWrite(q) PROVE Lost(p)'
  BY <1>3 DEF BeatCheck, BeatWrite, Lost, paths, process
<1>4. ASSUME NEW q \in Processes, Crash(q) PROVE Lost(p)'
  <2>1. CASE q = p
    BY <1>0, <1>4, <2>1 DEF Crash, Lost
  <2>2. CASE q # p
    <3>1. ino'[p] = ino[p] /\ alive'[p] = alive[p] /\ UNCHANGED <<lock, pc, result>>
      BY <1>0, <1>4, <2>2 DEF Crash, TypeOK, paths
    <3> QED
      BY <3>1 DEF Lost
  <2> QED
    BY <2>1, <2>2
<1>5. CASE Tick \/ Rest \/ UNCHANGED vars
  BY <1>5 DEF Tick, Rest, vars, Lost, paths, process
<1> QED
  BY <1>1, <1>2, <1>3, <1>4, <1>5 DEF Next

\* A process whose lock file was taken away while it was inside never reports success, for any
\* number of processes, crashes and suspensions.
THEOREM LosersAreTold == Spec => LoserIsTold
<1> SUFFICES ASSUME NEW p \in Processes
             PROVE  Spec => []((Inside(p) /\ lock # ino[p]) => [](pc[p] # "done"))
  BY DEF LoserIsTold
<1>1. Inside(p) /\ lock # ino[p] => Lost(p)
  BY DEF Inside, Lost, InsideLabels
<1>2. Lost(p) => pc[p] # "done"
  BY DEF Lost
<1>3. Base /\ Lost(p) /\ [Next]_vars => Lost(p)'
  BY StaysLost
<1> QED
  BY <1>1, <1>2, <1>3, SpecBase, PTL DEF Spec

----------------------------------------------------------------------------
(* Without stalls                                                          *)

Recovering == {"relook", "pin", "examine", "judge", "match", "removeLock", "checkClaim", "removeClaim",
               "disown", "unlinkOwn", "linkClaim"}

\* Nobody dies, or there are only two processes, whether they die or have died before.
FewDie == (Dead = {} /\ MaxCrashes = 0) \/ \E a, b : Processes = {a, b}

Survivors == (\A p \in Processes : alive[p]) \/ (\A p, q \in Processes : alive[p] /\ alive[q] => p = q)

\* The lease of a live owner is not over.
LeasesRun == \A p \in Processes : alive[p] /\ pc[p] \in Owning => lease[ino[p]] > 0

\* The lock path names the file of whoever has linked its own.
Holds == \A p \in Processes : alive[p] /\ pc[p] \in Holding => lock = ino[p]

\* While everybody lives, nobody recovers a lock, and no lease is over that a contender has read.
Calm ==
  (\A p \in Processes : alive[p]) =>
    /\ recovery = None
    /\ \A p \in Processes : pc[p] \notin Recovering /\ (pc[p] = "weigh" => reading[p] # None)

\* What was read under the lock is still the content of the file.
Fresh == \A p \in Processes : alive[p] /\ pc[p] \in {"prepared", "commit"} => seen[p] = reservations

\* The update of a process that is past its write, or says so, is in the file.
Acked ==
  \A p \in Processes :
    pc[p] \in {"written", "done"} \/ (pc[p] \in {"closing", "unpublish"} /\ result[p] = "ok")
    => p \in reservations

Safe == Survivors /\ LeasesRun /\ Holds /\ Calm /\ Fresh /\ Acked

LEMMA InitSafe == FewDie /\ Init => Safe
<1> SUFFICES ASSUME FewDie, Init PROVE Safe
  OBVIOUS
<1>1. Survivors
  BY DEF FewDie, Init, Survivors
<1>2. Calm
  <2>1. ASSUME \A p \in Processes : alive[p] PROVE Dead = {}
    BY <2>1, DeadProcesses DEF Init
  <2>2. Dead = {} => recovery = None
    BY DEF Init
  <2> QED
    BY <2>1, <2>2 DEF Init, Calm, Recovering
<1>3. LeasesRun /\ Holds /\ Fresh /\ Acked
  BY DEF Init, LeasesRun, Holds, Fresh, Acked, Owning, Holding
<1> QED
  BY <1>1, <1>2, <1>3 DEF Safe

\* Crashes stop before three processes could be told apart by them.
LEMMA CrashSurvivors ==
  ASSUME FewDie, Base, Survivors, NEW p \in Processes, Crash(p)
  PROVE  Survivors' /\ ~(\A q \in Processes : alive'[q])
<1>1. alive' = [alive EXCEPT ![p] = FALSE] /\ alive \in [Processes -> BOOLEAN] /\ alive[p]
  BY DEF Crash, Base, TypeOK
<1>2. CASE Dead = {} /\ MaxCrashes = 0
  <2> DEFINE gone == {q \in Processes \ Dead : ~alive[q]}
  <2>1. IsFiniteSet(gone)
    BY FiniteProcesses, FS_Subset
  <2>2. Cardinality(gone) \in Nat
    BY <2>1, FS_CardinalityType
  <2>3. Cardinality(gone) < MaxCrashes
    BY DEF Crash
  <2> HIDE DEF gone
  <2> QED
    BY <1>2, <2>2, <2>3
<1>3. CASE \E a, b : Processes = {a, b}
  BY <1>1, <1>3 DEF Survivors
<1> QED
  BY <1>1, <1>2, <1>3 DEF FewDie

\* The lease of a lock whose owner lives is not over, so whoever reads it has time to compare it.
LEMMA LiveOwnersLeaseRuns ==
  ASSUME Base, LeasesRun, lock # None, alive[owner[lock]]
  PROVE  lock \in Inodes /\ owner[lock] \in Processes /\ lease[lock] > 0
  BY DEF Base, TypeOK, LockOwner, LeasesRun, Holding

\* Two who hold a file hold two files.
LEMMA OneHolds ==
  ASSUME Base, Holds, NEW p \in Processes, NEW q \in Processes, alive[p], alive[q],
         pc[p] \in Holding, pc[q] \in Holding
  PROVE  p = q
  BY DEF Base, OwnFile, Holds, Holding

\* Whoever recovers a lock is the only survivor.
LEMMA RecovererIsAlone ==
  ASSUME Survivors, Calm, NEW p \in Processes, NEW q \in Processes, alive[p], alive[q],
         pc[p] \in Recovering
  PROVE  p = q
  BY DEF Survivors, Calm

----------------------------------------------------------------------------
(* The steps                                                               *)

\* A step that leaves leases, paths and everybody's file alone.
LEMMA OwnsSafe == ASSUME Base, Safe, NEW p \in Processes, alive[p], Owns(p) PROVE Safe'
<1>0. /\ TypeOK /\ pc[p] \in Holding /\ lock = ino[p]
      /\ UNCHANGED <<lock, recovery, owner, lease, reading, alive>>
  BY OwnsEffect DEF Base, paths, files, process, Safe, Holds
<1>1. PICK l \in Holding \ {"confirm"} : pc' = [pc EXCEPT ![p] = l] /\ ino' = ino
  BY <1>0, OwnsEffect
<1>2. /\ \A q \in Processes : q # p => pc'[q] = pc[q]
      /\ pc'[p] = l
  BY <1>0, <1>1 DEF TypeOK
<1>3. LeasesRun'
  BY <1>0, <1>1, <1>2 DEF Safe, LeasesRun, Holding
<1>4. Holds'
  BY <1>0, <1>1, <1>2 DEF Safe, Holds
<1>5. Calm' /\ Survivors'
  <2>1. l \notin Recovering /\ l # "weigh"
    BY DEF Holding, Owning, Recovering
  <2> QED
    BY <1>0, <1>2, <2>1 DEF Safe, Calm, Survivors
<1>6. ASSUME NEW q \in Processes, q # p, alive[q] PROVE pc[q] \notin {"prepared", "commit"}
  BY <1>0, <1>6, OneHolds DEF Safe, Holding, Owning
<1>7. \A q \in Processes : q # p => result'[q] = result[q] /\ seen'[q] = seen[q]
  BY <1>0 DEF TypeOK, Owns, Confirm, ReadReservations, AssertBeforeWrite, AssertAfterAction, WriteReservations,
              VerifyRelease, AssertOwned, data
<1>8. Fresh'
  <2>1. alive[p] /\ pc'[p] \in {"prepared", "commit"} => seen'[p] = reservations'
    <3>1. CASE ReadReservations(p)
      BY <1>0, <3>1 DEF ReadReservations, TypeOK
    <3>2. CASE AssertBeforeWrite(p)
      BY <1>0, <3>2 DEF AssertBeforeWrite, data, Safe, Fresh
    <3>3. CASE WriteReservations(p) \/ AssertAfterAction(p) \/ Confirm(p) \/ VerifyRelease(p)
      BY <1>0, <3>3 DEF WriteReservations, AssertAfterAction, AssertOwned, Confirm, VerifyRelease, Goto, Fail, TypeOK
    <3> QED
      BY <3>1, <3>2, <3>3 DEF Owns
  <2> QED
    BY <1>0, <1>2, <1>6, <2>1 DEF Fresh
<1>9. Acked'
  <2>1. reservations \subseteq reservations' /\ (pc'[p] = "written" => p \in reservations')
    <3>1. CASE WriteReservations(p)
      <4>1. seen[p] = reservations
        BY <1>0, <3>1 DEF WriteReservations, Safe, Fresh
      <4> QED
        BY <3>1, <4>1 DEF WriteReservations
    <3>2. CASE \/ ReadReservations(p) \/ AssertBeforeWrite(p) \/ AssertAfterAction(p) \/ Confirm(p)
               \/ VerifyRelease(p)
      BY <1>0, <3>2 DEF ReadReservations, AssertBeforeWrite, AssertAfterAction, AssertOwned, Confirm,
                        VerifyRelease, Goto, Fail, TypeOK, data
    <3> QED
      BY <3>1, <3>2 DEF Owns
  <2>2. pc'[p] # "done"
    BY <1>2 DEF Holding, Owning
  <2>3. pc'[p] \in {"closing", "unpublish"} /\ result'[p] = "ok" => p \in reservations'
    <3>1. CASE AssertBeforeWrite(p)
      BY <1>0, <3>1 DEF AssertBeforeWrite, AssertOwned, Goto, TypeOK
    <3>2. CASE AssertAfterAction(p)
      BY <1>0, <2>1, <3>2 DEF AssertAfterAction, Safe, Acked
    <3>3. CASE VerifyRelease(p)
      BY <1>0, <2>1, <3>3 DEF VerifyRelease, Safe, Acked
    <3>4. CASE ReadReservations(p) \/ Confirm(p) \/ WriteReservations(p)
      BY <1>0, <3>4 DEF ReadReservations, Confirm, WriteReservations, Goto, Fail, TypeOK
    <3> QED
      BY <3>1, <3>2, <3>3, <3>4 DEF Owns
  <2> QED
    BY <1>2, <1>7, <2>1, <2>2, <2>3 DEF Safe, Acked
<1> QED
  BY <1>3, <1>4, <1>5, <1>8, <1>9 DEF Safe

\* A step of an acquisition that holds no file.
LEMMA SearchesSafe == ASSUME Base, Safe, NEW p \in Processes, alive[p], Searches(p) PROVE Safe'
<1>0. /\ TypeOK /\ pc[p] \in Searching
      /\ ino' = ino \/ ino' = [ino EXCEPT ![p] = None]
      /\ \A q \in Processes : q # p => reading'[q] = reading[q]
      /\ UNCHANGED <<owner, lease, heartbeat, result, alive, reused, reservations, seen>>
  BY SearchesEffect DEF Base, files, process, data
<1>1. PICK l \in Searching : pc' = [pc EXCEPT ![p] = l]
  BY SearchesEffect DEF Base
<1>2. /\ \A q \in Processes : q # p => pc'[q] = pc[q] /\ ino'[q] = ino[q]
      /\ pc'[p] = l
  BY <1>0, <1>1 DEF TypeOK
<1>3. Searching \cap Owning = {} /\ "done" \notin Searching
  BY DEF Searching, Owning
<1>4. LeasesRun' /\ Survivors'
  BY <1>0, <1>2, <1>3 DEF Safe, LeasesRun, Survivors
<1>5. Fresh' /\ Acked'
  BY <1>0, <1>2, <1>3 DEF Safe, Fresh, Acked, Owning
<1>6. Calm' /\ (pc[p] \in Recovering \/ lock' = lock)
  <2>1. CASE \A q \in Processes : alive[q]
    <3>1. recovery = None /\ pc[p] \notin Recovering
      BY <2>1 DEF Safe, Calm
    <3>2. Look(p) \/ Inspect(p) \/ Weigh(p)
      BY <3>1 DEF Searches, Recovering, Look, Pin, Examine, Judge, Match, RemoveLock, CheckClaim, RemoveClaim,
                  Disown, UnlinkOwn, LinkClaim
    <3>3. /\ UNCHANGED paths /\ pc'[p] \in {"create", "look", "weigh"}
          /\ pc'[p] = "weigh" => reading'[p] # None
      <4>1. CASE Look(p)
        BY <1>0, <3>1, <4>1 DEF Look, Goto, TypeOK, Recovering
      <4>2. CASE Inspect(p)
        <5>1. ASSUME lock # None PROVE ReadLockOwner(p, lock) /\ pc'[p] = "weigh"
          BY <1>0, <4>2, <5>1 DEF Inspect, Goto, TypeOK
        <5>2. ASSUME lock # None PROVE reading'[p] # None
          <6>1. owner[lock] \in Processes /\ alive[owner[lock]]
            BY <2>1, <5>2 DEF Base, LockOwner
          <6> QED
            BY <1>0, <5>1, <5>2, <6>1, LiveOwnersLeaseRuns, ReadsReading DEF Safe
        <5>3. lock = None => pc'[p] = "look"
          BY <1>0, <4>2 DEF Inspect, Goto, TypeOK
        <5> QED
          BY <4>2, <5>1, <5>2, <5>3 DEF Inspect
      <4>3. CASE Weigh(p)
        <5>1. reading[p] # None /\ reading[p] \in Readings
          BY <1>0, <2>1, <4>3 DEF Safe, Calm, Weigh, TypeOK
        <5>2. Active(reading[p])
          BY <2>1, <5>1 DEF Active, Readings
        <5> QED
          BY <1>0, <4>3, <5>2 DEF Weigh, Goto, TypeOK
      <4> QED
        BY <3>2, <4>1, <4>2, <4>3
    <3> QED
      BY <1>0, <1>2, <2>1, <3>1, <3>3 DEF Safe, Calm, Recovering, paths
  <2>2. CASE ~(\A q \in Processes : alive[q])
    <3>1. Calm'
      BY <1>0, <2>2 DEF Calm
    <3>2. pc[p] \in Recovering \/ lock' = lock
      BY DEF Searches, Recovering, Look, Pin, Examine, Judge, Match, RemoveLock, CheckClaim, RemoveClaim,
             Disown, UnlinkOwn, Inspect, Weigh, LinkClaim, paths
    <3> QED
      BY <3>1, <3>2
  <2> QED
    BY <2>1, <2>2
<1>7. Holds'
  <2> SUFFICES ASSUME NEW q \in Processes, alive[q], pc'[q] \in Holding PROVE lock' = ino'[q]
    BY <1>0 DEF Holds
  <2>1. q # p /\ pc[q] \in Holding /\ lock = ino[q] /\ ino'[q] = ino[q]
    BY <1>2, <1>3 DEF Safe, Holds, Holding
  <2> QED
    BY <1>6, <2>1, RecovererIsAlone DEF Safe
<1> QED
  BY <1>4, <1>5, <1>6, <1>7 DEF Safe

LEMMA CreateSafe == ASSUME Base, Safe, NEW p \in Processes, Create(p) PROVE Safe'
<1>1. PICK n \in Free : /\ ino' = [ino EXCEPT ![p] = n] /\ owner' = [owner EXCEPT ![n] = p]
                        /\ lease' = [lease EXCEPT ![n] = Lease]
  BY DEF Create
<1>2. n \in Inodes /\ \A q \in Processes : n # ino[q]
  BY DEF Free, Linked
<1>3. pc' = [pc EXCEPT ![p] = "publish"]
      /\ UNCHANGED <<lock, recovery, claimed, reading, heartbeat, result, alive, reused, reservations, seen>>
  BY DEF Create, Goto, paths, found, process, data
<1>4. TypeOK /\ OwnFile
  BY DEF Base
<1>5. LeasesRun'
  <2> SUFFICES ASSUME NEW q \in Processes, alive[q], pc'[q] \in Owning PROVE lease'[ino'[q]] > 0
    BY <1>3 DEF LeasesRun
  <2>1. CASE q = p
    BY <1>1, <1>2, <1>4, <2>1, LeasePositive DEF TypeOK
  <2>2. CASE q # p
    <3>1. pc[q] \in Owning /\ ino'[q] = ino[q] /\ ino[q] \in Inodes /\ lease[ino[q]] > 0
      BY <1>1, <1>3, <1>4, <2>2 DEF TypeOK, OwnFile, Safe, LeasesRun
    <3> QED
      BY <1>1, <1>2, <1>4, <3>1 DEF TypeOK
  <2> QED
    BY <2>1, <2>2
<1>6. Holds' /\ Survivors'
  BY <1>1, <1>3, <1>4 DEF TypeOK, Safe, Holds, Survivors, Holding
<1>7. Calm' /\ Fresh' /\ Acked'
  BY <1>3, <1>4 DEF TypeOK, Safe, Calm, Fresh, Acked, Recovering
<1> QED
  BY <1>5, <1>6, <1>7 DEF Safe

LEMMA PublishSafe == ASSUME Base, Safe, NEW p \in Processes, alive[p], Publish(p) PROVE Safe'
<1>1. /\ pc[p] = "publish" /\ TypeOK /\ ino[p] \in Inodes /\ lease[ino[p]] > 0
      /\ UNCHANGED <<recovery, owner, lease, reading, result, alive, reservations, seen>>
  BY DEF Publish, Base, OwnFile, Safe, LeasesRun, Owning, files, found, process, data
<1>2. CASE lock = None
  <2>1. lock' = ino[p] /\ pc' = [pc EXCEPT ![p] = "confirm"] /\ ino' = ino
    BY <1>2 DEF Publish, Goto
  <2>2. LeasesRun' /\ Survivors'
    BY <1>1, <2>1 DEF TypeOK, Safe, LeasesRun, Survivors
  <2>3. Holds'
    <3>1. ASSUME NEW q \in Processes, q # p, alive[q] PROVE pc[q] \notin Holding
      BY <1>2, <3>1, NoneIsNothing DEF Safe, Holds, Base, OwnFile, Holding
    <3> QED
      BY <1>1, <2>1, <3>1 DEF TypeOK, Holds
  <2>4. Calm' /\ Fresh' /\ Acked'
    BY <1>1, <2>1 DEF TypeOK, Safe, Calm, Fresh, Acked, Recovering
  <2> QED
    BY <2>2, <2>3, <2>4 DEF Safe
<1>3. CASE lock # None
  <2>1. lock' = lock /\ pc' = [pc EXCEPT ![p] = "inspect"] /\ ino' = [ino EXCEPT ![p] = None]
    BY <1>3 DEF Publish, Goto
  <2>2. "inspect" \notin Owning /\ "inspect" \notin Holding
    BY DEF Owning, Holding
  <2>3. LeasesRun' /\ Survivors' /\ Holds'
    BY <1>1, <2>1, <2>2 DEF TypeOK, Safe, LeasesRun, Survivors, Holds
  <2>4. Calm' /\ Fresh' /\ Acked'
    BY <1>1, <2>1 DEF TypeOK, Safe, Calm, Fresh, Acked, Recovering
  <2> QED
    BY <2>3, <2>4 DEF Safe
<1> QED
  BY <1>2, <1>3

LEMMA UnpublishSafe == ASSUME Base, Safe, NEW p \in Processes, alive[p], Unpublish(p) PROVE Safe'
<1>1. /\ pc[p] = "unpublish" /\ TypeOK /\ lock = ino[p]
      /\ UNCHANGED <<recovery, owner, lease, reading, result, alive, reservations, seen>>
  BY DEF Unpublish, Base, Safe, Holds, Holding, Owning, files, found, process, data
<1>2. /\ lock' = None /\ ino' = [ino EXCEPT ![p] = None]
      /\ pc' = [pc EXCEPT ![p] = IF result[p] = "ok" THEN "done" ELSE "failed"]
  BY <1>1 DEF Unpublish, AtPath, Goto
<1>3. pc'[p] \notin Owning /\ pc'[p] \notin Recovering /\ pc'[p] # "weigh"
  BY <1>1, <1>2 DEF TypeOK, Owning, Recovering
<1>4. LeasesRun' /\ Survivors'
  BY <1>1, <1>2, <1>3 DEF TypeOK, Safe, LeasesRun, Survivors
<1>5. Holds'
  <2>1. ASSUME NEW q \in Processes, q # p, alive[q] PROVE pc[q] \notin Holding
    BY <1>1, <2>1, OneHolds DEF Safe, Holding, Owning
  <2> QED
    BY <1>1, <1>2, <1>3, <2>1 DEF TypeOK, Holds, Holding
<1>6. Calm' /\ Fresh' /\ Acked'
  BY <1>1, <1>2, <1>3 DEF TypeOK, Safe, Calm, Fresh, Acked
<1> QED
  BY <1>4, <1>5, <1>6 DEF Safe

LEMMA BeatSafe == ASSUME Base, Safe, NEW p \in Processes, BeatCheck(p) \/ BeatWrite(p) PROVE Safe'
<1>1. TypeOK /\ OwnFile /\ UNCHANGED <<lock, recovery, owner, pc, ino, reading, result, alive, reservations, seen>>
  BY DEF Base, BeatCheck, BeatWrite, paths, files, found, process, data
<1>2. LeasesRun'
  <2>1. lease' = lease \/ lease' = [lease EXCEPT ![ino[p]] = Lease]
    BY DEF BeatCheck, BeatWrite, files
  <2> QED
    BY <1>1, <2>1, LeasePositive DEF TypeOK, OwnFile, Safe, LeasesRun
<1>3. Survivors' /\ Holds' /\ Calm' /\ Fresh' /\ Acked'
  BY <1>1 DEF Safe, Survivors, Holds, Calm, Fresh, Acked
<1> QED
  BY <1>2, <1>3 DEF Safe

\* A tick ends a reading only if one unit was left of it.
LEMMA TickKeepsReading ==
  ASSUME Base, Tick, NEW p \in Processes, reading[p] # None, reading[p].left # 1
  PROVE  reading'[p] # None
<1>1. reading[p] \in Readings
  BY DEF Base, TypeOK
<1>2. [reading[p] EXCEPT !.left = @ - 1] \in Readings
  BY <1>1, LeasePositive DEF Readings
<1>3. reading'[p] = [reading[p] EXCEPT !.left = @ - 1]
  BY DEF Tick
<1> QED
  BY <1>2, <1>3, NoneIsNothing

LEMMA TickSafe == ASSUME Base, Safe, ~Stalls, ~SlowReaders, Tick PROVE Safe'
<1>1. TypeOK /\ OwnFile /\ UNCHANGED <<lock, recovery, owner, pc, ino, result, alive, reservations, seen>>
  BY DEF Base, Tick, paths, process, data
<1>2. LeasesRun'
  <2> SUFFICES ASSUME NEW q \in Processes, alive[q], pc[q] \in Owning PROVE lease'[ino[q]] > 0
    BY <1>1 DEF LeasesRun
  <2>1. lease[ino[q]] > 1 /\ ino[q] \in Inodes
    BY <1>1 DEF Tick, OwnFile
  <2>2. lease[ino[q]] \in Nat
    BY <1>1, <2>1, LeasePositive DEF TypeOK
  <2> QED
    BY <2>1, <2>2 DEF Tick
<1>3. Survivors' /\ Holds' /\ Fresh' /\ Acked'
  BY <1>1 DEF Safe, Survivors, Holds, Fresh, Acked
<1>4. Calm'
  <2>1. ASSUME \A p \in Processes : alive[p], NEW p \in Processes, reading[p] # None
        PROVE  reading'[p] # None
    <3>1. reading[p] \in Readings /\ alive[reading[p].of]
      BY <1>1, <2>1 DEF TypeOK, Readings
    <3>2. reading[p].left # 1
      BY <2>1, <3>1 DEF Tick, LapsesUnjudged
    <3> QED
      BY <2>1, <3>2, TickKeepsReading
  <2> QED
    BY <1>1, <2>1 DEF Safe, Calm
<1> QED
  BY <1>2, <1>3, <1>4 DEF Safe

LEMMA CrashSafe == ASSUME FewDie, Base, Safe, NEW p \in Processes, Crash(p) PROVE Safe'
<1>1. /\ TypeOK /\ alive' = [alive EXCEPT ![p] = FALSE]
      /\ UNCHANGED <<lock, recovery, owner, lease, pc, result, reservations, seen>>
      /\ \A q \in Processes : q # p => ino'[q] = ino[q]
  BY DEF Crash, Base, TypeOK, paths, files, data
<1>2. Survivors' /\ Calm'
  BY CrashSurvivors DEF Safe, Calm
<1>3. LeasesRun' /\ Holds' /\ Fresh' /\ Acked'
  BY <1>1 DEF TypeOK, Safe, LeasesRun, Holds, Fresh, Acked
<1> QED
  BY <1>2, <1>3 DEF Safe

LEMMA NextSafe == FewDie /\ ~Stalls /\ ~SlowReaders /\ Base /\ Safe /\ [Next]_vars => Safe'
<1> SUFFICES ASSUME FewDie, ~Stalls, ~SlowReaders, Base, Safe, [Next]_vars PROVE Safe'
  OBVIOUS
<1>1. ASSUME NEW p \in Processes, Step(p) PROVE Safe'
  BY <1>1, StepKinds, SearchesSafe, CreateSafe, PublishSafe, OwnsSafe, UnpublishSafe
<1>2. ASSUME NEW p \in Processes, BeatCheck(p) \/ BeatWrite(p) \/ Crash(p) PROVE Safe'
  BY <1>2, BeatSafe, CrashSafe
<1>3. CASE UNCHANGED vars
  BY <1>3 DEF Safe, Survivors, LeasesRun, Holds, Calm, Fresh, Acked, vars
<1> QED
  BY <1>1, <1>2, <1>3, TickSafe DEF Next, Rest

LEMMA SpecSafe == ASSUME FewDie, ~Stalls, ~SlowReaders PROVE Spec => [](Base /\ Safe)
  BY InitBase, NextBase, InitSafe, NextSafe, PTL DEF Spec

\* At most one live process is inside the protected action, while neither a live owner nor a
\* contender that has read its lease is suspended until that lease is over: for any number of
\* processes if nobody dies, for two at whichever await one dies.
THEOREM Exclusion == FewDie /\ ~Stalls /\ ~SlowReaders => (Spec => []MutualExclusion)
<1> SUFFICES ASSUME FewDie, ~Stalls, ~SlowReaders PROVE Spec => []MutualExclusion
  OBVIOUS
<1>1. ASSUME Base, Safe PROVE MutualExclusion
  BY <1>1, OneHolds DEF MutualExclusion, Inside, Safe, Holding, Owning
<1> QED
  BY <1>1, SpecSafe, PTL

\* An update whose caller was told it succeeded stays in the file, under the same conditions.
THEOREM UpdatesSurvive == FewDie /\ ~Stalls /\ ~SlowReaders => (Spec => []AcknowledgedUpdateSurvives)
<1> SUFFICES ASSUME FewDie, ~Stalls, ~SlowReaders PROVE Spec => []AcknowledgedUpdateSurvives
  OBVIOUS
<1>1. Base /\ Safe => AcknowledgedUpdateSurvives
  BY DEF AcknowledgedUpdateSurvives, Safe, Acked
<1> QED
  BY <1>1, SpecSafe, PTL

\* The lock file of a live owner leaves the path only by the owner's own release, under the same
\* conditions: no recovery takes it away.
THEOREM LocksAreReleased == FewDie /\ ~Stalls /\ ~SlowReaders => (Spec => OnlyOwnerReleases)
<1> SUFFICES ASSUME FewDie, ~Stalls, ~SlowReaders PROVE Spec => OnlyOwnerReleases
  OBVIOUS
<1>1. ASSUME Base, Safe, [Next]_vars
      PROVE  [lock # None /\ lock' # lock /\ alive[owner[lock]] /\ lease[lock] > 0
                => \E p \in Processes : owner[lock] = p /\ pc[p] = "unpublish" /\ pc'[p] # pc[p]]_vars
  <2> SUFFICES ASSUME lock # None, lock' # lock, alive[owner[lock]]
               PROVE  \E p \in Processes : owner[lock] = p /\ pc[p] = "unpublish" /\ pc'[p] # pc[p]
    OBVIOUS
  <2>1. owner[lock] \in Processes /\ pc[owner[lock]] \in Holding /\ ino[owner[lock]] = lock
    BY <1>1 DEF Base, LockOwner
  <2>2. PICK q \in Processes : alive[q] /\ (RemoveLock(q) \/ UnlinkOwn(q) \/ Unpublish(q))
    <3>1. PICK q \in Processes : Step(q)
      BY <1>1 DEF Next, BeatCheck, BeatWrite, Crash, Tick, Rest, vars, paths
    <3>2. alive[q] /\ (Searches(q) \/ Create(q) \/ Publish(q) \/ Owns(q) \/ Unpublish(q))
      BY <3>1, StepKinds
    <3>3. ~Create(q) /\ ~Publish(q)
      BY DEF Create, Publish, paths
    <3>4. ~Owns(q)
      BY <1>1, <3>2, OwnsEffect DEF paths
    <3>5. Searches(q) => RemoveLock(q) \/ UnlinkOwn(q)
      BY DEF Searches, Look, Pin, Examine, Judge, Match, CheckClaim, RemoveClaim, Disown, Inspect, Weigh,
             LinkClaim, paths
    <3> QED
      BY <3>2, <3>3, <3>4, <3>5
  <2>3. CASE RemoveLock(q) \/ UnlinkOwn(q)
    <3>1. pc[q] \in Recovering /\ pc[q] \notin Holding
      BY <2>3 DEF RemoveLock, UnlinkOwn, Recovering, Holding, Owning
    <3> QED
      BY <1>1, <2>1, <2>2, <3>1, RecovererIsAlone DEF Safe
  <2>4. CASE Unpublish(q)
    <3>1. pc[q] = "unpublish" /\ pc[q] \in Holding /\ pc'[q] \in {"done", "failed"}
      BY <1>1, <2>4 DEF Unpublish, Goto, Base, TypeOK, Holding, Owning
    <3>2. q = owner[lock]
      BY <1>1, <2>1, <2>2, <3>1, OneHolds DEF Safe
    <3> QED
      BY <3>1, <3>2
  <2> QED
    BY <2>2, <2>3, <2>4
<1> QED
  BY <1>1, SpecSafe, PTL DEF Spec, OnlyOwnerReleases

=============================================================================
