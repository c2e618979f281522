----------------------------- MODULE AssetLock -----------------------------
(***************************************************************************)
(* The fixed-path file lock that serializes the state transitions of the   *)
(* filesystem asset store (asset-storage/filesystem-coordination.ts), and  *)
(* the read-modify-write of the reservation file it protects.              *)
(*                                                                         *)
(* Processes of one host share a directory.  Every await on a file-system  *)
(* call is a step of its own; what a process learns from one call may be   *)
(* stale at the next.  Inode numbers are a finite pool and a freed number  *)
(* can be given to the next file, as file systems do.  A lease is kept as  *)
(* the time it has left, so the passing of time needs no bound.            *)
(***************************************************************************)
EXTENDS Integers, FiniteSets

CONSTANTS
  Processes,  \* one acquisition each; a restarted process is another member
  Dead,       \* those that died before, their lock or recovery files left behind
  Inodes,     \* inode numbers of the state directory's file system
  Lease,      \* leaseMs, in heartbeats
  MaxCrashes, \* bound on the crashes of a behaviour
  Stalls,     \* may a live owner be suspended past its lease, as it is or as it read it
  SlowReaders, \* may a contender, between reading a live process's lease and comparing it
  None        \* no file at a path, no inode

ASSUME FiniteProcesses == IsFiniteSet(Processes)
ASSUME DeadProcesses == Dead \subseteq Processes
ASSUME LeasePositive == Lease \in Nat \ {0}
ASSUME MaxCrashesNat == MaxCrashes \in Nat
ASSUME StallsBoolean == Stalls \in BOOLEAN
ASSUME SlowReadersBoolean == SlowReaders \in BOOLEAN

\* What a contender has read of an owner's record: whose it is, and what was left of its lease.
Readings == [of : Processes, left : 1 .. Lease]

ASSUME NoneIsNothing == None \notin Inodes \cup Processes \cup Readings

VARIABLES
  lock,         \* inode linked at coordination.lock
  recovery,     \* inode linked at coordination.recovery
  owner,        \* [Inodes -> Processes \cup {None}]: whose record the file holds
  lease,        \* [Inodes -> 0 .. Lease]: what is left of leaseExpiresAt, 0 when now reaches it
  pc,
  ino,          \* the file a process holds open, or has left under a name of its own
  claimed,      \* the identity a running finishRecovery, or a failed acquireLock, goes by
  reading,      \* [Processes -> Readings \cup {None}]: the record read, None if its lease is over
  heartbeat,    \* "idle", between its check and its write, or "failed"
  result,       \* has the protected action returned or thrown
  alive,
  reused,       \* an unrelated process runs under the dead process's pid
  reservations, \* content of the reservation file: whose update it holds
  seen          \* the content a process read under the lock

paths == <<lock, recovery>>
files == <<owner, lease>>
found == <<claimed, reading>>
process == <<alive, reused>>
data == <<reservations, seen>>
vars == <<lock, recovery, owner, lease, pc, ino, claimed, reading, heartbeat,
          result, alive, reused, reservations, seen>>

Goto(p, label) == pc' = [pc EXCEPT ![p] = label]

\* Mutant: the owner is read without its lease, as if it had just been taken.
ReadOwnerOnly(p, n) == reading' = [reading EXCEPT ![p] = [of |-> owner[n], left |-> Lease]]

\* readLockOwner: what is left of the lease when the record is read.  The handle is still to be
\* closed; the lease runs on as it was read, whatever the owner writes meanwhile.
ReadLockOwner(p, n) ==
  reading' = [reading EXCEPT ![p] = IF lease[n] = 0 THEN None
                                    ELSE [of |-> owner[n], left |-> lease[n]]]

\* Mutant: a pid of another user, which answers EPERM, is taken for dead.
ForeignPidIsDead(r) == r # None /\ reused[r.of]

\* lockOwnerIsActive: the pid answers now, and the lease that was read is not over by now.
Active(r) == r # None /\ (alive[r.of] \/ reused[r.of])

Linked == {lock, recovery} \cup {ino[p] : p \in Processes}
Free == Inodes \ Linked

\* A recovery that was interrupted leaves the claim, with or without the lock it claimed.
Init ==
  /\ \E file \in [Dead -> Inodes] :
       /\ \A d, e \in Dead : file[d] = file[e] => d = e
       /\ owner = [n \in Inodes |->
            IF \E d \in Dead : file[d] = n THEN CHOOSE d \in Dead : file[d] = n ELSE None]
       /\ lock \in {None} \cup {file[d] : d \in Dead}
       /\ recovery \in {None} \cup {file[d] : d \in Dead}
  /\ lease \in [Inodes -> 0 .. Lease]
  /\ \A n \in Inodes : lease[n] > 0 => n \in {lock, recovery}
  /\ pc = [p \in Processes |-> "look"]
  /\ ino = [p \in Processes |-> None]
  /\ claimed = [p \in Processes |-> None]
  /\ reading = [p \in Processes |-> None]
  /\ heartbeat = [p \in Processes |-> "idle"]
  /\ result = [p \in Processes |-> "none"]
  /\ alive = [p \in Processes |-> p \notin Dead]
  /\ reused \in [Processes -> BOOLEAN]
  /\ \A p \in Processes : reused[p] => p \in Dead
  /\ reservations = {}
  /\ seen = [p \in Processes |-> {}]

----------------------------------------------------------------------------
(* finishRecovery, from the top of the acquisition loop ("look") or after  *)
(* recoverStaleLock linked a claim ("relook").                             *)

Fail(p) == Goto(p, "failed") /\ ino' = [ino EXCEPT ![p] = None]

\* Mutant: the acquisition does not look for an interrupted recovery.
LookNowhere(p) ==
  /\ pc[p] \in {"look", "relook"}
  /\ Goto(p, "create")
  /\ UNCHANGED <<paths, files, ino, found, heartbeat, result, process, data>>

\* The claim path is absent: nothing to finish; present: go on with it.
Look(p) ==
  /\ pc[p] \in {"look", "relook"}
  /\ IF recovery # None THEN Goto(p, "pin")
     ELSE Goto(p, IF pc[p] = "look" THEN "create" ELSE "look")
  /\ UNCHANGED <<paths, files, ino, found, heartbeat, result, process, data>>

\* lstat of the claim; a claim that disappeared meanwhile is an error of the acquisition.
Pin(p) ==
  /\ pc[p] = "pin"
  /\ IF recovery = None THEN Fail(p) /\ UNCHANGED claimed
     ELSE /\ claimed' = [claimed EXCEPT ![p] = recovery]
          /\ Goto(p, "examine")
          /\ UNCHANGED ino
  /\ UNCHANGED <<paths, files, reading, heartbeat, result, process, data>>

\* The record is read through the path again, so it may be another file's.
Examine(p) ==
  /\ pc[p] = "examine"
  /\ IF recovery = None THEN Fail(p) /\ UNCHANGED reading
     ELSE ReadLockOwner(p, recovery) /\ Goto(p, "judge") /\ UNCHANGED ino
  /\ UNCHANGED <<paths, files, claimed, heartbeat, result, process, data>>

\* The record that was read is judged by the clock and the process table of now.
Judge(p) ==
  /\ pc[p] = "judge"
  /\ Goto(p, IF Active(reading[p]) THEN "checkClaim" ELSE "match")
  /\ reading' = [reading EXCEPT ![p] = None]
  /\ UNCHANGED <<paths, files, ino, claimed, heartbeat, result, process, data>>

\* Is the claimed file still the one at the lock path?
Match(p) ==
  /\ pc[p] = "match"
  /\ Goto(p, IF lock = claimed[p] THEN "removeLock" ELSE "checkClaim")
  /\ UNCHANGED <<paths, files, ino, found, heartbeat, result, process, data>>

\* unlink(lockPath) removes whatever is at the path by now.
RemoveLock(p) ==
  /\ pc[p] = "removeLock"
  /\ lock' = None
  /\ Goto(p, "checkClaim")
  /\ UNCHANGED <<recovery, files, ino, found, heartbeat, result, process, data>>

\* safeUnlinkIdentity of the claim: the identity check, then the unlink.
CheckClaim(p) ==
  /\ pc[p] = "checkClaim"
  /\ IF recovery = claimed[p] THEN Goto(p, "removeClaim") /\ UNCHANGED claimed
     ELSE Goto(p, "look") /\ claimed' = [claimed EXCEPT ![p] = None]
  /\ UNCHANGED <<paths, files, ino, reading, heartbeat, result, process, data>>

RemoveClaim(p) ==
  /\ pc[p] = "removeClaim"
  /\ recovery' = None
  /\ claimed' = [claimed EXCEPT ![p] = None]
  /\ Goto(p, "look")
  /\ UNCHANGED <<lock, files, ino, reading, heartbeat, result, process, data>>

----------------------------------------------------------------------------
(* acquireLock                                                             *)

\* A pending file with the owner's record, its lease counted from here.
Create(p) ==
  /\ pc[p] = "create"
  /\ \E n \in Free :
       /\ ino' = [ino EXCEPT ![p] = n]
       /\ owner' = [owner EXCEPT ![n] = p]
       /\ lease' = [lease EXCEPT ![n] = Lease]
  /\ Goto(p, "publish")
  /\ UNCHANGED <<paths, found, heartbeat, result, process, data>>

\* Mutant: the pending file is renamed over the lock path.
PublishOver(p) ==
  /\ pc[p] = "publish"
  /\ lock' = ino[p]
  /\ Goto(p, "confirm")
  /\ UNCHANGED <<recovery, files, ino, found, heartbeat, result, process, data>>

\* link(pendingPath, path) is exclusive; on EEXIST the pending file is closed and unlinked.
Publish(p) ==
  /\ pc[p] = "publish"
  /\ IF lock = None
     THEN lock' = ino[p] /\ Goto(p, "confirm") /\ UNCHANGED ino
     ELSE Goto(p, "inspect") /\ ino' = [ino EXCEPT ![p] = None] /\ UNCHANGED lock
  /\ UNCHANGED <<recovery, files, found, heartbeat, result, process, data>>

\* Mutant: the identity of a path is taken for granted.
AnyFileAtPath(p) == TRUE

\* The path still names the file this process opened.
AtPath(p) == lock = ino[p]

\* The identity asserts after the link; the heartbeat starts when they hold.  When they do not,
\* the file is closed and its own name removed; its number is kept for the lock path.
Confirm(p) ==
  /\ pc[p] = "confirm"
  /\ IF AtPath(p) THEN Goto(p, "held") /\ UNCHANGED <<ino, claimed>>
     ELSE /\ Goto(p, "disown")
          /\ claimed' = [claimed EXCEPT ![p] = ino[p]]
          /\ ino' = [ino EXCEPT ![p] = None]
  /\ UNCHANGED <<paths, files, reading, heartbeat, result, process, data>>

\* safeUnlinkIdentity of the lock path, which by now may name a file that was given the number.
Disown(p) ==
  /\ pc[p] = "disown"
  /\ IF lock = claimed[p] THEN Goto(p, "unlinkOwn") /\ UNCHANGED claimed
     ELSE Goto(p, "failed") /\ claimed' = [claimed EXCEPT ![p] = None]
  /\ UNCHANGED <<paths, files, ino, reading, heartbeat, result, process, data>>

UnlinkOwn(p) ==
  /\ pc[p] = "unlinkOwn"
  /\ lock' = None
  /\ claimed' = [claimed EXCEPT ![p] = None]
  /\ Goto(p, "failed")
  /\ UNCHANGED <<recovery, files, ino, reading, heartbeat, result, process, data>>

\* Another owner's lock: its record is read, unless the path is free again.
Inspect(p) ==
  /\ pc[p] = "inspect"
  /\ IF lock = None THEN Goto(p, "look") /\ UNCHANGED reading
     ELSE ReadLockOwner(p, lock) /\ Goto(p, "weigh")
  /\ UNCHANGED <<paths, files, ino, claimed, heartbeat, result, process, data>>

\* Active: wait and start again; stale: recover the lock.
Weigh(p) ==
  /\ pc[p] = "weigh"
  /\ Goto(p, IF Active(reading[p]) THEN "look" ELSE "linkClaim")
  /\ reading' = [reading EXCEPT ![p] = None]
  /\ UNCHANGED <<paths, files, ino, claimed, heartbeat, result, process, data>>

\* recoverStaleLock links whatever is at the lock path by now.
LinkClaim(p) ==
  /\ pc[p] = "linkClaim"
  /\ IF lock = None \/ recovery # None THEN Goto(p, "look") /\ UNCHANGED recovery
     ELSE recovery' = lock /\ Goto(p, "relook")
  /\ UNCHANGED <<lock, files, ino, found, heartbeat, result, process, data>>

----------------------------------------------------------------------------
(* The protected action and the heartbeat                                  *)

\* assertHeldLockOwnership: same file, own record, lease not over.
Owned(p) == AtPath(p) /\ owner[ino[p]] = p /\ lease[ino[p]] > 0

\* Its outcomes: a process suspended before it compares the lease it read finds it over, although
\* it is owned and may have been renewed by the beat meanwhile.
Asserted(p) == {Owned(p)} \cup (IF Stalls THEN {FALSE} ELSE {})

\* guard.assertOwned: then the next step, or the error that ends the action.
AssertOwned(p, next, outcome) ==
  \E owned \in Asserted(p) :
    IF heartbeat[p] # "failed" /\ owned
    THEN Goto(p, next) /\ result' = [result EXCEPT ![p] = outcome]
    ELSE Goto(p, "closing") /\ result' = [result EXCEPT ![p] = "error"]

ReadReservations(p) ==
  /\ pc[p] = "held"
  /\ seen' = [seen EXCEPT ![p] = reservations]
  /\ Goto(p, "prepared")
  /\ UNCHANGED <<paths, files, ino, found, heartbeat, result, process, reservations>>

\* The temporary file is written; ownership is asserted right before the rename.
AssertBeforeWrite(p) ==
  /\ pc[p] = "prepared"
  /\ AssertOwned(p, "commit", "none")
  /\ UNCHANGED <<paths, files, ino, found, heartbeat, process, data>>

WriteReservations(p) ==
  /\ pc[p] = "commit"
  /\ reservations' = seen[p] \cup {p}
  /\ Goto(p, "written")
  /\ UNCHANGED <<paths, files, ino, found, heartbeat, result, process, seen>>

\* The action has returned; its result counts only if the lock is still owned.
AssertAfterAction(p) ==
  /\ pc[p] = "written"
  /\ AssertOwned(p, "closing", "ok")
  /\ UNCHANGED <<paths, files, ino, found, heartbeat, process, data>>

Inside(p) == alive[p] /\ pc[p] \in {"held", "prepared", "commit", "written"}

\* One beat: the ownership check.  A beat before any time passed would change nothing.
BeatCheck(p) ==
  /\ Inside(p)
  /\ heartbeat[p] = "idle"
  /\ lease[ino[p]] < Lease
  /\ \E owned \in Asserted(p) :
       heartbeat' = [heartbeat EXCEPT ![p] = IF owned THEN "renewing" ELSE "failed"]
  /\ UNCHANGED <<paths, files, pc, ino, found, result, process, data>>

\* Mutant: the renewal is added to what is left of the lease.
BeatExtends(p) ==
  /\ alive[p]
  /\ heartbeat[p] = "renewing"
  /\ lease' = [lease EXCEPT ![ino[p]] = @ + Lease]
  /\ heartbeat' = [heartbeat EXCEPT ![p] = IF AtPath(p) THEN "idle" ELSE "failed"]
  /\ UNCHANGED <<paths, owner, pc, ino, found, result, process, data>>

\* The new expiry goes to the open file, wherever it is linked; then the path is checked again.
BeatWrite(p) ==
  /\ alive[p]
  /\ heartbeat[p] = "renewing"
  /\ lease' = [lease EXCEPT ![ino[p]] = Lease]
  /\ heartbeat' = [heartbeat EXCEPT ![p] = IF AtPath(p) THEN "idle" ELSE "failed"]
  /\ UNCHANGED <<paths, owner, pc, ino, found, result, process, data>>

\* releaseLock, after the running beat has ended: identity and record, not the lease.
VerifyRelease(p) ==
  /\ pc[p] = "closing"
  /\ heartbeat[p] # "renewing"
  /\ IF AtPath(p) /\ owner[ino[p]] = p THEN Goto(p, "unpublish") /\ UNCHANGED ino ELSE Fail(p)
  /\ UNCHANGED <<paths, files, found, heartbeat, result, process, data>>

\* rename(path, released): a foreign file that was moved is detected, and stays there.
Unpublish(p) ==
  /\ pc[p] = "unpublish"
  /\ lock' = None
  /\ IF AtPath(p)
     THEN Goto(p, IF result[p] = "ok" THEN "done" ELSE "failed") /\ ino' = [ino EXCEPT ![p] = None]
     ELSE Goto(p, "failed") /\ ino' = [ino EXCEPT ![p] = lock]
  /\ UNCHANGED <<recovery, files, found, heartbeat, result, process, data>>

Step(p) ==
  /\ alive[p]
  /\ \/ Look(p) \/ Pin(p) \/ Examine(p) \/ Judge(p) \/ Match(p) \/ RemoveLock(p)
     \/ CheckClaim(p) \/ RemoveClaim(p)
     \/ Create(p) \/ Publish(p) \/ Confirm(p) \/ Disown(p) \/ UnlinkOwn(p)
     \/ Inspect(p) \/ Weigh(p) \/ LinkClaim(p)
     \/ ReadReservations(p) \/ AssertBeforeWrite(p) \/ WriteReservations(p)
     \/ AssertAfterAction(p) \/ VerifyRelease(p) \/ Unpublish(p)

----------------------------------------------------------------------------
(* The host                                                                *)

Ended(p) == pc[p] \in {"done", "failed"}
Owning == {"publish", "confirm", "held", "prepared", "commit", "written", "closing", "unpublish"}

\* The lease of a live process ends with the next tick, as a contender has read it.
LapsesUnjudged(p) ==
  alive[p] /\ reading[p] # None /\ alive[reading[p].of] /\ reading[p].left = 1

\* Time passes.  Without stalls a live owner beats, publishes and releases within its lease;
\* without slow readers a live process's lease is compared before it is over as it was read.
Tick ==
  /\ \E n \in Inodes : lease[n] > 0
  /\ Stalls \/ \A p \in Processes : alive[p] /\ pc[p] \in Owning => lease[ino[p]] > 1
  /\ SlowReaders \/ \A p \in Processes : ~LapsesUnjudged(p)
  /\ lease' = [n \in Inodes |-> IF lease[n] = 0 THEN 0 ELSE lease[n] - 1]
  /\ reading' = [p \in Processes |->
       IF reading[p] = None \/ reading[p].left = 1 THEN None
       ELSE [reading[p] EXCEPT !.left = @ - 1]]
  /\ UNCHANGED <<paths, owner, pc, ino, claimed, heartbeat, result, process, data>>

\* The process dies at any await; its pending file stays behind, its handle is closed.
Crash(p) ==
  /\ Cardinality({q \in Processes \ Dead : ~alive[q]}) < MaxCrashes
  /\ alive[p] /\ ~Ended(p)
  /\ alive' = [alive EXCEPT ![p] = FALSE]
  /\ \E b \in BOOLEAN : reused' = [reused EXCEPT ![p] = b]
  /\ ino' = [ino EXCEPT ![p] = IF pc[p] \in {"publish", "confirm"} THEN @ ELSE None]
  /\ reading' = [reading EXCEPT ![p] = None]
  /\ heartbeat' = [heartbeat EXCEPT ![p] = "idle"]
  /\ UNCHANGED <<paths, files, pc, claimed, result, data>>

\* Every process has ended: the directory rests until the next one comes.
Rest ==
  /\ \A p \in Processes : ~alive[p] \/ Ended(p)
  /\ UNCHANGED vars

Next ==
  \/ \E p \in Processes : Step(p) \/ BeatCheck(p) \/ BeatWrite(p) \/ Crash(p)
  \/ Tick
  \/ Rest

Spec == Init /\ [][Next]_vars

\* A live process is scheduled, its timers fire, and time passes: fairness of Tick is strong
\* because contenders that draw fresh leases again and again cannot hold the clock back.
Fairness ==
  /\ \A p \in Processes : WF_vars(Step(p)) /\ WF_vars(BeatCheck(p)) /\ WF_vars(BeatWrite(p))
  /\ SF_vars(Tick)

FairSpec == Spec /\ Fairness

----------------------------------------------------------------------------
(* Properties                                                              *)

Labels == {"look", "relook", "pin", "examine", "judge", "match", "removeLock", "checkClaim",
           "removeClaim", "create", "disown", "unlinkOwn", "inspect", "weigh", "linkClaim",
           "done", "failed"} \cup Owning

\* Type invariant of the lock directory and of the processes that use it.
TypeOK ==
  /\ lock \in Inodes \cup {None} /\ recovery \in Inodes \cup {None}
  /\ owner \in [Inodes -> Processes \cup {None}]
  /\ lease \in [Inodes -> 0 .. Lease]
  /\ pc \in [Processes -> Labels]
  /\ ino \in [Processes -> Inodes \cup {None}]
  /\ claimed \in [Processes -> Inodes \cup {None}]
  /\ reading \in [Processes -> Readings \cup {None}]
  /\ heartbeat \in [Processes -> {"idle", "renewing", "failed"}]
  /\ result \in [Processes -> {"none", "ok", "error"}]
  /\ alive \in [Processes -> BOOLEAN] /\ reused \in [Processes -> BOOLEAN]
  /\ reservations \in SUBSET Processes
  /\ seen \in [Processes -> SUBSET Processes]

\* At most one live process is inside the protected action.  This and the next two hold of two
\* processes while neither Stalls nor SlowReaders: nobody is suspended until a lease is over.
MutualExclusion ==
  \A p, q \in Processes : Inside(p) /\ Inside(q) => p = q

\* An update whose caller was told it succeeded is never overwritten by a process that
\* had read the file before it.
AcknowledgedUpdateSurvives ==
  \A p \in Processes : pc[p] = "done" => p \in reservations

\* The lock file of a live owner with time left on its lease leaves the path only by the
\* owner's own release; a recovery never takes away the lock that replaced a stale one.
OnlyOwnerReleases ==
  [][lock # None /\ lock' # lock /\ alive[owner[lock]] /\ lease[lock] > 0
       => \E p \in Processes : owner[lock] = p /\ pc[p] = "unpublish" /\ pc'[p] # pc[p]]_vars

\* A process whose lock file was taken away while it was inside never reports success,
\* however long it was suspended and at whichever await.
LoserIsTold ==
  \A p \in Processes : []((Inside(p) /\ lock # ino[p]) => [](pc[p] # "done"))

\* Contention alone makes no acquisition fail, and behind a crashed owner, whether or not its
\* pid runs again, the surviving process gets the lock, updates the file and releases it.
SurvivorIsServed == <>(\A p \in Processes : ~alive[p] \/ pc[p] = "done")

\* Crashes at any point of the protocol, those in the middle of a recovery included, leave
\* nothing behind that keeps another process waiting for ever.
SurvivorsEnd == <>(\A p \in Processes : ~alive[p] \/ Ended(p))

============================================================================
