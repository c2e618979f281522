----------------------- MODULE SourceIngestionProofs -----------------------
(***************************************************************************)
(* Theorems about SourceIngestion, for any number of records, runs,        *)
(* requests and events: the types, that a record a customer had erased is  *)
(* never mirrored again, that a replica said to be complete reflects the   *)
(* source since its scan began, and that a refresh ends with such a scan.  *)
(***************************************************************************)
EXTENDS SourceIngestion, SequenceTheorems, TLAPS

\* A binding with a scan under way knows its mode.
Continues == cursor # None \/ lease # "none" => mode # None

\* A run at work has a lease, and the change feed is only read from somewhere.
LeaseHeld ==
  \A r \in Runs : pc[r] # "idle" =>
    /\ held[r] # None
    /\ held[r].mode = "changes" /\ held[r].cursor = None => held[r].checkpoint # None

Typed == TypeOK /\ Continues /\ LeaseHeld

\* The same in three parts, which most actions disturb one of.
StoreTyped ==
  /\ active \in BOOLEAN /\ fence \in Runs \cup {None} /\ lease \in {"none", "live", "expired"}
  /\ mode \in Modes \cup {None} /\ cursor \in Cursors \cup {None}
  /\ checkpoint \in Positions \cup {None} /\ complete \in BOOLEAN
  /\ replica \in [Ids -> Records \cup {None}] /\ requests \in [Requests -> Refreshes]
  /\ expired \subseteq Ids
  /\ Continues

RunsTyped ==
  /\ pc \in [Runs -> {"idle", "scanning", "committing", "resetting", "failing"}]
  /\ held \in [Runs -> Leases \cup {None}]
  /\ DOMAIN page = Runs
  /\ \A r \in Runs : pc[r] = "committing" => PageOK(page[r])
  /\ LeaseHeld

RestTyped ==
  /\ log \in Seq([id : Ids, present : BOOLEAN])
  /\ suppressed \subseteq Ids /\ erased \subseteq Ids
  /\ events \in 0 .. MaxEvents /\ began \in Positions /\ asked \in [Requests -> Positions]

LEMMA TypedParts == Typed <=> StoreTyped /\ RunsTyped /\ RestTyped
  BY DEF Typed, TypeOK, StoreTyped, RunsTyped, RestTyped

LEMMA TypedPartsNext == StoreTyped' /\ RunsTyped' /\ RestTyped' => Typed'
  BY DEF Typed, TypeOK, StoreTyped, RunsTyped, RestTyped

LEMMA StoreStays == StoreTyped /\ UNCHANGED <<binding, replica, requests, expired>> => StoreTyped'
  BY DEF StoreTyped, Continues, binding

LEMMA RunsStay == RunsTyped /\ UNCHANGED run => RunsTyped'
  BY DEF RunsTyped, LeaseHeld, run, PageOK

LEMMA RestStays == RestTyped /\ UNCHANGED <<log, suppressed, erased, events, began, asked>> => RestTyped'
  BY DEF RestTyped

\* What was erased is suppressed, and what is suppressed is not in the replica.
Kept ==
  /\ erased \subseteq suppressed
  /\ \A i \in suppressed : replica[i] = None

----------------------------------------------------------------------------
(* The pages a source returns                                              *)

\* The log is about the ids.
LEMMA LogType ==
  ASSUME TypeOK, NEW k \in 1 .. Len(log)
  PROVE  log[k].id \in Ids
<1>1. log \in Seq([id : Ids, present : BOOLEAN])
  BY DEF TypeOK
<1>2. log[k] \in [id : Ids, present : BOOLEAN]
  BY <1>1, ElementOfSeq
<1> QED
  BY <1>2

\* A version is a position of the log.
LEMMA VersionType ==
  ASSUME TypeOK, NEW i
  PROVE  /\ Version(Len(log), i) \in Positions \cup {None}
         /\ Version(Len(log), i) # None => i \in Ids
<1> DEFINE last == {k \in 1 .. Len(log) : log[k].id = i /\ \A m \in k + 1 .. Len(log) : log[m].id # i}
<1>1. Len(log) \in Nat
  BY DEF TypeOK
<1>2. last \subseteq Positions
  BY <1>1 DEF Positions
<1>3. Version(Len(log), i) = IF \E k \in last : log[k].present THEN CHOOSE k \in last : TRUE ELSE None
  BY DEF Version
<1>4. \A k \in last : log[k].id = i /\ log[k].id \in Ids
  BY LogType
<1> HIDE DEF last
<1>5. ASSUME NEW k \in last PROVE (CHOOSE m \in last : TRUE) \in last
  OBVIOUS
<1> QED
  BY <1>2, <1>3, <1>4, <1>5

\* The current records of some ids.
LEMMA CurrentType ==
  ASSUME TypeOK, NEW S
  PROVE  /\ DOMAIN Current(S) \subseteq Ids
         /\ Current(S) \in [DOMAIN Current(S) -> Positions]
<1>1. DOMAIN Current(S) = {j \in S : Version(Len(log), j) # None}
  BY DEF Current
<1>2. \A i \in DOMAIN Current(S) : i \in Ids /\ Current(S)[i] \in Positions
  BY <1>1, VersionType DEF Current
<1> QED
  BY <1>1, <1>2 DEF Current

\* A page of a snapshot.
LEMMA SnapshotPageOK ==
  ASSUME TypeOK, NEW c \in Cursors \cup {None}, NEW p \in SnapshotPages(c)
  PROVE  PageOK(p)
<1> DEFINE at == IF c = None THEN [next |-> 1, from |-> Len(log)] ELSE c
           final == at.next = NumIds
           after == [at EXCEPT !.next = @ + 1]
<1>1. Len(log) \in Nat
  BY DEF TypeOK
<1>2. at \in Cursors /\ at.from \in Positions /\ at.next \in Nat
  BY <1>1 DEF Cursors, Positions
<1>3. after \in Cursors
  BY <1>2 DEF Cursors, Positions
<1>4. after # None
  BY <1>3, NoneIsNothing
<1>5. PICK offered \in IF final THEN {None, at.from} ELSE {None} :
        p = [records |-> Current({at.next}), deletedIds |-> {}, complete |-> final,
             nextCursor |-> IF final THEN None ELSE after, checkpoint |-> offered]
  BY DEF SnapshotPages
<1>6. offered \in Positions \cup {None}
  BY <1>2
<1> HIDE DEF at, after
<1>7. p.records = Current({at.next}) /\ p.deletedIds = {} /\ p.complete = final
      /\ p.nextCursor = (IF final THEN None ELSE after) /\ p.checkpoint = offered
  BY <1>5
<1> QED
  BY <1>3, <1>4, <1>6, <1>7, CurrentType DEF PageOK

\* A page of the change feed.
LEMMA ChangesPageOK ==
  ASSUME TypeOK, NEW c \in Cursors \cup {None}, NEW start \in Positions \cup {None},
         c = None => start # None
  PROVE  PageOK(ChangesPage(c, start))
<1> DEFINE at == IF c = None THEN start ELSE c.next
           to == IF at < Len(log) THEN at + 1 ELSE at
           changed == {log[k].id : k \in at + 1 .. to}
           final == to = Len(log)
           onward == [next |-> to, from |-> to]
           p == ChangesPage(c, start)
<1>1. Len(log) \in Nat
  BY DEF TypeOK
<1>2. at \in Nat
  BY DEF Cursors, Positions
<1>3. to \in Nat /\ (to <= Len(log) \/ to = at)
  BY <1>1, <1>2
<1>4. changed \subseteq Ids
  <2> SUFFICES ASSUME NEW k \in at + 1 .. to PROVE log[k].id \in Ids
    OBVIOUS
  <2>1. k \in 1 .. Len(log)
    BY <1>1, <1>2, <1>3
  <2> QED
    BY <2>1, LogType
<1>5. onward \in Cursors /\ onward # None
  <2> HIDE DEF to
  <2>1. onward \in Cursors
    BY <1>3 DEF Cursors, Positions
  <2> QED
    BY <2>1, NoneIsNothing
<1>6. p = [records |-> Current(changed), deletedIds |-> changed \ DOMAIN Current(changed), complete |-> final,
           nextCursor |-> IF final THEN None ELSE onward, checkpoint |-> IF final THEN to ELSE None]
  BY DEF ChangesPage
<1>7. to \in Positions
  BY <1>3 DEF Positions
<1> HIDE DEF at, to, changed, onward, p
<1>8. p.records = Current(changed) /\ p.deletedIds = changed \ DOMAIN Current(changed) /\ p.complete = final
      /\ p.nextCursor = (IF final THEN None ELSE onward) /\ p.checkpoint = (IF final THEN to ELSE None)
  BY <1>6
<1>9. PageOK(p)
  BY <1>4, <1>5, <1>7, <1>8, CurrentType DEF PageOK
<1> QED
  BY <1>9 DEF p

----------------------------------------------------------------------------
(* Type correctness                                                        *)

LEMMA InitTyped == Init => Typed
<1> SUFFICES ASSUME Init PROVE Typed
  OBVIOUS
<1>1. log \in Seq([id : Ids, present : BOOLEAN])
  <2>1. log = [i \in 1 .. NumIds |-> [id |-> i, present |-> TRUE]]
    BY DEF Init, Ids
  <2>2. \A i \in 1 .. NumIds : [id |-> i, present |-> TRUE] \in [id : Ids, present : BOOLEAN]
    BY DEF Ids
  <2>3. log \in [1 .. NumIds -> [id : Ids, present : BOOLEAN]] /\ NumIds \in Nat
    BY <2>1, <2>2, NumIdsPositive
  <2> DEFINE Changes == [id : Ids, present : BOOLEAN]
  <2>4. \E n \in Nat : log \in [1 .. n -> Changes]
    BY <2>3
  <2> HIDE DEF Changes
  <2>5. log \in Seq(Changes)
    BY <2>4, SeqDef
  <2> QED BY <2>5 DEF Changes
<1>2. requests \in [Requests -> Refreshes]
  BY DEF Init, RefreshStates, Refreshes
<1>3. 0 \in Positions
  BY DEF Positions
<1>4. TypeOK
  <2>1. replica \in [Ids -> Records \cup {None}] /\ asked \in [Requests -> Positions]
    BY <1>3 DEF Init
  <2>2. held \in [Runs -> Leases \cup {None}] /\ DOMAIN page = Runs
        /\ pc \in [Runs -> {"idle", "scanning", "committing", "resetting", "failing"}]
        /\ \A r \in Runs : pc[r] # "committing"
    BY DEF Init
  <2>3. events \in 0 .. MaxEvents
    BY MaxEventsNat DEF Init
  <2> QED
    BY <1>1, <1>2, <1>3, <2>1, <2>2, <2>3 DEF Init, TypeOK
<1>5. Continues /\ LeaseHeld
  BY DEF Init, Continues, LeaseHeld
<1> QED
  BY <1>4, <1>5 DEF Typed

\* A scan generation begins.
LEMMA UnseenType ==
  ASSUME TypeOK PROVE Unseen \in [Ids -> Records \cup {None}]
<1>1. ASSUME NEW i \in Ids, replica[i] # None PROVE [replica[i] EXCEPT !.seen = FALSE] \in Records
  <2>1. replica[i] \in Records
    BY <1>1 DEF TypeOK
  <2> QED
    BY <2>1 DEF Records
<1> QED
  BY <1>1 DEF Unseen

LEMMA ServedType ==
  ASSUME TypeOK PROVE Served \in [Requests -> Refreshes]
<1>1. ASSUME NEW q \in Requests
      PROVE  [requests[q] EXCEPT !.target = "this"] \in Refreshes
  <2>1. requests[q] \in Refreshes
    BY DEF TypeOK
  <2> QED
    BY <2>1 DEF Refreshes
<1> QED
  BY <1>1 DEF Served

LEMMA RefreshStateType ==
  ASSUME NEW reqs \in [Requests -> Refreshes],
         NEW state \in RefreshStates
  PROVE  SetRefreshState(reqs, state) \in [Requests -> Refreshes]
<1>1. ASSUME NEW q \in Requests
      PROVE  [reqs[q] EXCEPT !.state = state] \in Refreshes
  BY DEF Refreshes
<1> QED
  BY <1>1 DEF SetRefreshState

\* What a page leaves of the replica.
LEMMA AppliedType ==
  ASSUME TypeOK, NEW p, PageOK(p), NEW m
  PROVE  /\ Applied(p) \in [Ids -> Records \cup {None}]
         /\ DropUnseen(Applied(p), m) \in [Ids -> Records \cup {None}]
<1>1. ASSUME NEW i \in Ids, i \in DOMAIN p.records PROVE [version |-> p.records[i], seen |-> TRUE] \in Records
  BY <1>1 DEF PageOK, Records
<1>2. \A i \in Ids : replica[i] \in Records \cup {None}
  BY DEF TypeOK
<1>3. Applied(p) \in [Ids -> Records \cup {None}]
  BY <1>1, <1>2 DEF Applied, Upsert
<1> QED
  BY <1>3 DEF DropUnseen

LEMMA ClaimTyped == ASSUME Typed, NEW r \in Runs, Claim(r) PROVE Typed'
<1>0. TypeOK /\ StoreTyped /\ RunsTyped /\ RestTyped
  BY TypedParts DEF Typed
<1>1. mode' \in Modes
  BY <1>0, NoneIsNothing DEF Claim, Modes, Continues, StoreTyped
<1>2. replica' \in [Ids -> Records \cup {None}]
  BY <1>0, UnseenType DEF Claim, StoreTyped
<1>3. requests' \in [Requests -> Refreshes]
  <2>1. "running" \in RefreshStates
    BY DEF RefreshStates
  <2>2. requests' = SetRefreshState(requests, "running") \/ requests' = SetRefreshState(Served, "running")
    BY DEF Claim
  <2> QED
    BY <1>0, <2>1, <2>2, ServedType, RefreshStateType DEF StoreTyped
<1> DEFINE new == [mode |-> mode', cursor |-> cursor, checkpoint |-> checkpoint]
<1>4. held' = [held EXCEPT ![r] = new] /\ pc' = [pc EXCEPT ![r] = "scanning"]
      /\ UNCHANGED <<log, active, cursor, checkpoint, suppressed, page, events, erased, asked>>
      /\ fence' = r /\ lease' = "live" /\ complete' = FALSE /\ expired' \in {expired, {}}
      /\ (new.mode = "changes" /\ new.cursor = None => new.checkpoint # None)
  BY DEF Claim, source
<1>5. new \in Leases /\ new # None
  <2>1. new \in Leases
    BY <1>0, <1>1 DEF Leases, StoreTyped
  <2> QED
    BY <2>1, NoneIsNothing
<1>6. StoreTyped'
  BY <1>0, <1>1, <1>2, <1>3, <1>4, NoneIsNothing DEF StoreTyped, Continues
<1> HIDE DEF new
<1>7. RunsTyped'
  BY <1>0, <1>4, <1>5 DEF RunsTyped, LeaseHeld, PageOK
<1>8. RestTyped'
  <2>1. Len(log) \in Positions
    BY <1>0, LenProperties DEF RestTyped, Positions
  <2> QED
    BY <1>0, <1>4, <2>1 DEF RestTyped, Claim
<1> QED
  BY <1>6, <1>7, <1>8, TypedPartsNext

LEMMA ScanTyped == ASSUME Typed, NEW r \in Runs, Scan(r) PROVE Typed'
<1>0. TypeOK /\ StoreTyped /\ RunsTyped /\ RestTyped
  BY TypedParts DEF Typed
<1>1. held[r] \in Leases /\ (held[r].mode = "changes" /\ held[r].cursor = None => held[r].checkpoint # None)
  BY <1>0 DEF RunsTyped, LeaseHeld, Scan
<1>2. held[r].mode \in Modes /\ held[r].cursor \in Cursors \cup {None} /\ held[r].checkpoint \in Positions \cup {None}
  BY <1>1 DEF Leases
<1>3. PICK p \in IF held[r].mode = "snapshot" THEN SnapshotPages(held[r].cursor)
                 ELSE {ChangesPage(held[r].cursor, held[r].checkpoint)} : page' = [page EXCEPT ![r] = p]
  BY DEF Scan
<1>4. PageOK(p)
  <2>1. CASE held[r].mode = "snapshot"
    BY <1>0, <1>2, <1>3, <2>1, SnapshotPageOK
  <2>2. CASE held[r].mode # "snapshot"
    BY <1>0, <1>1, <1>2, <1>3, <2>2, ChangesPageOK DEF Modes
  <2> QED
    BY <2>1, <2>2
<1>5. pc' = [pc EXCEPT ![r] = "committing"] /\ held' = held /\ pc[r] = "scanning"
  BY DEF Scan
<1>6. RunsTyped'
  <2>1. \A q \in Runs : pc'[q] = "committing" => PageOK(page'[q])
    BY <1>0, <1>3, <1>4, <1>5 DEF RunsTyped
  <2> QED
    BY <1>0, <1>3, <1>5, <2>1 DEF RunsTyped, LeaseHeld, PageOK
<1> QED
  BY <1>0, <1>6, StoreStays, RestStays, TypedPartsNext DEF Scan, source, binding, ghosts

\* A run that ends, or turns to another call.
LEMMA RunsEnd == ASSUME RunsTyped, NEW r \in Runs, Ended(r) PROVE RunsTyped'
  BY DEF RunsTyped, LeaseHeld, Ended, PageOK

LEMMA RunTurns ==
  ASSUME RunsTyped, NEW r \in Runs, pc[r] # "idle", held' = held,
         pc' = [pc EXCEPT ![r] = "resetting"] \/ pc' = [pc EXCEPT ![r] = "failing"],
         page' = page \/ page' = [page EXCEPT ![r] = None]
  PROVE  RunsTyped'
<1>1. ASSUME NEW q \in Runs, pc'[q] = "committing" PROVE pc[q] = "committing" /\ page'[q] = page[q]
  BY <1>1 DEF RunsTyped
<1>2. DOMAIN page' = Runs /\ pc' \in [Runs -> {"idle", "scanning", "committing", "resetting", "failing"}]
  BY DEF RunsTyped
<1>3. \A q \in Runs : pc'[q] = "committing" => PageOK(page'[q])
  BY <1>1 DEF RunsTyped
<1>4. LeaseHeld'
  BY DEF RunsTyped, LeaseHeld
<1> QED
  BY <1>2, <1>3, <1>4 DEF RunsTyped, PageOK

LEMMA Counted == ASSUME RestTyped, Happens PROVE events' \in 0 .. MaxEvents
  BY MaxEventsNat DEF RestTyped, Happens

LEMMA ScanEndsTyped ==
  ASSUME Typed, NEW r \in Runs, NEW label \in {"resetting", "failing"}, ScanEnds(r, label) PROVE Typed'
<1>0. StoreTyped /\ RunsTyped /\ RestTyped
  BY TypedParts
<1>1. pc[r] # "idle" /\ held' = held /\ page' = page /\ pc' = [pc EXCEPT ![r] = label] /\ Happens
      /\ UNCHANGED <<log, binding, replica, suppressed, requests, erased, expired, began, asked>>
  BY DEF ScanEnds, ghosts, source
<1>2. RunsTyped'
  BY <1>0, <1>1, RunTurns
<1>3. RestTyped'
  BY <1>0, <1>1, Counted DEF RestTyped
<1> QED
  BY <1>0, <1>1, <1>2, <1>3, StoreStays, TypedPartsNext

\* The effect of a page on the store, and the lease of the next page.
LEMMA StorePageTyped ==
  ASSUME Typed, NEW r \in Runs, pc[r] = "committing", StorePage(r)
  PROVE  StoreTyped' /\ (~page[r].complete => cursor' \in Cursors)
<1>0. TypeOK /\ StoreTyped /\ RunsTyped /\ RestTyped
  BY TypedParts DEF Typed
<1>1. PageOK(page[r])
  BY <1>0 DEF RunsTyped
<1>2. Applied(page[r]) \in [Ids -> Records \cup {None}]
      /\ DropUnseen(Applied(page[r]), held[r].mode) \in [Ids -> Records \cup {None}]
  BY <1>0, <1>1, AppliedType
<1>3. expired' \subseteq Ids /\ active' \in BOOLEAN /\ fence' \in Runs \cup {None}
  BY <1>0 DEF StorePage, StoreTyped
<1>4. mode # None
  BY <1>0 DEF StorePage, Owns, StoreTyped, Continues
<1>5. CASE page[r].complete
  <2>1. CompletePage(r)
    BY <1>5 DEF StorePage
  <2>2. requests' \in [Requests -> Refreshes]
    <3>1. "completed" \in RefreshStates
      BY DEF RefreshStates
    <3> QED
      BY <1>0, <2>1, <3>1, RefreshStateType DEF CompletePage, StoreTyped
  <2>3. checkpoint' \in Positions \cup {None}
    BY <1>0, <1>1, <2>1 DEF CompletePage, StoreTyped, PageOK
  <2>4. replica' \in [Ids -> Records \cup {None}]
    BY <1>2, <2>1 DEF CompletePage
  <2> QED
    BY <1>3, <1>5, <2>1, <2>2, <2>3, <2>4 DEF CompletePage, StoreTyped, Continues
<1>6. CASE ~page[r].complete
  <2>1. ContinuePage(r)
    BY <1>6 DEF StorePage
  <2>2. cursor' \in Cursors
    BY <1>1, <1>6, <2>1 DEF ContinuePage, PageOK
  <2> QED
    BY <1>0, <1>2, <1>3, <1>4, <2>1, <2>2 DEF ContinuePage, StoreTyped, Continues
<1> QED
  BY <1>5, <1>6

LEMMA CommitTyped == ASSUME Typed, NEW r \in Runs, Commit(r) PROVE Typed'
<1>0. StoreTyped /\ RunsTyped /\ RestTyped
  BY TypedParts
<1>1. StoreTyped' /\ (~page[r].complete => cursor' \in Cursors)
  BY StorePageTyped DEF Commit
<1>2. RestTyped'
  BY <1>0, RestStays DEF Commit, source
<1>3. held[r] \in Leases
  BY <1>0 DEF RunsTyped, LeaseHeld, Commit
<1>4. RunsTyped'
  <2>1. CASE page[r].complete
    <3>1. Ended(r)
      BY <2>1 DEF Commit, Ended
    <3> QED
      BY <1>0, <3>1, RunsEnd
  <2>2. CASE ~page[r].complete
    <3> DEFINE new == [held[r] EXCEPT !.cursor = cursor']
    <3>1. new \in Leases /\ new.cursor \in Cursors
      BY <1>1, <1>3, <2>2 DEF Leases
    <3>2. new # None /\ new.cursor # None
      BY <3>1, NoneIsNothing
    <3>3. held' = [held EXCEPT ![r] = new] /\ pc' = [pc EXCEPT ![r] = "scanning"]
          /\ page' = [page EXCEPT ![r] = None]
      BY <2>2 DEF Commit
    <3> HIDE DEF new
    <3>4. \A q \in Runs : pc'[q] = "committing" => PageOK(page'[q])
      BY <1>0, <3>3 DEF RunsTyped
    <3>5. LeaseHeld'
      BY <1>0, <3>2, <3>3 DEF RunsTyped, LeaseHeld
    <3> QED
      BY <1>0, <3>1, <3>3, <3>4, <3>5 DEF RunsTyped, PageOK
  <2> QED
    BY <2>1, <2>2
<1> QED
  BY <1>1, <1>2, <1>4, TypedPartsNext

LEMMA CommitFailsTyped == ASSUME Typed, NEW r \in Runs, CommitFails(r) PROVE Typed'
<1>0. StoreTyped /\ RunsTyped /\ RestTyped
  BY TypedParts
<1>1. StoreTyped'
  <2>1. CASE StorePage(r)
    BY <2>1, StorePageTyped DEF CommitFails
  <2>2. CASE UNCHANGED <<binding, replica, requests, expired>>
    BY <1>0, <2>2, StoreStays
  <2> QED
    BY <2>1, <2>2 DEF CommitFails
<1>2. RunsTyped'
  BY <1>0, RunTurns DEF CommitFails
<1>3. RestTyped'
  BY <1>0, Counted DEF RestTyped, CommitFails, source
<1> QED
  BY <1>1, <1>2, <1>3, TypedPartsNext

LEMMA GivesUpTyped ==
  ASSUME Typed, NEW r \in Runs, CommitRefused(r) \/ Reset(r) \/ Fail(r) \/ Crash(r) PROVE Typed'
<1>0. StoreTyped /\ RunsTyped /\ RestTyped
  BY TypedParts
<1>1. RunsTyped'
  BY <1>0, RunsEnd DEF CommitRefused, Reset, Fail, Crash
<1>2. RestTyped'
  <2>1. CASE CommitRefused(r) \/ Reset(r) \/ Fail(r)
    BY <1>0, <2>1, RestStays DEF CommitRefused, Reset, Fail, source, ghosts
  <2>2. CASE Crash(r)
    BY <1>0, <2>2, Counted DEF RestTyped, Crash, source, ghosts
  <2> QED
    BY <2>1, <2>2
<1>3. StoreTyped'
  <2>1. CASE CommitRefused(r) \/ Crash(r)
    BY <1>0, <2>1, StoreStays DEF CommitRefused, Crash, ghosts
  <2>2. CASE (Reset(r) \/ Fail(r)) /\ UNCHANGED <<binding, requests>>
    BY <1>0, <2>2, StoreStays DEF Reset, Fail, ghosts
  <2>3. SetRefreshState(requests, "queued") \in [Requests -> Refreshes]
    <3>1. "queued" \in RefreshStates
      BY DEF RefreshStates
    <3> QED
      BY <1>0, <3>1, RefreshStateType DEF StoreTyped
  <2>4. CASE Reset(r) /\ Owns(r, {"live"})
    BY <1>0, <2>3, <2>4 DEF Reset, StoreTyped, Continues, ghosts
  <2>5. CASE Fail(r) /\ Owns(r, {"live", "expired"})
    BY <1>0, <2>3, <2>5 DEF Fail, StoreTyped, Continues, ghosts
  <2> QED
    BY <2>1, <2>2, <2>4, <2>5 DEF Reset, Fail
<1> QED
  BY <1>1, <1>2, <1>3, TypedPartsNext

\* What is done from outside leaves the runs alone.
LEMMA OutsideTyped ==
  ASSUME Typed, UNCHANGED run, StoreTyped', RestTyped' PROVE Typed'
  BY TypedParts, RunsStay, TypedPartsNext

LEMMA BindingActsTyped ==
  ASSUME Typed,
         Expire \/ Pause \/ Activate \/ (\E sameAccount \in BOOLEAN : Replace(sameAccount))
  PROVE  Typed'
<1>0. StoreTyped /\ RunsTyped /\ RestTyped
  BY TypedParts
<1>1. CASE Expire
  <2>1. StoreTyped'
    BY <1>0, <1>1 DEF StoreTyped, Continues, Expire, ghosts
  <2>2. events' \in 0 .. MaxEvents
    BY <1>0, <1>1, Counted DEF Expire, RestTyped
  <2>3. RestTyped'
    BY <1>0, <1>1, <2>2 DEF RestTyped, Expire, source, ghosts
  <2> QED
    BY <1>1, <2>1, <2>3, OutsideTyped DEF Expire
<1>2. CASE Pause \/ Activate
  <2>1. StoreTyped'
    BY <1>0, <1>2 DEF StoreTyped, Continues, Pause, Activate, ghosts
  <2>2. RestTyped'
    BY <1>0, <1>2, Counted DEF RestTyped, Pause, Activate, source, ghosts
  <2> QED
    BY <1>2, <2>1, <2>2, OutsideTyped DEF Pause, Activate
<1>3. ASSUME NEW sameAccount \in BOOLEAN, Replace(sameAccount) PROVE Typed'
  <2>1. ASSUME NEW q \in Requests PROVE [requests[q] EXCEPT !.state = "superseded"] \in Refreshes
    <3>1. requests[q] \in Refreshes
      BY <1>0 DEF StoreTyped
    <3> QED
      BY <3>1 DEF Refreshes, RefreshStates
  <2>2. requests' \in [Requests -> Refreshes]
    BY <1>0, <1>3, <2>1 DEF StoreTyped, Replace
  <2>3. StoreTyped'
    BY <1>3, <2>2 DEF StoreTyped, Continues, Replace
  <2>4. RestTyped'
    BY <1>0, <1>3, Counted DEF RestTyped, Replace, Carried, source
  <2> QED
    BY <1>3, <2>3, <2>4, OutsideTyped DEF Replace
<1> QED
  BY <1>1, <1>2, <1>3

LEMMA RecordActsTyped ==
  ASSUME Typed,
         \/ \E q \in Requests : RequestRefresh(q)
         \/ \E i \in Ids : Suppress(i) \/ Purge(i)
         \/ \E i \in Ids, present \in BOOLEAN : Change(i, present)
  PROVE  Typed'
<1>0. StoreTyped /\ RunsTyped /\ RestTyped
  BY TypedParts
<1>1. ASSUME NEW q \in Requests, RequestRefresh(q) PROVE Typed'
  <2>1. PICK state \in {"running", "queued"} :
          requests' = [requests EXCEPT ![q] = [state |-> state, target |-> Target]]
    BY <1>1 DEF RequestRefresh
  <2>2. [state |-> state, target |-> Target] \in Refreshes
    BY DEF Refreshes, RefreshStates, Target
  <2>3. requests' \in [Requests -> Refreshes]
    BY <1>0, <2>1, <2>2 DEF StoreTyped
  <2>4. StoreTyped'
    BY <1>0, <1>1, <2>3 DEF StoreTyped, Continues, RequestRefresh, binding
  <2>5. RestTyped'
    <3>1. Len(log) \in Positions
      BY <1>0, LenProperties DEF RestTyped, Positions
    <3> QED
      BY <1>0, <1>1, <3>1 DEF RestTyped, RequestRefresh, source
  <2> QED
    BY <1>1, <2>4, <2>5, OutsideTyped DEF RequestRefresh
<1>2. ASSUME NEW i \in Ids, Suppress(i) PROVE Typed'
  <2>1. StoreTyped'
    BY <1>0, <1>2 DEF StoreTyped, Continues, Suppress, binding
  <2>2. RestTyped'
    BY <1>0, <1>2, Counted DEF RestTyped, Suppress, source
  <2> QED
    BY <1>2, <2>1, <2>2, OutsideTyped DEF Suppress
<1>3. ASSUME NEW i \in Ids, Purge(i) PROVE Typed'
  <2>1. StoreTyped'
    BY <1>0, <1>3 DEF StoreTyped, Continues, Purge, binding
  <2>2. RestTyped'
    BY <1>0, <1>3, Counted DEF RestTyped, Purge, source
  <2> QED
    BY <1>3, <2>1, <2>2, OutsideTyped DEF Purge
<1>4. ASSUME NEW i \in Ids, NEW present \in BOOLEAN, Change(i, present) PROVE Typed'
  <2>1. log' \in Seq([id : Ids, present : BOOLEAN])
    BY <1>0, <1>4, AppendProperties DEF RestTyped, Change
  <2>2. RestTyped'
    BY <1>0, <1>4, <2>1, Counted DEF RestTyped, Change, ghosts
  <2>3. StoreTyped'
    BY <1>0, <1>4, StoreStays DEF Change, ghosts
  <2> QED
    BY <1>4, <2>2, <2>3, OutsideTyped DEF Change
<1> QED
  BY <1>1, <1>2, <1>3, <1>4

LEMMA NextTyped == Typed /\ [Next]_vars => Typed'
<1> SUFFICES ASSUME Typed, [Next]_vars PROVE Typed'
  OBVIOUS
<1>1. ASSUME NEW r \in Runs, Work(r) PROVE Typed'
  <2>1. CASE Claim(r) BY <2>1, ClaimTyped
  <2>2. CASE Scan(r) BY <2>2, ScanTyped
  <2>3. CASE Commit(r) BY <2>3, CommitTyped
  <2>4. CASE CommitFails(r) BY <2>4, CommitFailsTyped
  <2>5. CASE CommitRefused(r) \/ Reset(r) \/ Fail(r) \/ Crash(r) BY <2>5, GivesUpTyped
  <2>6. CASE \E label \in {"resetting", "failing"} : ScanEnds(r, label) BY <2>6, ScanEndsTyped
  <2> QED BY <1>1, <2>1, <2>2, <2>3, <2>4, <2>5, <2>6 DEF Work
<1>2. CASE Operator
  BY <1>2, BindingActsTyped, RecordActsTyped DEF Operator
<1>3. CASE Expire
  BY <1>3, BindingActsTyped
<1>4. CASE \E i \in Ids, present \in BOOLEAN : Change(i, present)
  BY <1>4, RecordActsTyped
<1>5. CASE UNCHANGED vars
  BY <1>5, TypedParts, StoreStays, RunsStay, RestStays, TypedPartsNext DEF vars, source, ghosts
<1> QED
  BY <1>1, <1>2, <1>3, <1>4, <1>5 DEF Next

\* Every variable keeps its type, for any number of records, runs, requests and events.
THEOREM TypeCorrect == Spec => []TypeOK
<1>1. Spec => []Typed
  BY InitTyped, NextTyped, PTL DEF Spec
<1>2. Typed => TypeOK
  BY DEF Typed
<1> QED
  BY <1>1, <1>2, PTL

----------------------------------------------------------------------------
(* Erasure                                                                 *)

LEMMA InitKept == Init => Kept
  BY DEF Init, Kept

\* A page adds no record that is suppressed.
LEMMA StorePageKeeps ==
  ASSUME Typed, Kept, NEW r \in Runs, StorePage(r), NEW i \in suppressed
  PROVE  replica'[i] = None
<1>1. i \in Ids /\ replica[i] = None
  BY DEF Typed, TypeOK, Kept
<1>2. Applied(page[r])[i] = None
  BY <1>1 DEF Applied, Upsert
<1>3. DropUnseen(Applied(page[r]), held[r].mode)[i] = None
  BY <1>1, <1>2 DEF DropUnseen
<1> QED
  BY <1>2, <1>3 DEF StorePage, CompletePage, ContinuePage

LEMMA NextKept == Typed /\ Kept /\ [Next]_vars => Kept'
<1> SUFFICES ASSUME Typed, Kept, [Next]_vars PROVE Kept'
  OBVIOUS
<1> USE DEF Kept
<1>1. suppressed \subseteq Ids /\ DOMAIN replica = Ids
  BY DEF Typed, TypeOK
<1>2. ASSUME UNCHANGED <<replica, suppressed, erased>> PROVE Kept'
  BY <1>2
<1>3. ASSUME NEW r \in Runs, StorePage(r), UNCHANGED <<suppressed, erased>> PROVE Kept'
  BY <1>3, StorePageKeeps
<1>4. ASSUME NEW r \in Runs, Work(r) PROVE Kept'
  <2>1. CASE Claim(r)
    <3>1. replica' = replica \/ replica' = Unseen
      BY <2>1 DEF Claim
    <3>2. \A i \in suppressed : Unseen[i] = None
      BY <1>1 DEF Unseen
    <3> QED
      BY <2>1, <3>1, <3>2 DEF Claim
  <2>2. CASE Commit(r) \/ CommitFails(r)
    BY <1>2, <1>3, <2>2 DEF Commit, CommitFails
  <2>3. CASE \/ Scan(r) \/ CommitRefused(r) \/ Reset(r) \/ Fail(r) \/ Crash(r)
             \/ \E label \in {"resetting", "failing"} : ScanEnds(r, label)
    BY <1>2, <2>3 DEF Scan, CommitRefused, Reset, Fail, Crash, ScanEnds, ghosts
  <2> QED
    BY <1>4, <2>1, <2>2, <2>3 DEF Work
<1>5. ASSUME NEW sameAccount \in BOOLEAN, Replace(sameAccount) PROVE Kept'
  <2>1. suppressed' \subseteq suppressed /\ erased' \subseteq suppressed'
    BY <1>5 DEF Replace, Carried
  <2>2. \A i \in Ids : replica'[i] = None
    BY <1>5 DEF Replace
  <2> QED
    BY <1>1, <2>1, <2>2
<1>6. ASSUME NEW i \in Ids, Suppress(i) PROVE Kept'
  BY <1>1, <1>6 DEF Suppress
<1>7. ASSUME NEW i \in Ids, Purge(i) PROVE Kept'
  BY <1>1, <1>7 DEF Purge
<1>8. CASE \/ Pause \/ Activate \/ Expire \/ UNCHANGED vars
           \/ \E q \in Requests : RequestRefresh(q)
           \/ \E i \in Ids, present \in BOOLEAN : Change(i, present)
  BY <1>2, <1>8 DEF Pause, Activate, Expire, RequestRefresh, Change, ghosts, vars
<1> QED
  BY <1>4, <1>5, <1>6, <1>7, <1>8 DEF Next, Operator

\* A record a customer had erased is not mirrored again, for any number of records, runs and
\* changes: neither by a page read before the erasure nor by the next generation of the account.
THEOREM ErasureLasts == Spec => []ErasedStaysErased
<1>1. Spec => [](Typed /\ Kept)
  BY InitTyped, NextTyped, InitKept, NextKept, PTL DEF Spec
<1>2. Kept => ErasedStaysErased
  BY DEF Kept, ErasedStaysErased
<1> QED
  BY <1>1, <1>2, PTL

----------------------------------------------------------------------------
(* What a scan has read.  Version(n, i) is what the source held of i when  *)
(* its log had n entries.                                                  *)

\* The source held v of i at some time since n.
Was(i, v, n) == \E k \in n .. Len(log) : Version(k, i) = v

Exempt == suppressed \cup expired
Mirrored(rec) == IF rec = None THEN None ELSE rec.version

\* What a snapshot that completes leaves of a record.
Shown(rec) == IF rec # None /\ rec.seen THEN rec.version ELSE None

\* Where the next page of a scan starts, and since when its pages are read.
SnapshotAt(c) == IF c = None THEN 1 ELSE c.next
ChangesAt(c, start) == IF c = None THEN start ELSE c.next

\* A snapshot has read the ids before its cursor since it began; the others it has not seen.
SnapshotInv ==
  mode = "snapshot" =>
    /\ checkpoint = None
    /\ cursor # None => cursor.next \in Ids /\ began <= cursor.from /\ cursor.from <= Len(log)
    /\ \A i \in Ids :
         IF i < SnapshotAt(cursor)
         THEN i \in Exempt \/ Was(i, Shown(replica[i]), cursor.from)
         ELSE replica[i] = None \/ ~replica[i].seen

\* The change feed has been followed up to the checkpoint, and in a scan up to its cursor.
ChangesInv ==
  /\ checkpoint # None => checkpoint <= Len(log) /\ Reflects(checkpoint)
  /\ mode = "changes" => checkpoint # None
  /\ mode = "changes" /\ cursor # None =>
       checkpoint <= cursor.next /\ cursor.next <= Len(log) /\ Reflects(cursor.next)

StoreInv ==
  /\ began <= Len(log)
  /\ complete => mode = None /\ Reflects(began)
  /\ SnapshotInv /\ ChangesInv

\* A page of a snapshot that stands at c shows one id, as it was when the page was read.
SnapshotPage(p, c) ==
  \E n \in began .. Len(log), from \in began .. Len(log) :
    /\ from <= n /\ (c # None => from = c.from)
    /\ DOMAIN p.records \subseteq {SnapshotAt(c)} /\ p.deletedIds = {}
    /\ Version(n, SnapshotAt(c)) = IF SnapshotAt(c) \in DOMAIN p.records THEN p.records[SnapshotAt(c)] ELSE None
    /\ p.complete <=> SnapshotAt(c) = NumIds
    /\ ~p.complete => p.nextCursor = [next |-> SnapshotAt(c) + 1, from |-> from]
    /\ p.checkpoint \in {None, from}

\* A page of the change feed names what has changed up to its end.
FeedPage(p, at) ==
  \E n \in began .. Len(log), to \in at .. Len(log) :
    /\ to <= n /\ to <= at + 1
    /\ \A i \in Ids :
         IF i \in DOMAIN p.records THEN p.records[i] = Version(n, i)
         ELSE IF i \in p.deletedIds THEN Version(n, i) = None
         ELSE Version(to, i) = Version(at, i)
    /\ p.complete => to = n /\ p.checkpoint = to
    /\ ~p.complete => p.nextCursor.next = to

\* The run that may still commit knows the binding as it is; its page was read in this scan.
OwnerInv ==
  \A r \in Runs : fence = r /\ lease = "live" /\ pc[r] \in {"scanning", "committing"} =>
    /\ held[r] = [mode |-> mode, cursor |-> cursor, checkpoint |-> checkpoint]
    /\ pc[r] = "committing" =>
         IF mode = "snapshot" THEN SnapshotPage(page[r], cursor)
         ELSE FeedPage(page[r], ChangesAt(cursor, checkpoint))

\* A scan serves the requests that were made before it began.
AskedInv ==
  \A q \in Requests : asked[q] <= Len(log) /\ (requests[q].target = "this" => asked[q] <= began)

ScanInv == StoreInv /\ OwnerInv /\ AskedInv

\* A state function of the log alone: what was the case at n stays so.
LogGrows ==
  \/ log' = log
  \/ \E i \in Ids, present \in BOOLEAN : log' = Append(log, [id |-> i, present |-> present])

LEMMA LogLater ==
  ASSUME TypeOK, LogGrows
  PROVE  /\ Len(log) \in Nat /\ Len(log') \in Nat /\ Len(log) <= Len(log')
         /\ \A k \in 1 .. Len(log) : log'[k] = log[k]
<1>1. log \in Seq([id : Ids, present : BOOLEAN])
  BY DEF TypeOK
<1>2. CASE log' = log
  BY <1>1, <1>2, LenProperties
<1>3. ASSUME NEW e \in [id : Ids, present : BOOLEAN], log' = Append(log, e)
      PROVE  /\ Len(log) \in Nat /\ Len(log') \in Nat /\ Len(log) <= Len(log')
             /\ \A k \in 1 .. Len(log) : log'[k] = log[k]
  BY <1>1, <1>3, AppendProperties, LenProperties
<1> QED
  BY <1>2, <1>3 DEF LogGrows

\* What the source held is history.
LEMMA VersionKept ==
  ASSUME TypeOK, LogGrows, NEW n \in 0 .. Len(log), NEW i
  PROVE  Version(n, i)' = Version(n, i)
<1> DEFINE last == {k \in 1 .. n : log[k].id = i /\ \A m \in k + 1 .. n : log[m].id # i}
<1>1. \A k \in 1 .. n : log'[k] = log[k]
  BY LogLater
<1>2. n \in Nat
  BY LogLater
<1>3. \A k \in 1 .. n : \A m \in k + 1 .. n : m \in 1 .. n
  BY <1>2
<1>4. last' = last
  BY <1>1, <1>3
<1>5. \A k \in last : log'[k] = log[k]
  BY <1>1
<1>6. Version(n, i) = IF \E k \in last : log[k].present THEN CHOOSE k \in last : TRUE ELSE None
  BY DEF Version
<1>7. Version(n, i)' = IF \E k \in last' : log'[k].present THEN CHOOSE k \in last' : TRUE ELSE None
  BY DEF Version
<1> HIDE DEF last
<1> QED
  BY <1>4, <1>5, <1>6, <1>7

\* A change of one record does not change another.
LEMMA VersionSkips ==
  ASSUME TypeOK, NEW t \in Nat, t + 1 <= Len(log), NEW i, log[t + 1].id # i
  PROVE  Version(t + 1, i) = Version(t, i)
<1> DEFINE last(n) == {k \in 1 .. n : log[k].id = i /\ \A m \in k + 1 .. n : log[m].id # i}
<1>1. last(t + 1) = last(t)
  <2>1. ASSUME NEW k \in last(t + 1) PROVE k \in last(t)
    OBVIOUS
  <2>2. ASSUME NEW k \in last(t) PROVE k \in last(t + 1)
    <3>1. ASSUME NEW m \in k + 1 .. t + 1 PROVE log[m].id # i
      <4>1. m \in k + 1 .. t \/ m = t + 1
        OBVIOUS
      <4> QED
        BY <4>1
    <3> QED
      BY <3>1
  <2> QED
    BY <2>1, <2>2
<1>2. \A n : Version(n, i) = IF \E k \in last(n) : log[k].present THEN CHOOSE k \in last(n) : TRUE ELSE None
  BY DEF Version
<1> HIDE DEF last
<1> QED
  BY <1>1, <1>2

LEMMA ReflectsWas ==
  ASSUME NEW n
  PROVE  /\ Reflects(n) <=> \A i \in Ids \ Exempt : Was(i, Mirrored(replica[i]), n)
         /\ Reflects(n)' <=> (\A i \in Ids \ Exempt : Was(i, Mirrored(replica[i]), n))'
  BY DEF Reflects, Was, Mirrored, Exempt

LEMMA WasStays ==
  ASSUME TypeOK, LogGrows, NEW n \in Nat, NEW i, NEW v, Was(i, v, n)
  PROVE  Was(i, v, n)'
<1>1. PICK k \in n .. Len(log) : Version(k, i) = v
  BY DEF Was
<1>2. k \in 0 .. Len(log) /\ k \in n .. Len(log')
  BY LogLater
<1>3. Version(k, i)' = v
  BY <1>1, <1>2, VersionKept
<1> QED
  BY <1>2, <1>3 DEF Was

\* What reflects a later state reflects it since an earlier time.
LEMMA ReflectsSince ==
  ASSUME NEW n \in Nat, NEW m \in Nat, n <= m, Len(log) \in Nat, Len(log') \in Nat
  PROVE  /\ Reflects(m) => Reflects(n)
         /\ Reflects(m)' => Reflects(n)'
  BY DEF Reflects

----------------------------------------------------------------------------
(* Steps that add nothing to the replica                                   *)

\* The source changes, records are erased or expire; what is held keeps its history.
LEMMA ReflectsStays ==
  ASSUME Typed, LogGrows, Exempt \subseteq Exempt',
         \A i \in Ids : replica'[i] = replica[i] \/ i \in Exempt',
         NEW n \in Nat, Reflects(n)
  PROVE  Reflects(n)'
<1> SUFFICES ASSUME NEW i \in Ids, i \notin Exempt' PROVE Was(i, Mirrored(replica[i]), n)'
  BY ReflectsWas
<1>1. Was(i, Mirrored(replica[i]), n)
  BY ReflectsWas
<1>2. replica'[i] = replica[i]
  OBVIOUS
<1>3. TypeOK
  BY DEF Typed
<1> DEFINE v == Mirrored(replica[i])
<1>4. v' = v
  BY <1>2 DEF Mirrored
<1>5. \E k \in n .. Len(log) : Version(k, i) = v
  BY <1>1 DEF Was
<1> HIDE DEF v
<1>6. PICK k \in n .. Len(log) : Version(k, i) = v
  BY <1>5
<1>7. k \in 0 .. Len(log) /\ k \in n .. Len(log')
  BY <1>3, LogLater
<1>8. Version(k, i)' = v
  BY <1>3, <1>6, <1>7, VersionKept
<1>9. \E m \in n .. Len(log') : Version(m, i)' = v'
  BY <1>4, <1>7, <1>8
<1> QED
  BY <1>9 DEF v, Was

LEMMA StoreInvStays ==
  ASSUME Typed, StoreInv, LogGrows, Exempt \subseteq Exempt',
         \A i \in Ids : replica'[i] = replica[i] \/ (i \in Exempt' /\ replica'[i] = None),
         UNCHANGED <<began, mode, cursor, checkpoint>>, complete' => complete
  PROVE  StoreInv'
<1>1. TypeOK
  BY DEF Typed
<1>2. Len(log) \in Nat /\ Len(log') \in Nat /\ Len(log) <= Len(log')
  BY <1>1, LogLater
<1>3. began \in Nat /\ (checkpoint # None => checkpoint \in Nat)
      /\ (cursor # None => cursor.next \in Nat /\ cursor.from \in Nat)
  BY <1>1 DEF TypeOK, Positions, Cursors
<1>4. \A n \in Nat : Reflects(n) => Reflects(n)'
  BY ReflectsStays
<1>5. began' <= Len(log') /\ (complete' => mode' = None /\ Reflects(began)')
  BY <1>2, <1>3, <1>4 DEF StoreInv
<1>6. ChangesInv'
  <2>1. ChangesInv
    BY DEF StoreInv
  <2>2. checkpoint # None => checkpoint <= Len(log') /\ Reflects(checkpoint)'
    BY <1>2, <1>3, <1>4, <2>1 DEF ChangesInv
  <2>3. mode = "changes" /\ cursor # None =>
          checkpoint <= cursor.next /\ cursor.next <= Len(log') /\ Reflects(cursor.next)'
    BY <1>2, <1>3, <1>4, <2>1 DEF ChangesInv
  <2>4. mode = "changes" => checkpoint # None
    BY <2>1 DEF ChangesInv
  <2> QED
    BY <2>2, <2>3, <2>4 DEF ChangesInv, Reflects
<1>7. SnapshotInv'
  <2> SUFFICES ASSUME mode = "snapshot" PROVE SnapshotInv'
    BY DEF SnapshotInv
  <2>1. /\ checkpoint = None
        /\ cursor # None => cursor.next \in Ids /\ began <= cursor.from /\ cursor.from <= Len(log)
    BY DEF StoreInv, SnapshotInv
  <2>2. ASSUME NEW i \in Ids
        PROVE  IF i < SnapshotAt(cursor)
               THEN i \in Exempt' \/ Was(i, Shown(replica[i]), cursor.from)'
               ELSE replica'[i] = None \/ ~replica'[i].seen
    <3>1. IF i < SnapshotAt(cursor)
          THEN i \in Exempt \/ Was(i, Shown(replica[i]), cursor.from)
          ELSE replica[i] = None \/ ~replica[i].seen
      BY DEF StoreInv, SnapshotInv
    <3>2. CASE i < SnapshotAt(cursor) /\ i \notin Exempt'
      <4>1. replica'[i] = replica[i] /\ i \notin Exempt
        BY <3>2
      <4>2. cursor # None
        BY <3>2 DEF SnapshotAt, Ids
      <4> DEFINE v == Shown(replica[i])
                 n == cursor.from
      <4>3. v' = v /\ n' = n /\ n \in Nat
        BY <1>3, <4>1, <4>2 DEF Shown
      <4>4. \E k \in n .. Len(log) : Version(k, i) = v
        BY <3>1, <3>2, <4>1 DEF Was
      <4> HIDE DEF v, n
      <4>5. PICK k \in n .. Len(log) : Version(k, i) = v
        BY <4>4
      <4>6. k \in 0 .. Len(log) /\ k \in n .. Len(log')
        BY <1>2, <4>3
      <4>7. Version(k, i)' = v
        BY <1>1, <4>5, <4>6, VersionKept
      <4>8. \E m \in n' .. Len(log') : Version(m, i)' = v'
        BY <4>3, <4>6, <4>7
      <4>9. Was(i, Shown(replica[i]), cursor.from)'
        BY <4>8 DEF v, n, Was
      <4> QED
        BY <3>2, <4>9
    <3> QED
      BY <3>1, <3>2
  <2> QED
    BY <1>2, <1>3, <2>1, <2>2 DEF SnapshotInv, SnapshotAt
<1> QED
  BY <1>5, <1>6, <1>7 DEF StoreInv, Reflects

\* A page stays what the source showed.
LEMMA SnapshotPageStays ==
  ASSUME Typed, LogGrows, began' = began, NEW p, NEW c, SnapshotPage(p, c)
  PROVE  SnapshotPage(p, c)'
<1>1. TypeOK /\ began \in Nat
  BY DEF Typed, TypeOK, Positions
<1>2. Len(log) \in Nat /\ Len(log') \in Nat /\ Len(log) <= Len(log')
  BY <1>1, LogLater
<1>3. PICK n \in began .. Len(log), from \in began .. Len(log) :
        /\ from <= n /\ (c # None => from = c.from)
        /\ DOMAIN p.records \subseteq {SnapshotAt(c)} /\ p.deletedIds = {}
        /\ Version(n, SnapshotAt(c)) = IF SnapshotAt(c) \in DOMAIN p.records THEN p.records[SnapshotAt(c)] ELSE None
        /\ p.complete <=> SnapshotAt(c) = NumIds
        /\ ~p.complete => p.nextCursor = [next |-> SnapshotAt(c) + 1, from |-> from]
        /\ p.checkpoint \in {None, from}
  BY DEF SnapshotPage
<1>4. n \in 0 .. Len(log) /\ n \in began' .. Len(log') /\ from \in began' .. Len(log')
  BY <1>1, <1>2
<1> DEFINE at == SnapshotAt(c)
<1>5. Version(n, at)' = Version(n, at)
  BY <1>1, <1>4, VersionKept
<1> QED
  BY <1>3, <1>4, <1>5 DEF SnapshotPage, SnapshotAt

LEMMA FeedPageStays ==
  ASSUME Typed, LogGrows, began' = began, NEW p, NEW at \in Nat, at <= Len(log), FeedPage(p, at)
  PROVE  FeedPage(p, at)'
<1>1. TypeOK /\ began \in Nat
  BY DEF Typed, TypeOK, Positions
<1>2. Len(log) \in Nat /\ Len(log') \in Nat /\ Len(log) <= Len(log')
  BY <1>1, LogLater
<1>3. PICK n \in began .. Len(log), to \in at .. Len(log) :
        /\ to <= n /\ to <= at + 1
        /\ \A i \in Ids :
             IF i \in DOMAIN p.records THEN p.records[i] = Version(n, i)
             ELSE IF i \in p.deletedIds THEN Version(n, i) = None
             ELSE Version(to, i) = Version(at, i)
        /\ p.complete => to = n /\ p.checkpoint = to
        /\ ~p.complete => p.nextCursor.next = to
  BY DEF FeedPage
<1>4. n \in 0 .. Len(log) /\ to \in 0 .. Len(log) /\ at \in 0 .. Len(log)
      /\ n \in began' .. Len(log') /\ to \in at .. Len(log')
  BY <1>1, <1>2
<1>5. \A i \in Ids : /\ Version(n, i)' = Version(n, i) /\ Version(to, i)' = Version(to, i)
                     /\ Version(at, i)' = Version(at, i)
  BY <1>1, <1>4, VersionKept
<1> QED
  BY <1>3, <1>4, <1>5 DEF FeedPage

LEMMA FeedPosition ==
  ASSUME Typed, StoreInv, mode = "changes"
  PROVE  /\ ChangesAt(cursor, checkpoint) \in Nat /\ ChangesAt(cursor, checkpoint) <= Len(log)
         /\ checkpoint \in Nat /\ checkpoint <= ChangesAt(cursor, checkpoint)
         /\ Reflects(ChangesAt(cursor, checkpoint))
<1>1. checkpoint \in Nat /\ (cursor # None => cursor.next \in Nat)
  BY DEF Typed, TypeOK, StoreInv, ChangesInv, Positions, Cursors
<1> QED
  BY <1>1 DEF StoreInv, ChangesInv, ChangesAt

LEMMA OwnerInvStays ==
  ASSUME Typed, StoreInv, OwnerInv, LogGrows,
         UNCHANGED <<began, mode, cursor, checkpoint, fence>>, lease' = "live" => lease = "live",
         \A r \in Runs : pc'[r] \in {"scanning", "committing"} =>
           pc'[r] = pc[r] /\ held'[r] = held[r] /\ page'[r] = page[r]
  PROVE  OwnerInv'
<1> SUFFICES ASSUME NEW r \in Runs, fence' = r, lease' = "live", pc'[r] \in {"scanning", "committing"}
             PROVE  /\ held'[r] = [mode |-> mode, cursor |-> cursor, checkpoint |-> checkpoint]
                    /\ pc'[r] = "committing" =>
                         IF mode = "snapshot" THEN SnapshotPage(page[r], cursor)'
                         ELSE FeedPage(page[r], ChangesAt(cursor, checkpoint))'
  BY DEF OwnerInv
<1>1. fence = r /\ lease = "live" /\ pc'[r] = pc[r] /\ held'[r] = held[r] /\ page'[r] = page[r]
  OBVIOUS
<1>2. held[r] = [mode |-> mode, cursor |-> cursor, checkpoint |-> checkpoint]
  BY <1>1 DEF OwnerInv
<1>3. ASSUME pc'[r] = "committing", mode = "snapshot" PROVE SnapshotPage(page[r], cursor)'
  <2>1. SnapshotPage(page[r], cursor)
    BY <1>1, <1>3 DEF OwnerInv
  <2> DEFINE p == page[r]
             c == cursor
  <2>2. p' = p /\ c' = c /\ SnapshotPage(p, c)
    BY <1>1, <2>1
  <2> QED
    BY <2>2, SnapshotPageStays
<1>4. ASSUME pc'[r] = "committing", mode # "snapshot"
      PROVE  FeedPage(page[r], ChangesAt(cursor, checkpoint))'
  <2>1. FeedPage(page[r], ChangesAt(cursor, checkpoint))
    BY <1>1, <1>4 DEF OwnerInv
  <2>2. mode = "changes"
    BY <1>1, <1>4 DEF Typed, TypeOK, Continues, Modes
  <2> QED
    BY <1>1, <2>1, <2>2, FeedPosition, FeedPageStays
<1> QED
  BY <1>1, <1>2, <1>3, <1>4

----------------------------------------------------------------------------
(* claimDue and the scan                                                   *)

LEMMA ClaimScanInv == ASSUME Typed, ScanInv, NEW r \in Runs, Claim(r) PROVE StoreInv' /\ OwnerInv'
<1>1. TypeOK /\ StoreInv
  BY DEF Typed, ScanInv
<1>2. Len(log) \in Nat /\ began \in Nat /\ log' = log /\ LogGrows
  BY <1>1 DEF TypeOK, Claim, source, LogGrows, Positions
<1>3. OwnerInv'
  <2>1. fence' = r /\ pc'[r] = "scanning" /\ UNCHANGED <<cursor, checkpoint>>
        /\ held'[r] = [mode |-> mode', cursor |-> cursor, checkpoint |-> checkpoint]
    BY <1>1 DEF Claim, TypeOK
  <2> QED
    BY <2>1 DEF OwnerInv
<1>4. CASE cursor # None
  <2>1. UNCHANGED <<log, began, mode, cursor, checkpoint, replica, suppressed, expired>> /\ ~complete'
    BY <1>4 DEF Claim, source
  <2> QED
    BY <1>1, <1>2, <1>3, <2>1, StoreInvStays DEF Exempt
<1>5. CASE cursor = None
  <2>1. /\ mode' = IF checkpoint = None THEN "snapshot" ELSE "changes"
        /\ replica' = Unseen /\ began' = Len(log) /\ cursor' = None /\ checkpoint' = checkpoint
        /\ expired' = (IF checkpoint = None THEN {} ELSE expired) /\ suppressed' = suppressed
        /\ complete' = FALSE
    BY <1>5 DEF Claim
  <2>2. \A i \in Ids : replica'[i] = None \/ ~replica'[i].seen
    <3>1. ASSUME NEW i \in Ids, replica[i] # None PROVE ~[replica[i] EXCEPT !.seen = FALSE].seen
      <4>1. replica[i] \in Records
        BY <1>1, <3>1 DEF TypeOK
      <4> QED
        BY <4>1 DEF Records
    <3> QED
      BY <2>1, <3>1 DEF Unseen
  <2>3. SnapshotInv'
    <3>1. \A i \in Ids : ~(i < SnapshotAt(cursor)')
      BY <2>1 DEF SnapshotAt, Ids
    <3> QED
      BY <2>1, <2>2, <3>1, <1>2 DEF SnapshotInv
  <2>4. ChangesInv'
    <3>1. ASSUME checkpoint # None PROVE checkpoint <= Len(log') /\ Reflects(checkpoint)'
      <4>1. checkpoint \in Nat /\ checkpoint <= Len(log) /\ Reflects(checkpoint)
        BY <1>1, <3>1 DEF TypeOK, StoreInv, ChangesInv, Positions
      <4>2. ASSUME NEW i \in Ids PROVE Mirrored(replica[i])' = Mirrored(replica[i])
        <5>1. CASE replica[i] = None
          BY <2>1, <5>1 DEF Mirrored, Unseen
        <5>2. CASE replica[i] # None
          <6>1. replica[i] \in Records
            BY <1>1, <5>2 DEF TypeOK
          <6>2. replica'[i] = [replica[i] EXCEPT !.seen = FALSE]
            BY <2>1, <5>2 DEF Unseen
          <6>3. replica'[i] \in Records /\ replica'[i].version = replica[i].version
            BY <6>1, <6>2 DEF Records
          <6>4. replica'[i] # None
            BY <6>3, NoneIsNothing
          <6> QED
            BY <5>2, <6>3, <6>4 DEF Mirrored
        <5> QED
          BY <5>1, <5>2
      <4>3. Exempt' = Exempt
        BY <2>1, <3>1 DEF Exempt
      <4>4. ASSUME NEW i \in Ids \ Exempt PROVE Was(i, Mirrored(replica[i]), checkpoint)'
        <5>1. Was(i, Mirrored(replica[i]), checkpoint)
          BY <4>1, ReflectsWas
        <5>2. PICK k \in checkpoint .. Len(log) : Version(k, i) = Mirrored(replica[i])
          BY <5>1 DEF Was
        <5>3. Version(k, i)' = Version(k, i)
          <6>1. k \in 0 .. Len(log)
            BY <1>2, <4>1
          <6> QED
            BY <1>1, <1>2, <6>1, VersionKept
        <5>4. \E m \in checkpoint' .. Len(log') : Version(m, i)' = Mirrored(replica[i])'
          BY <1>2, <2>1, <4>2, <5>2, <5>3
        <5> QED
          BY <5>4 DEF Was
      <4>5. (\A i \in Ids \ Exempt : Was(i, Mirrored(replica[i]), checkpoint))'
        BY <4>3, <4>4
      <4> QED
        BY <1>2, <4>1, <4>5 DEF Reflects, Was, Mirrored, Exempt
    <3> QED
      BY <2>1, <3>1 DEF ChangesInv
  <2>5. began' <= Len(log')
    BY <1>2, <2>1
  <2> QED
    BY <1>3, <2>1, <2>3, <2>4, <2>5 DEF StoreInv
<1> QED
  BY <1>4, <1>5

\* The current records of one id.
LEMMA CurrentOf ==
  ASSUME NEW S
  PROVE  \A i : /\ i \in DOMAIN Current(S) <=> i \in S /\ Version(Len(log), i) # None
                /\ i \in DOMAIN Current(S) => Current(S)[i] = Version(Len(log), i)
  BY DEF Current

LEMMA SnapshotIsRead ==
  ASSUME Typed, StoreInv, mode = "snapshot", NEW p \in SnapshotPages(cursor)
  PROVE  SnapshotPage(p, cursor)
<1> DEFINE at == IF cursor = None THEN [next |-> 1, from |-> Len(log)] ELSE cursor
           final == at.next = NumIds
           after == [at EXCEPT !.next = @ + 1]
<1>1. Len(log) \in Nat /\ began \in Nat /\ began <= Len(log)
  BY DEF Typed, TypeOK, StoreInv, Positions
<1>2. cursor # None => cursor \in Cursors /\ began <= cursor.from /\ cursor.from <= Len(log)
  BY DEF Typed, TypeOK, StoreInv, SnapshotInv
<1>3. at \in [next : Nat, from : Nat] /\ at.from \in began .. Len(log) /\ at.next = SnapshotAt(cursor)
      /\ (cursor # None => at.from = cursor.from)
  BY <1>1, <1>2 DEF SnapshotAt, Cursors, Positions
<1>4. PICK offered \in IF final THEN {None, at.from} ELSE {None} :
        p = [records |-> Current({at.next}), deletedIds |-> {}, complete |-> final,
             nextCursor |-> IF final THEN None ELSE after, checkpoint |-> offered]
  BY DEF SnapshotPages
<1> HIDE DEF at
<1>5. after = [next |-> at.next + 1, from |-> at.from]
  BY <1>3
<1> HIDE DEF after
<1>6. /\ p.records = Current({at.next}) /\ p.deletedIds = {} /\ p.complete = final
      /\ p.nextCursor = (IF final THEN None ELSE after) /\ p.checkpoint \in {None, at.from}
  BY <1>4
<1>7. /\ DOMAIN p.records \subseteq {at.next}
      /\ Version(Len(log), at.next) = IF at.next \in DOMAIN p.records THEN p.records[at.next] ELSE None
  BY <1>6, CurrentOf
<1>8. Len(log) \in began .. Len(log) /\ at.from <= Len(log)
  BY <1>1, <1>3
<1> QED
  BY <1>3, <1>5, <1>6, <1>7, <1>8 DEF SnapshotPage

LEMMA FeedIsRead ==
  ASSUME Typed, StoreInv, mode = "changes"
  PROVE  FeedPage(ChangesPage(cursor, checkpoint), ChangesAt(cursor, checkpoint))
<1> DEFINE at == ChangesAt(cursor, checkpoint)
           to == IF at < Len(log) THEN at + 1 ELSE at
           changed == {log[k].id : k \in at + 1 .. to}
           final == to = Len(log)
           p == ChangesPage(cursor, checkpoint)
<1>1. at \in Nat /\ at <= Len(log) /\ Len(log) \in Nat /\ began \in Nat /\ began <= Len(log) /\ TypeOK
  BY FeedPosition DEF Typed, TypeOK, StoreInv, Positions
<1>2. /\ p.records = Current(changed) /\ p.deletedIds = changed \ DOMAIN Current(changed)
      /\ p.complete = final /\ p.nextCursor = (IF final THEN None ELSE [next |-> to, from |-> to])
      /\ p.checkpoint = (IF final THEN to ELSE None)
  BY DEF ChangesPage, ChangesAt
<1> HIDE DEF p
<1>3. to \in at .. Len(log) /\ to <= at + 1 /\ Len(log) \in began .. Len(log)
  BY <1>1
<1>4. ASSUME NEW i \in Ids
      PROVE  IF i \in DOMAIN p.records THEN p.records[i] = Version(Len(log), i)
             ELSE IF i \in p.deletedIds THEN Version(Len(log), i) = None
             ELSE Version(to, i) = Version(at, i)
  <2>1. i \in changed => IF i \in DOMAIN p.records THEN p.records[i] = Version(Len(log), i)
                         ELSE i \in p.deletedIds /\ Version(Len(log), i) = None
    BY <1>2, CurrentOf
  <2>2. i \notin changed => i \notin DOMAIN p.records /\ i \notin p.deletedIds
    BY <1>2, CurrentOf
  <2>3. ASSUME i \notin changed PROVE Version(to, i) = Version(at, i)
    <3>1. CASE at < Len(log)
      <4>1. log[at + 1].id # i
        BY <1>1, <2>3, <3>1
      <4> QED
        BY <1>1, <3>1, <4>1, VersionSkips
    <3>2. CASE ~(at < Len(log))
      BY <3>2
    <3> QED
      BY <3>1, <3>2
  <2> QED
    BY <2>1, <2>2, <2>3
<1>5. /\ p.complete => to = Len(log) /\ p.checkpoint = to
      /\ ~p.complete => p.nextCursor.next = to
  <2> HIDE DEF to, changed
  <2>1. (p.complete <=> final) /\ p.nextCursor = (IF final THEN None ELSE [next |-> to, from |-> to])
        /\ p.checkpoint = (IF final THEN to ELSE None)
    BY <1>2
  <2>2. [next |-> to, from |-> to].next = to
    OBVIOUS
  <2> QED
    BY <2>1, <2>2
<1> HIDE DEF at, to
<1>6. FeedPage(p, at)
  BY <1>1, <1>3, <1>4, <1>5 DEF FeedPage
<1> QED
  BY <1>6 DEF p, at

LEMMA ScanScanInv == ASSUME Typed, ScanInv, NEW r \in Runs, Scan(r) PROVE StoreInv' /\ OwnerInv'
<1>1. TypeOK /\ StoreInv /\ OwnerInv /\ LogGrows
  BY DEF Typed, ScanInv, Scan, source, LogGrows
<1>2. StoreInv'
  BY <1>1, StoreInvStays DEF Scan, binding, ghosts, Exempt
<1>3. UNCHANGED <<log, fence, lease, mode, cursor, checkpoint, began, held>>
      /\ pc' = [pc EXCEPT ![r] = "committing"] /\ pc[r] = "scanning"
  BY DEF Scan, source, binding, ghosts
<1>4. ASSUME NEW q \in Runs, fence' = q, lease' = "live", pc'[q] \in {"scanning", "committing"}
      PROVE  /\ held'[q] = [mode |-> mode, cursor |-> cursor, checkpoint |-> checkpoint]
             /\ pc'[q] = "committing" =>
                  IF mode = "snapshot" THEN SnapshotPage(page[q], cursor)'
                  ELSE FeedPage(page[q], ChangesAt(cursor, checkpoint))'
  <2>1. fence = q /\ lease = "live" /\ pc[q] \in {"scanning", "committing"}
    BY <1>1, <1>3, <1>4 DEF TypeOK
  <2>2. held[q] = [mode |-> mode, cursor |-> cursor, checkpoint |-> checkpoint]
    BY <1>1, <2>1 DEF OwnerInv
  <2>3. mode # "snapshot" => mode = "changes"
    BY <2>1 DEF Typed, TypeOK, Continues, Modes
  <2>4. pc'[q] = "committing" =>
          IF mode = "snapshot" THEN SnapshotPage(page'[q], cursor)
          ELSE FeedPage(page'[q], ChangesAt(cursor, checkpoint))
    <3>1. CASE q = r
      <4>1. PICK p \in IF held[r].mode = "snapshot" THEN SnapshotPages(held[r].cursor)
                       ELSE {ChangesPage(held[r].cursor, held[r].checkpoint)} : page' = [page EXCEPT ![r] = p]
        BY DEF Scan
      <4>2. page'[q] = p
        BY <1>1, <3>1, <4>1 DEF TypeOK
      <4>3. p \in IF mode = "snapshot" THEN SnapshotPages(cursor) ELSE {ChangesPage(cursor, checkpoint)}
        BY <2>2, <3>1, <4>1
      <4> QED
        BY <1>1, <2>3, <4>2, <4>3, SnapshotIsRead, FeedIsRead
    <3>2. CASE q # r
      <4>1. page'[q] = page[q] /\ pc'[q] = pc[q]
        BY <1>1, <1>3, <3>2 DEF Scan, TypeOK
      <4> QED
        BY <1>1, <2>1, <4>1 DEF OwnerInv
    <3> QED
      BY <3>1, <3>2
  <2>5. PICK p : p = page'[q]
    OBVIOUS
  <2>6. ASSUME pc'[q] = "committing", mode = "snapshot" PROVE SnapshotPage(page[q], cursor)'
    <3>1. PICK c : c = cursor
      OBVIOUS
    <3>2. SnapshotPage(p, c)'
      BY <1>1, <1>3, <2>4, <2>5, <2>6, <3>1, SnapshotPageStays
    <3> QED
      BY <1>3, <2>5, <3>1, <3>2
  <2>7. ASSUME pc'[q] = "committing", mode # "snapshot" PROVE FeedPage(page[q], ChangesAt(cursor, checkpoint))'
    <3>1. PICK at : at = ChangesAt(cursor, checkpoint)
      OBVIOUS
    <3>2. FeedPage(p, at)'
      BY <1>1, <1>3, <2>3, <2>4, <2>5, <2>7, <3>1, FeedPosition, FeedPageStays
    <3>3. ChangesAt(cursor, checkpoint)' = at
      BY <1>3, <3>1 DEF ChangesAt
    <3> QED
      BY <2>5, <3>2, <3>3
  <2> QED
    BY <1>3, <2>2, <2>6, <2>7
<1> QED
  BY <1>2, <1>3, <1>4 DEF OwnerInv

----------------------------------------------------------------------------
(* commitPage                                                              *)

\* A record after a page.
LEMMA AfterPage ==
  ASSUME Typed, NEW p, PageOK(p), NEW i \in Ids, i \notin suppressed
  PROVE  /\ i \in DOMAIN p.records =>
              /\ Applied(p)[i] # None /\ Applied(p)[i].seen = TRUE
              /\ Applied(p)[i].version = p.records[i]
         /\ i \notin DOMAIN p.records /\ i \in p.deletedIds => Applied(p)[i] = None
         /\ i \notin DOMAIN p.records /\ i \notin p.deletedIds => Applied(p)[i] = replica[i]
<1>1. ASSUME i \in DOMAIN p.records
      PROVE  /\ [version |-> p.records[i], seen |-> TRUE] # None
             /\ Applied(p)[i] = [version |-> p.records[i], seen |-> TRUE]
  <2>1. p.records[i] \in Positions
    BY <1>1 DEF PageOK
  <2>2. [version |-> p.records[i], seen |-> TRUE] \in Records
    BY <2>1 DEF Records
  <2> QED
    BY <1>1, <2>2, NoneIsNothing DEF Applied, Upsert
<1> QED
  BY <1>1 DEF Applied

\* The owner, at the page it holds.
LEMMA OwnerAt ==
  ASSUME Typed, ScanInv, NEW r \in Runs, pc[r] = "committing", StorePage(r)
  PROVE  /\ fence = r /\ lease = "live" /\ PageOK(page[r]) /\ mode \in Modes /\ ~complete
         /\ held[r] = [mode |-> mode, cursor |-> cursor, checkpoint |-> checkpoint]
         /\ mode = "snapshot" => SnapshotPage(page[r], cursor)
         /\ mode = "changes" => FeedPage(page[r], ChangesAt(cursor, checkpoint))
<1>1. fence = r /\ lease = "live"
  BY DEF StorePage, Owns
<1>2. mode \in Modes /\ ~complete
  BY <1>1, NoneIsNothing DEF Typed, TypeOK, Continues, ScanInv, StoreInv
<1>3. PageOK(page[r])
  BY DEF Typed, TypeOK
<1> QED
  BY <1>1, <1>2, <1>3 DEF ScanInv, OwnerInv

\* Whatever a page lets go of is known, and the rest stays exempt.
LEMMA ExemptAfter ==
  ASSUME NEW r \in Runs, StorePage(r), UNCHANGED suppressed, NEW i, i \notin Exempt'
  PROVE  i \notin suppressed /\ (i \notin DOMAIN page[r].records => i \notin Exempt)
  BY DEF StorePage, Exempt

\* The last page of a snapshot.
LEMMA SnapshotCompletes ==
  ASSUME Typed, ScanInv, NEW r \in Runs, pc[r] = "committing", StorePage(r),
         UNCHANGED <<log, suppressed, began>>, mode = "snapshot", page[r].complete
  PROVE  StoreInv'
<1> DEFINE p == page[r]
           at == SnapshotAt(cursor)
<1>1. PageOK(p) /\ SnapshotPage(p, cursor) /\ held[r].mode = "snapshot" /\ StoreInv
  BY OwnerAt DEF ScanInv
<1>2. CompletePage(r)
  BY DEF StorePage
<1>3. PICK n \in began .. Len(log), from \in began .. Len(log) :
        /\ from <= n /\ (cursor # None => from = cursor.from)
        /\ DOMAIN p.records \subseteq {at} /\ p.deletedIds = {}
        /\ Version(n, at) = IF at \in DOMAIN p.records THEN p.records[at] ELSE None
        /\ p.complete <=> at = NumIds
        /\ ~p.complete => p.nextCursor = [next |-> at + 1, from |-> from]
        /\ p.checkpoint \in {None, from}
  BY <1>1 DEF SnapshotPage
<1>4. at = NumIds /\ NumIds \in Nat /\ Len(log) \in Nat /\ began \in Nat /\ from \in Nat /\ n \in Nat
  BY <1>3, NumIdsPositive DEF Typed, TypeOK, Positions
<1>5. replica' = DropUnseen(Applied(p), "snapshot")
  BY <1>1, <1>2 DEF CompletePage
<1>6. ASSUME NEW i \in Ids \ Exempt'
      PROVE  \E k \in from .. Len(log) : Version(k, i) = Mirrored(replica'[i])
  <2>1. i \notin suppressed /\ (i \notin DOMAIN p.records => i \notin Exempt)
    BY ExemptAfter
  <2>2. Mirrored(replica'[i]) = Shown(Applied(p)[i])
    BY <1>5 DEF Mirrored, Shown, DropUnseen
  <2>3. CASE i < at
    <3>1. i \notin DOMAIN p.records /\ i \notin p.deletedIds
      BY <1>3, <1>4, <2>3 DEF Ids
    <3>2. Applied(p)[i] = replica[i]
      BY <1>1, <2>1, <3>1, AfterPage
    <3>3. cursor # None
      BY <2>3 DEF SnapshotAt, Ids
    <3>4. Was(i, Shown(replica[i]), cursor.from)
      BY <1>1, <2>1, <2>3, <3>1 DEF StoreInv, SnapshotInv
    <3> QED
      BY <1>3, <2>2, <3>2, <3>3, <3>4 DEF Was
  <2>4. CASE i = at
    <3>1. Version(n, i) = Shown(Applied(p)[i])
      <4>1. CASE i \in DOMAIN p.records
        <5>1. Applied(p)[i] # None /\ Applied(p)[i].seen = TRUE /\ Applied(p)[i].version = p.records[i]
          BY <1>1, <2>1, <4>1, AfterPage
        <5> QED
          BY <1>3, <2>4, <4>1, <5>1 DEF Shown
      <4>2. CASE i \notin DOMAIN p.records
        <5>1. Applied(p)[i] = replica[i]
          BY <1>1, <1>3, <2>1, <4>2, AfterPage
        <5>2. replica[i] = None \/ ~replica[i].seen
          BY <1>1, <1>4, <2>4 DEF StoreInv, SnapshotInv, Ids
        <5> QED
          BY <1>3, <2>4, <4>2, <5>1, <5>2 DEF Shown
      <4> QED
        BY <4>1, <4>2
    <3>2. n \in from .. Len(log)
      BY <1>3, <1>4
    <3> QED
      BY <2>2, <3>1, <3>2
  <2>5. i < at \/ i = at
    BY <1>4 DEF Ids
  <2> QED
    BY <2>3, <2>4, <2>5
<1>7. Reflects(from)'
  <2>1. \A k, i : Version(k, i)' = Version(k, i)
    BY DEF Version
  <2> QED
    BY <1>6, <2>1 DEF Reflects, Mirrored, Exempt
<1>8. checkpoint' \in {None, from}
  BY <1>1, <1>2, <1>3 DEF CompletePage
<1>9. complete' = TRUE /\ mode' = None /\ cursor' = None
  BY <1>2 DEF CompletePage
<1>10. Reflects(began)'
  BY <1>3, <1>4, <1>7, ReflectsSince DEF Reflects
<1>11. began' <= Len(log') /\ (checkpoint' # None => checkpoint' <= Len(log') /\ Reflects(checkpoint)')
  <2>1. ASSUME checkpoint' # None PROVE checkpoint' <= Len(log') /\ Reflects(checkpoint)'
    <3>1. checkpoint' = from
      BY <1>8, <2>1
    <3> QED
      BY <1>3, <1>4, <1>7, <3>1 DEF Reflects
  <2> QED
    BY <1>3, <1>4, <2>1
<1> QED
  BY <1>9, <1>10, <1>11, NoneIsNothing DEF StoreInv, SnapshotInv, ChangesInv, Modes

\* Another page of a snapshot.
LEMMA SnapshotContinues ==
  ASSUME Typed, ScanInv, NEW r \in Runs, pc[r] = "committing", StorePage(r),
         UNCHANGED <<log, suppressed, began>>, mode = "snapshot", ~page[r].complete
  PROVE  StoreInv'
<1> DEFINE p == page[r]
           at == SnapshotAt(cursor)
<1>1. PageOK(p) /\ SnapshotPage(p, cursor) /\ StoreInv /\ ~complete
  BY OwnerAt DEF ScanInv
<1>2. ContinuePage(r)
  BY DEF StorePage
<1>3. PICK n \in began .. Len(log), from \in began .. Len(log) :
        /\ from <= n /\ (cursor # None => from = cursor.from)
        /\ DOMAIN p.records \subseteq {at} /\ p.deletedIds = {}
        /\ Version(n, at) = IF at \in DOMAIN p.records THEN p.records[at] ELSE None
        /\ p.complete <=> at = NumIds
        /\ ~p.complete => p.nextCursor = [next |-> at + 1, from |-> from]
        /\ p.checkpoint \in {None, from}
  BY <1>1 DEF SnapshotPage
<1>4. Len(log) \in Nat /\ began \in Nat /\ from \in Nat /\ n \in Nat
  BY <1>3 DEF Typed, TypeOK, Positions
<1>5. at \in Ids /\ at # NumIds
  BY <1>1, <1>3, NumIdsPositive DEF StoreInv, SnapshotInv, SnapshotAt, Ids
<1>6. cursor' = [next |-> at + 1, from |-> from] /\ UNCHANGED <<mode, checkpoint, complete>>
      /\ replica' = Applied(p)
  BY <1>2, <1>3 DEF ContinuePage
<1>7. cursor'.next = at + 1 /\ cursor'.from = from /\ cursor' # None
  <2>1. cursor' \in Cursors
    BY <1>4, <1>5, <1>6 DEF Cursors, Positions, Ids
  <2> QED
    BY <1>6, <2>1, NoneIsNothing
<1>8. ASSUME NEW i \in Ids
      PROVE  IF i < at + 1
             THEN i \in Exempt' \/ \E k \in from .. Len(log) : Version(k, i) = Shown(replica'[i])
             ELSE replica'[i] = None \/ ~replica'[i].seen
  <2>1. CASE i > at
    <3>1. i \notin DOMAIN p.records /\ i \notin p.deletedIds
      BY <1>3, <1>5, <2>1 DEF Ids
    <3>2. replica'[i] = replica[i]
      BY <1>6, <3>1 DEF Applied
    <3> QED
      BY <1>1, <1>5, <2>1, <3>2 DEF StoreInv, SnapshotInv, Ids
  <2>2. CASE i < at /\ i \notin Exempt'
    <3>1. i \notin DOMAIN p.records /\ i \notin p.deletedIds
      BY <1>3, <1>5, <2>2 DEF Ids
    <3>2. replica'[i] = replica[i] /\ i \notin Exempt
      BY <1>6, <2>2, <3>1, ExemptAfter DEF Applied
    <3>3. cursor # None
      BY <2>2 DEF SnapshotAt, Ids
    <3>4. Was(i, Shown(replica[i]), cursor.from)
      BY <1>1, <2>2, <3>2 DEF StoreInv, SnapshotInv
    <3> QED
      BY <1>3, <1>5, <2>2, <3>2, <3>3, <3>4 DEF Was, Ids
  <2>3. CASE i = at /\ i \notin Exempt'
    <3>1. i \notin suppressed
      BY <2>3, ExemptAfter
    <3>2. Version(n, i) = Shown(Applied(p)[i])
      <4>1. CASE i \in DOMAIN p.records
        BY <1>1, <1>3, <2>3, <3>1, <4>1, AfterPage DEF Shown
      <4>2. CASE i \notin DOMAIN p.records
        <5>1. Applied(p)[i] = replica[i]
          BY <1>1, <1>3, <3>1, <4>2, AfterPage
        <5>2. replica[i] = None \/ ~replica[i].seen
          BY <1>1, <1>5, <2>3 DEF StoreInv, SnapshotInv, Ids
        <5> QED
          BY <1>3, <2>3, <4>2, <5>1, <5>2 DEF Shown
      <4> QED
        BY <4>1, <4>2
    <3>3. n \in from .. Len(log) /\ i < at + 1
      BY <1>3, <1>4, <1>5, <2>3 DEF Ids
    <3> QED
      BY <1>6, <3>2, <3>3
  <2>4. i > at \/ (i < at + 1 /\ (i < at \/ i = at))
    BY <1>5 DEF Ids
  <2> QED
    BY <1>5, <2>1, <2>2, <2>3, <2>4 DEF Ids
<1>9. SnapshotInv'
  <2>1. \A k, i : Version(k, i)' = Version(k, i)
    BY DEF Version
  <2>2. SnapshotAt(cursor)' = at + 1
    BY <1>7 DEF SnapshotAt
  <2>3. cursor'.next \in Ids /\ began' <= cursor'.from /\ cursor'.from <= Len(log') /\ checkpoint' = None
    <3>1. at + 1 \in Ids
      BY <1>5, NumIdsPositive DEF Ids
    <3> QED
      BY <1>1, <1>3, <1>4, <1>6, <1>7, <3>1 DEF StoreInv, SnapshotInv
  <2>4. \A i \in Ids : IF i < SnapshotAt(cursor)'
                       THEN i \in Exempt' \/ Was(i, Shown(replica[i]), cursor.from)'
                       ELSE replica'[i] = None \/ ~replica'[i].seen
    BY <1>7, <1>8, <2>1, <2>2 DEF Was, Shown
  <2> QED
    BY <2>3, <2>4 DEF SnapshotInv
<1> QED
  BY <1>1, <1>6, <1>9 DEF StoreInv, SnapshotInv, ChangesInv

\* A page of the change feed brings the replica up to its end.
LEMMA FeedAdvances ==
  ASSUME Typed, ScanInv, NEW r \in Runs, pc[r] = "committing", StorePage(r),
         UNCHANGED <<log, suppressed, began>>, mode = "changes"
  PROVE  StoreInv'
<1> DEFINE p == page[r]
           at == ChangesAt(cursor, checkpoint)
<1>1. PageOK(p) /\ FeedPage(p, at) /\ held[r].mode = "changes" /\ StoreInv /\ ~complete
  BY OwnerAt DEF ScanInv
<1>2. PICK n \in began .. Len(log), to \in at .. Len(log) :
        /\ to <= n /\ to <= at + 1
        /\ \A i \in Ids :
             IF i \in DOMAIN p.records THEN p.records[i] = Version(n, i)
             ELSE IF i \in p.deletedIds THEN Version(n, i) = None
             ELSE Version(to, i) = Version(at, i)
        /\ p.complete => to = n /\ p.checkpoint = to
        /\ ~p.complete => p.nextCursor.next = to
  BY <1>1 DEF FeedPage
<1>3. at \in Nat /\ at <= Len(log) /\ checkpoint \in Nat /\ checkpoint <= at /\ Reflects(at)
  BY <1>1, FeedPosition
<1>4. Len(log) \in Nat /\ began \in Nat /\ began <= Len(log) /\ n \in Nat /\ to \in Nat
  BY <1>1, <1>2, <1>3 DEF Typed, TypeOK, Positions, StoreInv
<1> HIDE DEF at
<1>5. replica' = Applied(p)
  <2>1. Applied(p) = DropUnseen(Applied(p), "changes")
    BY DEF Applied, DropUnseen
  <2> QED
    BY <1>1, <2>1 DEF StorePage, CompletePage, ContinuePage
<1>6. ASSUME NEW i \in Ids \ Exempt'
      PROVE  \E k \in to .. Len(log) : Version(k, i) = Mirrored(replica'[i])
  <2>1. i \notin suppressed /\ (i \notin DOMAIN p.records => i \notin Exempt)
    BY ExemptAfter
  <2>2. n \in to .. Len(log)
    BY <1>2, <1>4
  <2>3. CASE i \in DOMAIN p.records
    <3>1. Mirrored(replica'[i]) = p.records[i]
      BY <1>1, <1>5, <2>1, <2>3, AfterPage DEF Mirrored
    <3> QED
      BY <1>2, <2>2, <2>3, <3>1
  <2>4. CASE i \notin DOMAIN p.records /\ i \in p.deletedIds
    <3>1. Mirrored(replica'[i]) = None
      BY <1>1, <1>5, <2>1, <2>4, AfterPage DEF Mirrored
    <3> QED
      BY <1>2, <2>2, <2>4, <3>1
  <2>5. CASE i \notin DOMAIN p.records /\ i \notin p.deletedIds
    <3>1. replica'[i] = replica[i]
      BY <1>1, <1>5, <2>1, <2>5, AfterPage
    <3>2. Was(i, Mirrored(replica[i]), at)
      BY <1>3, <2>1, <2>5, ReflectsWas
    <3>3. PICK k \in at .. Len(log) : Version(k, i) = Mirrored(replica[i])
      BY <3>2 DEF Was
    <3>4. CASE k >= to
      <4>1. k \in to .. Len(log)
        BY <1>3, <1>4, <3>4
      <4> QED
        BY <3>1, <3>3, <4>1
    <3>5. CASE k < to
      <4>1. k = at
        BY <1>2, <1>3, <1>4, <3>5
      <4>2. to \in to .. Len(log) /\ Version(to, i) = Version(at, i)
        BY <1>2, <1>4, <2>5
      <4> QED
        BY <3>1, <3>3, <4>1, <4>2
    <3> QED
      BY <1>3, <1>4, <3>4, <3>5
  <2> QED
    BY <2>3, <2>4, <2>5
<1>7. Reflects(to)'
  <2>1. \A k, i : Version(k, i)' = Version(k, i)
    BY DEF Version
  <2> QED
    BY <1>6, <2>1 DEF Reflects, Mirrored, Exempt
<1>8. CASE p.complete
  <2>1. CompletePage(r) /\ to = n /\ p.checkpoint = to
    BY <1>2, <1>8 DEF StorePage
  <2>2. to # None
    BY <1>4, NoneIsNothing DEF Positions
  <2>3. checkpoint' = to /\ cursor' = None /\ mode' = None
    BY <2>1, <2>2 DEF CompletePage
  <2>4. Reflects(began)'
    BY <1>2, <1>4, <1>7, <2>1, ReflectsSince
  <2>5. began' <= Len(log') /\ checkpoint' <= Len(log') /\ Reflects(checkpoint)' /\ Reflects(began)'
    BY <1>2, <1>4, <1>7, <2>3, <2>4 DEF Reflects
  <2> QED
    BY <2>3, <2>5, NoneIsNothing DEF StoreInv, SnapshotInv, ChangesInv, Modes
<1>9. CASE ~p.complete
  <2>1. cursor'.next = to /\ UNCHANGED <<mode, checkpoint, complete>>
    BY <1>2, <1>9 DEF StorePage, ContinuePage
  <2>2. Reflects(checkpoint)'
    <3>1. PICK c : c = checkpoint
      OBVIOUS
    <3>2. Reflects(c)'
      BY <1>2, <1>3, <1>4, <1>7, <3>1, ReflectsSince
    <3> QED
      BY <2>1, <3>1, <3>2 DEF Reflects
  <2>3. Reflects(cursor.next)'
    BY <1>7, <2>1 DEF Reflects
  <2>4. began' <= Len(log') /\ checkpoint' <= Len(log') /\ checkpoint' <= to /\ to <= Len(log') /\ checkpoint' # None
    BY <1>2, <1>3, <1>4, <2>1, NoneIsNothing DEF Positions
  <2> QED
    BY <1>1, <2>1, <2>2, <2>3, <2>4 DEF StoreInv, SnapshotInv, ChangesInv
<1> QED
  BY <1>8, <1>9

LEMMA StorePageScanInv ==
  ASSUME Typed, ScanInv, NEW r \in Runs, pc[r] = "committing", StorePage(r),
         UNCHANGED <<log, suppressed, began>>
  PROVE  StoreInv'
<1>1. mode = "snapshot" \/ mode = "changes"
  BY OwnerAt DEF Modes
<1> QED
  BY <1>1, SnapshotCompletes, SnapshotContinues, FeedAdvances

----------------------------------------------------------------------------
(* Every step                                                              *)

LEMMA InitScanInv == Init => ScanInv
<1> SUFFICES ASSUME Init PROVE ScanInv
  OBVIOUS
<1>1. Len(log) \in Nat
  BY InitTyped DEF Typed, TypeOK
<1>2. StoreInv
  BY <1>1, NoneIsNothing DEF Init, StoreInv, SnapshotInv, ChangesInv, Modes
<1>3. OwnerInv /\ AskedInv
  BY <1>1 DEF Init, OwnerInv, AskedInv
<1> QED
  BY <1>2, <1>3 DEF ScanInv

LEMMA CommitScanInv ==
  ASSUME Typed, ScanInv, NEW r \in Runs, Commit(r) \/ CommitFails(r) PROVE StoreInv' /\ OwnerInv'
<1>1. pc[r] = "committing" /\ UNCHANGED <<log, suppressed, began>> /\ TypeOK /\ LogGrows
  BY DEF Commit, CommitFails, source, Typed, LogGrows
<1>2. CASE StorePage(r)
  <2>1. StoreInv'
    BY <1>1, <1>2, StorePageScanInv
  <2>2. fence' = r /\ UNCHANGED fence
    BY <1>2 DEF StorePage, Owns
  <2>3. CASE CommitFails(r)
    <3>1. pc'[r] = "failing"
      BY <1>1, <2>3 DEF CommitFails, TypeOK
    <3> QED
      BY <2>1, <2>2, <3>1 DEF OwnerInv
  <2>4. CASE Commit(r) /\ page[r].complete
    <3>1. lease' = "none"
      BY <1>2, <2>4 DEF StorePage, CompletePage
    <3> QED
      BY <2>1, <3>1 DEF OwnerInv
  <2>5. CASE Commit(r) /\ ~page[r].complete
    <3>1. held[r] = [mode |-> mode, cursor |-> cursor, checkpoint |-> checkpoint]
      BY <1>1, <1>2, OwnerAt
    <3>2. UNCHANGED <<mode, checkpoint>> /\ pc'[r] = "scanning"
          /\ held'[r] = [held[r] EXCEPT !.cursor = cursor']
      BY <1>1, <1>2, <2>5 DEF StorePage, ContinuePage, Commit, TypeOK
    <3>3. held'[r] = [mode |-> mode', cursor |-> cursor', checkpoint |-> checkpoint']
      BY <3>1, <3>2
    <3> QED
      BY <2>1, <2>2, <3>2, <3>3 DEF OwnerInv
  <2> QED
    BY <1>2, <2>3, <2>4, <2>5
<1>3. CASE CommitFails(r) /\ UNCHANGED <<binding, replica, requests, expired>>
  <2>1. StoreInv'
    BY <1>1, <1>3, StoreInvStays DEF ScanInv, binding, Exempt
  <2>2. \A q \in Runs : pc'[q] \in {"scanning", "committing"} =>
          pc'[q] = pc[q] /\ held'[q] = held[q] /\ page'[q] = page[q]
    BY <1>1, <1>3 DEF CommitFails, TypeOK
  <2> QED
    BY <1>1, <1>3, <2>1, <2>2, OwnerInvStays DEF ScanInv, binding
<1> QED
  BY <1>2, <1>3 DEF Commit, CommitFails

\* A run that ends, or turns to another call.
LEMMA LeavesOthers ==
  ASSUME Typed, NEW r \in Runs,
         Ended(r) \/ (\E label \in {"resetting", "failing"} : ScanEnds(r, label))
  PROVE  \A q \in Runs : pc'[q] \in {"scanning", "committing"} =>
           pc'[q] = pc[q] /\ held'[q] = held[q] /\ page'[q] = page[q]
<1>1. \A q \in Runs \ {r} : pc'[q] = pc[q] /\ held'[q] = held[q] /\ page'[q] = page[q]
  BY DEF Ended, ScanEnds, Typed, TypeOK
<1>2. pc'[r] \in {"idle", "resetting", "failing"}
  BY DEF Ended, ScanEnds, Typed, TypeOK
<1> QED
  BY <1>1, <1>2

\* The binding is as if no scan had been made.
LEMMA StartsOver ==
  ASSUME Typed, StoreInv, LogGrows, began' = began, ~complete', mode' = None, checkpoint' = None,
         lease' # "live"
  PROVE  StoreInv' /\ OwnerInv'
<1>1. began' <= Len(log')
  BY LogLater DEF Typed, TypeOK, Positions, StoreInv
<1> QED
  BY <1>1, NoneIsNothing DEF StoreInv, SnapshotInv, ChangesInv, OwnerInv, Modes

LEMMA EndsScanInv ==
  ASSUME Typed, ScanInv, NEW r \in Runs,
         \/ CommitRefused(r) \/ Reset(r) \/ Fail(r) \/ Crash(r)
         \/ \E label \in {"resetting", "failing"} : ScanEnds(r, label)
  PROVE  StoreInv' /\ OwnerInv'
<1>1. UNCHANGED <<log, replica, suppressed, expired, began>> /\ LogGrows /\ StoreInv /\ OwnerInv
  BY DEF CommitRefused, Reset, Fail, Crash, ScanEnds, source, ghosts, LogGrows, ScanInv
<1>2. Ended(r) \/ \E label \in {"resetting", "failing"} : ScanEnds(r, label)
  BY DEF CommitRefused, Reset, Fail, Crash
<1>3. \A q \in Runs : pc'[q] \in {"scanning", "committing"} =>
        pc'[q] = pc[q] /\ held'[q] = held[q] /\ page'[q] = page[q]
  BY <1>2, LeavesOthers
<1>4. CASE UNCHANGED binding
  BY <1>1, <1>3, <1>4, StoreInvStays, OwnerInvStays DEF binding, Exempt
<1>5. CASE Reset(r) /\ Owns(r, {"live"})
  BY <1>1, <1>5, StartsOver DEF Reset
<1>6. CASE Fail(r) /\ Owns(r, {"live", "expired"})
  <2>1. lease' = "none" /\ complete' = FALSE /\ UNCHANGED <<fence, mode, cursor, checkpoint>>
    BY <1>6 DEF Fail
  <2> QED
    BY <1>1, <1>3, <2>1, StoreInvStays, OwnerInvStays DEF Exempt
<1> QED
  BY <1>4, <1>5, <1>6 DEF CommitRefused, Reset, Fail, Crash, ScanEnds

LEMMA OutsideScanInv ==
  ASSUME Typed, ScanInv,
         \/ Operator \/ Expire \/ UNCHANGED vars
         \/ \E i \in Ids, present \in BOOLEAN : Change(i, present)
  PROVE  StoreInv' /\ OwnerInv'
<1>1. StoreInv /\ OwnerInv /\ TypeOK
  BY DEF ScanInv, Typed
<1>2. ASSUME LogGrows, UNCHANGED run, Exempt \subseteq Exempt',
             \A i \in Ids : replica'[i] = replica[i] \/ (i \in Exempt' /\ replica'[i] = None),
             UNCHANGED <<began, mode, cursor, checkpoint, complete, fence>>,
             lease' = "live" => lease = "live"
      PROVE  StoreInv' /\ OwnerInv'
  BY <1>1, <1>2, StoreInvStays, OwnerInvStays DEF run
<1>3. CASE Pause \/ Activate \/ Expire \/ UNCHANGED vars \/ \E q \in Requests : RequestRefresh(q)
  <2>1. UNCHANGED <<log, run, replica, suppressed, expired, began, mode, cursor, checkpoint, complete, fence>>
        /\ (lease' = "live" => lease = "live")
    BY <1>3 DEF Pause, Activate, Expire, RequestRefresh, vars, source, binding, ghosts
  <2> QED
    BY <1>2, <2>1 DEF LogGrows, Exempt
<1>4. ASSUME NEW i \in Ids, Suppress(i) \/ Purge(i) PROVE StoreInv' /\ OwnerInv'
  <2>1. UNCHANGED <<log, run, began, mode, cursor, checkpoint, complete, fence, lease>>
        /\ replica' = [replica EXCEPT ![i] = None] /\ Exempt' = Exempt \cup {i}
    BY <1>4 DEF Suppress, Purge, source, binding, Exempt
  <2>2. \A j \in Ids : replica'[j] = replica[j] \/ (j \in Exempt' /\ replica'[j] = None)
    BY <1>1, <2>1 DEF TypeOK
  <2> QED
    BY <1>2, <2>1, <2>2 DEF LogGrows
<1>5. ASSUME NEW sameAccount \in BOOLEAN, Replace(sameAccount) PROVE StoreInv' /\ OwnerInv'
  BY <1>1, <1>5, StartsOver DEF Replace, source, LogGrows
<1>6. ASSUME NEW i \in Ids, NEW present \in BOOLEAN, Change(i, present) PROVE StoreInv' /\ OwnerInv'
  BY <1>2, <1>6 DEF Change, LogGrows, ghosts, binding, Exempt
<1> QED
  BY <1>3, <1>4, <1>5, <1>6 DEF Operator

\* A change of their states leaves what requests are for.
LEMMA TargetsKept ==
  ASSUME NEW reqs \in [Requests -> Refreshes], NEW state, NEW q \in Requests
  PROVE  SetRefreshState(reqs, state)[q].target = reqs[q].target
<1>1. reqs[q] \in Refreshes
  OBVIOUS
<1> QED
  BY <1>1 DEF SetRefreshState, Refreshes

LEMMA NextAsked == Typed /\ AskedInv /\ [Next]_vars => AskedInv'
<1> SUFFICES ASSUME Typed, AskedInv, [Next]_vars PROVE AskedInv'
  OBVIOUS
<1>0. /\ TypeOK /\ Len(log) \in Nat /\ began \in Nat /\ requests \in [Requests -> Refreshes]
      /\ asked \in [Requests -> Nat] /\ \A q \in Requests : requests[q] \in Refreshes
  BY DEF Typed, TypeOK, Positions
<1>1. ASSUME UNCHANGED <<log, began, asked>>, \A q \in Requests : requests'[q].target = requests[q].target
      PROVE  AskedInv'
  BY <1>1 DEF AskedInv
<1>2. ASSUME NEW r \in Runs, Claim(r) PROVE AskedInv'
  <2>1. CASE cursor # None
    BY <1>0, <1>1, <1>2, <2>1, TargetsKept DEF Claim, source
  <2>2. CASE cursor = None
    BY <1>0, <1>2, <2>2 DEF Claim, source, AskedInv
  <2> QED
    BY <2>1, <2>2
<1>3. ASSUME NEW r \in Runs, StorePage(r), UNCHANGED <<log, began, asked>> PROVE AskedInv'
  <2>1. requests' = requests \/ requests' = SetRefreshState(requests, "completed")
    BY <1>3 DEF StorePage, CompletePage, ContinuePage
  <2> QED
    BY <1>0, <1>1, <1>3, <2>1, TargetsKept
<1>4. ASSUME NEW r \in Runs, Commit(r) \/ CommitFails(r) PROVE AskedInv'
  BY <1>1, <1>3, <1>4 DEF Commit, CommitFails, source
<1>5. ASSUME NEW r \in Runs, Reset(r) \/ Fail(r) PROVE AskedInv'
  <2>1. requests' = requests \/ requests' = SetRefreshState(requests, "queued")
    BY <1>5 DEF Reset, Fail
  <2> QED
    BY <1>0, <1>1, <1>5, <2>1, TargetsKept DEF Reset, Fail, source, ghosts
<1>6. ASSUME NEW sameAccount \in BOOLEAN, Replace(sameAccount) PROVE AskedInv'
  <2>1. ASSUME NEW q \in Requests PROVE [requests[q] EXCEPT !.state = "superseded"].target = requests[q].target
    BY <1>0 DEF Refreshes
  <2> QED
    BY <1>1, <1>6, <2>1 DEF Replace, source
<1>7. ASSUME NEW q \in Requests, RequestRefresh(q) PROVE AskedInv'
  <2>1. \A o \in Requests \ {q} : requests'[o] = requests[o] /\ asked'[o] = asked[o]
    BY <1>0, <1>7 DEF RequestRefresh
  <2>2. requests'[q].target = "next" /\ asked'[q] = Len(log)
    BY <1>0, <1>7 DEF RequestRefresh, Target
  <2> QED
    BY <1>0, <1>7, <2>1, <2>2 DEF AskedInv, RequestRefresh, source
<1>8. ASSUME NEW i \in Ids, NEW present \in BOOLEAN, Change(i, present) PROVE AskedInv'
  <2>1. Len(log') \in Nat /\ Len(log) <= Len(log')
    BY <1>0, <1>8, LogLater DEF Change, LogGrows
  <2> QED
    BY <1>0, <1>8, <2>1 DEF AskedInv, Change, ghosts
<1>9. CASE \/ Pause \/ Activate \/ Expire \/ UNCHANGED vars
           \/ (\E i \in Ids : Suppress(i) \/ Purge(i))
           \/ \E r \in Runs : \/ Scan(r) \/ CommitRefused(r) \/ Crash(r)
                              \/ \E label \in {"resetting", "failing"} : ScanEnds(r, label)
  BY <1>1, <1>9 DEF Pause, Activate, Expire, Suppress, Purge, Scan, CommitRefused, Crash, ScanEnds,
                    vars, source, ghosts
<1> QED
  BY <1>2, <1>4, <1>5, <1>6, <1>7, <1>8, <1>9 DEF Next, Work, Operator

LEMMA NextScanInv == Typed /\ ScanInv /\ [Next]_vars => ScanInv'
<1> SUFFICES ASSUME Typed, ScanInv, [Next]_vars PROVE ScanInv'
  OBVIOUS
<1>1. AskedInv'
  BY NextAsked DEF ScanInv
<1>2. ASSUME NEW r \in Runs, Work(r) PROVE StoreInv' /\ OwnerInv'
  BY <1>2, ClaimScanInv, ScanScanInv, CommitScanInv, EndsScanInv DEF Work
<1>3. StoreInv' /\ OwnerInv'
  BY <1>2, OutsideScanInv DEF Next
<1> QED
  BY <1>1, <1>3 DEF ScanInv

LEMMA SpecScanInv == Spec => [](Typed /\ ScanInv)
  BY InitTyped, NextTyped, InitScanInv, NextScanInv, PTL DEF Spec

\* A replica that is said to be complete reflects, for every record, a state the source had since
\* the scan began: for any number of records, overlapping runs and changes of the source.
THEOREM CompletenessIsTrue == Spec => []CompleteIsCurrent
<1>1. ScanInv => CompleteIsCurrent
  BY DEF ScanInv, StoreInv, CompleteIsCurrent
<1> QED
  BY <1>1, SpecScanInv, PTL

\* Only a page that completes a scan completes a request, and one the scan was to serve.
LEMMA CompletedByAScan ==
  ASSUME Typed, [Next]_vars, NEW q \in Requests,
         requests[q].state \in Pending, requests'[q].state = "completed"
  PROVE  complete' /\ requests[q].target = "this" /\ asked'[q] = asked[q] /\ UNCHANGED <<log, began>>
<1>0. requests \in [Requests -> Refreshes] /\ requests[q] \in Refreshes /\ requests[q].state # "completed"
  BY DEF Typed, TypeOK, Pending
<1>1. ASSUME NEW reqs \in [Requests -> Refreshes], reqs[q].state = requests[q].state,
             NEW state \in {"running", "queued"}
      PROVE  SetRefreshState(reqs, state)[q].state # "completed"
  <2>1. reqs[q] \in Refreshes
    OBVIOUS
  <2> QED
    BY <1>0, <1>1, <2>1 DEF SetRefreshState, Refreshes
<1>2. ASSUME NEW r \in Runs, Claim(r) PROVE FALSE
  <2>1. Served \in [Requests -> Refreshes] /\ Served[q].state = requests[q].state
    BY <1>0, ServedType DEF Typed, Served, Refreshes
  <2>2. requests' = SetRefreshState(requests, "running") \/ requests' = SetRefreshState(Served, "running")
    BY <1>2 DEF Claim
  <2> QED
    BY <1>0, <1>1, <2>1, <2>2
<1>3. ASSUME NEW r \in Runs, Reset(r) \/ Fail(r) PROVE FALSE
  <2>1. requests' = requests \/ requests' = SetRefreshState(requests, "queued")
    BY <1>3 DEF Reset, Fail
  <2> QED
    BY <1>0, <1>1, <2>1
<1>4. ASSUME NEW sameAccount \in BOOLEAN, Replace(sameAccount) PROVE FALSE
  <2>1. requests'[q] = requests[q] \/ requests'[q] = [requests[q] EXCEPT !.state = "superseded"]
    BY <1>4 DEF Replace
  <2> QED
    BY <1>0, <2>1 DEF Refreshes
<1>5. ASSUME NEW o \in Requests, RequestRefresh(o) PROVE FALSE
  <2>1. requests'[q] = requests[q] \/ requests'[q].state \in {"running", "queued"}
    BY <1>0, <1>5 DEF RequestRefresh
  <2> QED
    BY <1>0, <2>1
<1>6. CASE requests' = requests
  BY <1>0, <1>6
<1>7. ASSUME NEW r \in Runs, Commit(r) \/ CommitFails(r), requests' # requests
      PROVE  complete' /\ requests[q].target = "this" /\ asked'[q] = asked[q] /\ UNCHANGED <<log, began>>
  <2>1. CompletePage(r) /\ UNCHANGED <<log, began, asked>>
    BY <1>7 DEF Commit, CommitFails, StorePage, ContinuePage, source
  <2>2. requests'[q] # requests[q] => requests[q].target = "this"
    BY <2>1 DEF CompletePage, SetRefreshState
  <2> QED
    BY <1>0, <2>1, <2>2 DEF CompletePage
<1>8. CASE \/ Pause \/ Activate \/ Expire \/ UNCHANGED vars
           \/ (\E i \in Ids : Suppress(i) \/ Purge(i))
           \/ (\E r \in Runs : \/ Scan(r) \/ CommitRefused(r) \/ Crash(r)
                               \/ \E label \in {"resetting", "failing"} : ScanEnds(r, label))
           \/ \E i \in Ids, present \in BOOLEAN : Change(i, present)
  BY <1>6, <1>8 DEF Pause, Activate, Expire, Suppress, Purge, Scan, CommitRefused, Crash, ScanEnds,
                    Change, vars
<1> QED
  BY <1>2, <1>3, <1>4, <1>5, <1>6, <1>7, <1>8 DEF Next, Work, Operator

\* A refresh is completed only by a scan all of which was read after the request, for any number
\* of requests and overlapping runs.
THEOREM RefreshesAreFresh == Spec => RefreshIsFresh
<1>1. ASSUME Typed, ScanInv, Typed', ScanInv', [Next]_vars
      PROVE  [\A q \in Requests : requests[q].state \in Pending /\ requests'[q].state = "completed"
                                  => Reflects(asked[q])']_vars
  <2> SUFFICES ASSUME NEW q \in Requests, requests[q].state \in Pending, requests'[q].state = "completed"
               PROVE  Reflects(asked[q])'
    OBVIOUS
  <2>1. complete' /\ requests[q].target = "this" /\ asked'[q] = asked[q] /\ UNCHANGED <<log, began>>
    BY <1>1, CompletedByAScan
  <2>2. Reflects(began)'
    BY <1>1, <2>1 DEF ScanInv, StoreInv
  <2>3. asked[q] \in Nat /\ began \in Nat /\ asked[q] <= began /\ Len(log) \in Nat
    BY <1>1, <2>1 DEF ScanInv, AskedInv, Typed, TypeOK, Positions
  <2> QED
    BY <2>1, <2>2, <2>3 DEF Reflects
<1> QED
  BY <1>1, SpecScanInv, PTL DEF Spec, RefreshIsFresh

=============================================================================
