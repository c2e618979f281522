---------------------------- MODULE AssetUploads ----------------------------
(***************************************************************************)
(* Uploads of packaged assets into the filesystem store, by several        *)
(* processes on one root (asset-storage/filesystem-store.ts,               *)
(* filesystem-upload-registry.ts, filesystem-store-support.ts).            *)
(*                                                                         *)
(* What is durable - the bytes and the metadata of an object, the          *)
(* reservation file - changes by one rename at a time; a process holds the *)
(* lock of the root over its renames, and AssetLock is about that lock.    *)
(* Tokens and running uploads are a process's own and die with it.  The    *)
(* id of a packaged asset is the hash of its path and its key holds the    *)
(* hash of its content, so an asset, its identity and its key are one;     *)
(* the assets here are those one quota counts.                             *)
(***************************************************************************)
EXTENDS Integers, FiniteSets, FiniteSetsExt

CONSTANTS
  Processes,
  Assets,
  Size,         \* [Assets -> bytes]
  Slots,        \* bound: reservations of one asset a process made and that still matter
  MaxPending,   \* [Processes -> maxPendingUploads], a process's own configuration
  Quota,        \* maxStoredBytes
  Deployments,
  MaxRecords,   \* MAX_FILESYSTEM_ASSET_REACHABILITY_RECORDS
  MaxFaults,    \* bound on crashes, I/O errors, damage, spoiled uploads and expiries during one
  None

ASSUME SizePositive == Size \in [Assets -> Nat \ {0}]
ASSUME LimitsNatural ==
  MaxPending \in [Processes -> Nat] /\ Quota \in Nat /\ MaxRecords \in Nat /\ MaxFaults \in Nat
\* Only finitely many assets are ever planned for.
ASSUME FinitelyManyAssets == Processes # {} /\ IsFiniteSet(Assets)

\* A reservation is known by a random id, with the asset and the process it was drawn for.
Ids == Assets \X Processes \X Slots
AssetOf(i) == i[1]
OwnerOf(i) == i[2]

\* What can be in progress under the lock: a plan, a commit.
Sections ==
       [by : Processes, at : {"planned"}, assets : SUBSET Assets]
  \cup [by : Processes, at : {"renamed", "described"}, id : Ids, state : SUBSET Ids]

ASSUME NoneIsNothing == None \notin Sections

VARIABLES
  bytes,     \* assets whose bytes are in place and intact
  stored,    \* assets with metadata
  reach,     \* [Assets -> metadata.reachableBy]
  forever,   \* assets with metadata.retainIndefinitely
  reserved,  \* the ids in the reservation file
  expired,   \* those whose time is over
  tokens,    \* ids whose token is in the registry of their owner
  upload,    \* [Ids -> how far the upload with its token is]
  section,   \* what the holder of the lock is in the middle of, or None
  faults,
  damaged    \* ghost: assets whose stored bytes went bad at some time

object == <<bytes, stored, reach, forever>>
vars == <<bytes, stored, reach, forever, reserved, expired, tokens, upload, section, faults, damaged>>

Init ==
  /\ bytes = {} /\ stored = {} /\ forever = {} /\ reach = [a \in Assets |-> {}]
  /\ reserved = {} /\ expired = {} /\ tokens = {}
  /\ upload = [i \in Ids |-> "idle"]
  /\ section = None /\ faults = 0 /\ damaged = {}

\* verifyUploadedAssets, handleServe: metadata, and bytes that agree with it
Valid(a) == a \in stored \cap bytes

\* Mutant: nothing is swept.
Unswept == reserved

\* sweepFilesystemAssetReservations
Swept == reserved \ expired

OwnTokens(p) == {i \in tokens : OwnerOf(i) = p}

\* Every section sweeps, changes and writes the reservations.
Save(s) == reserved' = s /\ expired' = expired \cap s

\* storedAndReservedBytes: an object counts once.
Total(s) == SumFunctionOnSet(Size, stored \cup {AssetOf(i) : i \in s})

\* enforcePendingBounds and enforceStoredQuotas
WithinBounds(p, s) == Cardinality(s) <= MaxPending[p] /\ Total(s) <= Quota

\* One of the tolerated faults.
Fault == faults < MaxFaults /\ faults' = faults + 1
NoFault == UNCHANGED <<faults, damaged>>
Spoiled == Fault /\ UNCHANGED damaged   \* by the client

----------------------------------------------------------------------------
(* Plans                                                                   *)

\* planUploads, up to its first write: what is committed needs no reservation any more.
PlanBegin(p, wanted) ==
  LET missing == {a \in wanted : ~Valid(a)}
      s == {i \in Swept : AssetOf(i) \in missing \/ AssetOf(i) \notin wanted} IN
  /\ section = None
  /\ Save(s)
  /\ tokens' = tokens \ (OwnTokens(p) \ s)
  /\ section' = [by |-> p, at |-> "planned", assets |-> missing]
  /\ UNCHANGED <<object, upload>> /\ NoFault

\* The rest: targets are reused or drawn, if the limits allow all of them.  (A plan that
\* finds no slot is refused: a bound of the model.)
PlanEnd ==
  /\ section # None /\ section.at = "planned"
  /\ LET p == section.by
         held == {AssetOf(i) : i \in OwnTokens(p) \cap reserved}
         new == section.assets \ held
         Free(a) == {i \in {a} \X {p} \X Slots : i \notin reserved \cup tokens /\ upload[i] = "idle"}
         drawn == {CHOOSE i \in Free(a) : TRUE : a \in new} IN
     IF (\A a \in new : Free(a) # {}) /\ WithinBounds(p, reserved \cup drawn)
     THEN reserved' = reserved \cup drawn /\ tokens' = tokens \cup drawn
     ELSE UNCHANGED <<reserved, tokens>>
  /\ section' = None
  /\ UNCHANGED <<object, expired, upload>> /\ NoFault

----------------------------------------------------------------------------
(* Uploads                                                                 *)

\* The catch of handleUpload: the token goes before the reservation is revoked.
Discard(i) == tokens' = tokens \ {i} /\ upload' = [upload EXCEPT ![i] = "failed"]

\* handleUpload, to the claim of the token; a wrong header gives it up.
UploadBegin(i) ==
  /\ i \in tokens /\ section = None
  /\ Save(Swept)
  /\ LET kept == tokens \ (OwnTokens(OwnerOf(i)) \ Swept)
         mine == i \in Swept /\ upload[i] = "idle" IN
     \/ ~mine /\ tokens' = kept /\ UNCHANGED upload /\ NoFault
     \/ mine /\ tokens' = kept /\ upload' = [upload EXCEPT ![i] = "claimed"] /\ NoFault
     \/ mine /\ tokens' = kept \ {i} /\ upload' = [upload EXCEPT ![i] = "failed"] /\ Spoiled
  /\ UNCHANGED <<object, section>>

\* reservationExists
CheckReservation(i) ==
  /\ upload[i] = "claimed" /\ section = None
  /\ Save(Swept)
  /\ IF i \in Swept
     THEN upload' = [upload EXCEPT ![i] = "staging"] /\ UNCHANGED tokens
     ELSE upload' = [upload EXCEPT ![i] = "idle"] /\ tokens' = tokens \ {i}
  /\ UNCHANGED <<object, section>> /\ NoFault

\* stageUploadedObject: the right bytes are in a file of their own, or the body was wrong.
Stage(i) ==
  /\ upload[i] = "staging"
  /\ \/ upload' = [upload EXCEPT ![i] = "staged"] /\ UNCHANGED tokens /\ NoFault
     \/ Discard(i) /\ Spoiled
  /\ UNCHANGED <<object, reserved, expired, section>>

\* deleteObject: the process forgets its other tokens of the object.
Done(i) ==
  /\ tokens' = tokens \ {j \in OwnTokens(OwnerOf(i)) : AssetOf(j) = AssetOf(i)}
  /\ upload' = [upload EXCEPT ![i] = "idle"]

Without(s, a) == {i \in s : AssetOf(i) # a}

Unneeded(i) ==
  Valid(AssetOf(i)) /\ Save(Without(Swept, AssetOf(i))) /\ Done(i) /\ UNCHANGED <<object, section>>
Rejected(i, s) == Save(s) /\ Discard(i) /\ UNCHANGED <<object, section>>
MoveBytes(i) ==
  /\ bytes' = bytes \cup {AssetOf(i)}
  /\ section' = [by |-> OwnerOf(i), at |-> "renamed", id |-> i, state |-> Swept]
  /\ UNCHANGED <<stored, reach, forever, reserved, expired, tokens, upload>>
Committing(i) ==
  /\ upload[i] = "staged" /\ section = None
  /\ NoFault

\* The metadata of a commit are written anew.
Described(a) ==
  stored' = stored \cup {a} /\ reach' = [reach EXCEPT ![a] = {}] /\ forever' = forever \ {a}

\* Mutants: the reservation is not looked for again; a stored object is committed again.
CommitUnreserved(i) == Committing(i) /\ (Unneeded(i) \/ (~Valid(AssetOf(i)) /\ MoveBytes(i)))
CommitAgain(i) ==
  /\ Committing(i)
  /\ IF i \in Swept /\ WithinBounds(OwnerOf(i), Swept) THEN MoveBytes(i) ELSE Rejected(i, Swept \ {i})

\* Mutant: the metadata goes first.
CommitDescribes(i) ==
  /\ Committing(i)
  /\ \/ Unneeded(i)
     \/ /\ ~Valid(AssetOf(i)) /\ i \in Swept /\ WithinBounds(OwnerOf(i), Swept)
        /\ Described(AssetOf(i))
        /\ section' = [by |-> OwnerOf(i), at |-> "renamed", id |-> i, state |-> Swept]
        /\ UNCHANGED <<bytes, reserved, expired, tokens, upload>>

\* commitStagedUpload, to the rename of the bytes: another upload may have been faster, the
\* reservation may have gone, the limits may no longer allow it.
Commit(i) ==
  /\ Committing(i)
  /\ \/ Unneeded(i)
     \/ ~Valid(AssetOf(i)) /\ i \notin Swept /\ Rejected(i, Swept)
     \/ ~Valid(AssetOf(i)) /\ i \in Swept /\ ~WithinBounds(OwnerOf(i), Swept) /\ Rejected(i, Swept \ {i})
     \/ ~Valid(AssetOf(i)) /\ i \in Swept /\ WithinBounds(OwnerOf(i), Swept) /\ MoveBytes(i)

\* writeMetadata
WriteMetadata ==
  /\ section # None /\ section.at = "renamed"
  /\ Described(AssetOf(section.id))
  /\ section' = [section EXCEPT !.at = "described"]
  /\ UNCHANGED <<bytes, reserved, expired, tokens, upload>> /\ NoFault

CommitEnd ==
  /\ section # None /\ section.at = "described"
  /\ Save(Without(section.state, AssetOf(section.id)))
  /\ Done(section.id)
  /\ section' = None
  /\ UNCHANGED object /\ NoFault

\* revokeCapability, at the end of a failed upload
Revoke(i) ==
  /\ upload[i] = "failed" /\ section = None
  /\ Save(Swept \ {i})
  /\ upload' = [upload EXCEPT ![i] = "idle"]
  /\ UNCHANGED <<object, tokens, section>> /\ NoFault

----------------------------------------------------------------------------
(* Deployments                                                             *)

\* A deployment of which a was verified has become active.
Reaching(a) ==
  /\ a \in stored /\ section = None
  /\ UNCHANGED <<bytes, stored, reserved, expired, tokens, upload, section>> /\ NoFault

\* recordReachability: a full list is closed by retaining the asset for ever.
Record(a, d) ==
  /\ Reaching(a)
  /\ IF d \in reach[a] \/ a \in forever THEN UNCHANGED <<reach, forever>>
     ELSE IF Cardinality(reach[a]) = MaxRecords
     THEN forever' = forever \cup {a} /\ UNCHANGED reach
     ELSE reach' = [reach EXCEPT ![a] = @ \cup {d}] /\ UNCHANGED forever

----------------------------------------------------------------------------
(* Time and faults                                                         *)

\* A reservation nobody can use any more runs out.
Lapse(i) ==
  /\ i \in reserved \ expired /\ i \notin tokens
  /\ expired' = expired \cup {i}
  /\ UNCHANGED <<object, reserved, tokens, upload, section>> /\ NoFault

\* So may one that is in use.
Expire(i) ==
  /\ Fault /\ i \in reserved \ expired /\ i \in tokens
  /\ expired' = expired \cup {i}
  /\ UNCHANGED <<object, reserved, tokens, upload, section, damaged>>

\* The process dies; its lock is recovered.
Crash(p) ==
  /\ Fault
  /\ tokens' = tokens \ OwnTokens(p)
  /\ upload' = [i \in Ids |-> IF OwnerOf(i) = p THEN "idle" ELSE upload[i]]
  /\ section' = IF section # None /\ section.by = p THEN None ELSE section
  /\ UNCHANGED <<object, reserved, expired, damaged>>

\* A write of the section fails: an error of the file system, or the lock was taken away.
SectionFails ==
  /\ Fault /\ section # None
  /\ IF section.at = "planned" THEN UNCHANGED <<tokens, upload>> ELSE Discard(section.id)
  /\ section' = None
  /\ UNCHANGED <<object, reserved, expired, damaged>>

\* The revocation fails, and is not repeated.
RevokeFails(i) ==
  /\ Fault /\ upload[i] = "failed"
  /\ upload' = [upload EXCEPT ![i] = "idle"]
  /\ UNCHANGED <<object, reserved, expired, tokens, section, damaged>>

\* Stored bytes go bad.
Damage(a) ==
  /\ Fault /\ a \in bytes
  /\ bytes' = bytes \ {a} /\ damaged' = damaged \cup {a}
  /\ UNCHANGED <<stored, reach, forever, reserved, expired, tokens, upload, section>>

----------------------------------------------------------------------------
InSection == PlanEnd \/ WriteMetadata \/ CommitEnd

Upload(i) == UploadBegin(i) \/ CheckReservation(i) \/ Stage(i) \/ Commit(i) \/ Revoke(i)

Next ==
  \/ \E p \in Processes : Crash(p) \/ \E wanted \in SUBSET Assets : PlanBegin(p, wanted)
  \/ InSection \/ SectionFails
  \/ \E i \in Ids : Upload(i) \/ Lapse(i) \/ Expire(i) \/ RevokeFails(i)
  \/ \E a \in Assets : Damage(a) \/ \E d \in Deployments : Record(a, d)

Spec == Init /\ [][Next]_vars

\* Assumed of the clients: for each asset someone goes on planning its upload, and whoever
\* has a target uploads.  Assumed of the lock: who asks again and again gets it.  Abandoned
\* reservations run out, and a section ends.
FairSpec ==
  /\ Spec
  /\ WF_vars(InSection) /\ WF_vars(\E i \in Ids : Lapse(i))
  /\ \A a \in Assets : SF_vars(\E p \in Processes : PlanBegin(p, {a}))
  /\ SF_vars(\E i \in Ids : UploadBegin(i) /\ upload' # upload)
  /\ SF_vars(\E i \in Ids : CheckReservation(i) \/ Stage(i) \/ Commit(i) \/ Revoke(i))

----------------------------------------------------------------------------
(* Properties                                                              *)

\* Type invariant of the store, of the registries and of the running uploads.
TypeOK ==
  /\ bytes \subseteq Assets /\ stored \subseteq Assets /\ forever \subseteq stored
  /\ reach \in [Assets -> SUBSET Deployments]
  /\ \A a \in Assets : Cardinality(reach[a]) <= MaxRecords
  /\ reserved \subseteq Ids /\ expired \subseteq reserved
  /\ tokens \subseteq Ids
  /\ upload \in [Ids -> {"idle", "claimed", "staging", "staged", "failed"}]
  /\ section \in Sections \cup {None}
  /\ faults \in 0 .. MaxFaults /\ damaged \subseteq Assets

\* Metadata stands only for an object whose bytes are there: a crash between the two renames
\* of a commit leaves bytes nobody is shown, never metadata of bytes that did not arrive.
MetadataLast == stored \subseteq bytes \cup damaged

\* What is stored and what is promised by a reservation stay within the quota, and the
\* reservations within the number the most generous process allows, whatever expires while
\* uploads are under way, whoever takes the room that gets free, and wherever a commit is
\* interrupted.
WithinLimits == \E p \in Processes : WithinBounds(p, reserved)

\* An object that was stored stays stored, with every deployment recorded for it: no later
\* commit of the same object, by a process that planned before, forgets one.  Only the repair
\* of damaged bytes does: it writes metadata anew.
NothingIsForgotten ==
  [][\A a \in stored :
       /\ a \in stored'
       /\ a \notin damaged => reach[a] \subseteq reach'[a] /\ (a \in forever => a \in forever')]_vars

\* The store recovers: reservations left by crashes do not occupy the quota for ever, bytes
\* without metadata and damaged bytes are uploaded again; so an object is there again and again.
Recovers == []<>(\E a \in Assets : Valid(a))

=============================================================================
