------------------------- MODULE AssetUploadsProofs -------------------------
(* Theorems about AssetUploads for every value of its constants. *)
EXTENDS AssetUploads, FiniteSetTheorems, WellFoundedInduction, TLAPS

USE LimitsNatural, NoneIsNothing

LEMMA IdIsTriple ==
  ASSUME NEW i \in Ids PROVE AssetOf(i) \in Assets /\ OwnerOf(i) \in Processes
  BY DEF Ids, AssetOf, OwnerOf

----------------------------------------------------------------------------
(* Type correctness                                                        *)

\* TypeOK is inductive together with this.
FiniteRecords == \A a \in Assets : IsFiniteSet(reach[a])

Typed == TypeOK /\ FiniteRecords

LEMMA InitTyped == Init => Typed
<1> SUFFICES ASSUME Init PROVE Typed
  OBVIOUS
<1>1. IsFiniteSet({}) /\ Cardinality({}) = 0
  BY FS_EmptySet
<1> QED BY <1>1 DEF Init, Typed, TypeOK, FiniteRecords

\* A plan draws ids of its own.
LEMMA PlanEndTyped == Typed /\ PlanEnd => Typed'
<1> SUFFICES ASSUME Typed, PlanEnd PROVE Typed'
  OBVIOUS
<1>1. section \in [by : Processes, at : {"planned"}, assets : SUBSET Assets]
  BY DEF Typed, TypeOK, PlanEnd, Sections
<1>2. reserved' \subseteq Ids /\ tokens' \subseteq Ids /\ reserved \subseteq reserved'
  <2>1. ASSUME NEW a \in section.assets,
               NEW free \in SUBSET ({a} \X {section.by} \X Slots), free # {}
        PROVE  (CHOOSE i \in free : TRUE) \in Ids
    <3>1. (CHOOSE i \in free : TRUE) \in free
      BY <2>1
    <3> QED BY <1>1, <3>1 DEF Ids
  <2> DEFINE new == section.assets \ {AssetOf(i) : i \in OwnTokens(section.by) \cap reserved}
             Free(a) == {i \in {a} \X {section.by} \X Slots :
                           i \notin reserved \cup tokens /\ upload[i] = "idle"}
             drawn == {CHOOSE i \in Free(a) : TRUE : a \in new}
  <2>2. CASE UNCHANGED <<reserved, tokens>>
    BY <2>2 DEF Typed, TypeOK
  <2>3. CASE /\ \A a \in new : Free(a) # {}
             /\ reserved' = reserved \cup drawn /\ tokens' = tokens \cup drawn
    <3>1. \A a \in new : (CHOOSE i \in Free(a) : TRUE) \in Ids
      BY <2>1, <2>3
    <3> QED BY <2>3, <3>1 DEF Typed, TypeOK
  <2> QED BY <2>2, <2>3 DEF PlanEnd
<1>3. section' = None /\ UNCHANGED <<object, expired, upload, faults, damaged>>
  BY DEF PlanEnd, NoFault
<1> QED BY <1>2, <1>3 DEF Typed, TypeOK, FiniteRecords, object

LEMMA PlansTyped ==
  ASSUME Typed, NEW p \in Processes,
         Crash(p) \/ (\E wanted \in SUBSET Assets : PlanBegin(p, wanted)) \/ SectionFails
  PROVE  Typed'
<1> USE DEF Typed, TypeOK, FiniteRecords, object, Sections
<1>1. ASSUME NEW wanted \in SUBSET Assets, PlanBegin(p, wanted) PROVE Typed'
  <2>1. section' \in Sections
    BY <1>1 DEF PlanBegin
  <2> QED BY <1>1, <2>1 DEF PlanBegin, Save, Swept, NoFault
<1>2. CASE Crash(p)
  BY <1>2 DEF Crash, Fault
<1>3. CASE SectionFails
  <2>1. section.at # "planned" => section.id \in Ids
    BY <1>3 DEF SectionFails
  <2> QED BY <1>3, <2>1 DEF SectionFails, Discard, Fault
<1> QED BY <1>1, <1>2, <1>3

LEMMA UploadsTyped ==
  ASSUME Typed, NEW i \in Ids,
         UploadBegin(i) \/ CheckReservation(i) \/ Stage(i) \/ Revoke(i) \/ Lapse(i) \/ Expire(i)
           \/ RevokeFails(i)
  PROVE  Typed'
<1> USE DEF Typed, TypeOK, FiniteRecords, object, Save, Swept, Discard, NoFault, Spoiled, Fault
<1>1. CASE UploadBegin(i)
  BY <1>1 DEF UploadBegin
<1>2. CASE CheckReservation(i) \/ Stage(i)
  BY <1>2 DEF CheckReservation, Stage
<1>3. CASE Revoke(i) \/ RevokeFails(i)
  BY <1>3 DEF Revoke, RevokeFails
<1>4. CASE Lapse(i) \/ Expire(i)
  BY <1>4 DEF Lapse, Expire
<1> QED BY <1>1, <1>2, <1>3, <1>4

LEMMA CommitsTyped ==
  ASSUME Typed, NEW i \in Ids, Commit(i) \/ WriteMetadata \/ CommitEnd
  PROVE  Typed'
<1> USE DEF Typed, TypeOK, FiniteRecords, object
<1>1. CASE Commit(i)
  <2>1. section = None /\ UNCHANGED <<faults, damaged>>
    BY <1>1 DEF Commit, Committing, NoFault
  <2>2. CASE Unneeded(i)
    BY <2>1, <2>2 DEF Unneeded, Save, Without, Swept, Done
  <2>3. ASSUME NEW s \in SUBSET Swept, Rejected(i, s) PROVE Typed'
    BY <2>1, <2>3 DEF Rejected, Save, Swept, Discard
  <2>4. CASE MoveBytes(i)
    <3>1. AssetOf(i) \in Assets /\ OwnerOf(i) \in Processes
      BY IdIsTriple
    <3>2. section' \in Sections
      BY <2>4, <3>1 DEF MoveBytes, Sections, Swept
    <3> QED BY <2>1, <2>4, <3>1, <3>2 DEF MoveBytes
  <2> QED BY <1>1, <2>2, <2>3, <2>4 DEF Commit
<1>2. CASE WriteMetadata \/ CommitEnd
  <2>1. section \in [by : Processes, at : {"renamed", "described"}, id : Ids, state : SUBSET Ids]
    BY <1>2 DEF WriteMetadata, CommitEnd, Sections
  <2>2. section.id \in Ids /\ AssetOf(section.id) \in Assets /\ section.state \subseteq Ids
    BY <2>1, IdIsTriple
  <2>3. CASE WriteMetadata
    <3>1. section' \in Sections
      BY <2>1, <2>3 DEF WriteMetadata, Sections
    <3>2. IsFiniteSet({}) /\ Cardinality({}) = 0
      BY FS_EmptySet
    <3> QED BY <2>2, <2>3, <3>1, <3>2 DEF WriteMetadata, Described, NoFault
  <2>4. CASE CommitEnd
    BY <2>2, <2>4 DEF CommitEnd, Save, Without, Done, NoFault
  <2> QED BY <1>2, <2>3, <2>4
<1> QED BY <1>1, <1>2

LEMMA RecordTyped ==
  ASSUME Typed, NEW a \in Assets, NEW d \in Deployments, Record(a, d)
  PROVE  Typed'
<1> USE DEF Typed, TypeOK, FiniteRecords, Record, Reaching, NoFault
<1>1. CASE UNCHANGED reach
  BY <1>1
<1>2. CASE /\ d \notin reach[a] /\ Cardinality(reach[a]) # MaxRecords
           /\ reach' = [reach EXCEPT ![a] = @ \cup {d}]
  <2>1. IsFiniteSet(reach[a]) /\ Cardinality(reach[a]) \in Nat
    BY FS_CardinalityType
  <2>2. IsFiniteSet(reach[a] \cup {d}) /\ Cardinality(reach[a] \cup {d}) = Cardinality(reach[a]) + 1
    BY <1>2, <2>1, FS_AddElement
  <2>3. Cardinality(reach[a] \cup {d}) <= MaxRecords
    BY <1>2, <2>1, <2>2
  <2> QED BY <1>2, <2>2, <2>3
<1> QED BY <1>1, <1>2

LEMMA StepTyped == Typed /\ [Next]_vars => Typed'
<1> SUFFICES ASSUME Typed, [Next]_vars PROVE Typed'
  OBVIOUS
<1>1. ASSUME NEW a \in Assets, Damage(a) PROVE Typed'
  BY <1>1 DEF Damage, Fault, Typed, TypeOK, FiniteRecords
<1>2. CASE UNCHANGED vars
  BY <1>2 DEF vars, Typed, TypeOK, FiniteRecords
<1>3. CASE SectionFails
  <2>1. section.by \in Processes
    BY <1>3 DEF SectionFails, Typed, TypeOK, Sections
  <2> QED BY <1>3, <2>1, PlansTyped
<1>4. CASE WriteMetadata \/ CommitEnd
  <2>1. section.id \in Ids
    BY <1>4 DEF WriteMetadata, CommitEnd, Typed, TypeOK, Sections
  <2> QED BY <1>4, <2>1, CommitsTyped
<1> QED BY <1>1, <1>2, <1>3, <1>4, PlanEndTyped, PlansTyped, UploadsTyped, CommitsTyped, RecordTyped
        DEF Next, InSection, Upload

\* Every value has its type in every reachable state; no list of deployments outgrows its bound.
THEOREM TypeCorrect == Spec => []TypeOK
<1>1. Typed => TypeOK
  BY DEF Typed
<1> QED BY <1>1, InitTyped, StepTyped, PTL DEF Spec

----------------------------------------------------------------------------
(* The order of a commit's renames                                         *)

\* MetadataLast is inductive together with this: while a commit is between its two renames,
\* the bytes of its object are in place or went bad meanwhile, and if the object had metadata
\* already, that is because its bytes had gone bad.
Between ==
  section # None /\ section.at = "renamed" =>
    /\ AssetOf(section.id) \in bytes \cup damaged
    /\ AssetOf(section.id) \in stored => AssetOf(section.id) \in damaged

IInv == MetadataLast /\ Between

LEMMA InitIInv == Init => IInv
  BY DEF Init, IInv, MetadataLast, Between

\* Plans, other readers of the reservations and the end of a section.
LEMMA PlansKeepIInv ==
  ASSUME IInv,
         \/ \E p \in Processes : Crash(p) \/ \E wanted \in SUBSET Assets : PlanBegin(p, wanted)
         \/ PlanEnd \/ CommitEnd \/ SectionFails
  PROVE  IInv'
<1>1. ASSUME NEW p \in Processes, NEW wanted \in SUBSET Assets, PlanBegin(p, wanted) PROVE IInv'
  BY <1>1 DEF IInv, PlanBegin, MetadataLast, Between, object, NoFault
<1>2. ASSUME NEW p \in Processes, Crash(p) PROVE IInv'
  BY <1>2 DEF IInv, Crash, MetadataLast, Between, object
<1>3. ASSUME PlanEnd PROVE IInv'
  BY <1>3 DEF IInv, PlanEnd, MetadataLast, Between, object, NoFault
<1>4. ASSUME CommitEnd PROVE IInv'
  BY <1>4 DEF IInv, CommitEnd, MetadataLast, Between, object, NoFault
<1>5. ASSUME SectionFails PROVE IInv'
  BY <1>5 DEF IInv, SectionFails, MetadataLast, Between, object
<1> QED BY <1>1, <1>2, <1>3, <1>4, <1>5

\* The renames of a commit.
LEMMA CommitsKeepIInv ==
  ASSUME Typed, IInv, NEW i \in Ids, Commit(i) \/ WriteMetadata
  PROVE  IInv'
<1>1. CASE WriteMetadata
  <2>1. section \in [by : Processes, at : {"renamed", "described"}, id : Ids, state : SUBSET Ids]
    BY <1>1 DEF WriteMetadata, Typed, TypeOK, Sections
  <2>2. section'.at = "described"
    BY <1>1, <2>1 DEF WriteMetadata
  <2>3. MetadataLast'
    BY <1>1 DEF WriteMetadata, Described, IInv, MetadataLast, Between, NoFault
  <2> QED BY <2>2, <2>3 DEF IInv, Between
<1>2. CASE Commit(i)
  <2>1. UNCHANGED damaged /\ section = None
    BY <1>2 DEF Commit, Committing, NoFault
  <2>2. CASE UNCHANGED <<object, section>>
    BY <2>1, <2>2 DEF IInv, MetadataLast, Between, object
  <2>3. CASE ~Valid(AssetOf(i)) /\ MoveBytes(i)
    BY <2>1, <2>3 DEF IInv, MetadataLast, Between, MoveBytes, Valid
  <2> QED BY <1>2, <2>2, <2>3 DEF Commit, Unneeded, Rejected
<1> QED BY <1>1, <1>2

\* Everything else leaves metadata and sections alone; damage is remembered.
LEMMA OthersKeepIInv ==
  ASSUME IInv,
         \/ \E i \in Ids : \/ UploadBegin(i) \/ CheckReservation(i) \/ Stage(i) \/ Revoke(i)
                           \/ Lapse(i) \/ Expire(i) \/ RevokeFails(i)
         \/ \E a \in Assets : Damage(a) \/ \E d \in Deployments : Record(a, d)
         \/ UNCHANGED vars
  PROVE  IInv'
<1>1. section' = section /\ stored' = stored /\ damaged \subseteq damaged'
      /\ bytes \cup damaged \subseteq bytes' \cup damaged'
  BY DEF UploadBegin, CheckReservation, Stage, Revoke, Lapse, Expire, RevokeFails, Damage, Record,
         Reaching, vars, object, NoFault, Spoiled, Discard
<1> QED BY <1>1 DEF IInv, MetadataLast, Between

LEMMA StepIInv == Typed /\ IInv /\ [Next]_vars => IInv'
<1> SUFFICES ASSUME Typed, IInv, [Next]_vars PROVE IInv'
  OBVIOUS
<1>1. CASE WriteMetadata
  <2>1. section.id \in Ids
    BY <1>1 DEF WriteMetadata, Typed, TypeOK, Sections
  <2> QED BY <1>1, <2>1, CommitsKeepIInv
<1> QED BY <1>1, PlansKeepIInv, CommitsKeepIInv, OthersKeepIInv DEF Next, InSection, Upload

LEMMA Inductive == Spec => [](Typed /\ IInv)
  BY InitTyped, StepTyped, InitIInv, StepIInv, PTL DEF Spec

\* Metadata stand only for bytes that have arrived: wherever a process dies in a commit, and
\* however many commits, plans and deployments there are.
THEOREM MetadataAfterBytes == Spec => []MetadataLast
<1>1. IInv => MetadataLast
  BY DEF IInv
<1> QED BY <1>1, Inductive, PTL

----------------------------------------------------------------------------
(* What is stored, and recorded for it                                     *)

\* One step of NothingIsForgotten.
Kept ==
  \A a \in stored :
    /\ a \in stored'
    /\ a \notin damaged => reach[a] \subseteq reach'[a] /\ (a \in forever => a \in forever')

\* Metadata change in two ways only.
LEMMA MetadataChanges ==
  ASSUME [Next]_vars
  PROVE  \/ UNCHANGED <<stored, reach, forever>>
         \/ WriteMetadata
         \/ \E a \in Assets, d \in Deployments : Record(a, d)
<1>1. ASSUME NEW p \in Processes, NEW wanted \in SUBSET Assets, Crash(p) \/ PlanBegin(p, wanted)
      PROVE  UNCHANGED <<stored, reach, forever>>
  BY <1>1 DEF Crash, PlanBegin, object
<1>2. CASE PlanEnd \/ CommitEnd \/ SectionFails \/ UNCHANGED vars
  BY <1>2 DEF PlanEnd, CommitEnd, SectionFails, vars, object
<1>3. ASSUME NEW i \in Ids,
             UploadBegin(i) \/ CheckReservation(i) \/ Stage(i) \/ Revoke(i) \/ Lapse(i) \/ Expire(i)
               \/ RevokeFails(i)
      PROVE  UNCHANGED <<stored, reach, forever>>
  BY <1>3 DEF UploadBegin, CheckReservation, Stage, Revoke, Lapse, Expire, RevokeFails, object
<1>4. ASSUME NEW i \in Ids, Commit(i) PROVE UNCHANGED <<stored, reach, forever>>
  BY <1>4 DEF Commit, Unneeded, Rejected, MoveBytes, object
<1>5. ASSUME NEW a \in Assets, Damage(a) PROVE UNCHANGED <<stored, reach, forever>>
  BY <1>5 DEF Damage
<1> QED BY <1>1, <1>2, <1>3, <1>4, <1>5 DEF Next, InSection, Upload

LEMMA StepKept == Typed /\ IInv /\ [Next]_vars => Kept
<1> SUFFICES ASSUME Typed, IInv, [Next]_vars PROVE Kept
  OBVIOUS
<1>1. CASE UNCHANGED <<stored, reach, forever>>
  BY <1>1 DEF Kept
<1>2. CASE WriteMetadata
  <2>1. AssetOf(section.id) \in stored => AssetOf(section.id) \in damaged
    BY <1>2 DEF WriteMetadata, IInv, Between
  <2>2. SUFFICES ASSUME NEW a \in stored, a \notin damaged
                 PROVE  reach[a] \subseteq reach'[a] /\ (a \in forever => a \in forever')
    BY <1>2 DEF WriteMetadata, Described, Kept
  <2>3. a # AssetOf(section.id)
    BY <2>1, <2>2
  <2> QED BY <1>2, <2>2, <2>3 DEF WriteMetadata, Described, Typed, TypeOK
<1>3. ASSUME NEW a \in Assets, NEW d \in Deployments, Record(a, d) PROVE Kept
  BY <1>3 DEF Record, Reaching, Typed, TypeOK, Kept
<1> QED BY <1>1, <1>2, <1>3, MetadataChanges

\* No commit of an object, by whichever process and however late, loses the deployments that
\* were recorded for it, nor the mark that keeps it for ever, unless its bytes went bad.
THEOREM RecordsAreKept == Spec => NothingIsForgotten
<1>1. Typed /\ IInv /\ [Next]_vars =>
        [\A a \in stored :
           /\ a \in stored'
           /\ a \notin damaged => reach[a] \subseteq reach'[a] /\ (a \in forever => a \in forever')]_vars
  BY StepKept DEF Kept
<1> QED BY <1>1, Inductive, PTL DEF Spec, NothingIsForgotten

----------------------------------------------------------------------------
(* Sums over finite sets.  The library defines them by recursion over the set; what is needed *)
(* of them follows from the minimal sets of which it would be wrong.                          *)

Least(D, B) == B \in D /\ \A s \in D : s \subseteq B => s = B

\* A nonempty set of subsets of a finite set has a minimal member.
LEMMA LeastSet ==
  ASSUME NEW S, IsFiniteSet(S), NEW D \in SUBSET SUBSET S, D # {}
  PROVE  \E B \in D : Least(D, B)
<1>1. IsWellFoundedOn(StrictSubsetOrdering(S), SUBSET S)
  <2>1. FiniteSubsetsOf(S) = SUBSET S
    BY FS_FiniteSubsetsOfFinite
  <2>2. IsWellFoundedOn(StrictSubsetOrdering(S), FiniteSubsetsOf(S))
    BY FS_StrictSubsetOrderingWellFounded
  <2> QED BY <2>1, <2>2
<1>2. PICK B \in D : \A s \in D : ~ (<<s, B>> \in StrictSubsetOrdering(S))
  BY <1>1, WFMin
<1>3. ASSUME NEW s \in D, s \subseteq B PROVE s = B
  BY <1>2, <1>3 DEF StrictSubsetOrdering
<1> QED BY <1>3 DEF Least

Pick(s) == CHOOSE x \in s : TRUE

\* A table of the sums over the subsets of S, and the one the library chooses.
IsSum(f, S, g) == g = [s \in SUBSET S |-> IF s = {} THEN 0 ELSE f[Pick(s)] + g[s \ {Pick(s)}]]
Table(f, S) == CHOOSE g : IsSum(f, S, g)

LEMMA Picked == ASSUME NEW s, s # {} PROVE Pick(s) \in s
  BY DEF Pick

LEMMA SumFromTable ==
  ASSUME NEW f, NEW S
  PROVE SumFunctionOnSet(f, S) = Table(f, S)[S]
  BY DEF SumFunctionOnSet, FoldFunctionOnSet, MapThenFoldSet, Table, IsSum, Pick

\* Two tables agree where both are defined.
LEMMA SumsAgree ==
  ASSUME NEW f, NEW S, NEW T, NEW g, NEW h, IsFiniteSet(S), IsSum(f, S, g), IsSum(f, T, h)
  PROVE  \A s \in SUBSET (S \cap T) : g[s] = h[s]
<1> SUFFICES ASSUME NEW s \in SUBSET (S \cap T), g[s] # h[s] PROVE FALSE
  OBVIOUS
<1> DEFINE D == {t \in SUBSET (S \cap T) : g[t] # h[t]}
<1>1. PICK t \in D : Least(D, t)
  <2>1. IsFiniteSet(S \cap T)
    BY FS_Subset
  <2> HIDE DEF D
  <2>2. D \in SUBSET SUBSET (S \cap T) /\ D # {}
    BY DEF D
  <2> QED BY <2>1, <2>2, LeastSet
<1>2. \A u \in SUBSET (S \cap T) : 
         /\ g[u] = IF u = {} THEN 0 ELSE f[Pick(u)] + g[u \ {Pick(u)}]
         /\ h[u] = IF u = {} THEN 0 ELSE f[Pick(u)] + h[u \ {Pick(u)}]
  BY DEF IsSum
<1>3. t # {}
  BY <1>2
<1>4. t \ {Pick(t)} \notin D
  BY <1>1, <1>3, Picked DEF Least
<1>5. g[t \ {Pick(t)}] = h[t \ {Pick(t)}]
  BY <1>4
<1> QED BY <1>2, <1>3, <1>5

\* There is a table: the minimal set without one has one.
LEMMA TableIsSum ==
  ASSUME NEW f, NEW S, IsFiniteSet(S)
  PROVE  IsSum(f, S, Table(f, S))
<1> SUFFICES ASSUME ~ \E g : IsSum(f, S, g) PROVE FALSE
  BY DEF Table
<1> DEFINE D == {t \in SUBSET S : ~ \E g : IsSum(f, t, g)}
<1>1. PICK t \in D : Least(D, t)
  <2> HIDE DEF D
  <2>2. D \in SUBSET SUBSET S /\ D # {}
    BY DEF D
  <2> QED BY <2>2, LeastSet
<1>2. ASSUME NEW u \in SUBSET t, u # t PROVE IsSum(f, u, Table(f, u)) /\ IsFiniteSet(u)
  <2>1. u \notin D
    BY <1>1, <1>2 DEF Least
  <2>2. IsFiniteSet(u)
    BY FS_Subset
  <2> QED BY <2>1, <2>2 DEF Table
<1> DEFINE V(u) == Table(f, u)[u]
           g == [s \in SUBSET t |-> IF s = {} THEN 0 ELSE f[Pick(s)] + V(s \ {Pick(s)})]
<1>3. ASSUME NEW u \in SUBSET t, u # t PROVE g[u] = V(u)
  <2>1. V(u) = IF u = {} THEN 0 ELSE f[Pick(u)] + Table(f, u)[u \ {Pick(u)}]
    BY <1>2, <1>3 DEF IsSum
  <2>2. CASE u = {}
    BY <2>1, <2>2
  <2>3. CASE u # {}
    <3>1. Pick(u) \in u
      BY <2>3, Picked
    <3> DEFINE r == u \ {Pick(u)}
    <3>2. r \in SUBSET t /\ r # t /\ r \in SUBSET u
      BY <3>1
    <3>3. IsSum(f, u, Table(f, u)) /\ IsFiniteSet(u)
      BY <1>2, <1>3
    <3>4. IsSum(f, r, Table(f, r))
      BY <1>2, <3>2
    <3>5. r \in SUBSET (u \cap r)
      BY <3>2
    <3>6. Table(f, u)[r] = Table(f, r)[r]
      <4> HIDE DEF r
      <4> QED BY <3>3, <3>4, <3>5, SumsAgree
    <3> QED BY <2>1, <2>3, <3>6
  <2> QED BY <2>2, <2>3
<1>4. ASSUME NEW s \in SUBSET t, s # {} PROVE g[s \ {Pick(s)}] = V(s \ {Pick(s)})
  <2>1. Pick(s) \in s
    BY <1>4, Picked
  <2>2. s \ {Pick(s)} \in SUBSET t /\ s \ {Pick(s)} # t
    BY <2>1
  <2> QED BY <1>3, <2>2
<1>5. IsSum(f, t, g)
  <2>1. [s \in SUBSET t |-> IF s = {} THEN 0 ELSE f[Pick(s)] + V(s \ {Pick(s)})]
        = [s \in SUBSET t |-> IF s = {} THEN 0 ELSE f[Pick(s)] + g[s \ {Pick(s)}]]
    BY <1>4
  <2> QED BY <2>1 DEF IsSum
<1> HIDE DEF g
<1> QED BY <1>5

LEMMA SumEmpty == ASSUME NEW f PROVE SumFunctionOnSet(f, {}) = 0
<1>1. IsSum(f, {}, Table(f, {}))
  BY TableIsSum, FS_EmptySet
<1> QED BY <1>1, SumFromTable DEF IsSum

LEMMA SumStep ==
  ASSUME NEW f, NEW S, IsFiniteSet(S), S # {}
  PROVE  SumFunctionOnSet(f, S) = f[Pick(S)] + SumFunctionOnSet(f, S \ {Pick(S)})
<1>1. IsFiniteSet(S \ {Pick(S)})
  BY FS_Subset
<1>2. IsSum(f, S, Table(f, S)) /\ IsSum(f, S \ {Pick(S)}, Table(f, S \ {Pick(S)}))
  BY <1>1, TableIsSum
<1>3. Table(f, S)[S] = f[Pick(S)] + Table(f, S)[S \ {Pick(S)}]
  BY <1>2 DEF IsSum
<1>4. S \ {Pick(S)} \in SUBSET (S \cap (S \ {Pick(S)}))
  OBVIOUS
<1>5. Table(f, S)[S \ {Pick(S)}] = Table(f, S \ {Pick(S)})[S \ {Pick(S)}]
  BY <1>2, <1>4, SumsAgree
<1> QED BY <1>3, <1>5, SumFromTable

LEMMA SumNatural ==
  ASSUME NEW U, NEW f \in [U -> Nat], NEW S \in SUBSET U, IsFiniteSet(S)
  PROVE  SumFunctionOnSet(f, S) \in Nat
<1> SUFFICES ASSUME SumFunctionOnSet(f, S) \notin Nat PROVE FALSE
  OBVIOUS
<1> DEFINE D == {t \in SUBSET S : SumFunctionOnSet(f, t) \notin Nat}
<1>1. PICK t \in D : Least(D, t)
  <2> HIDE DEF D
  <2>2. D \in SUBSET SUBSET S /\ D # {}
    BY DEF D
  <2> QED BY <2>2, LeastSet
<1>2. t # {} /\ IsFiniteSet(t)
  <2>1. CASE t = {}
    BY <2>1, SumEmpty
  <2> QED BY <2>1, FS_Subset
<1>3. Pick(t) \in t /\ t \ {Pick(t)} \notin D
  BY <1>1, <1>2, Picked DEF Least
<1>4. f[Pick(t)] \in Nat /\ SumFunctionOnSet(f, t \ {Pick(t)}) \in Nat
  BY <1>3
<1>5. SumFunctionOnSet(f, t) = f[Pick(t)] + SumFunctionOnSet(f, t \ {Pick(t)})
  BY <1>2, SumStep
<1>6. SumFunctionOnSet(f, t) \in Nat
  BY <1>4, <1>5
<1> QED BY <1>6

\* Any member can be taken out first.
Apart(f, t, x) == SumFunctionOnSet(f, t) = f[x] + SumFunctionOnSet(f, t \ {x})

LEMMA SumRemove ==
  ASSUME NEW U, NEW f \in [U -> Nat], NEW S \in SUBSET U, IsFiniteSet(S), NEW y \in S
  PROVE  Apart(f, S, y)
<1> DEFINE D == {t \in SUBSET S : \E x \in t : ~Apart(f, t, x)}
<1> SUFFICES ASSUME ~Apart(f, S, y) PROVE FALSE
  OBVIOUS
<1>1. PICK t \in D : Least(D, t)
  <2> HIDE DEF D
  <2>2. D \in SUBSET SUBSET S /\ D # {}
    BY DEF D
  <2> QED BY <2>2, LeastSet
<1>2. PICK x \in t : ~Apart(f, t, x)
  OBVIOUS
<1> DEFINE p == Pick(t)
<1>3. p \in t /\ IsFiniteSet(t)
  BY <1>2, Picked, FS_Subset
<1>4. Apart(f, t, p)
  BY <1>3, SumStep DEF Apart
<1>5. p # x
  BY <1>2, <1>4
<1>6. t \ {p} \notin D /\ t \ {x} \notin D
  BY <1>1, <1>2, <1>3 DEF Least
<1>7. Apart(f, t \ {p}, x) /\ Apart(f, t \ {x}, p)
  BY <1>2, <1>3, <1>5, <1>6
<1>8. (t \ {p}) \ {x} = (t \ {x}) \ {p}
  OBVIOUS
<1> DEFINE r == SumFunctionOnSet(f, (t \ {p}) \ {x})
<1>9. r \in Nat /\ f[x] \in Nat /\ f[p] \in Nat
  <2>1. (t \ {p}) \ {x} \in SUBSET U /\ IsFiniteSet((t \ {p}) \ {x})
    BY <1>3, FS_Subset
  <2> QED BY <1>3, <2>1, SumNatural
<1>10. SumFunctionOnSet(f, t) = f[p] + (f[x] + r)
  BY <1>4, <1>7 DEF Apart
<1>11. SumFunctionOnSet(f, t \ {x}) = f[p] + r
  BY <1>7, <1>8 DEF Apart
<1>12. SumFunctionOnSet(f, t) = f[x] + SumFunctionOnSet(f, t \ {x})
  <2> HIDE DEF r
  <2> QED BY <1>9, <1>10, <1>11
<1> QED BY <1>2, <1>12 DEF Apart

\* A sum of naturals over fewer members is no greater.
LEMMA SumMonotone ==
  ASSUME NEW U, NEW f \in [U -> Nat], NEW S \in SUBSET U, IsFiniteSet(S), NEW T \in SUBSET S
  PROVE  SumFunctionOnSet(f, T) <= SumFunctionOnSet(f, S)
<1> DEFINE D == {t \in SUBSET S : T \subseteq t /\ ~(SumFunctionOnSet(f, T) <= SumFunctionOnSet(f, t))}
<1> SUFFICES ASSUME ~(SumFunctionOnSet(f, T) <= SumFunctionOnSet(f, S)) PROVE FALSE
  OBVIOUS
<1>1. PICK t \in D : Least(D, t)
  <2> HIDE DEF D
  <2>2. D \in SUBSET SUBSET S /\ D # {}
    BY DEF D
  <2> QED BY <2>2, LeastSet
<1>2. IsFiniteSet(t) /\ IsFiniteSet(T) /\ t \in SUBSET U /\ T \in SUBSET U
  BY FS_Subset
<1>3. SumFunctionOnSet(f, T) \in Nat
  BY <1>2, SumNatural
<1>4. PICK x \in t : x \notin T
  <2>1. CASE t = T
    BY <1>3, <2>1
  <2> QED BY <2>1
<1>5. t \ {x} \notin D
  BY <1>1, <1>4 DEF Least
<1>6. SumFunctionOnSet(f, T) <= SumFunctionOnSet(f, t \ {x})
  BY <1>4, <1>5
<1>7. SumFunctionOnSet(f, t \ {x}) \in Nat /\ f[x] \in Nat
  <2>1. IsFiniteSet(t \ {x})
    BY <1>2, FS_Subset
  <2> QED BY <1>2, <2>1, SumNatural
<1>8. SumFunctionOnSet(f, t) = f[x] + SumFunctionOnSet(f, t \ {x})
  BY <1>2, SumRemove DEF Apart
<1>9. SumFunctionOnSet(f, T) <= SumFunctionOnSet(f, t)
  BY <1>3, <1>6, <1>7, <1>8
<1> QED BY <1>9

----------------------------------------------------------------------------
(* Quota and pending reservations                                          *)

\* WithinLimits is inductive together with this: the reservations of a commit between its
\* writes are still in the file, its own among them, so the object it is about to describe is
\* counted already; and there are finitely many reservations.
Committed ==
  /\ IsFiniteSet(reserved)
  /\ section # None /\ section.at # "planned" => section.id \in reserved /\ section.state \subseteq reserved

Bounded == WithinLimits /\ Committed

Counted == stored \cup {AssetOf(i) : i \in reserved}

\* Whatever frees room, or moves it from a reservation to its object, keeps the limits.
LEMMA FewerKeepLimits ==
  ASSUME Typed, Typed', Bounded, reserved' \subseteq reserved, Counted' \subseteq Counted
  PROVE  WithinLimits'
<1>1. PICK p \in Processes : WithinBounds(p, reserved)
  BY DEF Bounded, WithinLimits
<1>2. IsFiniteSet(reserved') /\ Cardinality(reserved') <= Cardinality(reserved)
  BY FS_Subset DEF Bounded, Committed
<1>3. Counted \in SUBSET Assets /\ IsFiniteSet(Counted) /\ IsFiniteSet(Counted')
  <2>1. Counted \in SUBSET Assets
    BY IdIsTriple DEF Typed, TypeOK, Counted
  <2> QED BY <2>1, FS_Subset, FinitelyManyAssets
<1>4. Size \in [Assets -> Nat]
  BY SizePositive
<1>5. SumFunctionOnSet(Size, Counted') <= SumFunctionOnSet(Size, Counted)
  BY <1>3, <1>4, SumMonotone
<1>6. SumFunctionOnSet(Size, Counted') \in Nat /\ SumFunctionOnSet(Size, Counted) \in Nat
  BY <1>3, <1>4, SumNatural
<1>7. Cardinality(reserved') \in Nat /\ Cardinality(reserved) \in Nat
  BY <1>2, FS_CardinalityType DEF Bounded, Committed
<1>8. Cardinality(reserved) <= MaxPending[p] /\ SumFunctionOnSet(Size, Counted) <= Quota
  BY <1>1 DEF WithinBounds, Total, Counted
<1>9. Cardinality(reserved') <= MaxPending[p] /\ SumFunctionOnSet(Size, Counted') <= Quota
  BY <1>2, <1>5, <1>6, <1>7, <1>8
<1> QED BY <1>9 DEF WithinLimits, WithinBounds, Total, Counted

\* Without metadata, fewer reservations are enough.
LEMMA LessReserved ==
  ASSUME Typed, Typed', Bounded, reserved' \subseteq reserved, stored' = stored
  PROVE  WithinLimits' /\ IsFiniteSet(reserved')
<1>1. Counted' \subseteq Counted
  BY DEF Counted
<1>2. IsFiniteSet(reserved')
  BY FS_Subset DEF Bounded, Committed
<1> QED BY <1>1, <1>2, FewerKeepLimits

LEMMA InitBounded == Init => Bounded
<1> SUFFICES ASSUME Init PROVE Bounded
  OBVIOUS
<1>1. IsFiniteSet({}) /\ Cardinality({}) = 0 /\ SumFunctionOnSet(Size, {}) = 0
  BY FS_EmptySet, SumEmpty
<1>2. stored \cup {AssetOf(i) : i \in reserved} = {}
  BY DEF Init
<1>3. PICK p \in Processes : TRUE
  BY FinitelyManyAssets
<1>4. WithinBounds(p, reserved)
  BY <1>1, <1>2 DEF Init, WithinBounds, Total
<1> QED BY <1>1, <1>3, <1>4 DEF Init, Bounded, WithinLimits, Committed

\* Plans are what adds reservations: all of them, or none.
LEMMA PlanEndBounded == Typed /\ Typed' /\ Bounded /\ PlanEnd => Bounded'
<1> SUFFICES ASSUME Typed, Typed', Bounded, PlanEnd PROVE Bounded'
  OBVIOUS
<1>1. section' = None /\ stored' = stored /\ section.by \in Processes /\ section.assets \in SUBSET Assets
  BY DEF PlanEnd, object, Typed, TypeOK, Sections
<1> DEFINE new == section.assets \ {AssetOf(i) : i \in OwnTokens(section.by) \cap reserved}
           Free(a) == {i \in {a} \X {section.by} \X Slots :
                         i \notin reserved \cup tokens /\ upload[i] = "idle"}
           drawn == {CHOOSE i \in Free(a) : TRUE : a \in new}
<1>2. CASE UNCHANGED <<reserved, tokens>>
  BY <1>1, <1>2, LessReserved DEF Bounded, Committed
<1>3. CASE WithinBounds(section.by, reserved \cup drawn) /\ reserved' = reserved \cup drawn
  <2>1. IsFiniteSet(new)
    BY <1>1, FS_Subset, FinitelyManyAssets
  <2>2. IsFiniteSet(drawn)
    <3> DEFINE draw == [a \in new |-> CHOOSE i \in Free(a) : TRUE]
    <3>1. draw \in Surjection(new, drawn)
      BY DEF Surjection
    <3> HIDE DEF draw, drawn, new
    <3> QED BY <2>1, <3>1, FS_Surjection
  <2>3. IsFiniteSet(reserved')
    BY <1>3, <2>2, FS_Union DEF Bounded, Committed
  <2>4. WithinLimits'
    BY <1>1, <1>3 DEF WithinLimits, WithinBounds, Total
  <2> QED BY <1>1, <2>3, <2>4 DEF Bounded, Committed
<1> QED BY <1>2, <1>3 DEF PlanEnd

\* A commit: its object is counted before it has metadata, by its reservation.
LEMMA CommitsBounded ==
  ASSUME Typed, Typed', Bounded, NEW i \in Ids, Commit(i) \/ WriteMetadata \/ CommitEnd
  PROVE  Bounded'
<1>1. CASE Commit(i)
  <2>1. section = None /\ stored' = stored /\ reserved' \subseteq reserved
    BY <1>1 DEF Commit, Committing, Unneeded, Rejected, MoveBytes, Save, Without, Swept, object
  <2>2. WithinLimits' /\ IsFiniteSet(reserved')
    BY <2>1, LessReserved
  <2>3. CASE section' = None
    BY <2>2, <2>3 DEF Bounded, Committed
  <2>4. CASE i \in Swept /\ MoveBytes(i)
    BY <2>2, <2>4 DEF MoveBytes, Swept, Bounded, Committed
  <2> QED BY <1>1, <2>1, <2>3, <2>4 DEF Commit, Unneeded, Rejected
<1>2. CASE WriteMetadata
  <2>1. section \in [by : Processes, at : {"renamed", "described"}, id : Ids, state : SUBSET Ids]
    BY <1>2 DEF WriteMetadata, Typed, TypeOK, Sections
  <2>2. section.id \in reserved /\ section.state \subseteq reserved /\ IsFiniteSet(reserved)
    BY <1>2 DEF WriteMetadata, Bounded, Committed
  <2>3. Counted' \subseteq Counted
    BY <1>2, <2>2 DEF WriteMetadata, Described, Counted
  <2>4. WithinLimits'
    BY <1>2, <2>3, FewerKeepLimits DEF WriteMetadata
  <2>5. section'.id = section.id /\ section'.state = section.state /\ reserved' = reserved
    BY <1>2, <2>1 DEF WriteMetadata
  <2> QED BY <2>2, <2>4, <2>5 DEF Bounded, Committed
<1>3. CASE CommitEnd
  <2>1. reserved' \subseteq reserved /\ stored' = stored /\ section' = None
    BY <1>3 DEF CommitEnd, Save, Without, object, Bounded, Committed
  <2> QED BY <2>1, LessReserved DEF Bounded, Committed
<1> QED BY <1>1, <1>2, <1>3

\* Everything else frees reservations, or leaves them alone.
LEMMA OthersBounded ==
  ASSUME Typed, Typed', Bounded,
         \/ \E p \in Processes : Crash(p) \/ \E wanted \in SUBSET Assets : PlanBegin(p, wanted)
         \/ SectionFails
         \/ \E i \in Ids : \/ UploadBegin(i) \/ CheckReservation(i) \/ Stage(i) \/ Revoke(i)
                           \/ Lapse(i) \/ Expire(i) \/ RevokeFails(i)
         \/ \E a \in Assets : Damage(a) \/ \E d \in Deployments : Record(a, d)
         \/ UNCHANGED vars
  PROVE  Bounded'
<1>1. reserved' \subseteq reserved /\ stored' = stored
  BY DEF Crash, PlanBegin, SectionFails, UploadBegin, CheckReservation, Stage, Revoke, Lapse, Expire,
         RevokeFails, Damage, Record, Reaching, vars, object, Save, Swept
<1>2. \/ section' = None
      \/ section'.at = "planned"
      \/ section' = section /\ reserved' = reserved
  <2>1. ASSUME NEW p \in Processes, NEW wanted \in SUBSET Assets, Crash(p) \/ PlanBegin(p, wanted)
        PROVE  section' = None \/ section'.at = "planned" \/ (section' = section /\ reserved' = reserved)
    BY <2>1 DEF Crash, PlanBegin
  <2>2. ASSUME NEW i \in Ids,
               \/ UploadBegin(i) \/ CheckReservation(i) \/ Stage(i) \/ Revoke(i)
               \/ Lapse(i) \/ Expire(i) \/ RevokeFails(i)
        PROVE  section' = None \/ (section' = section /\ reserved' = reserved)
    BY <2>2 DEF UploadBegin, CheckReservation, Stage, Revoke, Lapse, Expire, RevokeFails
  <2>3. ASSUME NEW a \in Assets, NEW d \in Deployments, Damage(a) \/ Record(a, d)
        PROVE  section' = section /\ reserved' = reserved
    BY <2>3 DEF Damage, Record, Reaching
  <2>4. ASSUME NEW a \in Assets, Damage(a) PROVE section' = section /\ reserved' = reserved
    BY <2>4 DEF Damage
  <2>5. CASE SectionFails
    BY <2>5 DEF SectionFails
  <2>6. CASE UNCHANGED vars
    BY <2>6 DEF vars
  <2> QED BY <2>1, <2>2, <2>3, <2>4, <2>5, <2>6 DEF Crash
<1>3. WithinLimits' /\ IsFiniteSet(reserved')
  BY <1>1, LessReserved
<1> QED BY <1>2, <1>3 DEF Bounded, Committed

LEMMA StepBounded == Typed /\ Typed' /\ Bounded /\ [Next]_vars => Bounded'
<1> SUFFICES ASSUME Typed, Typed', Bounded, [Next]_vars PROVE Bounded'
  OBVIOUS
<1>1. CASE WriteMetadata \/ CommitEnd
  <2>1. section.id \in Ids
    BY <1>1 DEF WriteMetadata, CommitEnd, Typed, TypeOK, Sections
  <2> QED BY <1>1, <2>1, CommitsBounded
<1> QED BY <1>1, PlanEndBounded, CommitsBounded, OthersBounded DEF Next, InSection, Upload

\* Stored and reserved bytes stay within the quota, and the reservations within the number the
\* most generous process allows, whatever expires, crashes or takes the room that got free, for
\* any number of processes and any sizes of the assets.
THEOREM LimitsHold == Spec => []WithinLimits
<1>1. Bounded => WithinLimits
  BY DEF Bounded
<1> QED BY <1>1, InitTyped, StepTyped, InitBounded, StepBounded, PTL DEF Spec
=============================================================================
