------------------------ MODULE ArtifactVersionsProofs ------------------------
(***************************************************************************)
(* The versions of one artifact, for any number of callers, saves and      *)
(* deletes, in each of the three services.                                 *)
(*                                                                         *)
(* Version numbers stay in their range because they are counted by saves   *)
(* (CountInv): a version, and a number a caller has found, is at most the  *)
(* number of saves that may have made one, and a save without a version is *)
(* not among them.  What is saved stays because of the quiet saves, those  *)
(* that overlapped nothing: while it runs a quiet save is alone and finds  *)
(* what it left (QuietInv), and once it has returned nobody is about to    *)
(* write to its version (SlotInv), since whoever looks for a number finds  *)
(* a later one, nor to delete it unseen (DeleteInv).  A load that has      *)
(* a quiet save's metadata therefore still finds its content (LoadInv).    *)
(***************************************************************************)
EXTENDS ArtifactVersions, TLAPS, FiniteSetTheorems, NaturalsInduction, WellFoundedInduction

-----------------------------------------------------------------------------
(* The inductive invariant                                                 *)

\* A save that has no slot, row or directory yet.
Undone(t) == pc[t] \in {"add", "put", "identity", "number", "insert", "directory"}

\* The saves that may have made a version.
Done == {s \in sent : \A t \in Threads : Undone(t) => at[t].save # s}

\* The saves that overlapped no other save and no delete.
Quiet == Saves \ disturbed

\* A caller is where its service takes it.
PlaceInv ==
    \A t \in Threads :
        /\ pc[t] \in {"add", "put"} => service = "memory"
        /\ pc[t] \in {"identity", "number", "insert", "deleteRow"} => service = "database"
        /\ pc[t] \in {"directory", "content", "write", "metadata", "writeMetadata",
                      "delete", "readMetadata", "readContent"} => service = "file"

\* A caller that saves has a save of its own; what it writes to is there,
\* unless it has lost it.
SaveInv ==
    /\ \A t \in Threads : Saving(t) => at[t].save \in sent
    /\ \A t, u \in Threads : Saving(t) /\ Saving(u) /\ at[t].save = at[u].save => t = u
    /\ \A t \in Threads : ~at[t].lost =>
         /\ pc[t] \in {"add", "put"} => exists
         /\ pc[t] \in {"write", "writeMetadata"} => slot[at[t].version].made

\* A version number is at most the number of saves that may have made one.
CountInv ==
    /\ \A v \in Made : v < Cardinality(Done)
    /\ \A t \in Threads : Undone(t) => /\ at[t].version <= Cardinality(Done)
                                       /\ at[t].size <= Cardinality(Done)

\* Nobody but t saves or deletes.
Alone(t) == \A u \in Threads : u # t => ~Saving(u) /\ ~Deleting(u)

\* A save finds what it left.
Finds(t) ==
    /\ ~at[t].lost
    /\ pc[t] = "add" => at[t].version = NextVersion
    /\ pc[t] = "put" => at[t].size = at[t].version
    /\ pc[t] = "write" => slot[at[t].version].data = Torn
    /\ pc[t] = "writeMetadata" => slot[at[t].version].meta = Torn
    /\ pc[t] \in {"metadata", "writeMetadata"} => /\ slot[at[t].version].made
                                                  /\ slot[at[t].version].data = at[t].save

\* A quiet save is alone and undisturbed.
QuietInv ==
    \A t \in Threads : Saving(t) /\ at[t].save \in Quiet => Alone(t) /\ Finds(t)

\* Memory and database have whole versions only; the version of a quiet save is
\* whole everywhere, and nobody is about to write to it or to cut it off.
SlotInv ==
    \A v \in Versions :
        /\ service # "file" => slot[v].data = slot[v].meta
        /\ slot[v].meta \in Quiet =>
             /\ slot[v].data = slot[v].meta
             /\ service = "file" => \A t \in Threads : Saving(t) => at[t].version # v
             /\ service = "memory" =>
                  \A t \in Threads : pc[t] = "put" /\ ~at[t].lost => v < at[t].size

\* A delete of the file service has no quiet save to take away.
DeleteInv == \A t \in Threads : pc[t] = "delete" => \A r \in saved : r.save \notin Quiet

\* A load has the metadata of the version it reads, unless it lost it; what it
\* returned is whole if a quiet save wrote it.
Loads(t) ==
    /\ pc[t] = "readContent" =>
         /\ got[t].meta \notin {Torn, Mixed}
         /\ ~at[t].lost /\ got[t].meta \in Quiet => slot[at[t].version].meta = got[t].meta
    /\ pc[t] \notin {"readMetadata", "readContent"} /\ ~got[t].cut
          /\ got[t].meta \notin disturbed \cup {Missing} => got[t].data = got[t].meta

LoadInv == \A t \in Threads : Loads(t)

Inv == /\ TypeOK /\ PlaceInv /\ SaveInv /\ CountInv /\ QuietInv /\ SlotInv
       /\ VersionKeepsSave /\ DeleteInv /\ LoadInv

-----------------------------------------------------------------------------
(* Numbers                                                                 *)

LEMMA VersionsBelow ==
    /\ Cardinality(Saves) \in Nat /\ Cardinality(Saves) > 0
    /\ Versions \in SUBSET Nat
    /\ 0 \in Versions
    /\ \A n \in Nat : n < Cardinality(Saves) => n \in Versions
<1>1. Cardinality(Saves) \in Nat
  BY ArtifactAssumption, FS_CardinalityType
<1>2. Cardinality(Saves) # 0
  BY ArtifactAssumption, FS_EmptySet
<1> QED BY <1>1, <1>2 DEF Versions

\* The order of the numbers has no descending chain.
Below == {p \in Nat \X Nat : p[1] < p[2]}

LEMMA LeastElement ==
    ASSUME NEW T \in SUBSET Nat, T # {}
    PROVE  \E x \in T : \A y \in T : x <= y
<1>1. IsWellFoundedOn(Below, Nat)
  BY NatLessThanWellFounded DEF OpToRel, Below
<1>2. \E x \in T : \A y \in T : <<y, x>> \notin Below
  BY <1>1, WFMin, Zenon
<1>3. \A x \in T, y \in T : <<y, x>> \notin Below => x <= y
  BY DEF Below
<1> QED BY <1>2, <1>3

\* A set of numbers that is not empty and has a bound has a maximum.
LEMMA MaxIn ==
    ASSUME NEW T \in SUBSET Nat, T # {}, NEW n \in Nat, \A x \in T : x <= n
    PROVE  Max(T) \in T /\ \A x \in T : x <= Max(T)
<1> DEFINE U == {m \in Nat : \A x \in T : x <= m}
<1>1. U \in SUBSET Nat /\ U # {}
  OBVIOUS
<1>2. PICK m \in U : \A y \in U : m <= y
  BY <1>1, LeastElement
<1>3. m \in T
  <2> SUFFICES ASSUME m \notin T PROVE FALSE
    OBVIOUS
  <2>1. m \in Nat /\ \A z \in T : z <= m /\ z # m
    OBVIOUS
  <2>2. PICK x \in T : x \in Nat
    OBVIOUS
  <2>3. m # 0
    BY <2>1, <2>2
  <2>4. m - 1 \in Nat /\ \A z \in T : z <= m - 1
    BY <2>1, <2>3
  <2>5. m - 1 \in U
    BY <2>4
  <2> QED BY <1>2, <2>1, <2>5
<1>4. \A y \in T : m >= y
  BY <1>3
<1>5. Max(T) \in T /\ \A y \in T : Max(T) >= y
  BY <1>3, <1>4 DEF Max
<1> QED BY <1>5

\* The next version is beyond every version, and no further than any bound.
LEMMA NextAfter ==
    /\ NextVersion \in Nat
    /\ \A v \in Made : v < NextVersion
    /\ \A n \in Nat : (\A v \in Made : v < n) => NextVersion <= n
<1>1. Made \in SUBSET Nat /\ \A v \in Made : v <= Cardinality(Saves)
  BY VersionsBelow DEF Made, Versions
<1>2. CASE Made = {}
  BY <1>2 DEF NextVersion
<1>3. CASE Made # {}
  <2>1. Max(Made) \in Made /\ \A v \in Made : v <= Max(Made)
    BY <1>1, <1>3, VersionsBelow, MaxIn
  <2>2. PICK m \in Made : m = Max(Made)
    BY <2>1
  <2>3. NextVersion = m + 1
    BY <1>3, <2>2 DEF NextVersion
  <2>4. m \in Nat /\ \A v \in Made : v \in Nat /\ v <= m
    BY <1>1, <2>1, <2>2
  <2> QED BY <2>3, <2>4
<1> QED BY <1>2, <1>3

\* A larger set of saves has more members.
LEMMA Fewer ==
    ASSUME NEW D \in SUBSET Saves, NEW E \in SUBSET Saves, D \subseteq E
    PROVE  /\ Cardinality(D) \in Nat /\ Cardinality(E) \in Nat
           /\ Cardinality(D) <= Cardinality(E)
           /\ \A x \in E : x \notin D => Cardinality(D) < Cardinality(E)
<1>1. IsFiniteSet(E) /\ IsFiniteSet(D)
  BY ArtifactAssumption, FS_Subset
<1>2. Cardinality(D) \in Nat /\ Cardinality(E) \in Nat
  BY <1>1, FS_CardinalityType
<1>3. Cardinality(D) <= Cardinality(E) /\ (Cardinality(E) = Cardinality(D) => E = D)
  BY <1>1, FS_Subset
<1> QED BY <1>2, <1>3

\* The next version is within the number of saves done, and while one is not
\* done there is a version for it.
LEMMA Room ==
    ASSUME TypeOK, CountInv
    PROVE  /\ Cardinality(Done) \in Nat
           /\ NextVersion \in 0..Cardinality(Done)
           /\ \A s \in Saves : s \notin Done =>
                \A n \in 0..Cardinality(Done) : n \in Versions
<1>1. Done \in SUBSET Saves
  BY DEF Done, TypeOK
<1>2. Cardinality(Done) \in Nat /\ \A s \in Saves : s \notin Done => Cardinality(Done) < Cardinality(Saves)
  BY <1>1, Fewer
<1>3. NextVersion \in Nat /\ NextVersion <= Cardinality(Done)
  BY <1>2, NextAfter DEF CountInv
<1>4. \A s \in Saves : s \notin Done => \A n \in 0..Cardinality(Done) : n \in Versions
  BY <1>2, VersionsBelow
<1> QED BY <1>2, <1>3, <1>4

\* The version of a save that has none yet.
LEMMA NewVersion ==
    ASSUME TypeOK, CountInv, SaveInv
    PROVE  /\ \A s \in Saves : s \notin sent => NextVersion \in Versions
           /\ \A t \in Threads : Undone(t) => NextVersion \in Versions
<1>1. \A s \in Saves : s \notin sent => s \notin Done
  BY DEF Done
<1>2. \A t \in Threads : Undone(t) => at[t].save \in Saves /\ at[t].save \notin Done
  BY DEF Done, TypeOK, SaveInv, Undone, Saving
<1> QED BY <1>1, <1>2, Room

-----------------------------------------------------------------------------
(* Types                                                                   *)

\* What a caller's local variables are set to.
LEMMA Locals ==
    /\ Nowhere \in LocalType
    /\ \A s \in Saves : [Nowhere EXCEPT !.save = s] \in LocalType
    /\ \A s \in Saves, n \in Versions : [Nowhere EXCEPT !.save = s, !.version = n] \in LocalType
    /\ \A r \in LocalType :
         /\ r.save \in Saves \cup {NoSave} /\ r.version \in Versions /\ r.size \in Versions
         /\ \A n \in Versions : /\ [r EXCEPT !.version = n] \in LocalType
                                /\ [r EXCEPT !.size = n] \in LocalType
         /\ [r EXCEPT !.lost = TRUE] \in LocalType
         /\ [r EXCEPT !.lost = FALSE] \in LocalType
<1>1. 0 \in Versions
  BY VersionsBelow
<1>2. Nowhere \in LocalType
  BY <1>1 DEF Nowhere, LocalType
<1>3. ASSUME NEW s \in Saves, NEW n \in Versions
      PROVE  [Nowhere EXCEPT !.save = s] \in LocalType /\ [Nowhere EXCEPT !.save = s, !.version = n] \in LocalType
  BY <1>1 DEF Nowhere, LocalType
<1>4. ASSUME NEW r \in LocalType
      PROVE  /\ r.save \in Saves \cup {NoSave} /\ r.version \in Versions /\ r.size \in Versions
             /\ \A n \in Versions : /\ [r EXCEPT !.version = n] \in LocalType
                                    /\ [r EXCEPT !.size = n] \in LocalType
             /\ [r EXCEPT !.lost = TRUE] \in LocalType
             /\ [r EXCEPT !.lost = FALSE] \in LocalType
  BY DEF LocalType
<1> QED BY <1>1, <1>2, <1>3, <1>4

\* What a version is set to.
LEMMA Slots ==
    /\ NoVersion \in SlotType /\ ~NoVersion.made
    /\ \A s \in Saves : Whole(s) \in SlotType /\ Whole(s).made
    /\ \A r \in SlotType :
         /\ r.made \in BOOLEAN /\ r.data \in Files /\ r.meta \in Files
         /\ [r EXCEPT !.made = TRUE] \in SlotType /\ [r EXCEPT !.made = TRUE].made
         /\ \A f \in Files :
              /\ [r EXCEPT !.data = f] \in SlotType /\ (r.made => [r EXCEPT !.data = f].made)
              /\ [r EXCEPT !.meta = f] \in SlotType /\ (r.made => [r EXCEPT !.meta = f].made)
<1>1. NoVersion \in SlotType /\ ~NoVersion.made
  BY DEF NoVersion, SlotType, Files
<1>2. ASSUME NEW s \in Saves PROVE Whole(s) \in SlotType /\ Whole(s).made
  BY DEF Whole, SlotType, Files
<1>3. ASSUME NEW r \in SlotType
      PROVE  /\ r.made \in BOOLEAN /\ r.data \in Files /\ r.meta \in Files
             /\ [r EXCEPT !.made = TRUE] \in SlotType /\ [r EXCEPT !.made = TRUE].made
  BY DEF SlotType
<1>4. ASSUME NEW r \in SlotType, NEW f \in Files
      PROVE  /\ [r EXCEPT !.data = f] \in SlotType /\ (r.made => [r EXCEPT !.data = f].made)
             /\ [r EXCEPT !.meta = f] \in SlotType /\ (r.made => [r EXCEPT !.meta = f].made)
  BY DEF SlotType
<1> QED BY <1>1, <1>2, <1>3, <1>4

\* What a load is set to.
LEMMA Gots ==
    /\ Nothing \in GotType
    /\ \A f \in Files, g \in Files : [data |-> f, meta |-> g, cut |-> FALSE] \in GotType
    /\ \A r \in GotType :
         /\ r.data \in Files /\ r.meta \in Files
         /\ \A f \in Files : [r EXCEPT !.meta = f] \in GotType
         /\ \A f \in Files, l \in LocalType : [r EXCEPT !.data = f, !.cut = l.lost] \in GotType
<1>1. Nothing \in GotType
  BY DEF Nothing, GotType, Files
<1>2. \A f \in Files, g \in Files : [data |-> f, meta |-> g, cut |-> FALSE] \in GotType
  BY DEF GotType
<1>3. ASSUME NEW r \in GotType
      PROVE  /\ r.data \in Files /\ r.meta \in Files
             /\ \A f \in Files : [r EXCEPT !.meta = f] \in GotType
  BY DEF GotType
<1>4. ASSUME NEW r \in GotType, NEW f \in Files, NEW l \in LocalType
      PROVE  [r EXCEPT !.data = f, !.cut = l.lost] \in GotType
  BY DEF GotType, LocalType
<1> QED BY <1>1, <1>2, <1>3, <1>4

LEMMA FilesAre ==
    /\ Missing \in Files /\ Torn \in Files /\ Mixed \in Files /\ Saves \subseteq Files
BY DEF Files

\* The types alone.
Typed ==
    /\ service \in Services
    /\ exists \in BOOLEAN
    /\ slot \in [Versions -> SlotType]
    /\ pc \in [Threads -> SavePlaces \cup {"idle", "delete", "deleteRow",
                                          "readMetadata", "readContent"}]
    /\ at \in [Threads -> LocalType]
    /\ got \in [Threads -> GotType]
    /\ sent \subseteq Saves /\ disturbed \subseteq Saves
    /\ nDeletes \in 0..MaxDeletes
    /\ saved \subseteq [save : Saves, version : Versions]

\* What has not been made is empty; what has been made is in the artifact.
Present ==
    /\ \A v \in Versions : ~slot[v].made => slot[v] = NoVersion
    /\ Made # {} => exists

LEMMA TypeParts == TypeOK <=> Typed /\ Present
BY DEF TypeOK, Typed, Present

\* A call that begins disturbs whoever is busy, and is disturbed by them.
LEMMA Overlaps ==
    ASSUME Typed, NEW S \in SUBSET Saves, Overlap(S)
    PROVE  /\ disturbed' \in SUBSET Saves /\ disturbed \subseteq disturbed'
           /\ \A u \in Threads : Saving(u) \/ Deleting(u) =>
                /\ S \subseteq disturbed'
                /\ at[u].save \in Saves => at[u].save \in disturbed'
<1> DEFINE busy == {u \in Threads : Saving(u) \/ Deleting(u)}
<1>0. NoSave \notin Saves /\ \A u \in Threads : at[u].save \in Saves \cup {NoSave}
  BY ArtifactAssumption, Locals DEF Typed
<1>1. CASE busy = {}
  BY <1>1 DEF Overlap, Typed
<1>2. CASE busy # {}
  <2>1. disturbed' = (disturbed \cup S \cup {at[u].save : u \in busy}) \ {NoSave}
    BY <1>2 DEF Overlap
  <2> QED BY <1>0, <2>1 DEF Typed
<1> QED BY <1>1, <1>2

\* The same of a save that begins.
LEMMA BeginOverlaps ==
    ASSUME Typed, NEW t \in Threads, NEW s \in Saves, Begin(t, s)
    PROVE  /\ disturbed' \in SUBSET Saves /\ disturbed \subseteq disturbed'
           /\ \A u \in Threads : Saving(u) \/ Deleting(u) =>
                /\ s \in disturbed'
                /\ at[u].save \in Saves => at[u].save \in disturbed'
<1>1. {s} \in SUBSET Saves /\ Overlap({s})
  BY DEF Begin
<1> HIDE DEF Overlap
<1> QED BY <1>1, Overlaps

\* The same of a delete that begins.
LEMMA DeleteOverlaps ==
    ASSUME Typed, Overlap({})
    PROVE  /\ disturbed' \in SUBSET Saves /\ disturbed \subseteq disturbed'
           /\ \A u \in Threads : (Saving(u) \/ Deleting(u)) /\ at[u].save \in Saves =>
                at[u].save \in disturbed'
<1>1. {} \in SUBSET Saves
  OBVIOUS
<1> QED BY <1>1, Overlaps

\* A save that returns.
LEMMA Returns ==
    ASSUME Typed, SaveInv, NEW t \in Threads, Saving(t), Return(t)
    PROVE  /\ saved' \subseteq [save : Saves, version : Versions]
           /\ pc' = [pc EXCEPT ![t] = "idle"]
           /\ at' = [at EXCEPT ![t] = Nowhere]
<1>1. at[t].save \in Saves /\ at[t].version \in Versions
  BY Locals DEF Typed, SaveInv
<1>2. PICK r \in [save : Saves, version : Versions] :
        r = [save |-> at[t].save, version |-> at[t].version]
  BY <1>1
<1>3. saved' = saved \cup {r}
  BY <1>2 DEF Return
<1> QED BY <1>3 DEF Return, Leave, Go, Typed

\* A version is whole with its content, its metadata and its directory.
LEMMA Wholes ==
    /\ \A s \in Saves : Whole(s).data = s /\ Whole(s).meta = s
    /\ NoVersion.data = Missing /\ NoVersion.meta = Missing
    /\ \A r \in SlotType, s \in Saves : r.made /\ r.data = s /\ r.meta = s => r = Whole(s)
<1>1. ASSUME NEW r \in SlotType, NEW s \in Saves, r.made, r.data = s, r.meta = s
      PROVE  r = Whole(s)
  BY <1>1 DEF Whole, SlotType
<1> QED BY <1>1 DEF Whole, NoVersion

\* What a write leaves in its file: what was to be written, unless somebody
\* else wrote since the file was opened.
LEMMA ContentWritten ==
    ASSUME Typed, SaveInv, NEW t \in Threads, WriteContent(t)
    PROVE  \E f \in Files :
             /\ f \in {at[t].save, Mixed}
             /\ slot[at[t].version].data = Torn => f = at[t].save
             /\ slot' = IF at[t].lost THEN slot
                        ELSE [slot EXCEPT ![at[t].version].data = f]
<1>1. at[t].save \in Saves
  BY DEF WriteContent, Typed, SaveInv, Saving, SavePlaces
<1> QED BY <1>1, FilesAre DEF WriteContent, Written

LEMMA MetadataWritten ==
    ASSUME Typed, SaveInv, NEW t \in Threads, WriteMetadata(t)
    PROVE  \E f \in Files :
             /\ f \in {at[t].save, Mixed}
             /\ slot[at[t].version].meta = Torn => f = at[t].save
             /\ slot' = IF at[t].lost THEN slot
                        ELSE [slot EXCEPT ![at[t].version].meta = f]
<1>1. at[t].save \in Saves
  BY DEF WriteMetadata, Typed, SaveInv, Saving, SavePlaces
<1> QED BY <1>1, FilesAre DEF WriteMetadata, Written

\* What List.Add leaves of the versions.
LEMMA AddWrites ==
    ASSUME Typed, NEW t \in Threads, AddWritesSlot(t), NEW w \in Versions, w = at[t].size
    PROVE  /\ at[t].lost => slot' = slot
           /\ ~at[t].lost => /\ slot'[w] = Whole(at[t].save)
                             /\ \A v \in Versions : v < w => slot'[v] = slot[v]
                             /\ \A v \in Versions : v > w => slot'[v] = NoVersion
                             /\ DOMAIN slot' = Versions
BY VersionsBelow DEF AddWritesSlot

\* Every action keeps the types.
LEMMA TypedStep ==
    ASSUME TypeOK, PlaceInv, SaveInv, CountInv, NEW t \in Threads, Call(t) \/ Step(t)
    PROVE  Typed'
<1>1. ASSUME NEW s \in Saves, SaveToMemory(t, s) PROVE Typed'
  BY <1>1, TypeParts, NewVersion, BeginOverlaps, Locals DEF SaveToMemory, Typed,
     SavePlaces, Go, Begin
<1>2. ASSUME NEW s \in Saves, SaveToDatabase(t, s) PROVE Typed'
  BY <1>2, TypeParts, BeginOverlaps, Locals DEF SaveToDatabase, Typed, SavePlaces, Go,
     Begin
<1>3. ASSUME NEW s \in Saves, SaveToFile(t, s) PROVE Typed'
  BY <1>3, TypeParts, NewVersion, BeginOverlaps, Locals DEF SaveToFile, Typed,
     SavePlaces, Go, Begin
<1>4. ASSUME NEW v \in Versions, LoadAtOnce(t, v) PROVE Typed'
  BY <1>4, TypeParts, Slots, Gots DEF LoadAtOnce, Typed
<1>5. ASSUME NEW v \in Versions, LoadFromFile(t, v) PROVE Typed'
  BY <1>5, TypeParts, Locals, Gots DEF LoadFromFile, Typed, Go
<1>6. CASE DeleteFromMemory(t)
  <2>1. Typed /\ Overlap({})
    BY <1>6, TypeParts DEF DeleteFromMemory
  <2>2. disturbed' \in SUBSET Saves
    BY <2>1, DeleteOverlaps
  <2>3. nDeletes' \in 0..MaxDeletes
    BY <1>6, <2>1, ArtifactAssumption DEF DeleteFromMemory, Typed, Deletes
  <2>4. at' \in [Threads -> LocalType] /\ slot' \in [Versions -> SlotType]
    BY <1>6, <2>1, Locals, Slots DEF DeleteFromMemory, Typed
  <2> QED BY <1>6, <2>1, <2>2, <2>3, <2>4 DEF DeleteFromMemory, Typed
<1>7. CASE DeleteFromDatabase(t)
  <2>1. Typed /\ Overlap({})
    BY <1>7, TypeParts DEF DeleteFromDatabase
  <2>2. disturbed' \in SUBSET Saves
    BY <2>1, DeleteOverlaps
  <2>3. nDeletes' \in 0..MaxDeletes
    BY <1>7, <2>1, ArtifactAssumption DEF DeleteFromDatabase, Typed, Deletes
  <2>4. at' \in [Threads -> LocalType] /\ slot' \in [Versions -> SlotType]
    BY <1>7, <2>1 DEF DeleteFromDatabase, Typed
  <2> QED BY <1>7, <2>1, <2>2, <2>3, <2>4 DEF DeleteFromDatabase, Typed, Go
<1>8. CASE DeleteFromFile(t)
  <2>1. Typed /\ Overlap({})
    BY <1>8, TypeParts DEF DeleteFromFile
  <2>2. disturbed' \in SUBSET Saves
    BY <2>1, DeleteOverlaps
  <2>3. nDeletes' \in 0..MaxDeletes
    BY <1>8, <2>1, ArtifactAssumption DEF DeleteFromFile, Typed, Deletes
  <2>4. at' \in [Threads -> LocalType] /\ slot' \in [Versions -> SlotType]
    BY <1>8, <2>1 DEF DeleteFromFile, Typed
  <2> QED BY <1>8, <2>1, <2>2, <2>3, <2>4 DEF DeleteFromFile, Typed, Go
<1>9. CASE AddReadsSize(t)
  BY <1>9, TypeParts, NewVersion, Locals DEF AddReadsSize, Typed, SavePlaces, Go, Undone
<1>10. CASE AddWritesSlot(t)
  <2>1. Saving(t) /\ Typed
    BY <1>10, TypeParts DEF AddWritesSlot, Saving, SavePlaces
  <2>2. /\ saved' \subseteq [save : Saves, version : Versions]
        /\ pc' = [pc EXCEPT ![t] = "idle"]
        /\ at' = [at EXCEPT ![t] = Nowhere]
    BY <1>10, <2>1, Returns DEF AddWritesSlot
  <2>3. at[t].save \in Saves /\ at[t].version \in Versions /\ at[t].size \in Versions
    BY <2>1, Locals DEF Typed, SaveInv
  <2>4. slot' \in [Versions -> SlotType]
    BY <1>10, <2>1, <2>3, Slots DEF AddWritesSlot, Typed
  <2> QED BY <1>10, <2>1, <2>2, <2>4, Locals DEF AddWritesSlot, Typed
<1>11. CASE InsertIdentity(t)
  BY <1>11, TypeParts DEF InsertIdentity, Typed, SavePlaces, Go
<1>12. CASE QueryMax(t)
  BY <1>12, TypeParts, NewVersion, Locals DEF QueryMax, Typed, SavePlaces, Go, Undone
<1>13. CASE InsertVersion(t)
  <2>1. Saving(t) /\ Typed
    BY <1>13, TypeParts DEF InsertVersion, Saving, SavePlaces
  <2>2. /\ saved' \subseteq [save : Saves, version : Versions]
        /\ pc' = [pc EXCEPT ![t] = "idle"]
        /\ at' = [at EXCEPT ![t] = Nowhere]
    BY <1>13, <2>1, Returns DEF InsertVersion
  <2>3. at[t].save \in Saves /\ at[t].version \in Versions /\ at[t].size \in Versions
    BY <2>1, Locals DEF Typed, SaveInv
  <2>4. slot' \in [Versions -> SlotType]
    BY <1>13, <2>1, <2>3, Slots DEF InsertVersion, Typed
  <2> QED BY <1>13, <2>1, <2>2, <2>4, Locals DEF InsertVersion, Typed
<1>14. CASE MakeDirectory(t)
  BY <1>14, TypeParts, Slots DEF MakeDirectory, Typed, SavePlaces, Go
<1>15. CASE OpenContent(t)
  BY <1>15, TypeParts, FilesAre, Slots DEF OpenContent, Typed, SavePlaces, Go
<1>16. CASE WriteContent(t)
  <2>1. Typed /\ Saving(t)
    BY <1>16, TypeParts DEF WriteContent, Saving, SavePlaces
  <2>2. at[t].save \in Saves
    BY <2>1 DEF SaveInv, Typed
  <2>3. slot' \in [Versions -> SlotType]
    <3>1. PICK f \in Files :
            slot' = IF at[t].lost THEN slot ELSE [slot EXCEPT ![at[t].version].data = f]
      BY <1>16, <2>1, ContentWritten
    <3> QED BY <2>1, <3>1, Locals, Slots DEF Typed
  <2>4. at' \in [Threads -> LocalType]
    BY <1>16, <2>1, Locals DEF WriteContent, Typed
  <2> QED BY <1>16, <2>1, <2>3, <2>4 DEF WriteContent, Typed, SavePlaces, Go
<1>17. CASE OpenMetadata(t)
  BY <1>17, TypeParts, FilesAre, Slots DEF OpenMetadata, Typed, SavePlaces, Go
<1>18. CASE WriteMetadata(t)
  <2>1. Saving(t) /\ Typed
    BY <1>18, TypeParts DEF WriteMetadata, Saving, SavePlaces
  <2>2. /\ saved' \subseteq [save : Saves, version : Versions]
        /\ pc' = [pc EXCEPT ![t] = "idle"]
        /\ at' = [at EXCEPT ![t] = Nowhere]
    BY <1>18, <2>1, Returns DEF WriteMetadata
  <2>3. at[t].save \in Saves /\ at[t].version \in Versions /\ at[t].size \in Versions
    BY <2>1, Locals DEF Typed, SaveInv
  <2>4. slot' \in [Versions -> SlotType]
    <3>1. PICK f \in Files :
            slot' = IF at[t].lost THEN slot ELSE [slot EXCEPT ![at[t].version].meta = f]
      BY <1>18, <2>1, MetadataWritten
    <3> QED BY <2>1, <3>1, Locals, Slots DEF Typed
  <2> QED BY <1>18, <2>1, <2>2, <2>4, Locals DEF WriteMetadata, Typed
<1>19. CASE ReadMetadata(t)
  BY <1>19, TypeParts, Locals, Slots, Gots DEF ReadMetadata, Typed, Go
<1>20. CASE ReadContent(t)
  <2>1. Typed
    BY TypeParts
  <2>2. got' = [got EXCEPT ![t] = [got[t] EXCEPT !.data = slot[at[t].version].data, !.cut = at[t].lost]]
    BY <1>20, <2>1 DEF ReadContent
  <2>3. got' \in [Threads -> GotType]
    BY <2>1, <2>2, Locals, Slots, Gots DEF Typed
  <2> QED BY <1>20, <2>1, <2>3, Locals DEF ReadContent, Typed, Leave, Go
<1>21. CASE DeleteRow(t)
  BY <1>21, TypeParts, Locals, Slots DEF DeleteRow, Typed, Go, Leave
<1>22. CASE DeleteRoot(t)
  BY <1>22, TypeParts, Locals DEF DeleteRoot, Typed, Go, Leave
<1>23. ASSUME NEW v \in Versions, DeleteDirectory(t, v) PROVE Typed'
  BY <1>23, TypeParts, Locals, Slots DEF DeleteDirectory, Typed
<1>24. CASE Fail(t)
  BY <1>24, TypeParts, Locals, Gots DEF Fail, Typed, Go, Leave
<1> QED
  BY <1>1, <1>2, <1>3, <1>4, <1>5, <1>6, <1>7, <1>8, <1>9, <1>10, <1>11, <1>12, <1>13,
     <1>14, <1>15, <1>16, <1>17, <1>18, <1>19, <1>20, <1>21, <1>22, <1>23, <1>24,
     Zenon DEF Call, Step

-----------------------------------------------------------------------------
(* Places, presence and the saves under way                                *)

\* Writing to a version of an artifact that exists.
LEMMA PresentWrite ==
    ASSUME Typed, Present, NEW w \in Versions, NEW r \in SlotType, r.made,
           slot' = [slot EXCEPT ![w] = r], exists'
    PROVE  Present'
BY DEF Present

\* Every action keeps its callers where their service takes them.
LEMMA PlaceStep ==
    ASSUME Typed, PlaceInv, NEW t \in Threads, Call(t) \/ Step(t)
    PROVE  PlaceInv'
<1>1. ASSUME NEW s \in Saves, SaveToMemory(t, s) PROVE PlaceInv'
  BY <1>1 DEF SaveToMemory, PlaceInv, Go
<1>2. ASSUME NEW s \in Saves, SaveToDatabase(t, s) PROVE PlaceInv'
  BY <1>2 DEF SaveToDatabase, PlaceInv, Go
<1>3. ASSUME NEW s \in Saves, SaveToFile(t, s) PROVE PlaceInv'
  BY <1>3 DEF SaveToFile, PlaceInv, Go
<1>4. ASSUME NEW v \in Versions, LoadAtOnce(t, v) PROVE PlaceInv'
  BY <1>4 DEF LoadAtOnce, PlaceInv
<1>5. ASSUME NEW v \in Versions, LoadFromFile(t, v) PROVE PlaceInv'
  BY <1>5 DEF LoadFromFile, PlaceInv, Go
<1>6. CASE DeleteFromMemory(t)
  BY <1>6 DEF DeleteFromMemory, PlaceInv
<1>7. CASE DeleteFromDatabase(t)
  BY <1>7 DEF DeleteFromDatabase, PlaceInv, Go
<1>8. CASE DeleteFromFile(t)
  BY <1>8 DEF DeleteFromFile, PlaceInv, Go
<1>9. CASE AddReadsSize(t)
  BY <1>9 DEF AddReadsSize, PlaceInv, Go
<1>10. CASE AddWritesSlot(t)
  BY <1>10 DEF AddWritesSlot, PlaceInv, Return, Leave, Go
<1>11. CASE InsertIdentity(t)
  BY <1>11 DEF InsertIdentity, PlaceInv, Go
<1>12. CASE QueryMax(t)
  BY <1>12 DEF QueryMax, PlaceInv, Go
<1>13. CASE InsertVersion(t)
  BY <1>13 DEF InsertVersion, PlaceInv, Return, Leave, Go
<1>14. CASE MakeDirectory(t)
  BY <1>14 DEF MakeDirectory, PlaceInv, Go
<1>15. CASE OpenContent(t)
  BY <1>15 DEF OpenContent, PlaceInv, Go
<1>16. CASE WriteContent(t)
  BY <1>16 DEF WriteContent, PlaceInv, Go
<1>17. CASE OpenMetadata(t)
  BY <1>17 DEF OpenMetadata, PlaceInv, Go
<1>18. CASE WriteMetadata(t)
  BY <1>18 DEF WriteMetadata, PlaceInv, Return, Leave, Go
<1>19. CASE ReadMetadata(t)
  BY <1>19 DEF ReadMetadata, PlaceInv, Go
<1>20. CASE ReadContent(t)
  BY <1>20 DEF ReadContent, PlaceInv, Leave, Go
<1>21. CASE DeleteRow(t)
  BY <1>21 DEF DeleteRow, PlaceInv, Leave, Go
<1>22. CASE DeleteRoot(t)
  BY <1>22 DEF DeleteRoot, PlaceInv, Leave, Go
<1>23. ASSUME NEW v \in Versions, DeleteDirectory(t, v) PROVE PlaceInv'
  BY <1>23 DEF DeleteDirectory, PlaceInv
<1>24. CASE Fail(t)
  BY <1>24 DEF Fail, PlaceInv, Leave, Go
<1> QED
  BY <1>1, <1>2, <1>3, <1>4, <1>5, <1>6, <1>7, <1>8, <1>9, <1>10, <1>11, <1>12, <1>13,
     <1>14, <1>15, <1>16, <1>17, <1>18, <1>19, <1>20, <1>21, <1>22, <1>23, <1>24,
     Zenon DEF Call, Step

\* No action leaves a version without an artifact, or a part of none.
LEMMA PresentStep ==
    ASSUME Typed, Present, PlaceInv, SaveInv, NEW t \in Threads, Call(t) \/ Step(t)
    PROVE  Present'
<1>1. ASSUME NEW s \in Saves, SaveToMemory(t, s) PROVE Present'
  BY <1>1 DEF SaveToMemory, Present
<1>2. ASSUME NEW s \in Saves, SaveToDatabase(t, s) PROVE Present'
  BY <1>2 DEF SaveToDatabase, Present, Made
<1>3. ASSUME NEW s \in Saves, SaveToFile(t, s) PROVE Present'
  BY <1>3 DEF SaveToFile, Present
<1>4. ASSUME NEW v \in Versions, LoadAtOnce(t, v) PROVE Present'
  BY <1>4 DEF LoadAtOnce, Present
<1>5. ASSUME NEW v \in Versions, LoadFromFile(t, v) PROVE Present'
  BY <1>5 DEF LoadFromFile, Present
<1>6. CASE DeleteFromMemory(t)
  BY <1>6, Slots DEF DeleteFromMemory, Present, Made
<1>7. CASE DeleteFromDatabase(t)
  BY <1>7 DEF DeleteFromDatabase, Present, Deletes
<1>8. CASE DeleteFromFile(t)
  BY <1>8 DEF DeleteFromFile, Present, Deletes
<1>9. CASE AddReadsSize(t)
  BY <1>9 DEF AddReadsSize, Present, Made
<1>10. CASE AddWritesSlot(t)
  <2>1. at[t].save \in Saves /\ at[t] \in LocalType
    BY <1>10 DEF AddWritesSlot, Typed, SaveInv, Saving
  <2>2. PICK w \in Versions : w = at[t].size
    BY <2>1, Locals
  <2>3. CASE at[t].lost
    BY <1>10, <2>3 DEF AddWritesSlot, Present, Made
  <2>4. CASE ~at[t].lost
    <3>1. exists'
      BY <1>10, <2>4 DEF AddWritesSlot, SaveInv
    <3>2. PICK r \in SlotType : r = Whole(at[t].save) /\ r.made
      BY <2>1, Slots
    <3>3. \A v \in Versions : slot'[v] \in {r, slot[v], NoVersion}
      BY <1>10, <2>2, <2>4, <3>2, AddWrites, VersionsBelow
    <3> QED BY <3>1, <3>2, <3>3 DEF Present
  <2> QED BY <2>3, <2>4
<1>11. CASE InsertIdentity(t)
  BY <1>11 DEF InsertIdentity, Present
<1>12. CASE QueryMax(t)
  BY <1>12 DEF QueryMax, Present, Made
<1>13. CASE InsertVersion(t)
  <2>1. at[t].save \in Saves /\ at[t] \in LocalType
    BY <1>13 DEF InsertVersion, Typed, SaveInv, Saving
  <2>2. PICK w \in Versions : w = at[t].version
    BY <2>1, Locals
  <2>3. slot[w] \in SlotType
    BY <2>2 DEF Typed
  <2>4. PICK r \in SlotType : r = Whole(at[t].save) /\ r.made
    BY <1>13, <2>1, <2>2, <2>3, Slots
  <2>5. slot' = [slot EXCEPT ![w] = r] /\ exists'
    BY <1>13, <2>2, <2>4 DEF InsertVersion
  <2> QED BY <2>4, <2>5, PresentWrite
<1>14. CASE MakeDirectory(t)
  <2>1. at[t].save \in Saves /\ at[t] \in LocalType
    BY <1>14 DEF MakeDirectory, Typed, SaveInv, Saving
  <2>2. PICK w \in Versions : w = at[t].version
    BY <2>1, Locals
  <2>3. slot[w] \in SlotType
    BY <2>2 DEF Typed
  <2>4. PICK r \in SlotType : r = [slot[w] EXCEPT !.made = TRUE] /\ r.made
    BY <1>14, <2>1, <2>2, <2>3, Slots
  <2>5. slot' = [slot EXCEPT ![w] = r] /\ exists'
    BY <1>14, <2>2, <2>4 DEF MakeDirectory
  <2> QED BY <2>4, <2>5, PresentWrite
<1>15. CASE OpenContent(t)
  <2>1. at[t].save \in Saves /\ at[t] \in LocalType
    BY <1>15 DEF OpenContent, Typed, SaveInv, Saving
  <2>2. PICK w \in Versions : w = at[t].version
    BY <2>1, Locals
  <2>3. slot[w] \in SlotType
    BY <2>2 DEF Typed
  <2>4. PICK r \in SlotType : r = [slot[w] EXCEPT !.data = Torn] /\ r.made
    BY <1>15, <2>1, <2>2, <2>3, FilesAre, Slots DEF OpenContent
  <2>5. slot' = [slot EXCEPT ![w] = r] /\ exists'
    BY <1>15, <2>2, <2>4 DEF OpenContent, Present, Made
  <2> QED BY <2>4, <2>5, PresentWrite
<1>16. CASE WriteContent(t)
  <2>1. at[t].save \in Saves /\ at[t] \in LocalType
    BY <1>16 DEF WriteContent, Typed, SaveInv, Saving
  <2>2. PICK w \in Versions : w = at[t].version
    BY <2>1, Locals
  <2>3. CASE at[t].lost
    BY <1>16, <2>3 DEF WriteContent, Present, Made
  <2>4. CASE ~at[t].lost
    <3>1. exists /\ slot[w] \in SlotType /\ slot[w].made
      BY <1>16, <2>2, <2>4 DEF WriteContent, Typed, Present, SaveInv, Made
    <3>2. PICK f \in Files : slot' = [slot EXCEPT ![at[t].version].data = f]
      BY <1>16, <2>4, ContentWritten
    <3>3. PICK r \in SlotType : r = [slot[w] EXCEPT !.data = f] /\ r.made
      BY <2>2, <3>1, Slots
    <3>4. slot' = [slot EXCEPT ![w] = r] /\ exists'
      BY <1>16, <2>2, <3>1, <3>2, <3>3 DEF WriteContent
    <3> QED BY <3>3, <3>4, PresentWrite
  <2> QED BY <2>3, <2>4
<1>17. CASE OpenMetadata(t)
  <2>1. at[t].save \in Saves /\ at[t] \in LocalType
    BY <1>17 DEF OpenMetadata, Typed, SaveInv, Saving
  <2>2. PICK w \in Versions : w = at[t].version
    BY <2>1, Locals
  <2>3. slot[w] \in SlotType
    BY <2>2 DEF Typed
  <2>4. PICK r \in SlotType : r = [slot[w] EXCEPT !.meta = Torn] /\ r.made
    BY <1>17, <2>1, <2>2, <2>3, FilesAre, Slots DEF OpenMetadata
  <2>5. slot' = [slot EXCEPT ![w] = r] /\ exists'
    BY <1>17, <2>2, <2>4 DEF OpenMetadata, Present, Made
  <2> QED BY <2>4, <2>5, PresentWrite
<1>18. CASE WriteMetadata(t)
  <2>1. at[t].save \in Saves /\ at[t] \in LocalType
    BY <1>18 DEF WriteMetadata, Typed, SaveInv, Saving
  <2>2. PICK w \in Versions : w = at[t].version
    BY <2>1, Locals
  <2>3. CASE at[t].lost
    BY <1>18, <2>3 DEF WriteMetadata, Present, Made
  <2>4. CASE ~at[t].lost
    <3>1. exists /\ slot[w] \in SlotType /\ slot[w].made
      BY <1>18, <2>2, <2>4 DEF WriteMetadata, Typed, Present, SaveInv, Made
    <3>2. PICK f \in Files : slot' = [slot EXCEPT ![at[t].version].meta = f]
      BY <1>18, <2>4, MetadataWritten
    <3>3. PICK r \in SlotType : r = [slot[w] EXCEPT !.meta = f] /\ r.made
      BY <2>2, <3>1, Slots
    <3>4. slot' = [slot EXCEPT ![w] = r] /\ exists'
      BY <1>18, <2>2, <3>1, <3>2, <3>3 DEF WriteMetadata
    <3> QED BY <3>3, <3>4, PresentWrite
  <2> QED BY <2>3, <2>4
<1>19. CASE ReadMetadata(t)
  BY <1>19 DEF ReadMetadata, Present, Made
<1>20. CASE ReadContent(t)
  BY <1>20 DEF ReadContent, Present, Made
<1>21. CASE DeleteRow(t)
  BY <1>21, Slots DEF DeleteRow, Present, Made
<1>22. CASE DeleteRoot(t)
  BY <1>22 DEF DeleteRoot, Present, Made
<1>23. ASSUME NEW v \in Versions, DeleteDirectory(t, v) PROVE Present'
  <2>1. \A w \in Versions : slot'[w] = IF w = v THEN NoVersion ELSE slot[w]
    BY <1>23 DEF DeleteDirectory, Typed
  <2>2. Made' \subseteq Made
    BY <2>1, Slots DEF Made
  <2> QED BY <1>23, <2>1, <2>2 DEF DeleteDirectory, Present
<1>24. CASE Fail(t)
  BY <1>24 DEF Fail, Present, Made
<1> QED
  BY <1>1, <1>2, <1>3, <1>4, <1>5, <1>6, <1>7, <1>8, <1>9, <1>10, <1>11, <1>12, <1>13,
     <1>14, <1>15, <1>16, <1>17, <1>18, <1>19, <1>20, <1>21, <1>22, <1>23, <1>24,
     Zenon DEF Call, Step

\* A save belongs to one caller, which has what it writes to.
LEMMA SaveStep ==
    ASSUME Typed, PlaceInv, SaveInv, NEW t \in Threads, Call(t) \/ Step(t)
    PROVE  SaveInv'
<1>1. ASSUME NEW s \in Saves, SaveToMemory(t, s) PROVE SaveInv'
  BY <1>1 DEF SaveToMemory, Typed, SaveInv, Saving, Begin, Go
<1>2. ASSUME NEW s \in Saves, SaveToDatabase(t, s) PROVE SaveInv'
  BY <1>2 DEF SaveToDatabase, Typed, SaveInv, Saving, Begin, Go
<1>3. ASSUME NEW s \in Saves, SaveToFile(t, s) PROVE SaveInv'
  BY <1>3 DEF SaveToFile, Typed, SaveInv, Saving, Begin, Go
<1>4. ASSUME NEW v \in Versions, LoadAtOnce(t, v) PROVE SaveInv'
  BY <1>4 DEF LoadAtOnce, SaveInv, Saving
<1>5. ASSUME NEW v \in Versions, LoadFromFile(t, v) PROVE SaveInv'
  BY <1>5 DEF LoadFromFile, SaveInv, Saving, SavePlaces, Go
<1>6. CASE DeleteFromMemory(t)
  BY <1>6 DEF DeleteFromMemory, SaveInv, Saving, SavePlaces
<1>7. CASE DeleteFromDatabase(t)
  BY <1>7 DEF DeleteFromDatabase, SaveInv, Saving, SavePlaces, Go
<1>8. CASE DeleteFromFile(t)
  BY <1>8 DEF DeleteFromFile, SaveInv, Saving, SavePlaces, Go
<1>9. CASE AddReadsSize(t)
  BY <1>9 DEF AddReadsSize, SaveInv, Saving, SavePlaces, Go
<1>10. CASE AddWritesSlot(t)
  BY <1>10 DEF AddWritesSlot, Typed, PlaceInv, SaveInv, Saving, SavePlaces, Return,
     Leave, Go
<1>11. CASE InsertIdentity(t)
  BY <1>11 DEF InsertIdentity, SaveInv, Saving, SavePlaces, Go
<1>12. CASE QueryMax(t)
  BY <1>12 DEF QueryMax, SaveInv, Saving, SavePlaces, Go
<1>13. CASE InsertVersion(t)
  BY <1>13 DEF InsertVersion, Typed, SaveInv, Saving, SavePlaces, Return, Leave, Go
<1>14. CASE MakeDirectory(t)
  BY <1>14 DEF MakeDirectory, SaveInv, Saving, SavePlaces, Go
<1>15. CASE OpenContent(t)
  BY <1>15 DEF OpenContent, SaveInv, Saving, SavePlaces, Go
<1>16. CASE WriteContent(t)
  BY <1>16 DEF WriteContent, Typed, SaveInv, Saving, Go
<1>17. CASE OpenMetadata(t)
  BY <1>17 DEF OpenMetadata, SaveInv, Saving, SavePlaces, Go
<1>18. CASE WriteMetadata(t)
  BY <1>18 DEF WriteMetadata, Typed, SaveInv, Saving, SavePlaces, Return, Leave, Go
<1>19. CASE ReadMetadata(t)
  BY <1>19 DEF ReadMetadata, SaveInv, Saving, SavePlaces, Go
<1>20. CASE ReadContent(t)
  BY <1>20 DEF ReadContent, SaveInv, Saving, SavePlaces, Leave, Go
<1>21. CASE DeleteRow(t)
  BY <1>21 DEF DeleteRow, PlaceInv, SaveInv, Saving, SavePlaces, Leave, Go
<1>22. CASE DeleteRoot(t)
  BY <1>22 DEF DeleteRoot, PlaceInv, SaveInv, Saving, SavePlaces, Leave, Go
<1>23. ASSUME NEW v \in Versions, DeleteDirectory(t, v) PROVE SaveInv'
  BY <1>23 DEF DeleteDirectory, SaveInv, Saving
<1>24. CASE Fail(t)
  BY <1>24 DEF Fail, Typed, SaveInv, Saving, SavePlaces, Leave, Go
<1> QED
  BY <1>1, <1>2, <1>3, <1>4, <1>5, <1>6, <1>7, <1>8, <1>9, <1>10, <1>11, <1>12, <1>13,
     <1>14, <1>15, <1>16, <1>17, <1>18, <1>19, <1>20, <1>21, <1>22, <1>23, <1>24,
     Zenon DEF Call, Step

-----------------------------------------------------------------------------
(* Counting                                                                *)

\* A caller without a version keeps its save and its numbers, or takes the next number.
KeepsNumbers(u) ==
    Undone(u)' =>
       /\ \/ Undone(u) /\ at'[u].save = at[u].save
          \/ at'[u].save \notin sent
       /\ \/ Undone(u) /\ at'[u].version = at[u].version
          \/ at'[u].version = NextVersion \/ at'[u].version = 0
       /\ \/ Undone(u) /\ at'[u].size = at[u].size
          \/ at'[u].size = NextVersion \/ at'[u].size = 0

\* A step that only adds to the saves done, and makes a version only with one more
\* of them, keeps the numbers within their bound.
LEMMA CountBy ==
    ASSUME TypeOK, CountInv, sent' \in SUBSET Saves, sent \subseteq sent',
           \A u \in Threads : KeepsNumbers(u),
           \A v \in Made' : \/ v \in Made
                            \/ v \in 0..Cardinality(Done) /\ \E s \in Done' : s \notin Done
    PROVE  CountInv'
<1>1. Done \in SUBSET Saves /\ Done' \in SUBSET Saves /\ Done \subseteq Done'
  BY DEF Done, KeepsNumbers
<1>2. PICK m \in Nat, n \in Nat :
        /\ m = Cardinality(Done) /\ n = Cardinality(Done') /\ m <= n
        /\ (\E s \in Done' : s \notin Done) => m < n
  BY <1>1, Fewer
<1>3. \A v \in Made : v \in Nat /\ v < m
  BY <1>2, VersionsBelow DEF CountInv, Made
<1>4. \A v \in Made' : v < n
  BY <1>2, <1>3
<1>5. NextVersion \in Nat /\ NextVersion <= m
  BY <1>2, Room
<1>6. \A u \in Threads : Undone(u) =>
        /\ at[u].version \in Nat /\ at[u].version <= m
        /\ at[u].size \in Nat /\ at[u].size <= m
  BY <1>2, TypeParts, Locals, VersionsBelow DEF CountInv, Typed
<1>7. \A u \in Threads : Undone(u)' => at'[u].version <= n /\ at'[u].size <= n
  BY <1>2, <1>5, <1>6 DEF KeepsNumbers
<1> QED BY <1>2, <1>4, <1>7 DEF CountInv

\* Every version an action makes is paid for with a save.
LEMMA CountStep ==
    ASSUME Typed, Present, PlaceInv, SaveInv, CountInv, NEW t \in Threads, Call(t) \/ Step(t)
    PROVE  CountInv'
<1>1. ASSUME NEW s \in Saves, SaveToMemory(t, s) PROVE CountInv'
  <2>1. sent' \in SUBSET Saves /\ sent \subseteq sent'
    BY <1>1 DEF SaveToMemory, Typed, Begin
  <2>2. \A u \in Threads : KeepsNumbers(u)
    BY <1>1 DEF SaveToMemory, Typed, Undone, Go, Begin, Nowhere, KeepsNumbers
  <2>3. \A v \in Made' : v \in Made
    BY <1>1 DEF SaveToMemory, Made
  <2> QED BY <2>1, <2>2, <2>3, TypeParts, CountBy
<1>2. ASSUME NEW s \in Saves, SaveToDatabase(t, s) PROVE CountInv'
  <2>1. sent' \in SUBSET Saves /\ sent \subseteq sent'
    BY <1>2 DEF SaveToDatabase, Typed, Begin
  <2>2. \A u \in Threads : KeepsNumbers(u)
    BY <1>2 DEF SaveToDatabase, Typed, Undone, Go, Begin, Nowhere, KeepsNumbers
  <2>3. \A v \in Made' : v \in Made
    BY <1>2 DEF SaveToDatabase, Made
  <2> QED BY <2>1, <2>2, <2>3, TypeParts, CountBy
<1>3. ASSUME NEW s \in Saves, SaveToFile(t, s) PROVE CountInv'
  <2>1. sent' \in SUBSET Saves /\ sent \subseteq sent'
    BY <1>3 DEF SaveToFile, Typed, Begin
  <2>2. \A u \in Threads : KeepsNumbers(u)
    BY <1>3 DEF SaveToFile, Typed, Undone, Go, Begin, Nowhere, KeepsNumbers
  <2>3. \A v \in Made' : v \in Made
    BY <1>3 DEF SaveToFile, Made
  <2> QED BY <2>1, <2>2, <2>3, TypeParts, CountBy
<1>4. ASSUME NEW v \in Versions, LoadAtOnce(t, v) PROVE CountInv'
  <2>1. sent' \in SUBSET Saves /\ sent \subseteq sent'
    BY <1>4 DEF LoadAtOnce, Typed
  <2>2. \A u \in Threads : KeepsNumbers(u)
    BY <1>4 DEF LoadAtOnce, Undone, KeepsNumbers
  <2>3. \A w \in Made' : w \in Made
    BY <1>4 DEF LoadAtOnce, Made
  <2> QED BY <2>1, <2>2, <2>3, TypeParts, CountBy
<1>5. ASSUME NEW v \in Versions, LoadFromFile(t, v) PROVE CountInv'
  <2>1. sent' \in SUBSET Saves /\ sent \subseteq sent'
    BY <1>5 DEF LoadFromFile, Typed
  <2>2. \A u \in Threads : KeepsNumbers(u)
    BY <1>5 DEF LoadFromFile, Undone, Go, KeepsNumbers
  <2>3. \A w \in Made' : w \in Made
    BY <1>5 DEF LoadFromFile, Made
  <2> QED BY <2>1, <2>2, <2>3, TypeParts, CountBy
<1>6. CASE DeleteFromMemory(t)
  <2>1. sent' \in SUBSET Saves /\ sent \subseteq sent'
    BY <1>6 DEF DeleteFromMemory, Typed
  <2>2. \A u \in Threads : KeepsNumbers(u)
    BY <1>6 DEF DeleteFromMemory, Undone, KeepsNumbers
  <2>3. \A v \in Made' : v \in Made
    BY <1>6, Slots DEF DeleteFromMemory, Made
  <2> QED BY <2>1, <2>2, <2>3, TypeParts, CountBy
<1>7. CASE DeleteFromDatabase(t)
  <2>1. sent' \in SUBSET Saves /\ sent \subseteq sent'
    BY <1>7 DEF DeleteFromDatabase, Typed
  <2>2. \A u \in Threads : KeepsNumbers(u)
    BY <1>7 DEF DeleteFromDatabase, Undone, Go, KeepsNumbers
  <2>3. \A v \in Made' : v \in Made
    BY <1>7 DEF DeleteFromDatabase, Made
  <2> QED BY <2>1, <2>2, <2>3, TypeParts, CountBy
<1>8. CASE DeleteFromFile(t)
  <2>1. sent' \in SUBSET Saves /\ sent \subseteq sent'
    BY <1>8 DEF DeleteFromFile, Typed
  <2>2. \A u \in Threads : KeepsNumbers(u)
    BY <1>8 DEF DeleteFromFile, Undone, Go, KeepsNumbers
  <2>3. \A v \in Made' : v \in Made
    BY <1>8 DEF DeleteFromFile, Made
  <2> QED BY <2>1, <2>2, <2>3, TypeParts, CountBy
<1>9. CASE AddReadsSize(t)
  <2>1. sent' \in SUBSET Saves /\ sent \subseteq sent'
    BY <1>9 DEF AddReadsSize, Typed
  <2>2. \A u \in Threads : KeepsNumbers(u)
    BY <1>9 DEF AddReadsSize, Undone, Go, KeepsNumbers
  <2>3. \A v \in Made' : v \in Made
    BY <1>9 DEF AddReadsSize, Made
  <2> QED BY <2>1, <2>2, <2>3, TypeParts, CountBy
<1>10. CASE AddWritesSlot(t)
  <2>1. Undone(t) /\ at[t].save \in sent /\ at[t] \in LocalType
    BY <1>10 DEF AddWritesSlot, Typed, SaveInv, Undone, Saving
  <2>2. sent' \in SUBSET Saves /\ sent \subseteq sent'
    BY <1>10, <2>1 DEF AddWritesSlot, Typed
  <2>3. \A u \in Threads : KeepsNumbers(u)
    BY <1>10, <2>1 DEF AddWritesSlot, Typed, Undone, Go, Return, Leave, KeepsNumbers
  <2>4. \A v \in Made' : v \in Made \/ (v \in 0..Cardinality(Done) /\ \E s \in Done' : s \notin Done)
    <3>1. PICK w \in Versions : w = at[t].size
      BY <2>1, Locals
    <3>2. w \in Nat /\ w <= Cardinality(Done) /\ Cardinality(Done) \in Nat
      BY <2>1, <3>1, TypeParts, Room, VersionsBelow DEF CountInv
    <3>3. at[t].save \notin Done
      BY <2>1 DEF Done
    <3>4. at[t].save \in Done'
      BY <1>10, <2>1 DEF Done, AddWritesSlot, Typed, SaveInv, Undone, Saving, Go,
         Return, Leave
    <3>5. \A v \in Made' : v \in Made \/ v = w
      BY <1>10, <3>1, AddWrites, Slots, VersionsBelow DEF Made
    <3> QED BY <3>2, <3>3, <3>4, <3>5
  <2> QED BY <2>2, <2>3, <2>4, TypeParts, CountBy
<1>11. CASE InsertIdentity(t)
  <2>1. sent' \in SUBSET Saves /\ sent \subseteq sent'
    BY <1>11 DEF InsertIdentity, Typed
  <2>2. \A u \in Threads : KeepsNumbers(u)
    BY <1>11 DEF InsertIdentity, Undone, Go, KeepsNumbers
  <2>3. \A v \in Made' : v \in Made
    BY <1>11 DEF InsertIdentity, Made
  <2> QED BY <2>1, <2>2, <2>3, TypeParts, CountBy
<1>12. CASE QueryMax(t)
  <2>1. sent' \in SUBSET Saves /\ sent \subseteq sent'
    BY <1>12 DEF QueryMax, Typed
  <2>2. \A u \in Threads : KeepsNumbers(u)
    BY <1>12 DEF QueryMax, Undone, Go, KeepsNumbers
  <2>3. \A v \in Made' : v \in Made
    BY <1>12 DEF QueryMax, Made
  <2> QED BY <2>1, <2>2, <2>3, TypeParts, CountBy
<1>13. CASE InsertVersion(t)
  <2>1. Undone(t) /\ at[t].save \in sent /\ at[t] \in LocalType
    BY <1>13 DEF InsertVersion, Typed, SaveInv, Undone, Saving
  <2>2. sent' \in SUBSET Saves /\ sent \subseteq sent'
    BY <1>13, <2>1 DEF InsertVersion, Typed
  <2>3. \A u \in Threads : KeepsNumbers(u)
    BY <1>13, <2>1 DEF InsertVersion, Typed, Undone, Go, Return, Leave, KeepsNumbers
  <2>4. \A v \in Made' : v \in Made \/ (v \in 0..Cardinality(Done) /\ \E s \in Done' : s \notin Done)
    <3>1. PICK w \in Versions : w = at[t].version
      BY <2>1, Locals
    <3>2. w \in Nat /\ w <= Cardinality(Done) /\ Cardinality(Done) \in Nat
      BY <2>1, <3>1, TypeParts, Room, VersionsBelow DEF CountInv
    <3>3. at[t].save \notin Done
      BY <2>1 DEF Done
    <3>4. at[t].save \in Done'
      BY <1>13, <2>1 DEF Done, InsertVersion, Typed, SaveInv, Undone, Saving, Go,
         Return, Leave
    <3>5. \A v \in Made' : v \in Made \/ v = w
      BY <1>13, <2>1, <3>1 DEF InsertVersion, Made
    <3> QED BY <3>2, <3>3, <3>4, <3>5
  <2> QED BY <2>2, <2>3, <2>4, TypeParts, CountBy
<1>14. CASE MakeDirectory(t)
  <2>1. Undone(t) /\ at[t].save \in sent /\ at[t] \in LocalType
    BY <1>14 DEF MakeDirectory, Typed, SaveInv, Undone, Saving
  <2>2. sent' \in SUBSET Saves /\ sent \subseteq sent'
    BY <1>14, <2>1 DEF MakeDirectory, Typed
  <2>3. \A u \in Threads : KeepsNumbers(u)
    BY <1>14, <2>1 DEF MakeDirectory, Undone, Go, KeepsNumbers
  <2>4. \A v \in Made' : v \in Made \/ (v \in 0..Cardinality(Done) /\ \E s \in Done' : s \notin Done)
    <3>1. PICK w \in Versions : w = at[t].version
      BY <2>1, Locals
    <3>2. w \in Nat /\ w <= Cardinality(Done) /\ Cardinality(Done) \in Nat
      BY <2>1, <3>1, TypeParts, Room, VersionsBelow DEF CountInv
    <3>3. at[t].save \notin Done
      BY <2>1 DEF Done
    <3>4. at[t].save \in Done'
      BY <1>14, <2>1 DEF Done, MakeDirectory, Typed, SaveInv, Undone, Saving, Go
    <3>5. \A v \in Made' : v \in Made \/ v = w
      BY <1>14, <2>1, <3>1 DEF MakeDirectory, Made
    <3> QED BY <3>2, <3>3, <3>4, <3>5
  <2> QED BY <2>2, <2>3, <2>4, TypeParts, CountBy
<1>15. CASE OpenContent(t)
  <2>1. sent' \in SUBSET Saves /\ sent \subseteq sent'
    BY <1>15 DEF OpenContent, Typed
  <2>2. \A u \in Threads : KeepsNumbers(u)
    BY <1>15 DEF OpenContent, Undone, Go, KeepsNumbers
  <2>3. \A v \in Made' : v \in Made
    BY <1>15 DEF OpenContent, Made
  <2> QED BY <2>1, <2>2, <2>3, TypeParts, CountBy
<1>16. CASE WriteContent(t)
  <2>1. sent' \in SUBSET Saves /\ sent \subseteq sent'
    BY <1>16 DEF WriteContent, Typed
  <2>2. \A u \in Threads : KeepsNumbers(u)
    BY <1>16 DEF WriteContent, Undone, Go, KeepsNumbers
  <2>3. \A v \in Made' : v \in Made
    BY <1>16 DEF WriteContent, Made
  <2> QED BY <2>1, <2>2, <2>3, TypeParts, CountBy
<1>17. CASE OpenMetadata(t)
  <2>1. sent' \in SUBSET Saves /\ sent \subseteq sent'
    BY <1>17 DEF OpenMetadata, Typed
  <2>2. \A u \in Threads : KeepsNumbers(u)
    BY <1>17 DEF OpenMetadata, Undone, Go, KeepsNumbers
  <2>3. \A v \in Made' : v \in Made
    BY <1>17 DEF OpenMetadata, Made
  <2> QED BY <2>1, <2>2, <2>3, TypeParts, CountBy
<1>18. CASE WriteMetadata(t)
  <2>1. sent' \in SUBSET Saves /\ sent \subseteq sent'
    BY <1>18 DEF WriteMetadata, Typed
  <2>2. \A u \in Threads : KeepsNumbers(u)
    BY <1>18 DEF WriteMetadata, Undone, Go, Return, Leave, KeepsNumbers
  <2>3. \A v \in Made' : v \in Made
    BY <1>18 DEF WriteMetadata, Made
  <2> QED BY <2>1, <2>2, <2>3, TypeParts, CountBy
<1>19. CASE ReadMetadata(t)
  <2>1. sent' \in SUBSET Saves /\ sent \subseteq sent'
    BY <1>19 DEF ReadMetadata, Typed
  <2>2. \A u \in Threads : KeepsNumbers(u)
    BY <1>19 DEF ReadMetadata, Undone, Go, KeepsNumbers
  <2>3. \A v \in Made' : v \in Made
    BY <1>19 DEF ReadMetadata, Made
  <2> QED BY <2>1, <2>2, <2>3, TypeParts, CountBy
<1>20. CASE ReadContent(t)
  <2>1. sent' \in SUBSET Saves /\ sent \subseteq sent'
    BY <1>20 DEF ReadContent, Typed
  <2>2. \A u \in Threads : KeepsNumbers(u)
    BY <1>20 DEF ReadContent, Undone, Go, Leave, KeepsNumbers
  <2>3. \A v \in Made' : v \in Made
    BY <1>20 DEF ReadContent, Made
  <2> QED BY <2>1, <2>2, <2>3, TypeParts, CountBy
<1>21. CASE DeleteRow(t)
  <2>1. sent' \in SUBSET Saves /\ sent \subseteq sent'
    BY <1>21 DEF DeleteRow, Typed
  <2>2. \A u \in Threads : KeepsNumbers(u)
    BY <1>21 DEF DeleteRow, Undone, Go, Leave, KeepsNumbers
  <2>3. \A v \in Made' : v \in Made
    BY <1>21, Slots DEF DeleteRow, Made
  <2> QED BY <2>1, <2>2, <2>3, TypeParts, CountBy
<1>22. CASE DeleteRoot(t)
  <2>1. sent' \in SUBSET Saves /\ sent \subseteq sent'
    BY <1>22 DEF DeleteRoot, Typed
  <2>2. \A u \in Threads : KeepsNumbers(u)
    BY <1>22 DEF DeleteRoot, Undone, Go, Leave, KeepsNumbers
  <2>3. \A v \in Made' : v \in Made
    BY <1>22 DEF DeleteRoot, Made
  <2> QED BY <2>1, <2>2, <2>3, TypeParts, CountBy
<1>23. ASSUME NEW v \in Versions, DeleteDirectory(t, v) PROVE CountInv'
  <2>1. sent' \in SUBSET Saves /\ sent \subseteq sent'
    BY <1>23 DEF DeleteDirectory, Typed
  <2>2. \A u \in Threads : KeepsNumbers(u)
    BY <1>23 DEF DeleteDirectory, Undone, KeepsNumbers
  <2>3. \A w \in Made' : w \in Made
    BY <1>23 DEF DeleteDirectory, Made
  <2> QED BY <2>1, <2>2, <2>3, TypeParts, CountBy
<1>24. CASE Fail(t)
  <2>1. sent' \in SUBSET Saves /\ sent \subseteq sent'
    BY <1>24 DEF Fail, Typed
  <2>2. \A u \in Threads : KeepsNumbers(u)
    BY <1>24 DEF Fail, Typed, Undone, Go, Leave, KeepsNumbers
  <2>3. \A v \in Made' : v \in Made
    BY <1>24 DEF Fail, Made
  <2> QED BY <2>1, <2>2, <2>3, TypeParts, CountBy
<1> QED
  BY <1>1, <1>2, <1>3, <1>4, <1>5, <1>6, <1>7, <1>8, <1>9, <1>10, <1>11, <1>12, <1>13,
     <1>14, <1>15, <1>16, <1>17, <1>18, <1>19, <1>20, <1>21, <1>22, <1>23, <1>24,
     Zenon DEF Call, Step

-----------------------------------------------------------------------------
(* Quiet saves                                                             *)

LEMMA SameNext == slot' = slot => NextVersion' = NextVersion
BY DEF NextVersion, Made

\* A quiet save stays alone, or is quiet no longer.
LEMMA QuietStep ==
    ASSUME Typed, PlaceInv, SaveInv, QuietInv, NEW t \in Threads, Call(t) \/ Step(t)
    PROVE  QuietInv'
<1>1. ASSUME NEW s \in Saves, SaveToMemory(t, s) PROVE QuietInv'
  <2> SUFFICES ASSUME NEW u \in Threads, Saving(u)', (at[u].save \in Quiet)'
                PROVE  Alone(u)' /\ Finds(u)'
    BY DEF QuietInv
  <2>1. Begin(t, s)
    BY <1>1 DEF SaveToMemory
  <2>2. u = t
    BY <1>1, <2>1, BeginOverlaps DEF SaveToMemory, Quiet, Saving, Go
  <2>3. \A w \in Threads : w # t => ~Saving(w) /\ ~Deleting(w)
    BY <1>1, <2>1, <2>2, BeginOverlaps DEF SaveToMemory, Typed, Quiet
  <2> QED BY <1>1, <2>2, <2>3, SameNext DEF SaveToMemory, Typed, Saving, Deleting, Go,
             Nowhere, Alone, Finds
<1>2. ASSUME NEW s \in Saves, SaveToDatabase(t, s) PROVE QuietInv'
  <2> SUFFICES ASSUME NEW u \in Threads, Saving(u)', (at[u].save \in Quiet)'
                PROVE  Alone(u)' /\ Finds(u)'
    BY DEF QuietInv
  <2>1. Begin(t, s)
    BY <1>2 DEF SaveToDatabase
  <2>2. u = t
    BY <1>2, <2>1, BeginOverlaps DEF SaveToDatabase, Quiet, Saving, Go
  <2>3. \A w \in Threads : w # t => ~Saving(w) /\ ~Deleting(w)
    BY <1>2, <2>1, <2>2, BeginOverlaps DEF SaveToDatabase, Typed, Quiet
  <2> QED BY <1>2, <2>2, <2>3 DEF SaveToDatabase, Typed, Saving, Deleting, Go,
             Nowhere, Alone, Finds
<1>3. ASSUME NEW s \in Saves, SaveToFile(t, s) PROVE QuietInv'
  <2> SUFFICES ASSUME NEW u \in Threads, Saving(u)', (at[u].save \in Quiet)'
                PROVE  Alone(u)' /\ Finds(u)'
    BY DEF QuietInv
  <2>1. Begin(t, s)
    BY <1>3 DEF SaveToFile
  <2>2. u = t
    BY <1>3, <2>1, BeginOverlaps DEF SaveToFile, Quiet, Saving, Go
  <2>3. \A w \in Threads : w # t => ~Saving(w) /\ ~Deleting(w)
    BY <1>3, <2>1, <2>2, BeginOverlaps DEF SaveToFile, Typed, Quiet
  <2> QED BY <1>3, <2>2, <2>3 DEF SaveToFile, Typed, Saving, Deleting, Go, Nowhere,
             Alone, Finds
<1>4. ASSUME NEW v \in Versions, LoadAtOnce(t, v) PROVE QuietInv'
  BY <1>4, SameNext DEF LoadAtOnce, Quiet, Saving, Deleting, QuietInv, Alone, Finds
<1>5. ASSUME NEW v \in Versions, LoadFromFile(t, v) PROVE QuietInv'
  BY <1>5 DEF LoadFromFile, Typed, Quiet, Saving, SavePlaces, Deleting, Go, SaveInv,
     PlaceInv, QuietInv, Alone, Finds
<1>6. CASE DeleteFromMemory(t)
  <2> SUFFICES ASSUME NEW u \in Threads, Saving(u)', (at[u].save \in Quiet)'
                PROVE  FALSE
    BY DEF QuietInv
  <2>1. Saving(u) /\ at'[u].save = at[u].save
    BY <1>6 DEF DeleteFromMemory, Saving
  <2>2. at[u].save \in disturbed'
    BY <1>6, <2>1, DeleteOverlaps DEF DeleteFromMemory, Quiet
  <2> QED BY <2>1, <2>2 DEF Quiet
<1>7. CASE DeleteFromDatabase(t)
  BY <1>7, DeleteOverlaps DEF DeleteFromDatabase, Typed, Quiet, Saving, SavePlaces,
     Go, QuietInv
<1>8. CASE DeleteFromFile(t)
  BY <1>8, DeleteOverlaps DEF DeleteFromFile, Typed, Quiet, Saving, SavePlaces, Go,
     QuietInv
<1>9. CASE AddReadsSize(t)
  <2> SUFFICES ASSUME NEW u \in Threads, Saving(u)', (at[u].save \in Quiet)'
                PROVE  Alone(u)' /\ Finds(u)'
    BY DEF QuietInv
  <2>1. Saving(t) /\ Saving(u) /\ at[u].save \in Quiet
    BY <1>9 DEF AddReadsSize, Quiet, Saving, SavePlaces, Go
  <2>2. u = t /\ Alone(t) /\ Finds(t)
    BY <2>1 DEF QuietInv, Alone
  <2>3. Alone(t)'
    BY <1>9, <2>2 DEF AddReadsSize, Saving, Deleting, Go, Alone
  <2>4. PICK r \in LocalType : r = at[t]
    BY DEF Typed
  <2>5. at'[t] = [r EXCEPT !.size = NextVersion]
    BY <1>9, <2>4 DEF AddReadsSize, Typed
  <2>6. /\ at'[t].size = NextVersion /\ at'[t].version = r.version
        /\ ~r.lost => ~at'[t].lost
    BY <2>4, <2>5
  <2>7. Finds(t)'
    BY <1>9, <2>1, <2>2, <2>4, <2>6 DEF AddReadsSize, Typed, Go, Finds
  <2> QED BY <2>2, <2>3, <2>7
<1>10. CASE AddWritesSlot(t)
  BY <1>10 DEF AddWritesSlot, Typed, Quiet, Saving, SavePlaces, Go, Return, Leave,
     QuietInv, Alone
<1>11. CASE InsertIdentity(t)
  BY <1>11 DEF InsertIdentity, Typed, Quiet, Saving, Deleting, Go, QuietInv, Alone, Finds
<1>12. CASE QueryMax(t)
  <2> SUFFICES ASSUME NEW u \in Threads, Saving(u)', (at[u].save \in Quiet)'
                PROVE  Alone(u)' /\ Finds(u)'
    BY DEF QuietInv
  <2>1. Saving(t) /\ Saving(u) /\ at[u].save \in Quiet
    BY <1>12 DEF QueryMax, Quiet, Saving, SavePlaces, Go
  <2>2. u = t /\ Alone(t) /\ Finds(t)
    BY <2>1 DEF QuietInv, Alone
  <2>3. Alone(t)'
    BY <1>12, <2>2 DEF QueryMax, Saving, Deleting, Go, Alone
  <2>4. PICK r \in LocalType : r = at[t]
    BY DEF Typed
  <2>5. at'[t] = [r EXCEPT !.version = NextVersion]
    BY <1>12, <2>4 DEF QueryMax, Typed
  <2>6. ~r.lost => ~at'[t].lost
    BY <2>4, <2>5
  <2>7. Finds(t)'
    BY <1>12, <2>1, <2>2, <2>4, <2>6 DEF QueryMax, Typed, Go, Finds
  <2> QED BY <2>2, <2>3, <2>7
<1>13. CASE InsertVersion(t)
  BY <1>13 DEF InsertVersion, Typed, Quiet, Saving, SavePlaces, Go, Return, Leave,
     QuietInv, Alone
<1>14. CASE MakeDirectory(t)
  BY <1>14 DEF MakeDirectory, Typed, Quiet, Saving, Deleting, Go, QuietInv, Alone, Finds
<1>15. CASE OpenContent(t)
  <2> SUFFICES ASSUME NEW u \in Threads, Saving(u)', (at[u].save \in Quiet)'
                PROVE  Alone(u)' /\ Finds(u)'
    BY DEF QuietInv
  <2>1. Saving(t) /\ Saving(u) /\ at[u].save \in Quiet
    BY <1>15 DEF OpenContent, Quiet, Saving, SavePlaces, Go
  <2>2. u = t /\ Alone(t) /\ Finds(t)
    BY <2>1 DEF QuietInv, Alone
  <2>3. Alone(t)'
    BY <1>15, <2>2 DEF OpenContent, Saving, Deleting, Go, Alone
  <2>4. PICK w \in Versions, q \in SlotType : w = at[t].version /\ q = slot[w]
    BY Locals DEF Typed
  <2>5. slot'[w] = [q EXCEPT !.data = Torn]
    BY <1>15, <2>4 DEF OpenContent, Typed
  <2>6. slot'[w].data = Torn
    BY <2>5 DEF SlotType
  <2>7. pc'[t] = "write" /\ at' = at
    BY <1>15 DEF OpenContent, Go, Typed
  <2>8. Finds(t)'
    BY <2>2, <2>4, <2>6, <2>7 DEF Finds
  <2> QED BY <2>2, <2>3, <2>8
<1>16. CASE WriteContent(t)
  <2> SUFFICES ASSUME NEW u \in Threads, Saving(u)', (at[u].save \in Quiet)'
                PROVE  Alone(u)' /\ Finds(u)'
    BY DEF QuietInv
  <2>1. Saving(t) /\ Saving(u) /\ at[u].save \in Quiet
    BY <1>16 DEF WriteContent, Quiet, Saving, SavePlaces, Go
  <2>2. u = t /\ Alone(t) /\ Finds(t)
    BY <2>1 DEF QuietInv, Alone
  <2>3. Alone(t)'
    BY <1>16, <2>2 DEF WriteContent, Saving, Deleting, Go, Alone
  <2>4. PICK r \in LocalType : r = at[t]
    BY DEF Typed
  <2>5. at'[t] = [r EXCEPT !.lost = FALSE]
    BY <1>16, <2>4 DEF WriteContent, Typed
  <2>6. /\ at'[t].version = r.version /\ at'[t].save = r.save
        /\ ~at'[t].lost
    BY <2>4, <2>5
  <2>7. PICK w \in Versions, q \in SlotType : w = r.version /\ q = slot[w]
    BY <2>4, Locals DEF Typed
  <2>8. slot'[w] = [q EXCEPT !.data = r.save]
    <3>1. PICK f \in Files :
            /\ slot[at[t].version].data = Torn => f = at[t].save
            /\ slot' = IF at[t].lost THEN slot
                       ELSE [slot EXCEPT ![at[t].version].data = f]
      BY <1>16, ContentWritten
    <3>2. slot[at[t].version].data = Torn /\ ~at[t].lost
      BY <1>16, <2>2 DEF WriteContent, Finds
    <3> QED BY <2>4, <2>7, <3>1, <3>2 DEF Typed
  <2>9. q.made 
    BY <1>16, <2>2, <2>4, <2>7 DEF WriteContent, SaveInv, Finds
  <2>10. slot'[w].made /\ slot'[w].data = r.save
    BY <1>16, <2>1, <2>2, <2>4, <2>7, <2>8, <2>9
  <2>11. pc'[t] = "metadata"
    BY <1>16 DEF WriteContent, Go, Typed
  <2>12. Finds(t)'
    BY <2>4, <2>6, <2>7, <2>10, <2>11 DEF Finds
  <2> QED BY <2>2, <2>3, <2>12
<1>17. CASE OpenMetadata(t)
  <2> SUFFICES ASSUME NEW u \in Threads, Saving(u)', (at[u].save \in Quiet)'
                PROVE  Alone(u)' /\ Finds(u)'
    BY DEF QuietInv
  <2>1. Saving(t) /\ Saving(u) /\ at[u].save \in Quiet
    BY <1>17 DEF OpenMetadata, Quiet, Saving, SavePlaces, Go
  <2>2. u = t /\ Alone(t) /\ Finds(t)
    BY <2>1 DEF QuietInv, Alone
  <2>3. Alone(t)'
    BY <1>17, <2>2 DEF OpenMetadata, Saving, Deleting, Go, Alone
  <2>4. PICK r \in LocalType : r = at[t]
    BY DEF Typed
  <2>5. at'[t] = r
    BY <1>17, <2>4 DEF OpenMetadata
  <2>6. /\ at'[t].version = r.version /\ at'[t].save = r.save
        /\ ~r.lost => ~at'[t].lost
    BY <2>4, <2>5
  <2>7. PICK w \in Versions, q \in SlotType : w = r.version /\ q = slot[w]
    BY <2>4, Locals DEF Typed
  <2>8. slot'[w] = [q EXCEPT !.meta = Torn]
    BY <1>17, <2>2, <2>4, <2>7 DEF OpenMetadata, Typed
  <2>9. q.made /\ q.data = r.save
    BY <1>17, <2>2, <2>4, <2>7 DEF OpenMetadata, Finds
  <2>10. slot'[w].made /\ slot'[w].data = r.save /\ slot'[w].meta = Torn
    BY <2>7, <2>8, <2>9 DEF SlotType
  <2>11. pc'[t] = "writeMetadata"
    BY <1>17 DEF OpenMetadata, Go, Typed
  <2>12. Finds(t)'
    BY <2>2, <2>4, <2>6, <2>7, <2>10, <2>11 DEF Finds
  <2> QED BY <2>2, <2>3, <2>12
<1>18. CASE WriteMetadata(t)
  BY <1>18 DEF WriteMetadata, Typed, Quiet, Saving, SavePlaces, Go, Return, Leave,
     QuietInv, Alone
<1>19. CASE ReadMetadata(t)
  BY <1>19, SameNext DEF ReadMetadata, Typed, Quiet, Saving, SavePlaces, Deleting, Go,
     QuietInv, Alone, Finds
<1>20. CASE ReadContent(t)
  BY <1>20 DEF ReadContent, Typed, Quiet, Saving, SavePlaces, Deleting, Go, Leave,
     SaveInv, PlaceInv, QuietInv, Alone, Finds
<1>21. CASE DeleteRow(t)
  BY <1>21 DEF DeleteRow, Typed, Quiet, Saving, SavePlaces, Deleting, Go, Leave,
     QuietInv, Alone
<1>22. CASE DeleteRoot(t)
  <2> SUFFICES ASSUME NEW u \in Threads, Saving(u)', (at[u].save \in Quiet)'
                PROVE  FALSE
    BY DEF QuietInv
  <2>1. u # t /\ Deleting(t) /\ Saving(u) /\ at[u].save \in Quiet
    BY <1>22 DEF DeleteRoot, Quiet, Saving, SavePlaces, Deleting, Go, Leave
  <2> QED BY <2>1 DEF QuietInv, Alone
<1>23. ASSUME NEW v \in Versions, DeleteDirectory(t, v) PROVE QuietInv'
  <2> SUFFICES ASSUME NEW u \in Threads, Saving(u)', (at[u].save \in Quiet)'
                PROVE  FALSE
    BY DEF QuietInv
  <2>1. u # t /\ Deleting(t) /\ Saving(u) /\ at[u].save \in Quiet
    BY <1>23 DEF DeleteDirectory, Quiet, Saving, SavePlaces, Deleting
  <2> QED BY <2>1 DEF QuietInv, Alone
<1>24. CASE Fail(t)
  BY <1>24, SameNext DEF Fail, Typed, Quiet, Saving, SavePlaces, Deleting, Go, Leave,
     QuietInv, Alone, Finds
<1> QED
  BY <1>1, <1>2, <1>3, <1>4, <1>5, <1>6, <1>7, <1>8, <1>9, <1>10, <1>11, <1>12, <1>13,
     <1>14, <1>15, <1>16, <1>17, <1>18, <1>19, <1>20, <1>21, <1>22, <1>23, <1>24,
     Zenon DEF Call, Step

-----------------------------------------------------------------------------
(* What quiet saves leave                                                  *)

\* The service never changes, and no save becomes quiet again.
LEMMA Constancy ==
    ASSUME Typed, NEW t \in Threads, Call(t) \/ Step(t)
    PROVE  service' = service /\ Quiet' \subseteq Quiet
<1>1. ASSUME NEW s \in Saves, SaveToMemory(t, s) \/ SaveToDatabase(t, s) \/ SaveToFile(t, s)
      PROVE  service' = service /\ Quiet' \subseteq Quiet
  <2>1. Begin(t, s) /\ service' = service
    BY <1>1 DEF SaveToMemory, SaveToDatabase, SaveToFile
  <2> QED BY <2>1, BeginOverlaps DEF Quiet
<1>2. CASE DeleteFromMemory(t) \/ DeleteFromDatabase(t) \/ DeleteFromFile(t)
  <2>1. Overlap({}) /\ service' = service
    BY <1>2 DEF DeleteFromMemory, DeleteFromDatabase, DeleteFromFile
  <2> QED BY <2>1, DeleteOverlaps DEF Quiet
<1>3. ASSUME NEW v \in Versions, LoadAtOnce(t, v) \/ LoadFromFile(t, v) \/ DeleteDirectory(t, v)
      PROVE  service' = service /\ Quiet' \subseteq Quiet
  BY <1>3 DEF LoadAtOnce, LoadFromFile, DeleteDirectory, Quiet
<1>4. CASE \/ AddReadsSize(t) \/ AddWritesSlot(t)
           \/ InsertIdentity(t) \/ QueryMax(t) \/ InsertVersion(t)
           \/ MakeDirectory(t) \/ OpenContent(t) \/ WriteContent(t)
           \/ OpenMetadata(t) \/ WriteMetadata(t)
           \/ ReadMetadata(t) \/ ReadContent(t)
           \/ DeleteRow(t) \/ DeleteRoot(t) \/ Fail(t)
  BY <1>4 DEF AddReadsSize, AddWritesSlot, InsertIdentity, QueryMax, InsertVersion,
     MakeDirectory,
       OpenContent, WriteContent, OpenMetadata, WriteMetadata, ReadMetadata, ReadContent,
       DeleteRow, DeleteRoot, Fail, Quiet
<1> QED BY <1>1, <1>2, <1>3, <1>4, Zenon DEF Call, Step

\* The version of a quiet save is there, so whoever looks for a number finds another.
LEMMA QuietMade ==
    ASSUME Typed, Present
    PROVE  \A v \in Versions : slot[v].meta \in Quiet => v \in Made /\ v < NextVersion
BY ArtifactAssumption, NextAfter, Wholes DEF Present, Made, Quiet

\* A caller will write where it was going to, or in the next version.
AddsNumber(u) ==
    /\ service = "file" /\ Saving(u)' =>
         \/ Saving(u) /\ at'[u].version = at[u].version
         \/ at'[u].version = NextVersion
    /\ service = "memory" /\ pc'[u] = "put" /\ ~at'[u].lost =>
         \/ pc[u] = "put" /\ ~at[u].lost /\ at'[u].size = at[u].size
         \/ at'[u].size = NextVersion

\* A step that leaves the versions alone.
LEMMA SlotSame ==
    ASSUME Typed, Present, SlotInv, service' = service, Quiet' \subseteq Quiet, slot' = slot,
           \A u \in Threads : AddsNumber(u)
    PROVE  SlotInv'
<1>1. /\ \A v \in Versions : slot[v].meta \in Quiet => v < NextVersion
      /\ NextVersion \in Nat /\ Versions \subseteq Nat
  BY QuietMade, NextAfter, VersionsBelow
<1> QED BY <1>1 DEF SlotInv, AddsNumber

\* A caller will write where it was going to.
KeepsAim(u) ==
    /\ Saving(u)' => Saving(u) /\ at'[u].version = at[u].version
    /\ pc'[u] = "put" /\ ~at'[u].lost => pc[u] = "put" /\ ~at[u].lost /\ at'[u].size = at[u].size

\* A step that puts one version, may remove others, and is in nobody's plans.
LEMMA SlotPut ==
    ASSUME Typed, SlotInv, service' = service, Quiet' \subseteq Quiet,
           NEW w \in Versions, NEW r, slot'[w] = r,
           \A v \in Versions : v # w => slot'[v] \in {slot[v], NoVersion},
           \A u \in Threads : KeepsAim(u),
           service # "file" => r.data = r.meta,
           r.meta \in Quiet =>
              /\ r.data = r.meta
              /\ \/ r.meta = slot[w].meta
                 \/ \A u \in Threads : ~Saving(u)'
    PROVE  SlotInv'
<1>0. Missing \notin Quiet
  BY ArtifactAssumption DEF Quiet
<1>1. ASSUME NEW v \in Versions, v # w
      PROVE  /\ service # "file" => slot'[v].data = slot'[v].meta
             /\ slot'[v].meta \in Quiet' =>
                  /\ slot'[v].data = slot'[v].meta
                  /\ service = "file" => \A u \in Threads : Saving(u)' => at'[u].version # v
                  /\ service = "memory" =>
                       \A u \in Threads : pc'[u] = "put" /\ ~at'[u].lost => v < at'[u].size
  <2>1. CASE slot'[v] = slot[v]
    BY <1>1, <2>1 DEF SlotInv, KeepsAim
  <2>2. CASE slot'[v] = NoVersion
    BY <1>0, <2>2, Wholes
  <2> QED BY <1>1, <2>1, <2>2
<1>3. \A u \in Threads : pc'[u] = "put" => Saving(u)'
  BY DEF Saving, SavePlaces
<1>4. /\ service # "file" => slot'[w].data = slot'[w].meta
      /\ slot'[w].meta \in Quiet' =>
           /\ slot'[w].data = slot'[w].meta
           /\ service = "file" => \A u \in Threads : Saving(u)' => at'[u].version # w
           /\ service = "memory" =>
                \A u \in Threads : pc'[u] = "put" /\ ~at'[u].lost => w < at'[u].size
  BY <1>3 DEF SlotInv, KeepsAim
<1> QED BY <1>1, <1>4 DEF SlotInv

\* A step that replaces one version, and is in nobody's plans.
LEMMA SlotWrite ==
    ASSUME Typed, SlotInv, service' = service, Quiet' \subseteq Quiet,
           NEW w \in Versions, NEW r, slot' = [slot EXCEPT ![w] = r],
           \A u \in Threads : KeepsAim(u),
           service # "file" => r.data = r.meta,
           r.meta \in Quiet =>
              /\ r.data = r.meta
              /\ \/ r.meta = slot[w].meta
                 \/ \A u \in Threads : ~Saving(u)'
    PROVE  SlotInv'
<1>1. slot'[w] = r /\ \A v \in Versions : v # w => slot'[v] = slot[v]
  BY DEF Typed
<1> QED BY <1>1, SlotPut

\* No action writes over the version of a quiet save.
LEMMA SlotStep ==
    ASSUME Typed, Present, PlaceInv, SaveInv, QuietInv, SlotInv,
           NEW t \in Threads, Call(t) \/ Step(t)
    PROVE  SlotInv'
<1>0. service' = service /\ Quiet' \subseteq Quiet
  BY Constancy
<1>1. ASSUME NEW s \in Saves, SaveToMemory(t, s) PROVE SlotInv'
  <2>1. \A u \in Threads : AddsNumber(u)
    BY <1>1 DEF SaveToMemory, Go, Begin, AddsNumber
  <2>2. slot' = slot
    BY <1>1 DEF SaveToMemory
  <2> QED BY <1>0, <2>1, <2>2, SlotSame
<1>2. ASSUME NEW s \in Saves, SaveToDatabase(t, s) PROVE SlotInv'
  <2>1. \A u \in Threads : AddsNumber(u)
    BY <1>2 DEF SaveToDatabase, AddsNumber
  <2>2. slot' = slot
    BY <1>2 DEF SaveToDatabase
  <2> QED BY <1>0, <2>1, <2>2, SlotSame
<1>3. ASSUME NEW s \in Saves, SaveToFile(t, s) PROVE SlotInv'
  <2>1. \A u \in Threads : AddsNumber(u)
    BY <1>3 DEF SaveToFile, Typed, Saving, Go, AddsNumber
  <2>2. slot' = slot
    BY <1>3 DEF SaveToFile
  <2> QED BY <1>0, <2>1, <2>2, SlotSame
<1>4. ASSUME NEW v \in Versions, LoadAtOnce(t, v) PROVE SlotInv'
  <2>1. \A u \in Threads : AddsNumber(u)
    BY <1>4 DEF LoadAtOnce, AddsNumber
  <2>2. slot' = slot
    BY <1>4 DEF LoadAtOnce
  <2> QED BY <1>0, <2>1, <2>2, SlotSame
<1>5. ASSUME NEW v \in Versions, LoadFromFile(t, v) PROVE SlotInv'
  <2>1. \A u \in Threads : AddsNumber(u)
    BY <1>5 DEF LoadFromFile, Saving, SavePlaces, Go, AddsNumber
  <2>2. slot' = slot
    BY <1>5 DEF LoadFromFile
  <2> QED BY <1>0, <2>1, <2>2, SlotSame
<1>6. CASE DeleteFromMemory(t)
  <2> QED BY <1>6, <1>0, ArtifactAssumption, Wholes DEF DeleteFromMemory, SlotInv, Quiet
<1>7. CASE DeleteFromDatabase(t)
  <2>1. \A u \in Threads : AddsNumber(u)
    BY <1>7 DEF DeleteFromDatabase, AddsNumber
  <2>2. slot' = slot
    BY <1>7 DEF DeleteFromDatabase
  <2> QED BY <1>0, <2>1, <2>2, SlotSame
<1>8. CASE DeleteFromFile(t)
  <2>1. \A u \in Threads : AddsNumber(u)
    BY <1>8 DEF DeleteFromFile, Saving, SavePlaces, Go, AddsNumber
  <2>2. slot' = slot
    BY <1>8 DEF DeleteFromFile
  <2> QED BY <1>0, <2>1, <2>2, SlotSame
<1>9. CASE AddReadsSize(t)
  <2>1. PICK r \in LocalType : r = at[t]
    BY DEF Typed
  <2>2. at'[t] = [r EXCEPT !.size = NextVersion] /\ at'[t].size = NextVersion
    <3>1. at'[t] = [r EXCEPT !.size = NextVersion]
      BY <1>9, <2>1 DEF AddReadsSize, Typed
    <3> QED BY <3>1
  <2>3. \A u \in Threads : AddsNumber(u)
    BY <1>9, <2>2 DEF AddReadsSize, Go, PlaceInv, AddsNumber
  <2>4. slot' = slot
    BY <1>9 DEF AddReadsSize
  <2> QED BY <1>0, <2>3, <2>4, SlotSame
<1>10. CASE AddWritesSlot(t)
  <2>1. at[t].save \in Saves /\ at[t] \in LocalType
    BY <1>10 DEF AddWritesSlot, Typed, SaveInv, Saving
  <2>2. \A u \in Threads : KeepsAim(u)
    BY <1>10 DEF AddWritesSlot, Typed, Saving, SavePlaces, Go, Return, Leave, KeepsAim
  <2>3. PICK w \in Versions, q \in SlotType : w = at[t].size /\ q = slot[w]
    BY <2>1, Locals DEF Typed
  <2>4. CASE at[t].lost
    <3>1. slot' = slot
      BY <1>10, <2>4 DEF AddWritesSlot
    <3> QED BY <1>0, <2>2, <3>1, SlotSame DEF AddsNumber, KeepsAim
  <2>5. CASE ~at[t].lost
    <3>1. PICK r \in SlotType : r = Whole(at[t].save)
      BY <2>1, <2>3, Slots
    <3>2. slot'[w] = r /\ \A v \in Versions : v # w => slot'[v] \in {slot[v], NoVersion}
      BY <1>10, <2>5, <2>3, <3>1, AddWrites, VersionsBelow
    <3>3. r.data = r.meta /\ r.meta = at[t].save
      BY <2>1, <3>1, Wholes
    <3>4. at[t].save \in Quiet => \A u \in Threads : ~Saving(u)'
      BY <1>10 DEF AddWritesSlot, Typed, Saving, SavePlaces, Go, Return, Leave,
         QuietInv, Alone
    <3> QED BY <1>0, <2>2, <2>3, <3>2, <3>3, <3>4, SlotPut
  <2> QED BY <2>4, <2>5
<1>11. CASE InsertIdentity(t)
  <2>1. \A u \in Threads : AddsNumber(u)
    BY <1>11 DEF InsertIdentity, PlaceInv, AddsNumber
  <2>2. slot' = slot
    BY <1>11 DEF InsertIdentity
  <2> QED BY <1>0, <2>1, <2>2, SlotSame
<1>12. CASE QueryMax(t)
  <2>1. \A u \in Threads : AddsNumber(u)
    BY <1>12 DEF QueryMax, PlaceInv, AddsNumber
  <2>2. slot' = slot
    BY <1>12 DEF QueryMax
  <2> QED BY <1>0, <2>1, <2>2, SlotSame
<1>13. CASE InsertVersion(t)
  <2>1. at[t].save \in Saves /\ at[t] \in LocalType
    BY <1>13 DEF InsertVersion, Typed, SaveInv, Saving
  <2>2. \A u \in Threads : KeepsAim(u)
    BY <1>13 DEF InsertVersion, Typed, Saving, SavePlaces, Go, Return, Leave, KeepsAim
  <2>3. PICK w \in Versions, q \in SlotType : w = at[t].version /\ q = slot[w]
    BY <2>1, Locals DEF Typed
  <2>4. PICK r \in SlotType : r = Whole(at[t].save)
    BY <2>1, <2>3, Slots
  <2>5. slot' = [slot EXCEPT ![w] = r]
    BY <1>13, <2>3, <2>4 DEF InsertVersion
  <2>6. r.data = r.meta /\ r.meta = at[t].save
    BY <2>1, <2>4, Wholes
  <2>7. at[t].save \in Quiet => \A u \in Threads : ~Saving(u)'
    BY <1>13 DEF InsertVersion, Typed, Saving, SavePlaces, Go, Return, Leave,
       QuietInv, Alone
  <2> QED BY <1>0, <2>2, <2>3, <2>5, <2>6, <2>7, SlotWrite
<1>14. CASE MakeDirectory(t)
  <2>1. at[t].save \in Saves /\ at[t] \in LocalType
    BY <1>14 DEF MakeDirectory, Typed, SaveInv, Saving
  <2>2. \A u \in Threads : KeepsAim(u)
    BY <1>14 DEF MakeDirectory, Typed, Saving, Go, KeepsAim
  <2>3. PICK w \in Versions, q \in SlotType : w = at[t].version /\ q = slot[w]
    BY <2>1, Locals DEF Typed
  <2>4. PICK r \in SlotType : r = [q EXCEPT !.made = TRUE]
    BY <2>1, <2>3, Slots
  <2>5. slot' = [slot EXCEPT ![w] = r]
    BY <1>14, <2>3, <2>4 DEF MakeDirectory
  <2>6. r.data = q.data /\ r.meta = q.meta
    BY <2>4
  <2>7. service = "file"
    BY <1>14 DEF MakeDirectory, PlaceInv
  <2>8. r.meta \in Quiet => r.data = r.meta /\ r.meta = slot[w].meta
    BY <2>3, <2>6 DEF SlotInv
  <2> QED BY <1>0, <2>2, <2>5, <2>7, <2>8, SlotWrite
<1>15. CASE OpenContent(t)
  <2>1. at[t].save \in Saves /\ at[t] \in LocalType
    BY <1>15 DEF OpenContent, Typed, SaveInv, Saving
  <2>2. \A u \in Threads : KeepsAim(u)
    BY <1>15 DEF OpenContent, Typed, Saving, Go, KeepsAim
  <2>3. PICK w \in Versions, q \in SlotType : w = at[t].version /\ q = slot[w]
    BY <2>1, Locals DEF Typed
  <2>4. PICK r \in SlotType : r = [q EXCEPT !.data = Torn]
    BY <2>1, <2>3, FilesAre, Slots
  <2>5. slot' = [slot EXCEPT ![w] = r]
    BY <1>15, <2>3, <2>4 DEF OpenContent
  <2>6. r.meta = q.meta /\ q.meta \notin Quiet
    BY <1>15, <2>3, <2>4 DEF OpenContent, SlotInv, PlaceInv, Saving, SavePlaces
  <2>7. service = "file"
    BY <1>15 DEF OpenContent, PlaceInv
  <2> QED BY <1>0, <2>2, <2>3, <2>5, <2>6, <2>7, SlotWrite
<1>16. CASE WriteContent(t)
  <2>1. at[t].save \in Saves /\ at[t] \in LocalType
    BY <1>16 DEF WriteContent, Typed, SaveInv, Saving
  <2>2. PICK r \in LocalType : r = at[t]
    BY DEF Typed
  <2>3. at'[t] = [r EXCEPT !.lost = FALSE] /\ at'[t].version = r.version
    <3>1. at'[t] = [r EXCEPT !.lost = FALSE]
      BY <1>16, <2>2 DEF WriteContent, Typed
    <3> QED BY <3>1
  <2>4. \A u \in Threads : KeepsAim(u)
    BY <1>16, <2>2, <2>3 DEF WriteContent, Saving, SavePlaces, Go, KeepsAim
  <2>5. PICK w \in Versions, q \in SlotType : w = at[t].version /\ q = slot[w]
    BY <2>1, Locals DEF Typed
  <2>6. CASE at[t].lost
    <3>1. slot' = slot
      BY <1>16, <2>6 DEF WriteContent
    <3> QED BY <1>0, <2>4, <3>1, SlotSame DEF AddsNumber, KeepsAim
  <2>7. CASE ~at[t].lost
    <3>0. PICK f \in Files : slot' = [slot EXCEPT ![at[t].version].data = f]
      BY <1>16, <2>7, ContentWritten
    <3>1. PICK k \in SlotType : k = [q EXCEPT !.data = f]
      BY <2>5, Slots
    <3>2. slot' = [slot EXCEPT ![w] = k]
      BY <2>5, <3>0, <3>1
    <3>3. k.meta = q.meta /\ q.meta \notin Quiet
      BY <1>16, <2>1, <2>5, <3>1 DEF WriteContent, SlotInv, PlaceInv, Saving, SavePlaces
    <3>4. service = "file"
      BY <1>16 DEF WriteContent, PlaceInv
    <3> QED BY <1>0, <2>4, <2>5, <3>2, <3>3, <3>4, SlotWrite
  <2> QED BY <2>6, <2>7
<1>17. CASE OpenMetadata(t)
  <2>1. at[t].save \in Saves /\ at[t] \in LocalType
    BY <1>17 DEF OpenMetadata, Typed, SaveInv, Saving
  <2>2. \A u \in Threads : KeepsAim(u)
    BY <1>17 DEF OpenMetadata, Typed, Saving, Go, KeepsAim
  <2>3. PICK w \in Versions, q \in SlotType : w = at[t].version /\ q = slot[w]
    BY <2>1, Locals DEF Typed
  <2>4. PICK r \in SlotType : r = [q EXCEPT !.meta = Torn]
    BY <2>1, <2>3, FilesAre, Slots
  <2>5. slot' = [slot EXCEPT ![w] = r]
    BY <1>17, <2>3, <2>4 DEF OpenMetadata
  <2>6. r.meta \notin Quiet
    BY <2>4, ArtifactAssumption DEF Quiet
  <2>7. service = "file"
    BY <1>17 DEF OpenMetadata, PlaceInv
  <2> QED BY <1>0, <2>2, <2>3, <2>5, <2>6, <2>7, SlotWrite
<1>18. CASE WriteMetadata(t)
  <2>1. at[t].save \in Saves /\ at[t] \in LocalType
    BY <1>18 DEF WriteMetadata, Typed, SaveInv, Saving
  <2>2. \A u \in Threads : KeepsAim(u)
    BY <1>18 DEF WriteMetadata, Typed, Saving, SavePlaces, Go, Return, Leave, KeepsAim
  <2>3. PICK w \in Versions, q \in SlotType : w = at[t].version /\ q = slot[w]
    BY <2>1, Locals DEF Typed
  <2>4. CASE at[t].lost
    <3>1. slot' = slot
      BY <1>18, <2>4 DEF WriteMetadata
    <3> QED BY <1>0, <2>2, <3>1, SlotSame DEF AddsNumber, KeepsAim
  <2>5. CASE ~at[t].lost
    <3>0. PICK f \in Files : /\ f \in {at[t].save, Mixed}
                             /\ slot' = [slot EXCEPT ![at[t].version].meta = f]
      BY <1>18, <2>5, MetadataWritten
    <3>1. PICK r \in SlotType : r = [q EXCEPT !.meta = f]
      BY <2>3, Slots
    <3>2. slot' = [slot EXCEPT ![w] = r]
      BY <2>3, <3>0, <3>1
    <3>3. r.data = q.data /\ (r.meta \in Quiet => r.meta = at[t].save)
      BY <3>0, <3>1, ArtifactAssumption DEF SlotType, Quiet
    <3>4. at[t].save \in Quiet => q.data = at[t].save
      BY <1>18, <2>3 DEF WriteMetadata, QuietInv, Finds, Saving, SavePlaces
    <3>5. at[t].save \in Quiet => \A u \in Threads : ~Saving(u)'
      BY <1>18 DEF WriteMetadata, Typed, Saving, SavePlaces, Go, Return, Leave,
         QuietInv, Alone
    <3>6. service = "file"
      BY <1>18 DEF WriteMetadata, PlaceInv
    <3> QED BY <1>0, <2>2, <2>3, <3>2, <3>3, <3>4, <3>5, <3>6, SlotWrite
  <2> QED BY <2>4, <2>5
<1>19. CASE ReadMetadata(t)
  <2>1. \A u \in Threads : AddsNumber(u)
    BY <1>19 DEF ReadMetadata, Saving, SavePlaces, Go, AddsNumber
  <2>2. slot' = slot
    BY <1>19 DEF ReadMetadata
  <2> QED BY <1>0, <2>1, <2>2, SlotSame
<1>20. CASE ReadContent(t)
  <2>1. \A u \in Threads : AddsNumber(u)
    BY <1>20 DEF ReadContent, Saving, SavePlaces, Go, Leave, AddsNumber
  <2>2. slot' = slot
    BY <1>20 DEF ReadContent
  <2> QED BY <1>0, <2>1, <2>2, SlotSame
<1>21. CASE DeleteRow(t)
  <2> QED BY <1>21, <1>0, ArtifactAssumption, Wholes DEF DeleteRow, SlotInv, Quiet
<1>22. CASE DeleteRoot(t)
  <2>1. \A u \in Threads : AddsNumber(u)
    BY <1>22 DEF DeleteRoot, Saving, SavePlaces, Go, Leave, AddsNumber
  <2>2. slot' = slot
    BY <1>22 DEF DeleteRoot
  <2> QED BY <1>0, <2>1, <2>2, SlotSame
<1>23. ASSUME NEW v \in Versions, DeleteDirectory(t, v) PROVE SlotInv'
  <2>1. \A u \in Threads : KeepsAim(u)
    BY <1>23 DEF DeleteDirectory, Saving, KeepsAim
  <2>2. slot' = [slot EXCEPT ![v] = NoVersion]
    BY <1>23 DEF DeleteDirectory
  <2>3. NoVersion.data = NoVersion.meta /\ NoVersion.meta \notin Quiet
    BY ArtifactAssumption, Wholes DEF Quiet
  <2> QED BY <1>0, <2>1, <2>2, <2>3, SlotWrite
<1>24. CASE Fail(t)
  <2>1. \A u \in Threads : AddsNumber(u)
    BY <1>24 DEF Fail, Typed, Saving, SavePlaces, Go, Leave, AddsNumber
  <2>2. slot' = slot
    BY <1>24 DEF Fail
  <2> QED BY <1>0, <2>1, <2>2, SlotSame
<1> QED
  BY <1>1, <1>2, <1>3, <1>4, <1>5, <1>6, <1>7, <1>8, <1>9, <1>10, <1>11, <1>12, <1>13,
     <1>14, <1>15, <1>16, <1>17, <1>18, <1>19, <1>20, <1>21, <1>22, <1>23, <1>24,
     Zenon DEF Call, Step

-----------------------------------------------------------------------------
(* What was saved                                                          *)

\* What has been saved counts while it is quiet, in the database always.
Counts(r) == service = "database" \/ r.save \in Quiet

LEMMA SavedWhole ==
    ASSUME Typed
    PROVE  /\ VersionKeepsSave <=> \A r \in saved : Counts(r) => slot[r.version] = Whole(r.save)
           /\ \A r \in saved : r.save \in Saves /\ r.version \in Versions
BY DEF Typed, VersionKeepsSave, Counts, Quiet

\* A step that leaves the versions alone.
LEMMA SavedSame ==
    ASSUME Typed, Typed', VersionKeepsSave, service' = service, Quiet' \subseteq Quiet,
           saved' \subseteq saved, slot' = slot
    PROVE  VersionKeepsSave'
<1>1. \A r \in saved' : r \in saved /\ (Counts(r)' => Counts(r))
  BY DEF Counts
<1> QED BY <1>1, SavedWhole DEF VersionKeepsSave, Quiet

\* Versions are written that nothing saved counts on.
LEMMA SavedPut ==
    ASSUME Typed, Typed', VersionKeepsSave, service' = service, Quiet' \subseteq Quiet,
           \A r \in saved : Counts(r) => slot'[r.version] = slot[r.version],
           \A r \in saved' : \/ r \in saved
                             \/ Counts(r) => slot'[r.version] = Whole(r.save)
    PROVE  VersionKeepsSave'
<1> SUFFICES ASSUME NEW r \in saved', service' = "database" \/ r.save \notin disturbed'
             PROVE  slot'[r.version] = Whole(r.save)
  BY DEF VersionKeepsSave
<1>1. r.save \in Saves
  BY DEF Typed
<1>2. Counts(r)
  BY <1>1 DEF Counts, Quiet
<1>3. CASE r \in saved
  BY <1>2, <1>3, SavedWhole
<1> QED BY <1>2, <1>3

\* A version is written that nothing saved counts on.
LEMMA SavedWrite ==
    ASSUME Typed, Typed', VersionKeepsSave, service' = service, Quiet' \subseteq Quiet,
           NEW w \in Versions, NEW q, slot' = [slot EXCEPT ![w] = q],
           \A r \in saved : Counts(r) => r.version # w,
           \A r \in saved' : \/ r \in saved
                             \/ Counts(r) => slot'[r.version] = Whole(r.save)
    PROVE  VersionKeepsSave'
<1>1. \A r \in saved : Counts(r) => slot'[r.version] = slot[r.version]
  BY SavedWhole DEF Typed
<1> QED BY <1>1, SavedPut

\* A save that returns is whole, and what counts on a version keeps it.
LEMMA SavedStep ==
    ASSUME Typed, Typed', PlaceInv, SaveInv, QuietInv, SlotInv, DeleteInv, VersionKeepsSave,
           NEW t \in Threads, Call(t) \/ Step(t)
    PROVE  VersionKeepsSave'
<1>0. service' = service /\ Quiet' \subseteq Quiet
  BY Constancy
<1>1. ASSUME NEW s \in Saves, SaveToMemory(t, s) PROVE VersionKeepsSave'
  <2> QED BY <1>1, <1>0, SavedSame DEF SaveToMemory
<1>2. ASSUME NEW s \in Saves, SaveToDatabase(t, s) PROVE VersionKeepsSave'
  <2> QED BY <1>2, <1>0, SavedSame DEF SaveToDatabase
<1>3. ASSUME NEW s \in Saves, SaveToFile(t, s) PROVE VersionKeepsSave'
  <2> QED BY <1>3, <1>0, SavedSame DEF SaveToFile
<1>4. ASSUME NEW v \in Versions, LoadAtOnce(t, v) PROVE VersionKeepsSave'
  <2> QED BY <1>4, <1>0, SavedSame DEF LoadAtOnce
<1>5. ASSUME NEW v \in Versions, LoadFromFile(t, v) PROVE VersionKeepsSave'
  <2> QED BY <1>5, <1>0, SavedSame DEF LoadFromFile
<1>6. CASE DeleteFromMemory(t)
  BY <1>6 DEF DeleteFromMemory, VersionKeepsSave
<1>7. CASE DeleteFromDatabase(t)
  <2> QED BY <1>7, <1>0, SavedSame DEF DeleteFromDatabase
<1>8. CASE DeleteFromFile(t)
  BY <1>8 DEF DeleteFromFile, VersionKeepsSave
<1>9. CASE AddReadsSize(t)
  <2> QED BY <1>9, <1>0, SavedSame DEF AddReadsSize
<1>10. CASE AddWritesSlot(t)
  <2>1. Saving(t) /\ at[t].save \in Saves /\ at[t] \in LocalType
    BY <1>10 DEF AddWritesSlot, Typed, SaveInv, Saving
  <2>2. PICK w \in Versions, q \in SlotType : w = at[t].size /\ q = slot[w]
    BY <2>1, Locals DEF Typed
  <2>3. PICK n \in [save : Saves, version : Versions] :
          n.save = at[t].save /\ n.version = at[t].version
          /\ n = [save |-> at[t].save, version |-> at[t].version]
    <3>1. at[t].save \in Saves /\ at[t].version \in Versions
      BY <2>1, Locals
    <3>2. PICK s \in Saves, v \in Versions : s = at[t].save /\ v = at[t].version
      BY <3>1
    <3>3. PICK n \in [save : Saves, version : Versions] : n = [save |-> s, version |-> v]
      OBVIOUS
    <3>4. n.save = s /\ n.version = v
      BY <3>3
    <3> QED BY <3>2, <3>3, <3>4
  <2>4. saved' = saved \cup {n}
    BY <1>10, <2>3 DEF AddWritesSlot, Return
  <2>5. CASE at[t].lost
    <3>1. slot' = slot
      BY <1>10, <2>5 DEF AddWritesSlot
    <3>2. ~Counts(n)
      BY <1>10, <2>1, <2>3, <2>5 DEF AddWritesSlot, Counts, PlaceInv, QuietInv, Finds
    <3>3. \A x \in saved' : Counts(x)' => x \in saved /\ Counts(x)
      BY <1>0, <2>4, <3>2 DEF Counts
    <3> QED BY <1>0, <3>1, <3>3 DEF VersionKeepsSave, Counts, Quiet, Typed
  <2>6. CASE ~at[t].lost
    <3>1. PICK r \in SlotType : r = Whole(at[t].save)
      BY <2>1, <2>2, Slots
    <3>2. slot'[w] = r /\ \A v \in Versions : v < w => slot'[v] = slot[v]
      BY <1>10, <2>6, <2>2, <3>1, AddWrites
    <3>3. service = "memory"
      BY <1>10 DEF AddWritesSlot, PlaceInv
    <3>4. \A x \in saved : Counts(x) => x.version < w /\ x.version \in Versions
      BY <1>10, <2>6, <2>1, <2>2, <3>3, SavedWhole, Wholes DEF AddWritesSlot, SlotInv,
         Counts
    <3>5. Counts(n) => slot'[n.version] = Whole(n.save)
      BY <1>10, <2>1, <2>2, <2>3, <3>1, <3>2, <3>3 DEF AddWritesSlot, Typed, Counts,
         QuietInv, Finds
    <3> QED BY <1>0, <2>4, <3>2, <3>4, <3>5, SavedPut
  <2> QED BY <2>5, <2>6
<1>11. CASE InsertIdentity(t)
  <2> QED BY <1>11, <1>0, SavedSame DEF InsertIdentity
<1>12. CASE QueryMax(t)
  <2> QED BY <1>12, <1>0, SavedSame DEF QueryMax
<1>13. CASE InsertVersion(t)
  <2>1. Saving(t) /\ at[t].save \in Saves /\ at[t] \in LocalType
    BY <1>13 DEF InsertVersion, Typed, SaveInv, Saving
  <2>2. PICK w \in Versions, q \in SlotType : w = at[t].version /\ q = slot[w]
    BY <2>1, Locals DEF Typed
  <2>3. PICK n \in [save : Saves, version : Versions] :
          n.save = at[t].save /\ n.version = at[t].version
          /\ n = [save |-> at[t].save, version |-> at[t].version]
    <3>1. at[t].save \in Saves /\ at[t].version \in Versions
      BY <2>1, Locals
    <3>2. PICK s \in Saves, v \in Versions : s = at[t].save /\ v = at[t].version
      BY <3>1
    <3>3. PICK n \in [save : Saves, version : Versions] : n = [save |-> s, version |-> v]
      OBVIOUS
    <3>4. n.save = s /\ n.version = v
      BY <3>3
    <3> QED BY <3>2, <3>3, <3>4
  <2>4. saved' = saved \cup {n}
    BY <1>13, <2>3 DEF InsertVersion, Return
  <2>5. PICK r \in SlotType : r = Whole(at[t].save)
    BY <2>1, <2>2, Slots
  <2>6. slot' = [slot EXCEPT ![w] = r]
    BY <1>13, <2>2, <2>5 DEF InsertVersion
  <2>7. \A x \in saved : Counts(x) => x.version # w
    BY <1>13, <2>2, SavedWhole, Slots DEF InsertVersion
  <2>8. Counts(n) => slot'[n.version] = Whole(n.save)
    BY <2>2, <2>3, <2>5, <2>6 DEF Typed
  <2> QED BY <1>0, <2>4, <2>6, <2>7, <2>8, SavedWrite
<1>14. CASE MakeDirectory(t)
  <2>1. Saving(t) /\ at[t].save \in Saves /\ at[t] \in LocalType
    BY <1>14 DEF MakeDirectory, Typed, SaveInv, Saving
  <2>2. PICK w \in Versions, q \in SlotType : w = at[t].version /\ q = slot[w]
    BY <2>1, Locals DEF Typed
  <2>3. saved' = saved
    BY <1>14 DEF MakeDirectory
  <2>4. PICK r \in SlotType : r = [q EXCEPT !.made = TRUE]
    BY <2>1, <2>2, Slots
  <2>5. slot' = [slot EXCEPT ![w] = r]
    BY <1>14, <2>2, <2>4 DEF MakeDirectory
  <2>6. service = "file"
    BY <1>14 DEF MakeDirectory, PlaceInv
  <2>7. \A x \in saved : Counts(x) => x.version # w
    BY <1>14, <2>1, <2>2, <2>6, SavedWhole, Wholes DEF SlotInv, Counts
  <2> QED BY <1>0, <2>3, <2>5, <2>7, SavedWrite
<1>15. CASE OpenContent(t)
  <2>1. Saving(t) /\ at[t].save \in Saves /\ at[t] \in LocalType
    BY <1>15 DEF OpenContent, Typed, SaveInv, Saving
  <2>2. PICK w \in Versions, q \in SlotType : w = at[t].version /\ q = slot[w]
    BY <2>1, Locals DEF Typed
  <2>3. saved' = saved
    BY <1>15 DEF OpenContent
  <2>4. PICK r \in SlotType : r = [q EXCEPT !.data = Torn]
    BY <2>1, <2>2, FilesAre, Slots
  <2>5. slot' = [slot EXCEPT ![w] = r]
    BY <1>15, <2>2, <2>4 DEF OpenContent
  <2>6. service = "file"
    BY <1>15 DEF OpenContent, PlaceInv
  <2>7. \A x \in saved : Counts(x) => x.version # w
    BY <1>15, <2>1, <2>2, <2>6, SavedWhole, Wholes DEF SlotInv, Counts
  <2> QED BY <1>0, <2>3, <2>5, <2>7, SavedWrite
<1>16. CASE WriteContent(t)
  <2>1. Saving(t) /\ at[t].save \in Saves /\ at[t] \in LocalType
    BY <1>16 DEF WriteContent, Typed, SaveInv, Saving
  <2>2. PICK w \in Versions, q \in SlotType : w = at[t].version /\ q = slot[w]
    BY <2>1, Locals DEF Typed
  <2>3. saved' = saved
    BY <1>16 DEF WriteContent
  <2>4. CASE at[t].lost
    <3>1. slot' = slot
      BY <1>16, <2>4 DEF WriteContent
    <3> QED BY <1>0, <2>3, <3>1, SavedSame
  <2>5. CASE ~at[t].lost
    <3>0. PICK f \in Files : slot' = [slot EXCEPT ![at[t].version].data = f]
      BY <1>16, <2>5, ContentWritten
    <3>1. PICK k \in SlotType : k = [q EXCEPT !.data = f]
      BY <2>2, Slots
    <3>2. slot' = [slot EXCEPT ![w] = k]
      BY <2>2, <3>0, <3>1
    <3>3. service = "file"
      BY <1>16 DEF WriteContent, PlaceInv
    <3>4. \A x \in saved : Counts(x) => x.version # w
      BY <1>16, <2>5, <2>1, <2>2, <3>3, SavedWhole, Wholes DEF SlotInv, Counts
    <3> QED BY <1>0, <2>3, <3>2, <3>4, SavedWrite
  <2> QED BY <2>4, <2>5
<1>17. CASE OpenMetadata(t)
  <2>1. Saving(t) /\ at[t].save \in Saves /\ at[t] \in LocalType
    BY <1>17 DEF OpenMetadata, Typed, SaveInv, Saving
  <2>2. PICK w \in Versions, q \in SlotType : w = at[t].version /\ q = slot[w]
    BY <2>1, Locals DEF Typed
  <2>3. saved' = saved
    BY <1>17 DEF OpenMetadata
  <2>4. PICK r \in SlotType : r = [q EXCEPT !.meta = Torn]
    BY <2>1, <2>2, FilesAre, Slots
  <2>5. slot' = [slot EXCEPT ![w] = r]
    BY <1>17, <2>2, <2>4 DEF OpenMetadata
  <2>6. service = "file"
    BY <1>17 DEF OpenMetadata, PlaceInv
  <2>7. \A x \in saved : Counts(x) => x.version # w
    BY <1>17, <2>1, <2>2, <2>6, SavedWhole, Wholes DEF SlotInv, Counts
  <2> QED BY <1>0, <2>3, <2>5, <2>7, SavedWrite
<1>18. CASE WriteMetadata(t)
  <2>1. Saving(t) /\ at[t].save \in Saves /\ at[t] \in LocalType
    BY <1>18 DEF WriteMetadata, Typed, SaveInv, Saving
  <2>2. PICK w \in Versions, q \in SlotType : w = at[t].version /\ q = slot[w]
    BY <2>1, Locals DEF Typed
  <2>3. PICK n \in [save : Saves, version : Versions] :
          n.save = at[t].save /\ n.version = at[t].version
          /\ n = [save |-> at[t].save, version |-> at[t].version]
    <3>1. at[t].save \in Saves /\ at[t].version \in Versions
      BY <2>1, Locals
    <3>2. PICK s \in Saves, v \in Versions : s = at[t].save /\ v = at[t].version
      BY <3>1
    <3>3. PICK n \in [save : Saves, version : Versions] : n = [save |-> s, version |-> v]
      OBVIOUS
    <3>4. n.save = s /\ n.version = v
      BY <3>3
    <3> QED BY <3>2, <3>3, <3>4
  <2>4. saved' = saved \cup {n}
    BY <1>18, <2>3 DEF WriteMetadata, Return
  <2>5. CASE at[t].lost
    <3>1. slot' = slot
      BY <1>18, <2>5 DEF WriteMetadata
    <3>2. ~Counts(n)
      BY <1>18, <2>1, <2>3, <2>5 DEF WriteMetadata, Counts, PlaceInv, QuietInv, Finds
    <3>3. \A x \in saved' : Counts(x)' => x \in saved /\ Counts(x)
      BY <1>0, <2>4, <3>2 DEF Counts
    <3> QED BY <1>0, <3>1, <3>3 DEF VersionKeepsSave, Counts, Quiet, Typed
  <2>6. CASE ~at[t].lost
    <3>0. PICK f \in Files : /\ q.meta = Torn => f = at[t].save
                             /\ slot' = [slot EXCEPT ![at[t].version].meta = f]
      BY <1>18, <2>2, <2>6, MetadataWritten
    <3>1. PICK r \in SlotType : r = [q EXCEPT !.meta = f]
      BY <2>2, Slots
    <3>2. slot' = [slot EXCEPT ![w] = r]
      BY <2>2, <3>0, <3>1
    <3>3. service = "file"
      BY <1>18 DEF WriteMetadata, PlaceInv
    <3>4. \A x \in saved : Counts(x) => x.version # w
      BY <1>18, <2>6, <2>1, <2>2, <3>3, SavedWhole, Wholes DEF SlotInv, Counts
    <3>5. Counts(n) => q.made /\ q.data = n.save /\ q.meta = Torn
      BY <1>18, <2>1, <2>2, <2>3, <3>3 DEF WriteMetadata, Counts, QuietInv, Finds
    <3>6. r.data = q.data /\ (Counts(n) => r.meta = n.save) /\ (q.made => r.made)
      BY <2>1, <2>3, <3>0, <3>1, <3>5 DEF SlotType
    <3>7. Counts(n) => r = Whole(n.save)
      BY <2>3, <3>5, <3>6, Wholes
    <3>8. Counts(n) => slot'[n.version] = Whole(n.save)
      BY <2>2, <2>3, <3>2, <3>7 DEF Typed
    <3> QED BY <1>0, <2>4, <3>2, <3>4, <3>8, SavedWrite
  <2> QED BY <2>5, <2>6
<1>19. CASE ReadMetadata(t)
  <2> QED BY <1>19, <1>0, SavedSame DEF ReadMetadata
<1>20. CASE ReadContent(t)
  <2> QED BY <1>20, <1>0, SavedSame DEF ReadContent
<1>21. CASE DeleteRow(t)
  BY <1>21 DEF DeleteRow, VersionKeepsSave
<1>22. CASE DeleteRoot(t)
  <2> QED BY <1>22, <1>0, SavedSame DEF DeleteRoot
<1>23. ASSUME NEW v \in Versions, DeleteDirectory(t, v) PROVE VersionKeepsSave'
  <2>1. service = "file" /\ pc[t] = "delete"
    BY <1>23 DEF DeleteDirectory, PlaceInv
  <2>2. \A r \in saved : ~Counts(r)
    BY <2>1 DEF DeleteInv, Counts
  <2>3. saved' = saved /\ slot' = [slot EXCEPT ![v] = NoVersion]
    BY <1>23 DEF DeleteDirectory
  <2> QED BY <1>0, <2>2, <2>3, SavedWrite
<1>24. CASE Fail(t)
  <2> QED BY <1>24, <1>0, SavedSame DEF Fail
<1> QED
  BY <1>1, <1>2, <1>3, <1>4, <1>5, <1>6, <1>7, <1>8, <1>9, <1>10, <1>11, <1>12, <1>13,
     <1>14, <1>15, <1>16, <1>17, <1>18, <1>19, <1>20, <1>21, <1>22, <1>23, <1>24,
     Zenon DEF Call, Step

-----------------------------------------------------------------------------
(* Deletes and loads                                                       *)

\* No save that ends beside a delete of its directory is quiet.
LEMMA DeleteStep ==
    ASSUME Typed, PlaceInv, QuietInv, DeleteInv, NEW t \in Threads, Call(t) \/ Step(t)
    PROVE  DeleteInv'
<1>0. service' = service /\ Quiet' \subseteq Quiet
  BY Constancy
<1>1. ASSUME NEW s \in Saves, SaveToMemory(t, s) PROVE DeleteInv'
  <2> QED BY <1>1, <1>0 DEF SaveToMemory, DeleteInv, Go
<1>2. ASSUME NEW s \in Saves, SaveToDatabase(t, s) PROVE DeleteInv'
  <2> QED BY <1>2, <1>0 DEF SaveToDatabase, DeleteInv, Go
<1>3. ASSUME NEW s \in Saves, SaveToFile(t, s) PROVE DeleteInv'
  <2> QED BY <1>3, <1>0 DEF SaveToFile, DeleteInv, Go
<1>4. ASSUME NEW v \in Versions, LoadAtOnce(t, v) PROVE DeleteInv'
  <2> QED BY <1>4, <1>0 DEF LoadAtOnce, DeleteInv
<1>5. ASSUME NEW v \in Versions, LoadFromFile(t, v) PROVE DeleteInv'
  <2> QED BY <1>5, <1>0 DEF LoadFromFile, DeleteInv, Go
<1>6. CASE DeleteFromMemory(t)
  <2> QED BY <1>6, <1>0 DEF DeleteFromMemory, DeleteInv
<1>7. CASE DeleteFromDatabase(t)
  <2> QED BY <1>7, <1>0 DEF DeleteFromDatabase, DeleteInv, Go
<1>8. CASE DeleteFromFile(t)
  <2> QED BY <1>8, <1>0 DEF DeleteFromFile, DeleteInv
<1>9. CASE AddReadsSize(t)
  <2> QED BY <1>9, <1>0 DEF AddReadsSize, DeleteInv, Go
<1>10. CASE AddWritesSlot(t)
  BY <1>10 DEF AddWritesSlot, PlaceInv, DeleteInv, Return, Leave, Go
<1>11. CASE InsertIdentity(t)
  <2> QED BY <1>11, <1>0 DEF InsertIdentity, DeleteInv, Go
<1>12. CASE QueryMax(t)
  <2> QED BY <1>12, <1>0 DEF QueryMax, DeleteInv, Go
<1>13. CASE InsertVersion(t)
  BY <1>13 DEF InsertVersion, PlaceInv, DeleteInv, Return, Leave, Go
<1>14. CASE MakeDirectory(t)
  <2> QED BY <1>14, <1>0 DEF MakeDirectory, DeleteInv, Go
<1>15. CASE OpenContent(t)
  <2> QED BY <1>15, <1>0 DEF OpenContent, DeleteInv, Go
<1>16. CASE WriteContent(t)
  <2> QED BY <1>16, <1>0 DEF WriteContent, DeleteInv, Go
<1>17. CASE OpenMetadata(t)
  <2> QED BY <1>17, <1>0 DEF OpenMetadata, DeleteInv, Go
<1>18. CASE WriteMetadata(t)
  <2> SUFFICES ASSUME NEW u \in Threads, pc'[u] = "delete", NEW r \in saved', r.save \in Quiet'
               PROVE  FALSE
    BY DEF DeleteInv
  <2>1. pc[u] = "delete" /\ u # t
    BY <1>18 DEF WriteMetadata, Return, Leave, Go
  <2>2. r \in saved \/ r.save = at[t].save
    BY <1>18 DEF WriteMetadata, Return
  <2>3. CASE r \in saved
    BY <1>0, <2>1, <2>3 DEF DeleteInv
  <2>4. CASE r.save = at[t].save
    <3>1. Saving(t) /\ at[t].save \in Quiet
      BY <1>18, <1>0, <2>4 DEF WriteMetadata, Saving, SavePlaces
    <3> QED BY <2>1, <3>1 DEF QuietInv, Alone, Deleting
  <2> QED BY <2>2, <2>3, <2>4
<1>19. CASE ReadMetadata(t)
  <2> QED BY <1>19, <1>0 DEF ReadMetadata, DeleteInv, Go
<1>20. CASE ReadContent(t)
  <2> QED BY <1>20, <1>0 DEF ReadContent, DeleteInv, Go, Leave
<1>21. CASE DeleteRow(t)
  <2> QED BY <1>21, <1>0 DEF DeleteRow, DeleteInv
<1>22. CASE DeleteRoot(t)
  <2> QED BY <1>22, <1>0 DEF DeleteRoot, DeleteInv
<1>23. ASSUME NEW v \in Versions, DeleteDirectory(t, v) PROVE DeleteInv'
  <2> QED BY <1>23, <1>0 DEF DeleteDirectory, DeleteInv
<1>24. CASE Fail(t)
  <2> QED BY <1>24, <1>0 DEF Fail, DeleteInv, Go, Leave
<1> QED
  BY <1>1, <1>2, <1>3, <1>4, <1>5, <1>6, <1>7, <1>8, <1>9, <1>10, <1>11, <1>12, <1>13,
     <1>14, <1>15, <1>16, <1>17, <1>18, <1>19, <1>20, <1>21, <1>22, <1>23, <1>24,
     Zenon DEF Call, Step

\* A caller that reads goes on with the version it reads, whose metadata stays.
KeepsLoad(u) ==
    /\ pc'[u] = "readContent" =>
         /\ pc[u] = "readContent"
         /\ ~at'[u].lost => /\ ~at[u].lost
                            /\ at'[u].version = at[u].version
                            /\ \/ got[u].meta \notin Quiet
                               \/ slot[at[u].version].meta # got[u].meta
                               \/ slot'[at[u].version].meta = got[u].meta
    /\ pc[u] \in {"readMetadata", "readContent"} =>
         pc'[u] \in {"readMetadata", "readContent"}

\* A step that leaves the loads alone, and what they read of the versions.
LEMMA LoadSame ==
    ASSUME Typed, LoadInv, Quiet' \subseteq Quiet, got' = got,
           disturbed' \in SUBSET Saves,
           \A u \in Threads : KeepsLoad(u)
    PROVE  LoadInv'
<1>1. disturbed \subseteq disturbed'
  BY DEF Typed, Quiet
<1>2. ASSUME NEW u \in Threads PROVE Loads(u)'
  BY <1>1 DEF LoadInv, Loads, KeepsLoad
<1> QED BY <1>2 DEF LoadInv

\* A load reads the content of the metadata it has read.
LEMMA LoadStep ==
    ASSUME Typed, Typed', PlaceInv, SaveInv, SlotInv, LoadInv,
           NEW t \in Threads, Call(t) \/ Step(t)
    PROVE  LoadInv'
<1>0. Quiet' \subseteq Quiet /\ disturbed' \in SUBSET Saves
  BY Constancy DEF Typed
<1>1. ASSUME NEW s \in Saves, SaveToMemory(t, s) PROVE LoadInv'
  <2>1. got' = got
    BY <1>1 DEF SaveToMemory
  <2>2. \A u \in Threads : KeepsLoad(u)
    BY <1>1 DEF SaveToMemory, Go, Begin, KeepsLoad
  <2> QED BY <1>0, <2>1, <2>2, LoadSame
<1>2. ASSUME NEW s \in Saves, SaveToDatabase(t, s) PROVE LoadInv'
  <2>1. got' = got
    BY <1>2 DEF SaveToDatabase
  <2>2. \A u \in Threads : KeepsLoad(u)
    BY <1>2 DEF SaveToDatabase, Go, Begin, KeepsLoad
  <2> QED BY <1>0, <2>1, <2>2, LoadSame
<1>3. ASSUME NEW s \in Saves, SaveToFile(t, s) PROVE LoadInv'
  <2>1. got' = got
    BY <1>3 DEF SaveToFile
  <2>2. \A u \in Threads : KeepsLoad(u)
    BY <1>3 DEF SaveToFile, Go, Begin, KeepsLoad
  <2> QED BY <1>0, <2>1, <2>2, LoadSame
<1>4. ASSUME NEW v \in Versions, LoadAtOnce(t, v) PROVE LoadInv'
  <2>1. disturbed' = disturbed /\ slot' = slot
    BY <1>4 DEF LoadAtOnce
  <2>2. \A u \in Threads : u # t => got'[u] = got[u] /\ pc'[u] = pc[u] /\ at'[u] = at[u]
    BY <1>4 DEF LoadAtOnce
  <2>3. \A u \in Threads : u # t => Loads(u)'
    BY <1>0, <2>1, <2>2 DEF LoadInv, Loads
  <2>4. PICK r \in SlotType : r = slot[v] /\ r.data = r.meta
    BY <1>4 DEF LoadAtOnce, Typed, SlotInv
  <2>5. got'[t] = [data |-> r.data, meta |-> r.meta, cut |-> FALSE] /\ pc'[t] = "idle"
    BY <1>4, <2>4 DEF LoadAtOnce, Typed
  <2>6. got'[t].data = got'[t].meta
    BY <2>4, <2>5
  <2>7. Loads(t)'
    BY <2>5, <2>6 DEF Loads
  <2> QED BY <2>3, <2>7 DEF LoadInv
<1>5. ASSUME NEW v \in Versions, LoadFromFile(t, v) PROVE LoadInv'
  <2>1. disturbed' = disturbed /\ slot' = slot
    BY <1>5 DEF LoadFromFile
  <2>2. \A u \in Threads : u # t => got'[u] = got[u] /\ pc'[u] = pc[u] /\ at'[u] = at[u]
    BY <1>5 DEF LoadFromFile, Go
  <2>3. \A u \in Threads : u # t => Loads(u)'
    BY <1>0, <2>1, <2>2 DEF LoadInv, Loads
  <2>4. pc'[t] = "readMetadata"
    BY <1>5 DEF LoadFromFile, Typed, Go
  <2>5. Loads(t)'
    BY <2>4 DEF Loads
  <2> QED BY <2>3, <2>5 DEF LoadInv
<1>6. CASE DeleteFromMemory(t)
  <2>1. got' = got
    BY <1>6 DEF DeleteFromMemory
  <2>2. \A u \in Threads : KeepsLoad(u)
    BY <1>6 DEF DeleteFromMemory, PlaceInv, KeepsLoad
  <2> QED BY <1>0, <2>1, <2>2, LoadSame
<1>7. CASE DeleteFromDatabase(t)
  <2>1. got' = got
    BY <1>7 DEF DeleteFromDatabase
  <2>2. \A u \in Threads : KeepsLoad(u)
    BY <1>7 DEF DeleteFromDatabase, Go, Deletes, KeepsLoad
  <2> QED BY <1>0, <2>1, <2>2, LoadSame
<1>8. CASE DeleteFromFile(t)
  <2>1. got' = got
    BY <1>8 DEF DeleteFromFile
  <2>2. \A u \in Threads : KeepsLoad(u)
    BY <1>8 DEF DeleteFromFile, Go, Deletes, KeepsLoad
  <2> QED BY <1>0, <2>1, <2>2, LoadSame
<1>9. CASE AddReadsSize(t)
  <2>1. got' = got
    BY <1>9 DEF AddReadsSize
  <2>2. \A u \in Threads : KeepsLoad(u)
    BY <1>9 DEF AddReadsSize, Go, KeepsLoad
  <2> QED BY <1>0, <2>1, <2>2, LoadSame
<1>10. CASE AddWritesSlot(t)
  <2>1. got' = got
    BY <1>10 DEF AddWritesSlot
  <2>2. \A u \in Threads : KeepsLoad(u)
    BY <1>10 DEF AddWritesSlot, Go, Return, Leave, PlaceInv, KeepsLoad
  <2> QED BY <1>0, <2>1, <2>2, LoadSame
<1>11. CASE InsertIdentity(t)
  <2>1. got' = got
    BY <1>11 DEF InsertIdentity
  <2>2. \A u \in Threads : KeepsLoad(u)
    BY <1>11 DEF InsertIdentity, Go, KeepsLoad
  <2> QED BY <1>0, <2>1, <2>2, LoadSame
<1>12. CASE QueryMax(t)
  <2>1. got' = got
    BY <1>12 DEF QueryMax
  <2>2. \A u \in Threads : KeepsLoad(u)
    BY <1>12 DEF QueryMax, Go, KeepsLoad
  <2> QED BY <1>0, <2>1, <2>2, LoadSame
<1>13. CASE InsertVersion(t)
  <2>1. got' = got
    BY <1>13 DEF InsertVersion
  <2>2. \A u \in Threads : KeepsLoad(u)
    BY <1>13 DEF InsertVersion, Go, Return, Leave, PlaceInv, KeepsLoad
  <2> QED BY <1>0, <2>1, <2>2, LoadSame
<1>14. CASE MakeDirectory(t)
  <2>1. got' = got
    BY <1>14 DEF MakeDirectory
  <2>2. \A u \in Threads : KeepsLoad(u)
    <3>1. ASSUME NEW u \in Threads, pc'[u] = "readContent"
          PROVE  /\ pc[u] = "readContent" /\ u # t
                 /\ at'[u] = at[u] /\ at[u].version \in Versions
      BY <1>14, <3>1, Locals DEF MakeDirectory, Typed, Go
    <3>2. Saving(t) /\ service = "file" /\ at[t].save \in Saves /\ at[t].version \in Versions
      BY <1>14 DEF MakeDirectory, Typed, PlaceInv, SaveInv, Saving
    <3>3. ASSUME NEW v \in Versions, slot[v].meta \in Quiet PROVE slot'[v].meta = slot[v].meta
      BY <1>14, <3>2, <3>3 DEF MakeDirectory
    <3>4. pc[t] \notin {"readMetadata", "readContent"}
      BY <1>14 DEF MakeDirectory
    <3>5. \A u \in Threads : u # t => pc'[u] = pc[u]
      BY <1>14 DEF MakeDirectory, Go
    <3> QED BY <3>1, <3>3, <3>4, <3>5 DEF KeepsLoad
  <2> QED BY <1>0, <2>1, <2>2, LoadSame
<1>15. CASE OpenContent(t)
  <2>1. got' = got
    BY <1>15 DEF OpenContent
  <2>2. \A u \in Threads : KeepsLoad(u)
    <3>1. ASSUME NEW u \in Threads, pc'[u] = "readContent"
          PROVE  /\ pc[u] = "readContent" /\ u # t
                 /\ at'[u] = at[u] /\ at[u].version \in Versions
      BY <1>15, <3>1, Locals DEF OpenContent, Typed, Go
    <3>2. Saving(t) /\ service = "file" /\ at[t].save \in Saves /\ at[t].version \in Versions
      BY <1>15 DEF OpenContent, Typed, PlaceInv, SaveInv, Saving
    <3>3. ASSUME NEW v \in Versions, slot[v].meta \in Quiet PROVE slot'[v].meta = slot[v].meta
      BY <1>15, <3>2, <3>3 DEF OpenContent
    <3>4. pc[t] \notin {"readMetadata", "readContent"}
      BY <1>15 DEF OpenContent
    <3>5. \A u \in Threads : u # t => pc'[u] = pc[u]
      BY <1>15 DEF OpenContent, Go
    <3> QED BY <3>1, <3>3, <3>4, <3>5 DEF KeepsLoad
  <2> QED BY <1>0, <2>1, <2>2, LoadSame
<1>16. CASE WriteContent(t)
  <2>1. got' = got
    BY <1>16 DEF WriteContent
  <2>2. \A u \in Threads : KeepsLoad(u)
    <3>1. ASSUME NEW u \in Threads, pc'[u] = "readContent"
          PROVE  /\ pc[u] = "readContent" /\ u # t
                 /\ at'[u] = at[u] /\ at[u].version \in Versions
      BY <1>16, <3>1, Locals DEF WriteContent, Typed, Go
    <3>2. Saving(t) /\ service = "file" /\ at[t].save \in Saves /\ at[t].version \in Versions
      BY <1>16, Locals DEF WriteContent, Typed, PlaceInv, SaveInv, Saving
    <3>3. ASSUME NEW v \in Versions, slot[v].meta \in Quiet PROVE slot'[v].meta = slot[v].meta
      BY <1>16, <3>2, <3>3 DEF WriteContent
    <3>4. pc[t] \notin {"readMetadata", "readContent"}
      BY <1>16 DEF WriteContent
    <3>5. \A u \in Threads : u # t => pc'[u] = pc[u]
      BY <1>16 DEF WriteContent, Go
    <3> QED BY <3>1, <3>3, <3>4, <3>5 DEF KeepsLoad
  <2> QED BY <1>0, <2>1, <2>2, LoadSame
<1>17. CASE OpenMetadata(t)
  <2>1. got' = got
    BY <1>17 DEF OpenMetadata
  <2>2. \A u \in Threads : KeepsLoad(u)
    <3>1. ASSUME NEW u \in Threads, pc'[u] = "readContent"
          PROVE  /\ pc[u] = "readContent" /\ u # t
                 /\ at'[u] = at[u] /\ at[u].version \in Versions
      BY <1>17, <3>1, Locals DEF OpenMetadata, Typed, Go
    <3>2. Saving(t) /\ service = "file" /\ at[t].save \in Saves /\ at[t].version \in Versions
      BY <1>17 DEF OpenMetadata, Typed, PlaceInv, SaveInv, Saving
    <3>3. ASSUME NEW v \in Versions, slot[v].meta \in Quiet PROVE slot'[v].meta = slot[v].meta
      BY <1>17, <3>2, <3>3 DEF OpenMetadata, SlotInv
    <3>4. pc[t] \notin {"readMetadata", "readContent"}
      BY <1>17 DEF OpenMetadata
    <3>5. \A u \in Threads : u # t => pc'[u] = pc[u]
      BY <1>17 DEF OpenMetadata, Go
    <3> QED BY <3>1, <3>3, <3>4, <3>5 DEF KeepsLoad
  <2> QED BY <1>0, <2>1, <2>2, LoadSame
<1>18. CASE WriteMetadata(t)
  <2>1. got' = got
    BY <1>18 DEF WriteMetadata
  <2>2. \A u \in Threads : KeepsLoad(u)
    <3>1. ASSUME NEW u \in Threads, pc'[u] = "readContent"
          PROVE  /\ pc[u] = "readContent" /\ u # t
                 /\ at'[u] = at[u] /\ at[u].version \in Versions
      BY <1>18, <3>1, Locals DEF WriteMetadata, Typed, Go, Return, Leave
    <3>2. Saving(t) /\ service = "file" /\ at[t].save \in Saves /\ at[t].version \in Versions
      BY <1>18 DEF WriteMetadata, Typed, Return, PlaceInv, Saving
    <3>3. ASSUME NEW v \in Versions, slot[v].meta \in Quiet PROVE slot'[v].meta = slot[v].meta
      BY <1>18, <3>2, <3>3 DEF WriteMetadata, SlotInv
    <3>4. pc[t] \notin {"readMetadata", "readContent"}
      BY <1>18 DEF WriteMetadata
    <3>5. \A u \in Threads : u # t => pc'[u] = pc[u]
      BY <1>18 DEF WriteMetadata, Go, Return, Leave
    <3> QED BY <3>1, <3>3, <3>4, <3>5 DEF KeepsLoad
  <2> QED BY <1>0, <2>1, <2>2, LoadSame
<1>19. CASE ReadMetadata(t)
  <2>1. disturbed' = disturbed /\ slot' = slot
    BY <1>19 DEF ReadMetadata
  <2>2. \A u \in Threads : u # t => got'[u] = got[u] /\ pc'[u] = pc[u] /\ at'[u] = at[u]
    BY <1>19 DEF ReadMetadata, Go
  <2>3. \A u \in Threads : u # t => Loads(u)'
    BY <1>0, <2>1, <2>2 DEF LoadInv, Loads
  <2>4. PICK r \in GotType : r = got[t]
    BY DEF Typed
  <2>5. PICK f \in Files : f = slot[at[t].version].meta /\ f \notin {Torn, Mixed}
    BY <1>19, Locals, Slots DEF ReadMetadata, Typed
  <2>6. got'[t] = [r EXCEPT !.meta = f]
    BY <1>19, <2>4, <2>5 DEF ReadMetadata, Typed
  <2>7. got'[t].meta = f
    BY <2>6
  <2>8. pc'[t] = "readContent" /\ at' = at
    BY <1>19 DEF ReadMetadata, Typed, Go
  <2>9. Loads(t)'
    BY <2>1, <2>5, <2>7, <2>8 DEF Loads
  <2> QED BY <2>3, <2>9 DEF LoadInv
<1>20. CASE ReadContent(t)
  <2>1. disturbed' = disturbed /\ slot' = slot
    BY <1>20 DEF ReadContent
  <2>2. \A u \in Threads : u # t => got'[u] = got[u] /\ pc'[u] = pc[u] /\ at'[u] = at[u]
    BY <1>20 DEF ReadContent, Typed, Go, Leave
  <2>3. \A u \in Threads : u # t => Loads(u)'
    BY <1>0, <2>1, <2>2 DEF LoadInv, Loads
  <2>4. PICK r \in GotType, l \in LocalType : r = got[t] /\ l = at[t]
    BY DEF Typed
  <2>5. PICK f \in Files : f = slot[l.version].data
    BY <2>4, Locals, Slots DEF Typed
  <2>6. got'[t] = [r EXCEPT !.data = f, !.cut = l.lost]
    BY <1>20, <2>4, <2>5 DEF ReadContent, Typed
  <2>7. got'[t].data = f /\ got'[t].meta = r.meta /\ (~got'[t].cut => ~l.lost)
    BY <2>6
  <2>8. pc'[t] = "idle"
    BY <1>20 DEF ReadContent, Typed, Leave, Go
  <2>9. ASSUME ~l.lost, r.meta \notin disturbed \cup {Missing} PROVE f = r.meta
    <3>1. r.meta \notin {Torn, Mixed} /\ r.meta \in Files
      BY <1>20, <2>4, Gots DEF ReadContent, LoadInv, Loads
    <3>2. r.meta \in Quiet
      BY <2>9, <3>1 DEF Files, Quiet
    <3>3. slot[l.version].meta = r.meta /\ l.version \in Versions
      BY <1>20, <2>4, <2>9, <3>2, Locals DEF ReadContent, LoadInv, Loads
    <3> QED BY <2>5, <3>2, <3>3 DEF SlotInv
  <2>10. Loads(t)'
    BY <2>1, <2>7, <2>8, <2>9 DEF Loads
  <2> QED BY <2>3, <2>10 DEF LoadInv
<1>21. CASE DeleteRow(t)
  <2>1. got' = got
    BY <1>21 DEF DeleteRow
  <2>2. \A u \in Threads : KeepsLoad(u)
    BY <1>21 DEF DeleteRow, Go, Leave, PlaceInv, KeepsLoad
  <2> QED BY <1>0, <2>1, <2>2, LoadSame
<1>22. CASE DeleteRoot(t)
  <2>1. got' = got
    BY <1>22 DEF DeleteRoot
  <2>2. \A u \in Threads : KeepsLoad(u)
    BY <1>22 DEF DeleteRoot, Go, Leave, KeepsLoad
  <2> QED BY <1>0, <2>1, <2>2, LoadSame
<1>23. ASSUME NEW v \in Versions, DeleteDirectory(t, v) PROVE LoadInv'
  <2>1. got' = got
    BY <1>23 DEF DeleteDirectory
  <2>2. \A u \in Threads : KeepsLoad(u)
    BY <1>23 DEF DeleteDirectory, KeepsLoad
  <2> QED BY <1>0, <2>1, <2>2, LoadSame
<1>24. CASE Fail(t)
  <2>1. disturbed' = disturbed /\ slot' = slot
    BY <1>24 DEF Fail
  <2>2. \A u \in Threads : u # t => got'[u] = got[u] /\ pc'[u] = pc[u] /\ at'[u] = at[u]
    BY <1>24 DEF Fail, Go, Leave
  <2>3. \A u \in Threads : u # t => Loads(u)'
    BY <1>0, <2>1, <2>2 DEF LoadInv, Loads
  <2>4. got'[t] = Nothing /\ pc'[t] = "idle"
    BY <1>24 DEF Fail, Typed, Leave, Go
  <2>5. got'[t].meta = Missing
    BY <2>4 DEF Nothing
  <2>6. Loads(t)'
    BY <2>4, <2>5 DEF Loads
  <2> QED BY <2>3, <2>6 DEF LoadInv
<1> QED
  BY <1>1, <1>2, <1>3, <1>4, <1>5, <1>6, <1>7, <1>8, <1>9, <1>10, <1>11, <1>12, <1>13,
     <1>14, <1>15, <1>16, <1>17, <1>18, <1>19, <1>20, <1>21, <1>22, <1>23, <1>24,
     Zenon DEF Call, Step

-----------------------------------------------------------------------------
(* The theorems                                                            *)

LEMMA InitInv == Init => Inv
<1> SUFFICES ASSUME Init PROVE Inv
  OBVIOUS
<1>1. TypeOK
  <2>1. /\ slot \in [Versions -> SlotType] /\ at \in [Threads -> LocalType]
        /\ got \in [Threads -> GotType]
    BY Locals, Slots, Gots DEF Init
  <2>2. pc \in [Threads -> SavePlaces \cup {"idle", "delete", "deleteRow",
                                           "readMetadata", "readContent"}]
    BY DEF Init
  <2>3. Typed
    <3>1. nDeletes \in 0..MaxDeletes
      BY ArtifactAssumption DEF Init
    <3>2. /\ service \in Services /\ exists \in BOOLEAN
          /\ sent \subseteq Saves /\ disturbed \subseteq Saves
          /\ saved \subseteq [save : Saves, version : Versions]
      BY DEF Init
    <3> QED BY <2>1, <2>2, <3>1, <3>2, Zenon DEF Typed
  <2>4. Made = {}
    BY Slots DEF Init, Made
  <2>5. Present
    BY <2>4 DEF Init, Present
  <2> QED BY <2>3, <2>5, TypeParts
<1>2. PlaceInv /\ SaveInv /\ QuietInv /\ DeleteInv
  BY DEF Init, PlaceInv, SaveInv, QuietInv, DeleteInv, Saving, SavePlaces
<1>3. CountInv
  BY Slots DEF Init, CountInv, Made, Undone
<1>4. SlotInv
  BY ArtifactAssumption, Wholes DEF Init, SlotInv, Quiet
<1>5. VersionKeepsSave
  BY DEF Init, VersionKeepsSave
<1>6. LoadInv
  BY DEF Init, LoadInv, Loads, Nothing
<1> QED BY <1>1, <1>2, <1>3, <1>4, <1>5, <1>6 DEF Inv

LEMMA NextInv == Inv /\ [Next]_vars => Inv'
<1> SUFFICES ASSUME Inv, [Next]_vars PROVE Inv'
  OBVIOUS
<1>1. Typed /\ Present
  BY TypeParts DEF Inv
<1>2. ASSUME NEW t \in Threads, Call(t) \/ Step(t) PROVE Inv'
  <2>1. Typed' /\ Present'
    BY <1>1, <1>2, TypedStep, PresentStep DEF Inv
  <2>2. PlaceInv' /\ SaveInv' /\ CountInv' /\ QuietInv'
    BY <1>1, <1>2, PlaceStep, SaveStep, CountStep, QuietStep DEF Inv
  <2>3. SlotInv' /\ VersionKeepsSave' /\ DeleteInv' /\ LoadInv'
    BY <1>1, <1>2, <2>1, SlotStep, SavedStep, DeleteStep, LoadStep DEF Inv
  <2>4. TypeOK'
    BY <2>1 DEF TypeOK, Typed, Present
  <2> QED BY <2>2, <2>3, <2>4 DEF Inv
<1>3. CASE UNCHANGED vars
  <2>1. TypeOK' /\ PlaceInv'
    BY <1>3 DEF vars, Inv, TypeOK, Made, PlaceInv
  <2>2. SaveInv' /\ CountInv'
    BY <1>3 DEF vars, Inv, SaveInv, CountInv, Saving, Undone, Done, Made
  <2>3. QuietInv' /\ SlotInv'
    BY <1>3, SameNext DEF vars, Inv, QuietInv, Quiet, Saving, Deleting, Alone, Finds,
       SlotInv
  <2>4. VersionKeepsSave' /\ DeleteInv' /\ LoadInv'
    BY <1>3 DEF vars, Inv, VersionKeepsSave, DeleteInv, LoadInv, Loads, Quiet
  <2> QED BY <2>1, <2>2, <2>3, <2>4 DEF Inv
<1> QED BY <1>2, <1>3 DEF Next, AtRest

LEMMA InvAlways == Spec => []Inv
<1>1. Init => Inv
  BY InitInv
<1>2. Inv /\ [Next]_vars => Inv'
  BY NextInv
<1> QED BY <1>1, <1>2, PTL DEF Spec

\* The three artifact services: the variables keep their types; no version
\* number leaves the range of the saves made, however many callers race, and
\* an artifact that was deleted leaves no version behind.
THEOREM ArtifactsTyped == Spec => []TypeOK
<1>1. Inv => TypeOK
  BY DEF Inv
<1> QED BY <1>1, InvAlways, PTL

\* SaveArtifactAsync: the version number it returned loads what was saved, in
\* the database whatever else went on, elsewhere if no other save overlapped it.
THEOREM VersionsKept == Spec => []VersionKeepsSave
<1>1. Inv => VersionKeepsSave
  BY DEF Inv
<1> QED BY <1>1, InvAlways, PTL

\* LoadArtifactAsync: a load that finds a quiet save's metadata returns the
\* whole content of that save, though it reads the two files apart.
THEOREM MetadataComplete == Spec => []MetadataMeansComplete
<1>1. Inv => MetadataMeansComplete
  BY DEF Inv, LoadInv, Loads, MetadataMeansComplete
<1> QED BY <1>1, InvAlways, PTL
=============================================================================
