-------------------------- MODULE ArtifactVersions --------------------------
(***************************************************************************)
(* The versions of one artifact in three implementations of                *)
(* IBaseArtifactService, called by the concurrent tools and requests of an *)
(* app: InMemoryArtifactService, a List in a dictionary; and               *)
(* FileArtifactService, a directory for each version; and                  *)
(* EfCoreArtifactService, a row for each version.  Each finds the next     *)
(* version number first and puts the artifact there later.                 *)
(*                                                                         *)
(* Abstractions: what is saved is a model value, its content and its       *)
(* metadata are known by it; a file is absent, half written, whole, or what *)
(* two have written into; the listings, which only read, are left out.  The *)
(* artifact is not called metadata.json, a name under which the file        *)
(* service would write the metadata over the content.                       *)
(***************************************************************************)
EXTENDS Integers, FiniteSets, FiniteSetsExt

CONSTANTS Threads,     \* concurrent callers
          Saves,       \* what they save, each once
          MaxDeletes,  \* bound: calls of DeleteArtifactAsync
          Missing,     \* a file that is not there
          Torn,        \* a file that was opened for writing and not written
          Mixed,       \* a file with the bytes of two who had it open at once
          NoSave

Versions == 0..Cardinality(Saves) - 1
Services == {"memory", "file", "database"}

ASSUME ArtifactAssumption ==
    /\ IsFiniteSet(Saves) /\ Saves # {} /\ MaxDeletes \in Nat
    /\ Missing \notin Saves /\ Torn \notin Saves /\ Mixed \notin Saves
    /\ NoSave \notin Saves /\ Missing # Torn

VARIABLES
    service,   \* which implementation
    exists,    \* the artifact's list, directory or identity row exists
    slot,      \* the versions: whether there is one, its content and metadata
    pc,        \* where in the service each caller is
    at,        \* its local variables there
    got,       \* what its last load returned, and whether a delete took the
               \* version away between its two reads
    sent,      \* saves that have begun
    nDeletes,  \* deletes called
    saved,     \* history: saves that returned since the last delete, with
               \* their version numbers
    disturbed  \* history: saves that overlapped another save or a delete

vars == <<service, exists, slot, pc, at, got, sent, nDeletes, saved, disturbed>>

NoVersion == [made |-> FALSE, data |-> Missing, meta |-> Missing]
Whole(s) == [made |-> TRUE, data |-> s, meta |-> s]
Nowhere == [save |-> NoSave, version |-> 0, size |-> 0, lost |-> FALSE]
Nothing == [data |-> Missing, meta |-> Missing, cut |-> FALSE]

Init ==
    /\ service \in Services
    /\ exists = FALSE
    /\ slot = [v \in Versions |-> NoVersion]
    /\ pc = [t \in Threads |-> "idle"]
    /\ at = [t \in Threads |-> Nowhere]
    /\ got = [t \in Threads |-> Nothing]
    /\ sent = {}
    /\ nDeletes = 0
    /\ saved = {}
    /\ disturbed = {}

Made == {v \in Versions : slot[v].made}
\* The size of the list; one more than the last directory or row.
NextVersion == IF Made = {} THEN 0 ELSE Max(Made) + 1

SavePlaces == {"add", "put", "identity", "number", "insert", "directory",
               "content", "write", "metadata", "writeMetadata"}
Saving(t) == pc[t] \in SavePlaces
Deleting(t) == pc[t] \in {"delete", "deleteRow"}

Go(t, place) == pc' = [pc EXCEPT ![t] = place]
Leave(t) == Go(t, "idle") /\ at' = [at EXCEPT ![t] = Nowhere]
Return(t) ==
    /\ saved' = saved \cup {[save |-> at[t].save, version |-> at[t].version]}
    /\ Leave(t)

\* A call that saves or deletes begins.
Overlap(S) ==
    LET busy == {t \in Threads : Saving(t) \/ Deleting(t)}
    IN  disturbed' = IF busy = {} THEN disturbed
                     ELSE (disturbed \cup S \cup {at[t].save : t \in busy}) \ {NoSave}

-----------------------------------------------------------------------------
(* SaveArtifactAsync                                                       *)

Begin(t, s) ==
    /\ pc[t] = "idle" /\ s \notin sent
    /\ sent' = sent \cup {s}
    /\ Overlap({s})

\* GetOrAdd and Count.
SaveToMemory(t, s) ==
    /\ service = "memory" /\ Begin(t, s)
    /\ exists' = TRUE
    /\ at' = [at EXCEPT ![t] = [Nowhere EXCEPT !.save = s, !.version = NextVersion]]
    /\ Go(t, "add")
    /\ UNCHANGED <<service, slot, got, nDeletes, saved>>

\* List.Add reads the size, and then writes the next size and the slot: a
\* size that is stale by then shortens the list.  A list that a delete took
\* out of the dictionary gets it all the same.
AddReadsSize(t) ==
    /\ pc[t] = "add"
    /\ at' = [at EXCEPT ![t].size = NextVersion]
    /\ Go(t, "put")
    /\ UNCHANGED <<service, exists, slot, got, sent, nDeletes, saved, disturbed>>

AddWritesSlot(t) ==
    /\ pc[t] = "put"
    /\ slot' = IF at[t].lost THEN slot
               ELSE [v \in Versions |-> IF v = at[t].size THEN Whole(at[t].save)
                                       ELSE IF v > at[t].size THEN NoVersion
                                       ELSE slot[v]]
    /\ Return(t)
    /\ UNCHANGED <<service, exists, got, sent, nDeletes, disturbed>>

\* The identity row is found, or has to be saved first.
SaveToDatabase(t, s) ==
    /\ service = "database" /\ Begin(t, s)
    /\ at' = [at EXCEPT ![t] = [Nowhere EXCEPT !.save = s]]
    /\ Go(t, IF exists THEN "number" ELSE "identity")
    /\ UNCHANGED <<service, exists, slot, got, nDeletes, saved>>

InsertIdentity(t) ==
    /\ pc[t] = "identity" /\ ~exists
    /\ exists' = TRUE
    /\ Go(t, "number")
    /\ UNCHANGED <<service, slot, at, got, sent, nDeletes, saved, disturbed>>

QueryMax(t) ==
    /\ pc[t] = "number"
    /\ at' = [at EXCEPT ![t].version = NextVersion]
    /\ Go(t, "insert")
    /\ UNCHANGED <<service, exists, slot, got, sent, nDeletes, saved, disturbed>>

\* A mutant: without the unique index.
InsertAnyway(t) ==
    /\ pc[t] = "insert" /\ exists
    /\ slot' = [slot EXCEPT ![at[t].version] = Whole(at[t].save)]
    /\ Return(t)
    /\ UNCHANGED <<service, exists, got, sent, nDeletes, disturbed>>

\* The foreign key wants the identity row, the index a new version number.
InsertVersion(t) ==
    /\ pc[t] = "insert" /\ exists /\ ~slot[at[t].version].made
    /\ slot' = [slot EXCEPT ![at[t].version] = Whole(at[t].save)]
    /\ Return(t)
    /\ UNCHANGED <<service, exists, got, sent, nDeletes, disturbed>>

SaveToFile(t, s) ==
    /\ service = "file" /\ Begin(t, s)
    /\ exists' = TRUE
    /\ at' = [at EXCEPT ![t] = [Nowhere EXCEPT !.save = s, !.version = NextVersion]]
    /\ Go(t, "directory")
    /\ UNCHANGED <<service, slot, got, nDeletes, saved>>

\* CreateDirectory makes what is missing and takes what is there.
MakeDirectory(t) ==
    /\ pc[t] = "directory"
    /\ exists' = TRUE
    /\ slot' = [slot EXCEPT ![at[t].version].made = TRUE]
    /\ Go(t, "content")
    /\ UNCHANGED <<service, at, got, sent, nDeletes, saved, disturbed>>

\* Opening a file for writing empties it, also one that another caller has
\* open where the system only advises against it; where it refuses, the call
\* throws (Fail).  What somebody else wrote since is overwritten as far as
\* the bytes go.
Written(file, s) == IF file = Torn THEN {s} ELSE {s, Mixed}

\* A mutant: the metadata is written before the content.
MetadataFirst(t) ==
    LET v == at[t].version IN
    /\ pc[t] = "content" /\ slot[v].made
    /\ slot' = [slot EXCEPT ![v].data = Torn, ![v].meta = at[t].save]
    /\ Go(t, "write")
    /\ UNCHANGED <<service, exists, at, got, sent, nDeletes, saved, disturbed>>

OpenContent(t) ==
    LET v == at[t].version IN
    /\ pc[t] = "content" /\ slot[v].made
    /\ slot' = [slot EXCEPT ![v].data = Torn]
    /\ Go(t, "write")
    /\ UNCHANGED <<service, exists, at, got, sent, nDeletes, saved, disturbed>>

WriteContent(t) ==
    /\ pc[t] = "write"
    /\ \E file \in Written(slot[at[t].version].data, at[t].save) :
           slot' = IF at[t].lost THEN slot
                   ELSE [slot EXCEPT ![at[t].version].data = file]
    /\ at' = [at EXCEPT ![t].lost = FALSE]
    /\ Go(t, "metadata")
    /\ UNCHANGED <<service, exists, got, sent, nDeletes, saved, disturbed>>

OpenMetadata(t) ==
    LET v == at[t].version IN
    /\ pc[t] = "metadata" /\ slot[v].made
    /\ slot' = [slot EXCEPT ![v].meta = Torn]
    /\ Go(t, "writeMetadata")
    /\ UNCHANGED <<service, exists, at, got, sent, nDeletes, saved, disturbed>>

WriteMetadata(t) ==
    /\ pc[t] = "writeMetadata"
    /\ \E file \in Written(slot[at[t].version].meta, at[t].save) :
           slot' = IF at[t].lost THEN slot
                   ELSE [slot EXCEPT ![at[t].version].meta = file]
    /\ Return(t)
    /\ UNCHANGED <<service, exists, got, sent, nDeletes, disturbed>>

-----------------------------------------------------------------------------
(* LoadArtifactAsync: a version or the latest                              *)

\* One look into the list, one query.
LoadAtOnce(t, v) ==
    /\ pc[t] = "idle" /\ service # "file" /\ v \in Made
    /\ got' = [got EXCEPT ![t] = [data |-> slot[v].data, meta |-> slot[v].meta,
                                cut |-> FALSE]]
    /\ UNCHANGED <<service, exists, slot, pc, at, sent, nDeletes, saved, disturbed>>

LoadFromFile(t, v) ==
    /\ pc[t] = "idle" /\ service = "file" /\ v \in Made
    /\ at' = [at EXCEPT ![t].version = v]
    /\ got' = [got EXCEPT ![t] = Nothing]
    /\ Go(t, "readMetadata")
    /\ UNCHANGED <<service, exists, slot, sent, nDeletes, saved, disturbed>>

\* Metadata that is missing is none; what is half written or mixed does not
\* parse.
ReadMetadata(t) ==
    LET v == at[t].version IN
    /\ pc[t] = "readMetadata" /\ slot[v].meta \notin {Torn, Mixed}
    /\ got' = [got EXCEPT ![t].meta = slot[v].meta]
    /\ Go(t, "readContent")
    /\ UNCHANGED <<service, exists, slot, at, sent, nDeletes, saved, disturbed>>

ReadContent(t) ==
    LET v == at[t].version IN
    /\ pc[t] = "readContent" /\ slot[v].data # Missing
    /\ got' = [got EXCEPT ![t].data = slot[v].data, ![t].cut = at[t].lost]
    /\ Leave(t)
    /\ UNCHANGED <<service, exists, slot, sent, nDeletes, saved, disturbed>>

-----------------------------------------------------------------------------
(* DeleteArtifactAsync                                                     *)

Deletes(t) ==
    /\ pc[t] = "idle" /\ exists /\ nDeletes < MaxDeletes
    /\ nDeletes' = nDeletes + 1

\* Callers that hold the list keep it.
DeleteFromMemory(t) ==
    /\ service = "memory" /\ Deletes(t)
    /\ exists' = FALSE
    /\ slot' = [v \in Versions |-> NoVersion]
    /\ at' = [u \in Threads |-> IF Saving(u) THEN [at[u] EXCEPT !.lost = TRUE] ELSE at[u]]
    /\ saved' = {}
    /\ Overlap({})
    /\ UNCHANGED <<service, pc, got, sent>>

DeleteFromDatabase(t) ==
    /\ service = "database" /\ Deletes(t)
    /\ Go(t, "deleteRow")
    /\ Overlap({})
    /\ UNCHANGED <<service, exists, slot, at, got, sent, saved>>

\* A mutant: no cascade to the versions.
DeleteRowOnly(t) ==
    /\ pc[t] = "deleteRow" /\ exists
    /\ exists' = FALSE
    /\ saved' = {}
    /\ Leave(t)
    /\ UNCHANGED <<service, slot, got, sent, nDeletes, disturbed>>

\* The version rows go with the identity row.
DeleteRow(t) ==
    /\ pc[t] = "deleteRow" /\ exists
    /\ exists' = FALSE
    /\ slot' = [v \in Versions |-> NoVersion]
    /\ saved' = {}
    /\ Leave(t)
    /\ UNCHANGED <<service, got, sent, nDeletes, disturbed>>

DeleteFromFile(t) ==
    /\ service = "file" /\ Deletes(t)
    /\ Go(t, "delete")
    /\ saved' = {}
    /\ Overlap({})
    /\ UNCHANGED <<service, exists, slot, at, got, sent>>

\* The tree goes directory by directory; a file that is open goes where the
\* system lets it, or makes the delete throw.
DeleteDirectory(t, v) ==
    /\ pc[t] = "delete" /\ v \in Made
    /\ slot' = [slot EXCEPT ![v] = NoVersion]
    /\ at' = [u \in Threads |->
                IF /\ pc[u] \in {"write", "writeMetadata", "readContent"}
                   /\ at[u].version = v
                  THEN [at[u] EXCEPT !.lost = TRUE] ELSE at[u]]
    /\ UNCHANGED <<service, exists, pc, got, sent, nDeletes, saved, disturbed>>

DeleteRoot(t) ==
    /\ pc[t] = "delete" /\ Made = {}
    /\ exists' = FALSE
    /\ Leave(t)
    /\ UNCHANGED <<service, slot, got, sent, nDeletes, saved, disturbed>>

-----------------------------------------------------------------------------
\* A call of the file or database service throws, for what it finds there or
\* because storage fails, or its process ends: what it did so far stays.
Fail(t) ==
    /\ pc[t] # "idle" /\ service # "memory"
    /\ Leave(t)
    /\ got' = [got EXCEPT ![t] = Nothing]
    /\ UNCHANGED <<service, exists, slot, sent, nDeletes, saved, disturbed>>

Step(t) ==
    \/ AddReadsSize(t) \/ AddWritesSlot(t)
    \/ InsertIdentity(t) \/ QueryMax(t) \/ InsertVersion(t)
    \/ MakeDirectory(t) \/ OpenContent(t) \/ WriteContent(t)
    \/ OpenMetadata(t) \/ WriteMetadata(t)
    \/ ReadMetadata(t) \/ ReadContent(t)
    \/ DeleteRow(t) \/ DeleteRoot(t) \/ \E v \in Versions : DeleteDirectory(t, v)
    \/ Fail(t)

Call(t) ==
    \/ \E s \in Saves : SaveToMemory(t, s) \/ SaveToDatabase(t, s) \/ SaveToFile(t, s)
    \/ \E v \in Versions : LoadAtOnce(t, v) \/ LoadFromFile(t, v)
    \/ DeleteFromMemory(t) \/ DeleteFromDatabase(t) \/ DeleteFromFile(t)

AtRest == /\ \A t \in Threads : pc[t] = "idle"
          /\ UNCHANGED vars

Next == AtRest \/ \E t \in Threads : Call(t) \/ Step(t)

Spec == Init /\ [][Next]_vars

-----------------------------------------------------------------------------
Files == Saves \cup {Missing, Torn, Mixed}
SlotType == [made : BOOLEAN, data : Files, meta : Files]
LocalType == [save : Saves \cup {NoSave}, version : Versions, size : Versions,
              lost : BOOLEAN]
GotType == [data : Files, meta : Files, cut : BOOLEAN]

TypeOK ==
    /\ service \in Services
    /\ exists \in BOOLEAN
    /\ slot \in [Versions -> SlotType]
    /\ \A v \in Versions : ~slot[v].made => slot[v] = NoVersion
    /\ Made # {} => exists
    /\ pc \in [Threads -> SavePlaces \cup {"idle", "delete", "deleteRow",
                                          "readMetadata", "readContent"}]
    /\ at \in [Threads -> LocalType]
    /\ got \in [Threads -> GotType]
    /\ sent \subseteq Saves /\ disturbed \subseteq Saves
    /\ nDeletes \in 0..MaxDeletes
    /\ saved \subseteq [save : Saves, version : Versions]

\* An acknowledged save stays what its version number loads until the
\* artifact is deleted, whatever else is saved, fails or ends half-way: in
\* the database always, elsewhere if no other save overlapped it.
VersionKeepsSave ==
    \A r \in saved : service = "database" \/ r.save \notin disturbed =>
        slot[r.version] = Whole(r.save)

\* Metadata is written last: a load that finds it returns the content it
\* describes, and whole, also after a save that ended half-way, unless that
\* save overlapped another or a delete came between the load's reads.
MetadataMeansComplete ==
    \A t \in Threads : LET g == got[t] IN
        pc[t] = "idle" /\ ~g.cut /\ g.meta \notin disturbed \cup {Missing} => g.data = g.meta

\* Two saves never return the same version number ("Saves an artifact and
\* returns its new version number", IBaseArtifactService).
FreshVersion == \A r, q \in saved : r.version = q.version => r = q
=============================================================================
