--------------------------- MODULE RecordingStore ---------------------------
(***************************************************************************)
(* daemon/src/qmdl_store.rs: the recordings of the detector, kept twice,   *)
(* in memory (manifest.entries, current_entry) and on flash (manifest.toml *)
(* and one <name>.qmdl and <name>.ndjson per recording).                   *)
(*                                                                         *)
(* Every mutating operation runs under the daemon's store lock, so two     *)
(* operations never interleave; but each is a series of file-system calls, *)
(* any of which may fail, and the device may be switched off between two.  *)
(* `step` names the next file-system call of the operation under way.      *)
(*                                                                         *)
(* A recording is named by the wall clock in whole seconds, and these      *)
(* devices set their clock late and may set it backwards: the name of a    *)
(* new recording is any member of Names.                                   *)
(***************************************************************************)
EXTENDS Naturals, Sequences, FiniteSets, SequencesExt

CONSTANTS
  Names,       \* the seconds the clock can show
  MaxEntries,  \* bound on the length of the manifest
  MaxSize,     \* bound on the containers recorded into one file
  Crashes      \* whether the device may lose power or the daemon be killed

ASSUME NamesAssumption   == Names \subseteq Nat /\ IsFiniteSet(Names)
ASSUME BoundsAssumption  == MaxEntries \in Nat /\ MaxSize \in Nat
ASSUME CrashesAssumption == Crashes \in BOOLEAN

NoEntry == 0               \* current_entry = None; Some(i) is i + 1
Missing == MaxSize + 1     \* no such .qmdl file

Entry == [name : Names, size : 0..MaxSize]

VARIABLES
  entries,   \* RecordingStore.manifest.entries
  current,   \* RecordingStore.current_entry
  saved,     \* the entries written to the file last renamed to manifest.toml
  landed,    \* whether that write, never flushed or synced, reached the disk
  qmdl,      \* name -> bytes in <name>.qmdl, or Missing
  ndjson,    \* names n for which <n>.ndjson exists
  step,      \* the next file-system call, "idle", "down" or "dead"
  job,       \* the recording the operation works on
  kept,      \* delete_all_entries: entries whose files could not be removed
  failed,    \* whether the last write of the manifest failed
  doomed,    \* history: names whose deletion was asked for since their start
  skipped    \* history: names whose file the last recovery could not read

vars == <<entries, current, saved, landed, qmdl, ndjson, step, job, kept,
          failed, doomed, skipped>>

memory == <<entries, current>>
disk   == <<saved, landed, qmdl, ndjson>>
ghost  == <<failed, doomed, skipped>>

Steps == {"idle", "down", "dead", "ndjson", "save new", "save size",
          "save deletion", "unlink qmdl", "unlink ndjson",
          "unlink all", "save all"}

Listed(es) == {es[i].name : i \in DOMAIN es}
Files      == {n \in Names : qmdl[n] # Missing}

\* Here and below, a definition that no action uses, marked "Not:", is a
\* mistake the properties would catch.

\* is_current_entry.  Not: only if it is the first entry of that name.
IsCurrentByPosition(n) ==
  /\ current # NoEntry /\ entries[current].name = n
  /\ \A j \in 1..(current - 1) : entries[j].name # n
IsCurrent(n) == current # NoEntry /\ entries[current].name = n

\* position(): the first entry of that name
IsFirst(i, n) == /\ i \in DOMAIN entries
                 /\ entries[i].name = n
                 /\ \A j \in 1..(i - 1) : entries[j].name # n

\* RecordingStore::create on a fresh device: an empty manifest
Init ==
  /\ entries = <<>> /\ current = NoEntry
  /\ saved = <<>> /\ landed = FALSE
  /\ qmdl = [n \in Names |-> Missing] /\ ndjson = {}
  /\ step = "idle" /\ job \in Names /\ kept = <<>>
  /\ failed = FALSE /\ doomed = {} /\ skipped = {}

-----------------------------------------------------------------------------
\* write_manifest: create manifest.toml.new, hand it the contents, rename it.
\* Before the rename the old manifest stands; after it the contents may still
\* sit in a buffer, and nobody hears if they never reach the disk.
WriteManifest(after) ==
  /\ saved' = entries
  /\ landed' = FALSE
  /\ failed' = FALSE
  /\ step' = after
  /\ UNCHANGED <<memory, qmdl, ndjson, job, kept, doomed, skipped>>

WriteManifestFails(after) ==
  /\ failed' = TRUE
  /\ step' = after
  /\ UNCHANGED <<memory, disk, job, kept, doomed, skipped>>

Land ==
  /\ ~landed
  /\ landed' = TRUE
  /\ UNCHANGED <<memory, saved, qmdl, ndjson, step, job, kept, ghost>>

-----------------------------------------------------------------------------
\* new_entry: close what is open, create the .qmdl (truncating a file of that
\* name), create the .ndjson, append the entry, save.  The caller unwraps the
\* result: a failure kills the diag thread, the only user of the store.
NewEntry(n) ==
  /\ step = "idle"
  /\ Len(entries) < MaxEntries
  /\ current' = NoEntry
  /\ \/ /\ qmdl' = [qmdl EXCEPT ![n] = 0]
        /\ job' = n
        /\ step' = "ndjson"
        /\ doomed' = doomed \ {n}
        /\ skipped' = skipped \ {n}
     \/ /\ step' = "dead"
        /\ UNCHANGED <<qmdl, job, doomed, skipped>>
  /\ UNCHANGED <<entries, saved, landed, ndjson, kept, failed>>

CreateAnalysisFile ==
  /\ step = "ndjson"
  /\ \/ /\ ndjson' = ndjson \cup {job}
        /\ entries' = Append(entries, [name |-> job, size |-> 0])
        /\ current' = Len(entries')
        /\ step' = "save new"
     \/ /\ step' = "dead"
        /\ UNCHANGED <<memory, ndjson>>
  /\ UNCHANGED <<saved, landed, qmdl, job, kept, ghost>>

\* Not: go on recording when the manifest could not be saved.
SaveNewEntryOrNot ==
  /\ step = "save new"
  /\ WriteManifest("idle") \/ WriteManifestFails("idle")

SaveNewEntry ==
  /\ step = "save new"
  /\ WriteManifest("idle") \/ WriteManifestFails("dead")

\* process_container: one container goes to the file, the new total to the
\* manifest (update_entry_qmdl_size), then the save.  A write that fails,
\* whatever part of it reached the file, kills the diag thread.
RecordContainer ==
  /\ step = "idle"
  /\ current # NoEntry
  /\ LET n == entries[current].name IN
       /\ qmdl[n] < MaxSize
       /\ \/ /\ qmdl' = [qmdl EXCEPT ![n] = @ + 1]
             /\ entries' = [entries EXCEPT ![current].size = qmdl'[n]]
             /\ step' = "save size"
          \/ /\ qmdl' \in {qmdl, [qmdl EXCEPT ![n] = @ + 1]}
             /\ step' = "dead"
             /\ UNCHANGED entries
  /\ UNCHANGED <<current, saved, landed, ndjson, job, kept, ghost>>

\* Not: leave the save to the next operation.
SaveSizeLater ==
  /\ step = "save size"
  /\ step' = "idle"
  /\ UNCHANGED <<memory, disk, job, kept, ghost>>

SaveSize ==
  /\ step = "save size"
  /\ WriteManifest("idle") \/ WriteManifestFails("dead")

\* close_current_entry touches memory only
CloseCurrentEntry ==
  /\ step = "idle"
  /\ current # NoEntry
  /\ current' = NoEntry
  /\ UNCHANGED <<entries, disk, step, job, kept, ghost>>

-----------------------------------------------------------------------------
\* Where delete_entry leaves current_entry when it removes entry i.  Not: where
\* it was; two places down.
CurrentUnmoved(i) ==
  IF current \in {i, NoEntry} THEN NoEntry ELSE current
CurrentMovedTwice(i) ==
  IF current \in {i, NoEntry} THEN NoEntry ELSE current - 2
CurrentAfterDelete(i) ==
  IF current \in {i, NoEntry} THEN NoEntry ELSE current - 1

\* DiagTask::delete_entry stops the recording if it has that name, then
\* RecordingStore::delete_entry removes the first entry of that name, saves,
\* and only then unlinks the files.
DeleteEntry(n) ==
  /\ step = "idle"
  /\ \E i \in DOMAIN entries :
       /\ IsFirst(i, n)
       /\ entries' = RemoveAt(entries, i)
       /\ current' = IF IsCurrent(n) THEN NoEntry ELSE CurrentAfterDelete(i)
  /\ step' = "save deletion"
  /\ job' = n
  /\ doomed' = doomed \cup {n}
  /\ UNCHANGED <<disk, kept, failed, skipped>>

SaveDeletion ==
  /\ step = "save deletion"
  /\ WriteManifest("unlink qmdl") \/ WriteManifestFails("idle")

\* Not: look the name up again, at the position of the removed entry.
UnlinkSuccessor ==
  /\ step = "unlink qmdl"
  /\ entries # <<>>
  /\ qmdl' = [qmdl EXCEPT ![Head(entries).name] = Missing]
  /\ step' = "unlink ndjson"
  /\ UNCHANGED <<memory, saved, landed, ndjson, job, kept, ghost>>

UnlinkQmdl ==
  /\ step = "unlink qmdl"
  /\ \/ qmdl' = [qmdl EXCEPT ![job] = Missing] /\ step' = "unlink ndjson"
     \/ step' = "idle" /\ UNCHANGED qmdl
  /\ UNCHANGED <<memory, saved, landed, ndjson, job, kept, ghost>>

UnlinkAnalysis ==
  /\ step = "unlink ndjson"
  /\ ndjson' \in {ndjson \ {job}, ndjson}
  /\ step' = "idle"
  /\ UNCHANGED <<memory, saved, landed, qmdl, job, kept, ghost>>

\* delete_all_entries: close, unlink the files of each entry, keep the entries
\* whose files would not go, save at the very end.  `entries` holds the part
\* of the manifest the loop has still to visit.
DeleteAllEntries ==
  /\ step = "idle"
  /\ current' = NoEntry
  /\ kept' = <<>>
  /\ step' = "unlink all"
  /\ doomed' = doomed \cup Listed(entries)
  /\ UNCHANGED <<entries, disk, job, failed, skipped>>

UnlinkFilesOfNext ==
  /\ step = "unlink all"
  /\ entries # <<>>
  /\ LET e == Head(entries) IN
       \/ /\ qmdl' = [qmdl EXCEPT ![e.name] = Missing]
          /\ ndjson' = ndjson \ {e.name}
          /\ UNCHANGED kept
       \/ /\ qmdl' \in {qmdl, [qmdl EXCEPT ![e.name] = Missing]}
          /\ kept' = Append(kept, e)
          /\ UNCHANGED ndjson
  /\ entries' = Tail(entries)
  /\ UNCHANGED <<current, saved, landed, step, job, ghost>>

RetainKept ==
  /\ step = "unlink all"
  /\ entries = <<>>
  /\ entries' = kept
  /\ kept' = <<>>
  /\ step' = "save all"
  /\ UNCHANGED <<current, disk, job, ghost>>

SaveAll ==
  /\ step = "save all"
  /\ WriteManifest("idle") \/ WriteManifestFails("idle")

-----------------------------------------------------------------------------
\* Power loss, kill or restart, at any point of any operation.  Containers
\* still in the buffers of the recording under way may be lost.
Crash ==
  /\ Crashes
  /\ step # "down"
  /\ step' = "down"
  /\ entries' = <<>> /\ current' = NoEntry /\ kept' = <<>>
  /\ \/ UNCHANGED qmdl
     \/ /\ current # NoEntry
        /\ LET n == entries[current].name IN
             \E left \in 0..qmdl[n] : qmdl' = [qmdl EXCEPT ![n] = left]
  /\ UNCHANGED <<saved, landed, ndjson, job, ghost>>

\* init_qmdl_store: a manifest that parses is loaded as it is
Load ==
  /\ step = "down"
  /\ landed
  /\ entries' = saved
  /\ step' = "idle"
  /\ failed' = FALSE
  /\ UNCHANGED <<current, disk, job, kept, doomed, skipped>>

\* recover: one entry per .qmdl file whose metadata and time of change can be
\* read, sorted by the second in its name; it passes over the others with a
\* warning, and saves the manifest without them.  Not: one entry less, the
\* last file taken for the one being written.
RecoveredButLast(order) ==
  [i \in 1..(Len(order) - 1) |-> [name |-> order[i], size |-> qmdl[order[i]]]]
RecoveredFrom(order) ==
  [i \in DOMAIN order |-> [name |-> order[i], size |-> qmdl[order[i]]]]

Recover ==
  /\ step = "down"
  /\ ~landed
  /\ \E readable \in SUBSET Files :
       /\ \E order \in [1..Cardinality(readable) -> readable] :
            /\ \A i, j \in DOMAIN order : i < j => order[i] < order[j]
            /\ entries' = RecoveredFrom(order)
       /\ skipped' = Files \ readable
  /\ saved' = entries'
  /\ step' = "idle"
  /\ failed' = FALSE
  /\ UNCHANGED <<current, landed, qmdl, ndjson, job, kept, doomed>>

Next ==
  \/ \E n \in Names : NewEntry(n) \/ DeleteEntry(n)
  \/ CreateAnalysisFile \/ SaveNewEntry
  \/ RecordContainer \/ SaveSize
  \/ CloseCurrentEntry
  \/ SaveDeletion \/ UnlinkQmdl \/ UnlinkAnalysis
  \/ DeleteAllEntries \/ UnlinkFilesOfNext \/ RetainKept \/ SaveAll
  \/ Land
  \/ Crash \/ Load \/ Recover

Spec == Init /\ [][Next]_vars

-----------------------------------------------------------------------------
\* Every variable keeps its type; current_entry, when set, indexes the manifest
\* (every user of current_entry indexes without a check).
TypeOK ==
  /\ entries \in Seq(Entry) /\ saved \in Seq(Entry) /\ kept \in Seq(Entry)
  /\ current \in 0..Len(entries)
  /\ landed \in BOOLEAN /\ failed \in BOOLEAN
  /\ qmdl \in [Names -> 0..Missing]
  /\ ndjson \subseteq Names /\ doomed \subseteq Names /\ skipped \subseteq Names
  /\ step \in Steps
  /\ job \in Names

\* The open recording is always the last entry.  delete_entry relies on it: it
\* lowers current_entry by one whichever other entry it removes.
CurrentIsLast == current # NoEntry => current = Len(entries)

\* The files of the recording under way are never unlinked from under it, even
\* when an older entry has the same name and is deleted.
LiveFilesExist ==
  current # NoEntry =>
    LET n == entries[current].name IN qmdl[n] # Missing /\ n \in ndjson

\* What may be missing from the manifest: what was to be deleted, and what the
\* last recovery passed over because its file could not be read.
Excused == doomed \cup skipped

\* A recording that holds data is listed by the manifest on disk, at whatever
\* point of whatever operation the device is switched off, unless its deletion
\* was asked for or the last recovery could not read its file: neither a
\* failed create, write, rename or unlink nor a crash makes it unreachable.
\* (recover does: what it passes over once stays off the manifest.)
NoLostRecording ==
  \A n \in Names : qmdl[n] \in 1..MaxSize /\ n \notin Excused
                     => n \in Listed(saved)

\* The manifest on disk names no recording whose .qmdl is not there, unless
\* its deletion was asked for: new_entry saves only after it created the file.
\* (Its .ndjson may well be missing: see AnyRecordingCanBeReanalyzed.)
NoDanglingEntry ==
  \A n \in Listed(saved) : n \in Files \/ n \in doomed

\* Between two operations manifest.toml holds the manifest in memory, unless
\* the last write failed: what a restart loads is what the user was shown.
DiskMatchesMemory == step = "idle" /\ ~failed => saved = entries

\* No step, crash, load or recovery takes a recording off the manifest on disk
\* unless its deletion was asked for, or the step is a recovery that could not
\* read the metadata of its file.
ForgetsOnlyDoomed ==
  [][\A n \in Listed(saved) : n \in Listed(saved') \cup Excused']_vars

\* Each entry's size is a "valid block of data" of its file (diag.rs:179), so
\* that a download, which announces that size, can be served.
SizeIsValidBlock ==
  step = "idle" =>
    \A i \in DOMAIN entries :
      entries[i].name \in Files => entries[i].size <= qmdl[entries[i].name]

\* "You can re-analyze any old recording" (doc/reanalyzing.md): re-analysis
\* truncates the .ndjson file but never creates it, so it must exist.
AnyRecordingCanBeReanalyzed ==
  step = "idle" => Listed(entries) \subseteq ndjson \cup doomed

-----------------------------------------------------------------------------
\* The inductive invariant: what holds between the file-system calls, too.

WithData == {n \in Names : qmdl[n] \in 1..MaxSize}

\* Nothing is open while the store is down, being filled or being emptied.
NothingOpen ==
  step \in {"down", "ndjson", "unlink all", "save all"} => current = NoEntry

\* The job of an operation under way: a deletion never has the open recording
\* for its job, a new recording has its file and is wanted.
JobOK ==
  /\ step = "ndjson" => job \in Files \ Excused
  /\ step \in {"save deletion", "unlink qmdl", "unlink ndjson"} =>
       /\ job \in doomed
       /\ current # NoEntry => entries[current].name # job

\* What the next save would write names no missing file.
EntriesBacked == Listed(entries) \subseteq Files \cup doomed

\* What the next save would write lists every recording that holds data, and
\* every recording the last save listed.
EntriesComplete ==
  /\ step \notin {"down", "dead"} => WithData \subseteq Listed(entries) \cup Excused
  /\ step \notin {"down", "dead", "ndjson"} =>
       Listed(saved) \subseteq Listed(entries) \cup Excused
  /\ step = "ndjson" => Listed(saved) \subseteq Listed(entries) \cup Excused \cup {job}

\* delete_all_entries works on recordings all of which are to go, and leaves
\* none but what a recovery passed over.
AllDoomed ==
  step \in {"unlink all", "save all"} =>
    /\ Listed(entries) \cup Listed(kept) \subseteq doomed
    /\ WithData \cup Listed(saved) \subseteq Excused

\* The recording under way was saved before its first container arrives.
OpenIsSaved ==
  current # NoEntry /\ step \notin {"save new", "dead"} =>
    entries[current].name \in Listed(saved)

StoreInv ==
  /\ TypeOK
  /\ CurrentIsLast /\ LiveFilesExist /\ NoLostRecording /\ NoDanglingEntry
  /\ NothingOpen /\ JobOK /\ EntriesBacked /\ EntriesComplete /\ AllDoomed
  /\ OpenIsSaved
=============================================================================
