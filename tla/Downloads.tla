------------------------------ MODULE Downloads ------------------------------
(***************************************************************************)
(* GET /api/zip/{name} (daemon/src/server.rs, pcap.rs) beside the          *)
(* recording store: the handler finds the entry and answers; a task of its *)
(* own then opens the recording twice, for the .qmdl and for the .pcapng   *)
(* of the archive.  Each of the three takes the store's read lock anew,    *)
(* that is, comes between two operations of RecordingStore; what is kept   *)
(* from one to the next is the entry's index and size.                     *)
(***************************************************************************)
EXTENDS RecordingStore

VARIABLES
  zip,         \* the next part to add, or how the archive ended
  wanted,      \* the recording asked for
  index, size, \* its place in the manifest and its size, when asked
  inQmdl,      \* the recording whose bytes went into <wanted>.qmdl, or 0
  bytes,       \* how many of them
  inPcap,      \* the recording <wanted>.pcapng was made from, or 0
  undisturbed  \* history: see below

task      == <<zip, wanted, index, size, inQmdl, bytes, inPcap>>
allVars   == <<vars, task, undisturbed>>

Under     == {"none", "qmdl", "pcap"}
Over      == {"done", "failed", "panicked", "endless"}

\* Nobody writes: the diag thread is between two operations, or dead
Readable  == step \in {"idle", "dead"}

InitAll ==
  /\ Init
  /\ zip = "none" /\ wanted = job /\ index = 0 /\ size = 0
  /\ inQmdl = 0 /\ bytes = 0 /\ inPcap = 0 /\ undisturbed = TRUE

-----------------------------------------------------------------------------
\* entry_for_name.  Not: the place as seen from the other end.
PlaceFromEnd(n) == CHOOSE i \in DOMAIN entries : IsFirst(Len(entries) + 1 - i, n)
Place(n) == CHOOSE i \in DOMAIN entries : IsFirst(i, n)

\* The handler: 404 without an entry, 503 while it is empty, else the answer
\* begins and the task is spawned.
GetZip(n) ==
  /\ zip = "none" /\ Readable
  /\ \E i \in DOMAIN entries : IsFirst(i, n)
  /\ entries[Place(n)].size > 0
  /\ zip' = "qmdl" /\ wanted' = n
  /\ index' = Place(n) /\ size' = entries[Place(n)].size
  /\ inQmdl' = 0 /\ bytes' = 0 /\ inPcap' = 0
  /\ undisturbed' = (entries[Place(n)].size <= qmdl[n] /\ n \in Files)
  /\ UNCHANGED vars

\* open_entry_qmdl(entry_index): an index out of range panics the task, a file
\* that is gone fails the archive
Opens(part) == /\ zip = part /\ Readable
               /\ index \in DOMAIN entries /\ entries[index].name \in Files
CannotOpen ==
  /\ zip \in {"qmdl", "pcap"} /\ Readable
  /\ \/ index \notin DOMAIN entries /\ zip' = "panicked"
     \/ /\ index \in DOMAIN entries /\ entries[index].name \notin Files
        /\ zip' = "failed"
  /\ UNCHANGED <<vars, wanted, index, size, inQmdl, bytes, inPcap, undisturbed>>

\* No more than the manifest announced
TakeSize(n) == IF qmdl[n] < size THEN qmdl[n] ELSE size

AddQmdl ==
  /\ Opens("qmdl")
  /\ inQmdl' = entries[index].name
  /\ bytes' = TakeSize(entries[index].name)
  /\ zip' = "pcap"
  /\ UNCHANGED <<vars, wanted, index, size, inPcap, undisturbed>>

\* generate_pcap_data reads until it has had `size` bytes.  QmdlReader answers
\* the end of a shorter file with one empty container after another.
AddPcap ==
  /\ Opens("pcap")
  /\ inPcap' = entries[index].name
  /\ zip' = IF qmdl[entries[index].name] < size THEN "endless" ELSE "done"
  /\ UNCHANGED <<vars, wanted, index, size, inQmdl, bytes, undisturbed>>

\* The client disconnects or a read fails: the task ends at its next write
Abandon ==
  /\ zip \in {"qmdl", "pcap"}
  /\ zip' = "failed"
  /\ UNCHANGED <<vars, wanted, index, size, inQmdl, bytes, inPcap, undisturbed>>

\* The store goes on meanwhile; a crash ends the task with the daemon.  (What
\* it does once the download is over is of no interest.)  Taking
\* an entry off the manifest, or truncating the file by starting a recording
\* of that name, disturbs a download.
StoreStep ==
  /\ zip \in Under
  /\ Next
  /\ zip' = IF step' = "down" THEN "none" ELSE zip
  /\ undisturbed' = (/\ undisturbed
                     /\ Len(entries') >= Len(entries)
                     /\ ~(step' = "ndjson" /\ job' = wanted))
  /\ UNCHANGED <<wanted, index, size, inQmdl, bytes, inPcap>>

DownloadStep == (\E n \in Names : GetZip(n)) \/ CannotOpen \/ AddQmdl \/ AddPcap \/ Abandon

NextAll == StoreStep \/ DownloadStep

SpecAll == InitAll /\ [][NextAll]_allVars

-----------------------------------------------------------------------------
TypeOKAll ==
  /\ zip \in Under \cup Over /\ wanted \in Names
  /\ index \in 0..MaxEntries /\ size \in 0..MaxSize
  /\ inQmdl \in Names \cup {0} /\ inPcap \in Names \cup {0}
  /\ bytes \in 0..size /\ undisturbed \in BOOLEAN

\* Recording on, new recordings and failed saves between the three holds of
\* the lock do no harm: unless an entry is deleted or the file truncated, both
\* parts are the recording asked for, and the first has the announced size.
UndisturbedZipIsWhole ==
  undisturbed =>
    /\ zip \notin {"panicked", "endless"}
    /\ inQmdl # 0 => inQmdl = wanted /\ bytes = size
    /\ inPcap # 0 => inPcap = wanted

\* qmdl_store.rs:252: open_entry_qmdl "Returns the corresponding QMDL file for
\* a given entry": what <wanted>.qmdl holds is the recording <wanted>
ZipHoldsRecording == inQmdl \in {0, wanted}

\* server.rs:332: "if we fail to generate the PCAP file, we should still
\* continue and give the user the QMDL": the archive is completed
PcapNeverHangs == zip # "endless"
=============================================================================
