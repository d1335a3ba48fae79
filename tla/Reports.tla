-------------------------------- MODULE Reports --------------------------------
(***************************************************************************)
(* The report of one recording, its .ndjson file (daemon/src/analysis.rs,  *)
(* diag.rs): a line of metadata and a line per analyzed row.  Two tasks    *)
(* write it, each at an offset of its own: the diag thread appends while   *)
(* it records; the worker truncates the file and writes it anew when a     *)
(* re-analysis is asked for, of the recording under way too.               *)
(*                                                                         *)
(* A container makes one row, worth a line; a line is as long from either  *)
(* writer, both run the same heuristics until the daemon restarts.  Cell k *)
(* of the file is its k-th line; what is skipped over reads as zeros, and  *)
(* counts as a hole like the part of a line a failing write leaves.        *)
(***************************************************************************)
EXTENDS Naturals, Sequences

CONSTANTS
  MaxRows,      \* bound on the containers recorded
  MaxVersions,  \* how many sets of heuristics; a restart may bring the next
  MaxAsks,      \* bound on the re-analyses asked for
  MaxFaults     \* bound on crashes and failing calls

ASSUME ReportsAssumption ==
  /\ MaxRows \in Nat /\ MaxVersions \in Nat \ {0} /\ MaxAsks \in Nat /\ MaxFaults \in Nat

VARIABLES
  rec,      \* the recording: "on", "stopped", "deleted", or "dead": the current one
            \* still, but the diag thread has ended over a failing call
  version,  \* the heuristics this daemon was started with
  qmdl,     \* containers in the .qmdl file
  report,   \* the cells of the .ndjson file
  liveAt,   \* the live writer's offset
  owed,     \* a container is on disk and not analyzed yet; the store is locked
  notice,   \* RecordingFinished is on its way
  queued, running, finished,  \* AnalysisStatus, as far as this recording goes
  worker,   \* where perform_analysis is; "dead" once it has panicked
  workAt,   \* the worker's offset
  workMax,  \* containers there were when it looked
  asks, faults,
  cut       \* history: a call failed, or the daemon ended, with a row missing, and
            \* no analysis has gone over the recording since

fileVars   == <<qmdl, report, liveAt, owed>>
statusVars == <<notice, queued, running, finished>>
workVars   == <<worker, workAt, workMax>>
bounds     == <<asks, faults>>
vars == <<rec, version, fileVars, statusVars, workVars, bounds, cut>>

Hole        == [version |-> 0, row |-> 0]
Line(v, n)  == [version |-> v, row |-> n]  \* row 0: the metadata

\* Writing a line at an offset
WriteAt(f, at, line) ==
  [k \in 1..(IF Len(f) > at THEN Len(f) ELSE at + 1) |->
     IF k = at + 1 THEN line ELSE IF k <= Len(f) THEN f[k] ELSE Hole]

\* DiagTask::start has created the files and written the metadata
Init ==
  /\ rec = "on" /\ version = 1
  /\ qmdl = 0 /\ report = <<Line(1, 0)>> /\ liveAt = 1 /\ owed = FALSE
  /\ notice = FALSE /\ queued = FALSE /\ running = FALSE /\ finished = FALSE
  /\ worker = "idle" /\ workAt = 0 /\ workMax = 0
  /\ asks = MaxAsks /\ faults = MaxFaults /\ cut = FALSE

\* A write of a line that fails: none of it is there, or a part, which is no line
FailAt(at) ==
  report' \in {report, IF at < Len(report) THEN report ELSE WriteAt(report, at, Hole)}

-----------------------------------------------------------------------------
\* The diag thread.  process_container: to the .qmdl file first ...
Container ==
  /\ rec = "on" /\ ~owed /\ qmdl < MaxRows
  /\ qmdl' = qmdl + 1 /\ owed' = TRUE
  /\ UNCHANGED <<rec, version, report, liveAt, statusVars, workVars, bounds, cut>>

\* ... then AnalysisWriter::analyze.  Not: at the end the file has by now.
AppendRow ==
  /\ owed /\ owed' = FALSE
  /\ report' = Append(report, Line(version, liveAt))
  /\ liveAt' = liveAt + 1
  /\ UNCHANGED <<rec, version, qmdl, statusVars, workVars, bounds, cut>>
LiveRow ==
  /\ owed /\ owed' = FALSE
  /\ report' = WriteAt(report, liveAt, Line(version, liveAt))
  /\ liveAt' = liveAt + 1
  /\ UNCHANGED <<rec, version, qmdl, statusVars, workVars, bounds, cut>>

\* stop, and what a start over a running recording does: the writers are dropped
\* all the same, but nobody is told
Stop ==
  /\ rec = "on" /\ ~owed
  /\ rec' = "stopped" /\ notice' = TRUE
  /\ UNCHANGED <<version, fileVars, queued, running, finished, workVars, bounds, cut>>
StartAnother ==
  /\ rec = "on" /\ ~owed
  /\ rec' = "stopped"
  /\ UNCHANGED <<version, fileVars, statusVars, workVars, bounds, cut>>

\* delete_entry; the recording under way is stopped first
Delete ==
  /\ rec \in {"on", "stopped"} /\ ~owed
  /\ rec' = "deleted" /\ notice' = (notice \/ rec = "on")
  /\ UNCHANGED <<version, fileVars, queued, running, finished, workVars, bounds, cut>>

\* The modem cannot be read, or a write of either file fails: the diag thread
\* panics, the lock is given back, and the row of the container is left out
DiagFails ==
  /\ rec = "on" /\ faults > 0
  /\ rec' = "dead" /\ owed' = FALSE /\ faults' = faults - 1
  /\ IF owed THEN FailAt(liveAt) /\ cut' = TRUE ELSE UNCHANGED <<report, cut>>
  /\ UNCHANGED <<version, qmdl, liveAt, statusVars, workVars, asks>>

-----------------------------------------------------------------------------
\* start_analysis with queue_qmdl, which asks neither whether the recording
\* exists nor whether it is under way; it needs the store's read lock
CanAsk == asks > 0 /\ ~queued /\ ~running /\ ~owed
Ask ==
  /\ CanAsk
  /\ queued' = TRUE /\ asks' = asks - 1
  /\ UNCHANGED <<rec, version, fileVars, notice, running, finished, workVars, faults, cut>>

\* The worker takes one message at a time: a recording that has ended ...
Notice ==
  /\ worker = "idle" /\ notice
  /\ notice' = FALSE /\ finished' = TRUE
  /\ UNCHANGED <<rec, version, fileVars, queued, running, workVars, bounds, cut>>

\* ... or one to be analyzed, dequeue_to_running
Take ==
  /\ worker = "idle" /\ queued
  /\ queued' = FALSE /\ running' = TRUE /\ worker' = "open"
  /\ UNCHANGED <<rec, version, fileVars, notice, finished, workAt, workMax, bounds, cut>>

\* finish_running_analysis, whether it went well or not
Finish == running' = FALSE /\ finished' = TRUE /\ worker' = "idle"

\* perform_analysis: open both files under the store's lock, the report is
\* truncated; no entry, no analysis
Open ==
  /\ worker = "open" /\ ~owed
  /\ IF rec = "deleted"
     THEN Finish /\ UNCHANGED <<report, workAt>>
     ELSE /\ worker' = "meta" /\ report' = <<>> /\ workAt' = 0
          /\ UNCHANGED <<running, finished>>
  /\ UNCHANGED <<rec, version, qmdl, liveAt, owed, notice, queued, workMax, bounds, cut>>

\* Either file cannot be opened: before the report is truncated, or after
OpenFails ==
  /\ worker = "open" /\ ~owed /\ rec # "deleted" /\ faults > 0
  /\ \/ UNCHANGED <<report, cut>>
     \/ report' = <<>> /\ cut' = TRUE
  /\ Finish /\ faults' = faults - 1
  /\ UNCHANGED <<rec, version, qmdl, liveAt, owed, notice, queued, workAt, workMax, asks>>

\* AnalysisWriter::new, metadata().len(), then row by row up to that size.  Not:
\* without the last container; not: one row more than there are.
WriteLine == /\ report' = WriteAt(report, workAt, Line(version, workAt))
             /\ workAt' = workAt + 1
Meta ==
  /\ worker = "meta" /\ worker' = "size" /\ WriteLine
  /\ UNCHANGED <<rec, version, qmdl, liveAt, owed, statusVars, workMax, bounds, cut>>
SizeBefore ==
  /\ worker = "size" /\ worker' = "rows" /\ workMax' = IF qmdl > 0 THEN qmdl - 1 ELSE 0
  /\ cut' = FALSE /\ UNCHANGED <<rec, version, fileVars, statusVars, workAt, bounds>>
Size ==
  /\ worker = "size" /\ worker' = "rows" /\ workMax' = qmdl
  /\ cut' = FALSE /\ UNCHANGED <<rec, version, fileVars, statusVars, workAt, bounds>>
RowPast ==
  /\ worker = "rows" /\ workAt <= workMax + 1 /\ WriteLine
  /\ UNCHANGED <<rec, version, qmdl, liveAt, owed, statusVars, worker, workMax, bounds, cut>>
Row ==
  /\ worker = "rows" /\ workAt <= workMax /\ WriteLine
  /\ UNCHANGED <<rec, version, qmdl, liveAt, owed, statusVars, worker, workMax, bounds, cut>>
End ==
  /\ worker = "rows" /\ workAt > workMax /\ Finish
  /\ UNCHANGED <<rec, version, fileVars, notice, queued, workAt, workMax, bounds, cut>>

-----------------------------------------------------------------------------
\* A write of the worker fails: the error is logged and the rest is left out
WriteFails ==
  /\ faults > 0 /\ (worker = "meta" \/ (worker = "rows" /\ workAt <= workMax))
  /\ FailAt(workAt) /\ cut' = TRUE /\ Finish /\ faults' = faults - 1
  /\ UNCHANGED <<rec, version, qmdl, liveAt, owed, notice, queued, workAt, workMax, asks>>

\* Its reading of the recording fails, an expectation: the task is gone
ReadFails ==
  /\ faults > 0 /\ worker \in {"size", "rows"} /\ worker' = "dead"
  /\ cut' = TRUE /\ faults' = faults - 1
  /\ UNCHANGED <<rec, version, fileVars, statusVars, workAt, workMax, asks>>

\* The daemon restarts, after a crash or a change of configuration.
\* AnalysisStatus::new: whatever the manifest lists is finished.  Not: nothing is.
RestartWith(listed) ==
  /\ faults > 0 /\ faults' = faults - 1
  /\ version' \in {version, version + 1} /\ version' <= MaxVersions
  /\ rec' = IF rec = "deleted" THEN rec ELSE "stopped"
  /\ cut' = (cut \/ owed \/ worker \in {"meta", "size", "rows"})
  /\ owed' = FALSE /\ notice' = FALSE /\ queued' = FALSE /\ running' = FALSE
  /\ finished' = (listed /\ rec # "deleted") /\ worker' = "idle"
  /\ UNCHANGED <<qmdl, report, liveAt, workAt, workMax, asks>>
Restart == RestartWith(TRUE)

Record  == Container \/ LiveRow \/ Stop \/ StartAnother \/ Delete
Analyze == Notice \/ Take \/ Open \/ Meta \/ Size \/ Row \/ End
Fault   == DiagFails \/ OpenFails \/ WriteFails \/ ReadFails \/ Restart
Next    == Record \/ Ask \/ Analyze \/ Fault

Spec == Init /\ [][Next]_vars

-----------------------------------------------------------------------------
Cells == [version : 0..MaxVersions, row : 0..MaxRows]

TypeOK ==
  /\ rec \in {"on", "stopped", "deleted", "dead"} /\ version \in 1..MaxVersions
  /\ qmdl \in 0..MaxRows /\ liveAt \in 1..(MaxRows + 1) /\ owed \in BOOLEAN
  /\ report \in Seq(Cells)
  /\ notice \in BOOLEAN /\ queued \in BOOLEAN /\ running \in BOOLEAN
  /\ finished \in BOOLEAN /\ cut \in BOOLEAN
  /\ worker \in {"idle", "open", "meta", "size", "rows", "dead"}
  /\ workAt \in 0..(MaxRows + 1) /\ workMax \in 0..MaxRows
  /\ asks \in 0..MaxAsks /\ faults \in 0..MaxFaults

\* The metadata and a row of every container on disk, by one set of heuristics
Whole == \E v \in 1..MaxVersions :
           /\ Len(report) = qmdl + 1
           /\ \A k \in 1..(qmdl + 1) : report[k] = Line(v, k - 1)

\* Whenever the worker is done and no container is half way, the report is whole,
\* unless a failing call or the end of the daemon has cut it short and no analysis
\* has gone over the recording since: also when the recording went on through its
\* own re-analysis, the two of them writing at their own offsets of one file
\* (analysis.rs:138, 45-71).  An analysis makes good what was cut before it asked
\* for the size of the recording (154-158), not a live row that fails after.
ReportWhole == worker = "idle" /\ ~owed /\ ~cut => Whole

\* A line written is not overwritten by another, whichever of the two is ahead
\* (analysis.rs:64-71): a file is truncated, or a line stays.
LinesStay ==
  [][report' # <<>> => \A k \in DOMAIN report : report[k] # Hole => report'[k] = report[k]]_vars

\* A report never shows zeros where a line should be: "simply append new rows to
\* the end" (analysis.rs:30-34).
NoGaps == \A k \in DOMAIN report : report[k] # Hole

\* What is listed as finished has its whole report
FinishedWhole == finished /\ ~running /\ ~owed => Whole

=============================================================================
