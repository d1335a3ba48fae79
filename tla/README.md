# VNCSSDetector: specifications and proofs

TLA+ models of VNCSSDetector, TLC configurations that check them on small instances, and
theorems about them that TLAPS checks for every instance. Paths are relative to
`src/vncssdectector/daemon/src/` unless they start with `src/`.

## 1. The system

The repository holds three programs and their tools.

* `src/vncssdectector` (Rust, a fork of EFF's Rayhunter) runs on a 4G hotspot. A daemon reads
  diagnostic messages from the modem (`/dev/diag`), writes them to a recording (`.qmdl`), runs
  heuristics on them, appends the results to a second file (`.ndjson`) and shows warnings on
  the display. An HTTP API starts, stops, deletes, downloads and re-analyzes recordings.
* `src/vncssd-web` (FastAPI and Svelte) collects alerts and recordings from many detectors.
* `src/vncssd_client` (Flutter) shows them on a phone.

The daemon is one process with a single-threaded tokio runtime (`main.rs:169`). Its tasks
interleave at every `.await`; nothing interleaves between two of them.

| component | state | operations | talks to |
|---|---|---|---|
| recording store (`qmdl_store.rs`) | manifest, current entry; `manifest.toml`, `<name>.qmdl`, `<name>.ndjson` on flash | create, load, recover, new entry, close, update size, delete, delete all | file system |
| diag thread (`diag.rs`) | writers of the recording under way, highest severity seen | start, stop, delete, delete all, container, exit | device, store (lock), display, worker, notifications (channels) |
| analysis worker (`analysis.rs`) | names queued, running, finished | queue, take, analyze, finish, note a finished recording, exit | store and status (locks) |
| HTTP API (`server.rs`, `pcap.rs`, `stats.rs`) | none of its own | requests; downloads | all of the above |
| display (`display/`) | what is shown | a message, a redraw, exit | a channel |
| shutdown (`main.rs`) | restart token, shutdown token | ctrl-c, restart on a new configuration | store, diag thread, worker |
| notifications (`notifications.rs`) | time and failures per type | queue, send, back off | a channel, HTTP |
| battery (`battery/`) | whether low was notified | poll | notifications |
| keys (`key_input.rs`) | time of the last press | double press | diag thread |
| node client (`vncssd_client.rs`) | connection status, node configuration | connect, register, report, reconnect; not compiled at this commit | backend |
| diag device (`lib/src/diag_newdevice.rs`, `lib/src/diag_device.rs`) | the open device, its logging mode, the modem's log masks | open with retries, as a newer and then an older device; ask for mask sizes; set masks; read containers | ioctl, modem |
| diag protocol (`lib/src/hdlc.rs`, `diag.rs`) | - | frame, unframe, build a log mask | - |
| qmdl reader, writer (`lib/src/qmdl.rs`) | bytes read, bytes written | read up to a bound, write | file |
| harness, heuristics (`lib/src/analysis`) | `imsi_requested` keeps the state of the attach; the other six keep none | analyze a message, make a row | - |
| gsmtap and pcap (`lib/src/gsmtap*.rs`, `pcap.rs`) | - | log message to packet and back | files |
| reports (`analysis.rs`, `diag.rs`; `daemon/web`) | the `.ndjson` file, two writers' offsets; what the page shows | append a row, write anew, poll, fetch | store, HTTP |
| `check` (`src/vncssdectector/check`) | - | analyze a recording or a pcap file, convert | files |
| installers, `rootshell` | - | scripts | devices |
| backend (`src/vncssd-web/backend`) | sessions, node sockets, dashboards, recordings, alerts | accounts, uploads, alerts, broadcasts | SQL database |

### What is hard here

1. Crashes. Devices are unplugged. The store does several file-system calls per operation
   and syncs none of them; the order of the calls decides what survives.
2. Locks and bounded channels together. The store and the status are tokio `RwLock`s (fair, in
   order of request); channels hold 1 message (diag thread, display), 5 (worker), 10
   (notifications). Four places send on a full channel while they hold a lock that the
   channel's reader may be waiting for.
3. State read under one hold of a lock and used under another (`analysis.rs:197`).
4. Panics as error handling: an `.expect` that fails ends a task, not the daemon, and whoever
   waits for that task must notice.
5. Wall-clock names on devices without a clock.
6. Two tasks write one report, each at an offset of its own, and a page polls for it.
7. The same bytes are taken apart twice, live by container and later by terminator, while the file
   grows or ends in the middle of a message; damaged frames are among them.
8. A device that may not be there yet, that takes one of some forty forms of a request, and that
   answers among the logs an earlier start has left switched on.

`PROJECT.json` lists each hazard at its line, with the properties that catch it, or a note
where no property does yet.

## 2. Modules

| module | models |
|---|---|
| `RecordingStore` | `qmdl_store.rs`: every file-system call of every operation, its failure, a crash between any two |
| `Downloads` | `GET /api/zip` (`server.rs:264`, `pcap.rs`) composed with `RecordingStore` |
| `AnalysisQueue` | what the worker promises: recordings are analyzed one at a time, in the order queued, none queued twice |
| `Daemon` | the tasks of the daemon, their two locks and three channels; implements `AnalysisQueue` |
| `Reports` | the `.ndjson` file of one recording, written by the diag thread and the worker, with failing calls and restarts |
| `ReportsPage` | the device's web page beside `Reports`: the button, the poll, the fetch and its failure |
| `Notifications` | the notification worker, the battery worker and the diag thread as its senders |
| `Hdlc` | framing, checksum, and the way from a container back to messages, as functions |
| `InOrder` | what a recording promises: its reader gets what was put in, in order, each once |
| `QmdlStream` | the diag thread's writes, the announced size, the live analysis, a reader, a crash; implements `InOrder` |
| `ImsiRequested` | the one heuristic with a state of its own |
| `LogAnalysis` | from log message to report row, by way of the recording and by way of its pcap file; all heuristics |
| `DiagDevice` | the start of the daemon up to the diag thread: open, switch, configure; the modem beside it |
| `KeyInput` | the double press: the queue of events, the task, its two messages |
| `MC...` | model values and symmetry for TLC; `KeyInput`, `Notifications`, `Downloads`, `ReportsPage`, `ImsiRequested` need none |
| `RecordingStoreProofs` | safety of the store; an archive is the recording asked for unless a deletion or truncation comes between |
| `DaemonProofs` | safety of the tasks: the worker and its queue, the lock on the store, the panics, the display |
| `ReportsProofs` | a report nothing has cut short is whole when nobody is at it, lines stay, the page shows a first report as it is |
| `NotificationsProofs` | the debounce of warnings |
| `ImsiRequestedProofs` | safety of the heuristic; the pcap file tells what the recording tells |
| `QmdlStreamProofs` | frames come out as they went in; what is written, read back and analyzed live is the same |
| `DiagDeviceProofs` | how long the daemon waits for a device, and which logs are on when it records |
| `KeyInputProofs` | what counts as a double press |

### RecordingStore

Operations run under the store's write lock, so no two interleave: `step` names the file-system
call the operation does next, and between two calls only `Crash` can intervene (and
`Land`: the contents of the last manifest reach the disk). `entries` and `current` are
`manifest.entries` and `current_entry`; `saved` is what was last renamed to `manifest.toml`,
`landed` whether its contents, never flushed or synced by the code, reached the disk; `qmdl` and
`ndjson` are the files. `failed`, `doomed` and `skipped` are history the properties speak of. `Recover` lists the
`.qmdl` files it finds, except those whose `metadata()` or `modified()` fails: the code passes over
them with a warning and saves the manifest without them (`qmdl_store.rs:173-189`), and they are never
looked for again. `skipped` holds their names; the properties that say what the manifest keeps except
what was to be deleted (`doomed`) except these too (`Excused`).

Assumptions: the file system keeps metadata operations in order; a partly written manifest does
not parse, so `init_qmdl_store` recovers (`main.rs:102`); the clock may show any second at any
time; a crash may lose any bytes of the recording being written, and no others. "dead" is the
diag thread after one of its `.expect`s on a store operation or on a write to the recording: nothing
changes the store any more.
In debug mode the store is only loaded. Opening a file for reading changes nothing.

### Daemon

Each task is a small control state, each action runs from one `.await` that may wait to the next.
A lock is its queue of requests, the holders first; a request is granted when everything before
it allows (`Granted`). A channel is its queue of messages including those whose senders still
wait for room: the message at a place beyond the capacity has a blocked sender, and is withdrawn
when that sender is dropped.

* Diag thread: `DiagReceive`, `DiagReadContainer`, `DiagReadError` are the three outcomes of the
  `select!`; `DiagStart`, `DiagStop`+`DiagClose`, `DiagDeleteOther` and `DiagProcess` its work
  under the store's lock, `DiagRelease` the end of it. After a warning it holds the lock while it waits
  for room in the notification channel ("note", `diag.rs:207-217`); `NoteTake` is the notification
  worker making room, a step nothing promises. `DiagWarn` is what follows. `DiagFails` is any file-system
  call the thread expects to succeed; it and `DiagReadError` end the thread and leave the store's current
  entry as it was.
* Requests: `ClientSend`..`ClientNoReply` for start, stop and the deletions;
  `AnalyzeBegin`..`AnalyzeEnd` for `start_analysis`, which takes the status lock, then the store's,
  and holds both across its send; `HangUp` when the client disconnects and hyper drops the
  handler wherever it waits.
* Worker: `WorkerReceive` .. `WorkerFinish`, one action per hold of a lock; `WorkerReadFails` is a
  recording it cannot read, which its `.expect`s do not survive.
* Display: `UiDraw`, `UiExit`. Shutdown: `Restart`, `ShutdownBegin` .. `ShutdownEnd`.

Left out: what a storage failure leaves on flash (`RecordingStore` has it), the contents of the
notification channel (`Notifications` has them),
`AnalysisStatus.finished` (`Reports` has it), `debug_set_display_state`, handlers that only read,
containers that are not user-space log messages (they take and give back the lock). The
`key_input` task sends the messages of a `start` and a `stop` request (`KeyInput`). `run_diag_read_thread_new`
is a copy of `run_diag_read_thread` for another device. `start_analysis` with an empty name cannot
be reached through the route. The build modelled is the one where a panic ends its
task (`make.sh` builds `firmware-devel`); in the `firmware` profile (`.cargo/config.toml`,
`panic = "abort"`) each of these panics ends the daemon.

`AQ == INSTANCE AnalysisQueue WITH queued <- queued, running <- running` is the refinement mapping;
`ImplementsQueue == AQ!Spec` is a property of `daemon_run` and a theorem.

### Downloads

The handler reads the entry's index and size under the store's read lock (`GetZip`); the task it
spawns opens the recording by that index under a second (`AddQmdl`) and a third (`AddPcap`) hold,
or fails to (`CannotOpen`). A read lock is had only between two operations of the store, so
`Readable` says `step` is idle (or the diag thread dead, its lock released by the panic). Between
the three the store takes any steps of `RecordingStore` (`StoreStep`). `undisturbed` is history:
no entry was taken off the manifest and the file was not truncated since `GetZip`. Compression,
packets and the 8 kB pipe are left out; what counts is which file the bytes come from, how many
there are, and whether the task ends.

### Notifications

`Drain` is the inner loop over `try_recv`, which has no await, so it takes at most what the
channel holds. `Visit`, `PostSucceeds`, `PostFails` and `EndRound` are the loop over the statuses,
`WakeUp` the end of the pause; `Discard` is the whole worker when no URL is configured. Instants
are ages that stop counting where no comparison of the code can tell them apart; `Tick` is a
second during the pause or a post. `Detect`/`DiagSent` are the diag thread inside
`process_container`, which holds the store's lock until `DiagSent`; `BatteryPoll`/`BatterySent` are the
battery worker. `DiagEnds`, `BatteryEnds` drop the senders at shutdown. A newer message of a type replaces the
older, so a message is its type.

### Reports and ReportsPage

One recording. `report` is its file as a sequence of lines, `liveAt` and `workAt` are the two writers'
offsets; `WriteAt` fills what an offset beyond the end skips with `Hole` (zeros). A container is worth
one row; both writers run the same heuristics until a restart, which may bring the next version of
them. `Container`/`LiveRow` are the two halves of `process_container` (`owed` while the store is
locked), `Stop`, `StartAnother`, `Delete` the three ways a recording ends, `Ask` is `start_analysis`,
`Take`..`End` is `perform_analysis` between its awaits, `Notice` the message for a recording that ended.
`Restart` is `AnalysisStatus::new`, which lists every entry as finished. What fails: `DiagFails` (the modem
cannot be read, or a write of the diag thread fails: the thread is gone and the row left out; a container
that cannot be written leaves nothing of itself), `OpenFails` (one of the two files: before the report is
truncated or after), `WriteFails` (a line of the worker's, the analysis ends), `ReadFails` (the recording: the worker
is gone). A line that cannot be written may be there in part, which counts as a `Hole`. `cut` is history: a
fault has left a row out and no analysis has asked for the size of the recording since.
The page's `AskStatus` and `Apply` are the two ends of one poll, `Fetch` the report's answer (`Answer`: the
report, or an error if a line cannot be parsed), `FetchFails` the request that does not get through,
`Click`/`Clicked` the button.

### Hdlc and QmdlStream

Only the bytes with a meaning (0x7e, 0x7d, 0x5e, 0x5d) are told apart; `Crc` is any function to two
bytes. `Escape`, `Encapsulate`, `Decapsulate`, `Pieces`, `IntoMessages` are the code's functions.
`QmdlStream` sends groups of frames, some damaged, in messages of a container; `WriteMessage`, `Announce`,
`Analyze` are `process_container` step by step under one hold of the lock; `Crash` may leave part of a
message. The reader (`OpenReader`..`ReadEnd`) is told the announced size (a download) or the file's (a
re-analysis), and reads on while the writer writes on. A `write_all` of `tokio::fs::File` may return before the bytes are
in the file, so a size can be announced early; a reader that is told of more than there is waits at the end of the
file, so the model lets `WriteMessage` be the moment the bytes arrive. `intact`, `written`, `complete`, `due` are
history. `Stored == INSTANCE InOrder WITH sent <- written, got <- reread` is the refinement.

### ImsiRequested and LogAnalysis

A parsed message is one of five kinds, the only distinction `analyze_information_element` makes of it.
`Hear` is that function with `transition`; `NewRecording` is the fresh analyzer of each
`AnalysisWriter`. The history variables restate the document's chains without the analyzer's own state.

`LogAnalysis` extends it. A message has a log type, a header version, a PDU number and a body, which is
what it says once decoded, named for what a heuristic looks at. `Tables` are the five tables of
`log_to_gsmtap`; `TypeBytes` and `FromBytes` the way into the pcap file and back; `Finds` what each
heuristic without state looks for. `Message` gives one message to the recording's harness
(`AnalyzeMessage`), to the two conversions (`Convert`) and, as the packet, to the other harness
(`AnalyzePacket`), which has its own instance of the heuristic (`Pcap`).

### DiagDevice

`NewAttempts` and `OldAttempts` are the nested loops of the code flattened, in their order; a kind of
device is the set of requests it accepts. `Open` is one attempt of `new_with_retries` with the wait after
it, in units of 100 ms. `AskSizes`, `SetMask`, `ReadContainer`, `Skip` are `config_logs`; `Pack` builds a
mask bit by bit as `build_log_mask_request` does and `CodesOf` reads it as the modem does. The modem
(`Answer`, `Noise`) serves or refuses, puts logs around an answer, and sends short, foreign, damaged
containers. `Restart` leaves masks and mode as they are, or not: what an earlier start asked for is
answered among the next one's.

### KeyInput

Events wait in the kernel with the times they were made; the task tells the time when it reads. It reads
at once when it is free (`Tick`), and is not free while it waits for room in the diag thread's channel,
which `Others` fill. `keyupAt`, the time the release was made, is history.

## 3. Runs

| run | instance | shows |
|---|---|---|
| `recording_faults` | 2 names, 3 entries, 1 container per file, failures, crashes: 488 k states | no recording with data drops off the manifest on flash unless its deletion was asked for or a recovery could not read its file; the manifest names no missing `.qmdl`; delete's index arithmetic is right; memory and flash agree between operations |
| `daemon_run` | 2 clients, 2 requests of any kind, 2 recordings, capacities 1/1/5 as in the code, 1 container, failing calls, shutdown, restart and disconnections at any point: 1.6 M states | the tasks agree on what is recorded (as long as the diag thread lives), shown, queued; no recording is queued twice; the queue is implemented |
| `daemon_live` | 2 clients that stay, 3 requests to re-analyze or delete all, a worker's channel of 1, failing calls, fairness: 320 k states | no wake-up of the worker is lost; every request is answered and every queued recording analyzed, unless the worker's full channel deadlocks it, the notification worker makes no more room, or the worker dies of a recording it cannot read |
| `daemon_shutdown` | violation | the shutdown task holds the store across a send to a task that waits for the store: the daemon hangs |
| `downloads_beside` | 2 names, 2 entries, 2 containers, no power loss: 4.6 M states | unless an entry is deleted or the file truncated, the archive is the recording asked for, of the announced size |
| `notifications` | channel of 1, debounce 3 s, waits of 1, 2 and 4 s, pause 1 s, fairness: 135 k states | given a server that answers at last, no warning or low-battery notice is lost to failing posts or a full channel; the debounce holds; if every post ends, the diag thread gives the store back and the worker ends |
| `reports_page` | 3 containers, 2 sets of heuristics, 2 re-analyses, 2 faults: 1.5 M states | the report is whole whenever nobody is at it and nothing has cut it short since it was last gone over, also of a recording re-analyzed while it goes on; no line overwrites another; the page shows a first report as it is, or the error of a request that failed |
| `qmdl_stream` | 2 containers of up to two frames, 2 payloads of special bytes, frames cut in two or with a lone escape: 248 k states | an undamaged frame is read as it was sent, whatever is around it; a re-analysis sees the rows the live analysis saw; `InOrder` is implemented |
| `log_analysis` | every header version, PDU number and body in any order; threshold 10, all heuristics: 5304 states | the pcap file of a recording is analyzed to the same events; the documented chains warn, nothing else of the stateful heuristic does; an identity request left unanswered, with no connection since, is noticed in time |
| `sib_priority` | violation | cells that give 2G or 3G the highest priority make no warning, those that give it the lowest do |
| `diag_device` | 4 kinds of device, 4 modems of 3 log types, the code's 30 s, 100 ms and 5 s, 2 containers of noise, a restart, fairness: 158 k states | the diag thread starts with exactly the wanted logs on; both devices are tried long enough; every start ends |
| `key_input` | bounds of 1, 2 and 3 units in 6, 8 events, channel of 1, fairness: 498 k states | a double press is one that was made; no release counts twice; what the button stops it starts again |

Further configurations. More disagreements between the code and what its comments and documents
say can be shown with `tlc -config <file> <module>`; each is violated, and none is needed for the
results above. (`Daemon_work.cfg` of `MCDaemon`, a third request of any kind and a worker's channel of 1 instead of shutdown and
disconnections, where such a deadlock also lasts (`DeadlockLasts`),
and `QmdlStream_frames.cfg` of `MCQmdlStream`, one container of five payloads with any byte damaged, are
other instances, which pass.)

| configuration | module | property, and what its violation shows |
|---|---|---|
| `RecordingStore_same_second.cfg` | `MCRecordingStore` | `SizeIsValidBlock`: two recordings in one second share files, the older entry announces bytes that are gone, against `diag.rs:179` |
| `RecordingStore_reanalyze.cfg` | `MCRecordingStore` | `AnyRecordingCanBeReanalyzed`: power lost between the two `create`s leaves an entry without `.ndjson`, which `clear_and_open_entry_analysis` cannot open, against `doc/reanalyzing.md:9` |
| `Daemon_reanalyze.cfg` | `MCDaemon` | `NeverDeadlocked`: one client that re-analyzes again and again fills the worker's channel of 5 and stops worker and API for good |
| `Daemon_writer.cfg` | `MCDaemon` | `WriterHasEntry`: shutdown closes the entry before the diag thread stops writing, and the `.expect` at `diag.rs:196` fails |
| `Daemon_headless.cfg` | `MCDaemon` | `DiagSurvivesDetection`: without a display the first warning kills the diag thread |
| `Daemon_line.cfg` | `MCDaemon` | `LineShowsDetection`: a less severe warning in a new recording is not shown, against `doc/using-rayhunter.md:3` |
| `Downloads_wrong.cfg` | `Downloads` | `ZipHoldsRecording`: a deletion between the answer and the task's first look at the store puts another recording into the archive |
| `Downloads_endless.cfg` | `Downloads` | `PcapNeverHangs`: on a file shorter than announced, `QmdlReader` never ends, against `server.rs:332` |
| `Reports_gaps.cfg` | `Reports` | `NoGaps`: while a recording is re-analyzed under way, zeros stand where lines should be, against `analysis.rs:30-34` |
| `Reports_listed.cfg` | `Reports` | `FinishedWhole`: a re-analysis that failed or was cut short by a restart is listed as finished |
| `ReportsPage_stale.cfg` | `ReportsPage` | `ReportShown`: a re-analyzed recording is still in `finished`, so the page fetches its report while it is rewritten and never again, against `analysisManager.svelte.ts:11` |
| `QmdlStream_unterminated.cfg` | `MCQmdlStream` | `ReadsWhatWasDue`: a message without its terminator swallows the next one when the file is read, against `lib/src/qmdl.rs:98` |
| `ImsiRequested_release.cfg` | `ImsiRequested` | `RequestAfterReleaseWarns`: the counter of unanswered messages survives a disconnection, and its notice replaces the warning of a later request, against `doc/heuristics.md:30` |
| `LogAnalysis_download.cfg` | `MCLogAnalysis` | `DownloadHasEveryPacket`: one message with an unknown header ends the daemon's pcap download, against `pcap.rs:18` |
| `LogAnalysis_reported.cfg` | `MCLogAnalysis` | `EventIsReported`: rows without a warning are not written, against `doc/heuristics.md:35` |
| `DiagDevice_usb.cfg` | `MCDiagDevice` | `UsbOnlyIfMemoryFails`: USB mode with one peripheral mask is taken before memory mode with the next is tried, against `diag_newdevice.rs:374` |
| `DiagDevice_logs.cfg` | `MCDiagDevice` | `LogsAreSkipped`: a container of nothing but logs ends the daemon where logs beside an answer are skipped |

Beside what is run: `doc/heuristics.md:30-33` promises an alert when authentication does not follow an
identity request. What the code does, and `NoAuthIsNoticed` says, is less: an Informational event
(`imsi_requested.rs:168-181`), which `LogAnalysis_reported.cfg` shows is not written to the report, and none at all
if a connection comes first, since a connection ends the wait. An identity request as the very first message
is Informational too.

The type invariants of the other modules hold in the same instances (add `INVARIANT TypeOK`, `TypeOKAll` or
`TypeOKLogs` to their configurations); the runs keep to properties that say more. `NameOnce` follows from
`ImplementsQueue`.

Bounds and why they do. Two names and three entries give the two collisions there are (an older
entry of the same name, with and without another between). Two requests at once reach every
pair of tasks that compete for a lock, a third (`Daemon_work.cfg`) a queue behind a queue; channels of
capacity 1 fill with one request. The worker's channel of 5 fills only in `Daemon_reanalyze.cfg`, which
has the 24 requests this takes; in `daemon_live` it has a capacity of 1, so that three requests fill it and the
deadlock (`Deadlocked`: a sender waits for room in the channel, and the worker for a lock that sender holds) is
reached, over the status lock and over the store's, and what is claimed is that nothing else stops progress.
`Downloads` has no power loss: it would end the download with the daemon. Two entries are enough for
an index to be off by one and out of range. In `Notifications` the longest wait exceeds the pause, so
the back-off binds, and falls on either side of the debounce; a channel of 1 lets
each sender wait behind the other. Three containers let either writer of a report be ahead of the
other by two lines, two re-analyses let the second follow the first. The payloads of `qmdl_stream` are
the terminator and an escape sequence written backwards, its checksum takes every special value, and the second container lets
a reader lag behind the writer; `QmdlStream_frames.cfg` has more data instead: the empty payload, each special byte, damage that makes any byte any special one. `log_analysis` may use any threshold
that exceeds the length of the chains (four messages): a counter that reaches 10 behaves as one that
reaches 50. Masks of 0, 1, 3, 8, 9, 10, 16 and 22 bits are none, part of a byte, full bytes, and both. The times
of `key_input` keep the order of the code's 50, 100 and 800 ms with an instant between each two, and
leave room for two double presses in a row.

Deadlock is checked for the store and the log analysis, the stateful heuristic in it. It is not for those that end:
downloads, notifications, reports, the recording's bytes, the start-up (which ends when the diag thread
starts) and the button; nor for the daemon, whose clients and containers are bounded and which
may be told to stop: `RequestsAnswered`, `AnalysesFinish` and
`ShutdownCompletes` say instead what must not get stuck. Symmetry of clients is used for
safety only.

Fairness. `FairSpec` has weak fairness for each task: tokio polls a woken task again,
its locks and channels wake their waiters in order. A shutdown follows a cancelled token
(`main.rs:139`). Nothing is assumed of clients, the device or the user, nor of the notification worker: that it
makes room for the diag thread's message is a premise the liveness properties of `Daemon` state (`NotesTaken`). In
`Notifications` only time, the worker and its senders are fair. That a post ends in an answer or an error is
a premise (`PostsEnd`), as is that a server tried again and again answers at last (`TakenAtLast`):
`reqwest::Client::new()` sets no time limit (`notifications.rs:73`), and against a server that takes the connection and never
answers `StoreIsGivenBack` and `WorkerEnds` claim nothing, since one such post keeps the worker, the diag thread and
the store's lock for good. `WarningArrives` and `LowBatteryArrives` mean that the worker keeps trying.
In `DiagDevice` the daemon is one task and the
modem serves what it is asked: there is no timeout on an answer, so this is the modem's promise; that a device can ever be
opened is not assumed. In `KeyInput` the two sends are strongly fair: tokio's channel gives its room to
senders in the order they asked, so the button's turn comes however many others send.

## 4. Proofs

`tlapm` checks, from the constants' assumptions (and, where a theorem says so, one more of them), for any
number of clients, recordings, names and any capacities:

* `RecordingStoreProofs`: `StoreInv` is inductive; `CurrentEntryIsLast`, `OpenFilesStay`,
  `NothingLost`, `NothingDangling` and the action property `OnlyDoomedForgotten` follow.
  `NothingLost` and `OnlyDoomedForgotten` except what a recovery passed over (`Excused`), and `NothingDangling` speaks of `.qmdl` files only.
  The safety properties speak of what is on flash; they are not inductive because the next save
  writes what is in memory. `StoreInv` adds what memory owes to flash at each step:
  `EntriesComplete` (what the next save writes lists all that holds data), `EntriesBacked`
  (and only what has files), `OpenIsSaved`, `AllDoomed` for the loop of delete-all and `JobOK` for
  what a deletion under way works on. `TypesHold` follows too; `DiskMatchesMemory` needs only that nothing
  changes the manifest between an operation's save and its end.
  For `Downloads`, `UndisturbedIsWhole`: `DownloadInv` adds to the property what the task relies on
  while it has still to look: the index leads to the recording asked for, its file has the
  announced bytes, and no deletion is under way. It uses `StoreInv`, since
  every step of the composition is a step of the store or leaves it alone.
* `DaemonProofs`: `WorkerIsSafe` from `WorkInv` (only the worker shortens the queue, so the
  length it read is a lower bound until it has taken as many); `QueueImplemented`, the
  refinement, from the same invariant, and with it `QueuedOnce`; `NoWakeupLost` from `WakeInv` for clients that do
  not disconnect. (One that disconnects while the channel is full loses its wake-up, and its
  recording waits for the next one's.)
  `RecordingAgrees`, as long as the diag thread lives and nobody has told the daemon to stop, from `AgreeInv`: the lock excludes, so two tasks are
  never both granted if one of them writes. The lemmas on lock queues
  (`RemoveAtElements`, `ReleaseKeepsFirst`, ...) say so. Two more invariants stand on `AgreeInv`:
  `StopInv` for `NoPanicBeforeStop` (the display leaves, and the shutdown gets past the store, only when
  the daemon is told to stop), and `LineInv` for `LineTellsTheTruth`: what the display will show when it
  has drawn all it was sent agrees with what is recorded wherever the diag thread waits, except for the
  start it sent itself when it began. No theorem of the daemon needs fairness, or a bound on requests.
* `NotificationsProofs`: `DebounceKept`, since a warning marked for sending was outside the debounce when it was
  taken from the channel, and is itself the next one sent.
* `ImsiRequestedProofs`: `NoticeComes`, `ChainIsDetected`, `AfterAuthWarns`, `OnlyDocumentedWarnings`, for
  any threshold above 1. `AnalyzerInvariant` ties the analyzer's state and counter to the history.
  `HarnessRunsHeuristic` is a refinement: `LogAnalysis` over any set of messages, with any heuristics
  enabled, does what `ImsiRequested` does, so these theorems hold in the harness too. `PcapTells`:
  the two harnesses agree message by message; it rests on the lemma that a channel is what its bytes are
  read back as, and on the two heuristics being in the same state after every message.
* `ReportsProofs`: `ReportsWhole`, `LinesAreKept`, `TypeCorrect`, for any number of containers, re-analyses,
  versions and faults. `IInv` says of every cell that it is a hole or the line of its place, whose version
  is this daemon's, and which cells each writer has filled: unless a live row failed after the worker asked for the
  size of the recording, together they leave no hole behind the one who is behind. `FirstReportIsShown` is about `ReportsPage`, whose steps are steps of `Reports` or leave it
  alone (`PageDaemon`), so the other three hold there too. `PageInv` follows the first report to the page: as long as nobody has asked
  for a re-analysis the live writer alone writes; whoever knows of the end of the recording
  (the notice, the status, an answer on its way, the page) knows it after the last line; and a page that says finished
  is fetching the report, or shows what the daemon answers now, or the error of the request that failed.
* `QmdlStreamProofs`: first what the functions of `Hdlc` compute, for every input. Each is a loop over bytes;
  `FoldedFacts` gives the two equations of such a loop once, from the well-foundedness of the natural
  numbers (`Least`, `SetInduction`, `SeqInduction`), and the lemmas on pieces, escapes and groups follow by induction over the bytes.
  `RoundTrip`: what is encapsulated comes out of decapsulation as it was, for every payload and every checksum of two bytes.
  Then the stream. `ReadsAllThatWasDue`, `RereadsWhatWasLive`, `ReadsInOrder` (the
  refinement of `InOrder`), `IntactFramesAnalyzed` and `BytesStayCounted` assume
  that messages end in a terminator (`~Unterminated`; `QmdlStream_unterminated.cfg` shows why): `FileInv` says that the announced size and the
  end of the file fall between two frames until a crash, `ReaderInv` that a reader stands between two
  frames and has the rows before it, `LiveInv` that the rows on their way to the file are those on their way to the
  analysis, `IntactInv` which row each undamaged frame is. The rows a reader has had are then a prefix of the live ones,
  though it takes the file apart frame by frame and the live analysis each container whole.
  `FramesAssumption` is about types only: a checksum has two bytes, and a damaged frame is made of bytes too.
* `DiagDeviceProofs`: `TriesLongEnough`, for any limits, devices and modems. `Clock` bounds the wait of
  each of the two devices apart; the last delay is the only one that may go beyond the limit.
  `WantedLogsAreOn`, for any number of log types and bits, any wanted codes, any containers between the answers and
  any restarts. `MaskInv` follows an answer from the modem to the daemon: at most one is under way, none before its
  request is served, and by the time a good one can be read its mask is in place; what is no longer to do is done,
  whatever an earlier start left switched on. That a mask says what it should is `MaskBits`: an induction over
  the bits, with what is packed into whole bytes told from the byte being filled.
* `KeyInputProofs`: `ReleasesCountOnce` and the action property `RestartsOnDoublePress`, for any times with a positive bounce,
  any capacity and any number of presses. `KeyInv` counts: two releases for each double press, one for the release that
  waits for its second, at most half of the events read; and a task free to read has nothing
  old in its queue except behind what it will read first, so the time it reads an event at does not deceive it.

Every safety and action property of a passing run is a theorem, and so are the two refinements. Every inductive
invariant was checked on the run's instance first. Only model-checked: liveness (`RequestsAnswered`, `AnalysesFinish`,
`WarningArrives`, `LowBatteryArrives`, `StoreIsGivenBack`, `WorkerEnds`, `StartEnds`, `StopThenStart`), which needs fairness
and ENABLED, beyond this prover; the type invariants not named above, which no proof needs whole; and the
violations, which are counterexamples.

## 5. What is left

1. Proofs: the safety half of the liveness properties (that a task that waits is always in the queue of something that
   will serve it), and the type invariants of `Daemon`, `Notifications` and `LogAnalysis`.
2. The composition of `Daemon` with `RecordingStore`: which storage failure leaves what on flash while tasks wait for locks.
3. More than one recording in `Reports`: the order in which re-analyses of several share the worker.

Not modelled, and why:

* `vncssd_client.rs` (the detector's link to the backend) is in no `mod` of `main.rs` and never compiled.
* The backend's WebSocket handlers are imported by no router: nothing creates a recording, a result
  or (save these handlers) an alert, so what is left of the backend is requests that each read and write rows of a
  database in one transaction, and a dictionary of sessions that lapse.
* Installers, `rootshell`, packaging: scripts that run once.
* `telcom-parser/src/lte_rrc.rs`: 51,188 lines generated from ASN.1, four fifths of the repository's
  Rust. It is pure decoding; `LogAnalysis` takes a message by what it decodes to. No model of hand-written code
  covers a large share of lines counted with it.
* The web and mobile user interfaces beyond `ReportsPage`: views of the APIs above.
* Parsing of arguments and configuration, drawing, the bodies of log messages and headers of packets.
