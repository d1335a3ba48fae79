------------------------------- MODULE Daemon -------------------------------
(***************************************************************************)
(* The tasks of the detector and what they share (daemon/src/main.rs,      *)
(* diag.rs, analysis.rs, display/): the diag thread that records, the      *)
(* worker that re-analyzes old recordings, the HTTP handlers, the display  *)
(* and the shutdown task; two read-write locks, on the recording store and *)
(* on the analysis status; three bounded channels.                         *)
(*                                                                         *)
(* A lock is its queue of requests: tokio's RwLock is fair, so a request   *)
(* is granted when everything queued before it is released or compatible.  *)
(* A channel is its queue of messages, those of senders still waiting for  *)
(* room included: a message beyond the capacity has a blocked sender.      *)
(* What the store keeps of a recording is RecordingStore's matter; here it *)
(* matters only whether the store has a current entry.                     *)
(***************************************************************************)
EXTENDS Naturals, Sequences, SequencesExt

CONSTANTS
  Clients,       \* who makes HTTP requests, one at a time
  Ops,           \* what a request may ask for
  Recordings,    \* recordings whose re-analysis is asked for
  DiagCap, UiCap, AnalysisCap,  \* channel capacities; the code: 1, 1, 5
  MaxContainers, \* bound on the containers read from the diag device
  MaxRequests,   \* bound on the requests made
  MaxType,       \* the highest severity of a heuristic; the code: 3
  Headless,      \* a device without a display
  Stops,         \* whether the daemon may be stopped or restarted
  HangUps        \* whether a client may disconnect before it is answered

ASSUME CapsAssumption ==
  /\ DiagCap \in Nat \ {0} /\ UiCap \in Nat \ {0} /\ AnalysisCap \in Nat \ {0}
ASSUME BoundsAssumption ==
  MaxContainers \in Nat /\ MaxRequests \in Nat /\ MaxType \in Nat
ASSUME FlagsAssumption  ==
  Headless \in BOOLEAN /\ Stops \in BOOLEAN /\ HangUps \in BOOLEAN
ASSUME OpsAssumption ==
  Ops \subseteq {"start", "stop", "delete", "delete all", "analyze"}
ASSUME ClientsAssumption == Clients \cap {"diag", "worker", "shutdown"} = {}

Nobody == "nobody"
ASSUME RecordingsAssumption == Nobody \notin Recordings

VARIABLES
  storeQ,     \* qmdl_store_lock: requests, granted ones first
  statusQ,    \* analysis_status_lock
  diagCh, uiCh, analysisCh,
  current,    \* store.current_entry is Some
  queued,     \* AnalysisStatus.queued
  running,    \* AnalysisStatus.running, or Nobody
  diag,       \* where the diag thread is
  task,       \* the message or container it works on
  recording,  \* DiagTask.state is Recording
  maxSeen,    \* DiagTask.max_type_seen
  containers, \* containers the device has still to deliver
  worker,     \* where the analysis thread is
  todo,       \* iterations left of its for loop
  shutdown,   \* where the shutdown task is
  token,      \* shutdown_token is cancelled
  client,     \* where each request is
  wants,      \* what each request asks for
  requests,   \* requests still to be made
  uiAlive,    \* the display task still holds its receiver
  display,    \* what the display shows
  detected    \* history: highest severity detected in this recording

locks    == <<storeQ, statusQ>>
channels == <<diagCh, uiCh, analysisCh>>
diagVars == <<diag, task, recording, maxSeen, containers, detected>>
jobVars  == <<queued, running>>
workVars == <<worker, todo>>
httpVars == <<client, wants, requests>>
uiVars   == <<uiAlive, display>>
stopVars == <<shutdown, token>>
vars == <<locks, channels, diagVars, current, jobVars, workVars, httpVars,
          uiVars, stopVars>>

-----------------------------------------------------------------------------
Request(a, m) == [who |-> a, mode |-> m]
Granted(q, a) ==
  \E i \in DOMAIN q :
    /\ q[i].who = a
    /\ \A j \in 1..(i - 1) : q[i].mode = "read" /\ q[j].mode = "read"

\* No task asks twice for the same lock
Release(q, a) == IF \E i \in DOMAIN q : q[i].who = a
                 THEN RemoveAt(q, CHOOSE i \in DOMAIN q : q[i].who = a) ELSE q

Msg(a, op) == [from |-> a, op |-> op]
Waits(ch, cap, a, i)  == i > cap /\ ch[i].from = a
Blocked(ch, cap, a) == \E i \in DOMAIN ch : Waits(ch, cap, a, i)

\* A send given up while it waits for room leaves nothing behind
Withdraw(ch, cap, a) ==
  IF Blocked(ch, cap, a)
  THEN RemoveAt(ch, CHOOSE i \in DOMAIN ch : Waits(ch, cap, a, i)) ELSE ch

DiagGone   == diag \in {"ended", "failed", "panicked"}
WorkerGone == worker \in {"ended", "failed", "panicked"}
ServerGone == token /\ \A c \in Clients : client[c] \in {"idle", "gone"}

\* What a blocked or fresh send to a channel does when its receiver is gone:
\* nothing; the sender sees the error when it next runs.
Send(ch, gone, m) == IF gone THEN ch ELSE Append(ch, m)

\* The request of client c is over
Answer(c) == /\ client' = [client EXCEPT ![c] = "idle"]
             /\ wants' = [wants EXCEPT ![c] = Nobody]
             /\ UNCHANGED requests

\* ... or begins: the server takes none once the token is cancelled
Ask(c, what, at) == /\ client[c] = "idle" /\ requests > 0 /\ ~token
                    /\ requests' = requests - 1
                    /\ client' = [client EXCEPT ![c] = at]
                    /\ wants' = [wants EXCEPT ![c] = what]

Init ==
  /\ storeQ = <<>> /\ statusQ = <<>>
  \* run_diag_read_thread's first act is to send itself StartRecording, before
  \* any other task of this single-threaded runtime gets to run
  /\ diagCh = <<Msg("diag", "start")>>
  /\ uiCh = <<>> /\ analysisCh = <<>>
  /\ current = FALSE /\ queued = <<>> /\ running = Nobody
  /\ diag = "select" /\ task = Msg("diag", "start")
  /\ recording = FALSE /\ maxSeen = 0 /\ containers = MaxContainers
  /\ worker = "recv" /\ todo = 0
  /\ shutdown = "wait" /\ token = FALSE
  /\ client = [c \in Clients |-> "idle"] /\ wants = [c \in Clients |-> Nobody]
  /\ requests = MaxRequests
  /\ uiAlive = ~Headless /\ display = "recording"
  /\ detected = 0
-----------------------------------------------------------------------------
\* What is done in more than one place.  Here and below, a definition that no
\* action uses, marked "Not:", is a mistake the properties would catch.

\* stop_current_recording: drop the writers.  Not: keep them.
KeepWriters          == recording' = recording
StopCurrentRecording == recording' = FALSE

\* close_current_entry.  Not: leave it open.
LeaveEntryOpen    == current' = current
CloseCurrentEntry == current' = FALSE

\* A message to the display, waiting for room if need be.  Not: drop it then.
ShowIfRoom(state) ==
  uiCh' = IF Len(uiCh) >= UiCap THEN uiCh ELSE Send(uiCh, ~uiAlive, Msg("diag", state))
Show(state) == uiCh' = Send(uiCh, ~uiAlive, Msg("diag", state))

-----------------------------------------------------------------------------
\* The diag thread.  tokio::select! takes a control message or a container.
DiagReceive ==
  /\ diag = "select" /\ diagCh # <<>>
  /\ diagCh' = Tail(diagCh)
  /\ IF Head(diagCh).op = "exit"
     THEN /\ StopCurrentRecording /\ diag' = "ended"
          /\ UNCHANGED <<task, storeQ>>
     ELSE /\ task' = Head(diagCh) /\ diag' = "lock"
          /\ storeQ' = Append(storeQ, Request("diag", "write"))
          /\ UNCHANGED recording
  /\ UNCHANGED <<statusQ, uiCh, analysisCh, maxSeen, containers, detected, current,
                 jobVars, workVars, httpVars, uiVars, stopVars>>

DiagReadContainer ==
  /\ diag = "select" /\ containers > 0
  /\ containers' = containers - 1
  /\ \E type \in 0..MaxType : task' = [from |-> "device", op |-> "container", type |-> type]
  /\ diag' = "lock"
  /\ storeQ' = Append(storeQ, Request("diag", "write"))
  /\ UNCHANGED <<statusQ, channels, recording, maxSeen, detected, current, jobVars,
                 workVars, httpVars, uiVars, stopVars>>

\* The diag device fails: the thread returns, its state is dropped
DiagReadError ==
  /\ diag = "select"
  /\ diag' = "ended" /\ recording' = FALSE
  /\ UNCHANGED <<locks, channels, task, maxSeen, containers, detected, current, jobVars,
                 workVars, httpVars, uiVars, stopVars>>

\* DiagTask::start: a new entry, new writers, a message to the display
DiagStart ==
  /\ diag = "lock" /\ task.op = "start" /\ Granted(storeQ, "diag")
  /\ current' = TRUE /\ recording' = TRUE /\ detected' = 0
  /\ Show("recording")
  /\ diag' = "tell"
  /\ UNCHANGED <<locks, diagCh, analysisCh, task, maxSeen, containers, jobVars,
                 workVars, httpVars, uiVars, stopVars>>

\* DiagTask::stop, called for a stop, to delete the current entry or to delete
\* all: close the writers and report the entry to the worker
DiagStop ==
  /\ diag = "lock" /\ Granted(storeQ, "diag")
  /\ \/ task.op \in {"stop", "delete all"}
     \/ task.op = "delete" /\ current
  /\ StopCurrentRecording
  /\ analysisCh' = IF current
                   THEN Send(analysisCh, WorkerGone, Msg("diag", "finished"))
                   ELSE analysisCh
  /\ diag' = "report"
  /\ UNCHANGED <<locks, diagCh, uiCh, task, maxSeen, containers, detected, current,
                 jobVars, workVars, httpVars, uiVars, stopVars>>

\* ... its second half, once the worker's channel has taken the report
DiagClose ==
  /\ diag = "report"
  /\ ~Blocked(analysisCh, AnalysisCap, "diag") \/ WorkerGone
  /\ CloseCurrentEntry
  /\ Show("paused")
  /\ diag' = "tell"
  /\ UNCHANGED <<locks, diagCh, analysisCh, task, recording, maxSeen, containers,
                 detected, jobVars, workVars, httpVars, uiVars, stopVars>>

\* DiagTask::delete_entry of an entry that is not the current one
DiagDeleteOther ==
  /\ diag = "lock" /\ task.op = "delete" /\ Granted(storeQ, "diag")
  /\ diag' = "tell"
  /\ UNCHANGED <<locks, channels, task, recording, maxSeen, containers, detected, current,
                 jobVars, workVars, httpVars, uiVars, stopVars>>

\* DiagTask::process_container.  It expects a current entry if it records.  An
\* event above Informational goes to the notification worker first, the store
\* still locked: it waits there if that worker's channel is full ...
DiagProcess ==
  /\ diag = "lock" /\ task.op = "container" /\ Granted(storeQ, "diag")
  /\ LET noEntry == recording /\ ~current
         event   == recording /\ current /\ task.type > 0 IN
       /\ diag' \in IF noEntry THEN {"panicked"}
                    ELSE IF event THEN {"note", "warn"} ELSE {"tell"}
       /\ detected' = IF event /\ task.type > detected THEN task.type ELSE detected
       /\ storeQ' = IF noEntry THEN Release(storeQ, "diag") ELSE storeQ
       /\ recording' = (recording /\ ~noEntry)
  /\ UNCHANGED <<statusQ, channels, task, maxSeen, containers, current, jobVars, workVars,
                 httpVars, uiVars, stopVars>>

\* ... and then to the display, which it expects to be there, if the severity is
\* the highest it has seen
DiagWarn ==
  /\ diag = "warn"
  /\ LET warns  == task.type > maxSeen
         panics == warns /\ ~uiAlive IN
       /\ maxSeen' = IF warns THEN task.type ELSE maxSeen
       /\ IF warns THEN Show("warning") ELSE UNCHANGED uiCh
       /\ diag' = IF panics THEN "panicked" ELSE "tell"
       /\ storeQ' = IF panics THEN Release(storeQ, "diag") ELSE storeQ
       /\ recording' = (recording /\ ~panics)
  /\ UNCHANGED <<statusQ, diagCh, analysisCh, task, containers, detected, current, jobVars,
                 workVars, httpVars, uiVars, stopVars>>

\* A file-system call that it expects to succeed fails: a new entry or writer, a
\* write of a container, of its size or of its analysis, the last flush
DiagFails ==
  /\ diag = "lock" /\ Granted(storeQ, "diag")
  /\ \/ task.op = "start" /\ current' \in BOOLEAN
     \/ recording /\ (task.op = "delete" => current) /\ current' = current
  /\ diag' = "failed" /\ recording' = FALSE
  /\ storeQ' = Release(storeQ, "diag")
  /\ UNCHANGED <<statusQ, channels, task, maxSeen, containers, detected, jobVars, workVars,
                 httpVars, uiVars, stopVars>>

\* The display has the message, or is gone: release the store, answer a
\* deletion.  Only process_container insists that the display be there.
DiagRelease ==
  /\ diag = "tell"
  /\ ~Blocked(uiCh, UiCap, "diag") \/ ~uiAlive
  /\ LET panics == Blocked(uiCh, UiCap, "diag") /\ task.op = "container" IN
       /\ diag' = IF panics THEN "panicked" ELSE "select"
       /\ recording' = (recording /\ ~panics)
  /\ storeQ' = Release(storeQ, "diag")
  /\ IF task.op \in {"delete", "delete all"} /\ client[task.from] # "gone"
     THEN Answer(task.from) ELSE UNCHANGED httpVars
  /\ UNCHANGED <<statusQ, channels, task, maxSeen, containers, detected, current, jobVars,
                 workVars, uiVars, stopVars>>

-----------------------------------------------------------------------------
\* The display: shows messages as they come, leaves when the token is cancelled
UiDraw ==
  /\ uiAlive /\ uiCh # <<>>
  /\ display' = Head(uiCh).op
  /\ uiCh' = Tail(uiCh)
  /\ UNCHANGED <<locks, diagCh, analysisCh, diagVars, current, jobVars, workVars,
                 httpVars, uiAlive, stopVars>>

UiExit ==
  /\ uiAlive /\ token
  /\ uiAlive' = FALSE
  /\ UNCHANGED <<locks, channels, diagVars, current, jobVars, workVars, httpVars, display,
                 stopVars>>

-----------------------------------------------------------------------------
\* The notification worker makes room in its channel when it is not posting;
\* nothing says that a post ends
NoteTake ==
  /\ diag = "note" /\ diag' = "warn"
  /\ UNCHANGED <<locks, channels, task, recording, maxSeen, containers, detected, current,
                 jobVars, workVars, httpVars, uiVars, stopVars>>

-----------------------------------------------------------------------------
\* HTTP requests.  start, stop and the deletions are one message to the diag
\* thread; the deletions then wait for their answer.
ClientSend(c, op) ==
  /\ op \in Ops \ {"analyze"}
  /\ Ask(c, op, "send")
  /\ diagCh' = Send(diagCh, DiagGone, Msg(c, op))
  /\ UNCHANGED <<locks, uiCh, analysisCh, diagVars, current, jobVars, workVars, uiVars,
                 stopVars>>

ClientSent(c) ==
  /\ client[c] = "send"
  /\ ~Blocked(diagCh, DiagCap, c) \/ DiagGone
  /\ IF wants[c] \in {"delete", "delete all"} /\ ~DiagGone
     THEN client' = [client EXCEPT ![c] = "reply"] /\ UNCHANGED <<wants, requests>>
     ELSE Answer(c)
  /\ UNCHANGED <<locks, channels, diagVars, current, jobVars, workVars, uiVars, stopVars>>

\* The diag thread is gone and the answer's sender with it.  Not: only when it
\* panicked.
NoReplyAfterPanic(c) ==
  /\ client[c] = "reply" /\ diag = "panicked"
  /\ Answer(c)
  /\ UNCHANGED <<locks, channels, diagVars, current, jobVars, workVars, uiVars, stopVars>>

ClientNoReply(c) ==
  /\ client[c] = "reply" /\ DiagGone
  /\ Answer(c)
  /\ UNCHANGED <<locks, channels, diagVars, current, jobVars, workVars, uiVars, stopVars>>

\* start_analysis: the status lock, then the store lock, then the send, and
\* only then are both released
AnalyzeBegin(c, r) ==
  /\ "analyze" \in Ops
  /\ Ask(c, r, "status")
  /\ statusQ' = Append(statusQ, Request(c, "write"))
  /\ UNCHANGED <<storeQ, channels, diagVars, current, jobVars, workVars, uiVars, stopVars>>

AnalyzeLockStore(c) ==
  /\ client[c] = "status" /\ Granted(statusQ, c)
  /\ storeQ' = Append(storeQ, Request(c, "read"))
  /\ client' = [client EXCEPT ![c] = "store"]
  /\ UNCHANGED <<statusQ, channels, diagVars, current, jobVars, workVars, wants, requests,
                 uiVars, stopVars>>

\* queue_qmdl refuses what is queued or running.  Not: only what is queued.
InQueue(r) == \E i \in DOMAIN queued : queued[i] = r
Pending(r) == running = r \/ \E i \in DOMAIN queued : queued[i] = r

\* NewFilesQueued.  Not: only to a worker with nothing queued.
WakeIdle(c) == IF queued = <<>> THEN Send(analysisCh, WorkerGone, Msg(c, "new"))
               ELSE analysisCh
Wake(c) == Send(analysisCh, WorkerGone, Msg(c, "new"))

AnalyzeQueue(c) ==
  /\ client[c] = "store" /\ Granted(storeQ, c)
  /\ IF Pending(wants[c])
     THEN UNCHANGED <<queued, analysisCh>>
     ELSE queued' = Append(queued, wants[c]) /\ analysisCh' = Wake(c)
  /\ client' = [client EXCEPT ![c] = "queue"]
  /\ UNCHANGED <<locks, diagCh, uiCh, diagVars, current, running, workVars, wants,
                 requests, uiVars, stopVars>>

AnalyzeEnd(c) ==
  /\ client[c] = "queue"
  /\ ~Blocked(analysisCh, AnalysisCap, c) \/ WorkerGone
  /\ storeQ' = Release(storeQ, c) /\ statusQ' = Release(statusQ, c)
  /\ Answer(c)
  /\ UNCHANGED <<channels, diagVars, current, jobVars, workVars, uiVars, stopVars>>

\* The client disconnects: the server drops the handler where it waits, and
\* with it its locks and the message it could not yet deliver
HangUp(c) ==
  /\ HangUps /\ client[c] \notin {"idle", "gone"}
  /\ storeQ' = Release(storeQ, c) /\ statusQ' = Release(statusQ, c)
  /\ diagCh' = Withdraw(diagCh, DiagCap, c)
  /\ analysisCh' = Withdraw(analysisCh, AnalysisCap, c)
  /\ client' = [client EXCEPT ![c] = "gone"]
  /\ UNCHANGED <<uiCh, diagVars, current, jobVars, workVars, wants, requests, uiVars,
                 stopVars>>

-----------------------------------------------------------------------------
\* The analysis thread: one message at a time
WorkerReceive ==
  /\ worker = "recv" /\ analysisCh # <<>>
  /\ analysisCh' = Tail(analysisCh)
  /\ \/ /\ Head(analysisCh).op = "new"
        /\ worker' = "count"
        /\ statusQ' = Append(statusQ, Request("worker", "read"))
     \/ /\ Head(analysisCh).op = "finished"
        /\ worker' = "note"
        /\ statusQ' = Append(statusQ, Request("worker", "write"))
     \/ /\ Head(analysisCh).op = "exit"
        /\ worker' = "ended"
        /\ UNCHANGED statusQ
  /\ UNCHANGED <<storeQ, diagCh, uiCh, diagVars, current, jobVars, todo, httpVars,
                 uiVars, stopVars>>

\* Every sender is gone: recv returns None
WorkerNone ==
  /\ worker = "recv" /\ analysisCh = <<>>
  /\ DiagGone /\ ServerGone /\ shutdown \in {"done", "panicked"}
  /\ worker' = "ended"
  /\ UNCHANGED <<locks, channels, diagVars, current, jobVars, todo, httpVars, uiVars, stopVars>>

\* RecordingFinished: the name joins AnalysisStatus.finished, which is only shown
WorkerNote ==
  /\ worker = "note" /\ Granted(statusQ, "worker")
  /\ statusQ' = Release(statusQ, "worker")
  /\ worker' = "recv"
  /\ UNCHANGED <<storeQ, channels, diagVars, current, jobVars, todo, httpVars, uiVars, stopVars>>

\* NewFilesQueued: queued_len, once, for the whole loop.  Not: one more.
QueuedLenInclusive == Len(queued) + 1
QueuedLen          == Len(queued)

WorkerCount ==
  /\ worker = "count" /\ Granted(statusQ, "worker")
  /\ todo' = QueuedLen
  /\ statusQ' = Release(statusQ, "worker")
  /\ worker' = "next"
  /\ UNCHANGED <<storeQ, channels, diagVars, current, jobVars, httpVars, uiVars, stopVars>>

WorkerNext ==
  /\ worker = "next"
  /\ IF todo = 0
     THEN worker' = "recv" /\ UNCHANGED statusQ
     ELSE worker' = "dequeue" /\ statusQ' = Append(statusQ, Request("worker", "write"))
  /\ UNCHANGED <<storeQ, channels, diagVars, current, jobVars, todo, httpVars, uiVars, stopVars>>

\* dequeue_to_running: remove(0) and the assertion both panic
WorkerDequeue ==
  /\ worker = "dequeue" /\ Granted(statusQ, "worker")
  /\ statusQ' = Release(statusQ, "worker")
  /\ IF queued = <<>> \/ running # Nobody
     THEN worker' = "panicked" /\ UNCHANGED <<jobVars, storeQ>>
     ELSE /\ running' = Head(queued) /\ queued' = Tail(queued)
          /\ storeQ' = Append(storeQ, Request("worker", "write"))
          /\ worker' = "open"
  /\ UNCHANGED <<channels, diagVars, current, todo, httpVars, uiVars, stopVars>>

\* perform_analysis: under the store lock the files are opened, or not found
WorkerOpen ==
  /\ worker = "open" /\ Granted(storeQ, "worker")
  /\ storeQ' = Release(storeQ, "worker")
  /\ worker' = "analyze"
  /\ UNCHANGED <<statusQ, channels, diagVars, current, jobVars, todo, httpVars, uiVars,
                 stopVars>>

\* ... then read to the end without a lock, or given up; both finish alike
WorkerAnalyze ==
  /\ worker = "analyze"
  /\ worker' = "finish"
  /\ statusQ' = Append(statusQ, Request("worker", "write"))
  /\ UNCHANGED <<storeQ, channels, diagVars, current, jobVars, todo, httpVars, uiVars, stopVars>>

\* ... unless the recording cannot be read, which it expects
WorkerReadFails ==
  /\ worker = "analyze"
  /\ worker' = "failed"
  /\ UNCHANGED <<locks, channels, diagVars, current, jobVars, todo, httpVars, uiVars, stopVars>>

\* finish_running_analysis, and the loop's next round
Round == todo - 1

WorkerFinish ==
  /\ worker = "finish" /\ Granted(statusQ, "worker")
  /\ running' = Nobody
  /\ todo' = Round
  /\ statusQ' = Release(statusQ, "worker")
  /\ worker' = "next"
  /\ UNCHANGED <<storeQ, channels, diagVars, current, queued, httpVars, uiVars, stopVars>>

-----------------------------------------------------------------------------
\* Shutdown.  set_config cancels the token first; ctrl-c goes straight to the
\* shutdown task, which cancels the token itself.
Restart ==
  /\ Stops /\ ~token
  /\ token' = TRUE
  /\ UNCHANGED <<locks, channels, diagVars, current, jobVars, workVars, httpVars, uiVars,
                 shutdown>>

ShutdownBegin ==
  /\ Stops /\ shutdown = "wait"
  /\ shutdown' = "lock"
  /\ storeQ' = Append(storeQ, Request("shutdown", "write"))
  /\ UNCHANGED <<statusQ, channels, diagVars, current, jobVars, workVars, httpVars, uiVars,
                 token>>

ShutdownClose ==
  /\ shutdown = "lock" /\ Granted(storeQ, "shutdown")
  /\ CloseCurrentEntry /\ token' = TRUE
  /\ diagCh' = Send(diagCh, DiagGone, Msg("shutdown", "exit"))
  /\ shutdown' = IF DiagGone THEN "panicked" ELSE "exit diag"
  /\ storeQ' = IF DiagGone THEN Release(storeQ, "shutdown") ELSE storeQ
  /\ UNCHANGED <<statusQ, uiCh, analysisCh, diagVars, jobVars, workVars, httpVars,
                 uiVars>>

\* The store stays locked while the two Exit messages are sent
ShutdownExitAnalysis ==
  /\ shutdown = "exit diag"
  /\ ~Blocked(diagCh, DiagCap, "shutdown") \/ DiagGone
  /\ LET panics == Blocked(diagCh, DiagCap, "shutdown") \/ WorkerGone IN
       /\ shutdown' = IF panics THEN "panicked" ELSE "exit analysis"
       /\ storeQ' = IF panics THEN Release(storeQ, "shutdown") ELSE storeQ
       /\ analysisCh' = IF panics THEN analysisCh
                        ELSE Append(analysisCh, Msg("shutdown", "exit"))
  /\ UNCHANGED <<statusQ, diagCh, uiCh, diagVars, current, jobVars, workVars,
                 httpVars, uiVars, token>>

ShutdownEnd ==
  /\ shutdown = "exit analysis"
  /\ ~Blocked(analysisCh, AnalysisCap, "shutdown") \/ WorkerGone
  /\ shutdown' = IF Blocked(analysisCh, AnalysisCap, "shutdown") THEN "panicked" ELSE "done"
  /\ storeQ' = Release(storeQ, "shutdown")
  /\ UNCHANGED <<statusQ, channels, diagVars, current, jobVars, workVars, httpVars, uiVars,
                 token>>

-----------------------------------------------------------------------------
\* Steps a task takes on its own; the rest are the environment's
DiagStep ==
  \/ DiagReceive \/ DiagStart \/ DiagStop \/ DiagClose \/ DiagDeleteOther
  \/ DiagProcess \/ DiagWarn \/ DiagRelease
ClientStep(c) ==
  \/ ClientSent(c) \/ ClientNoReply(c)
  \/ AnalyzeLockStore(c) \/ AnalyzeQueue(c) \/ AnalyzeEnd(c)
WorkerStep ==
  \/ WorkerReceive \/ WorkerNone \/ WorkerNote \/ WorkerCount \/ WorkerNext
  \/ WorkerDequeue \/ WorkerOpen \/ WorkerAnalyze \/ WorkerFinish
UiStep == UiDraw \/ UiExit
ShutdownStep == ShutdownClose \/ ShutdownExitAnalysis \/ ShutdownEnd

Environment ==
  \/ \E c \in Clients : \/ \E op \in Ops : ClientSend(c, op)
                        \/ \E r \in Recordings : AnalyzeBegin(c, r)
                        \/ HangUp(c)
  \/ DiagReadContainer \/ DiagReadError \/ DiagFails \/ WorkerReadFails
  \/ NoteTake
  \/ Restart \/ ShutdownBegin

Next ==
  \/ DiagStep \/ WorkerStep \/ UiStep \/ ShutdownStep
  \/ \E c \in Clients : ClientStep(c)
  \/ Environment

Spec == Init /\ [][Next]_vars

\* The runtime keeps polling every task that can go on.
Fairness ==
  /\ WF_vars(DiagStep) /\ WF_vars(WorkerStep) /\ WF_vars(UiStep)
  /\ WF_vars(ShutdownStep) /\ WF_vars(token /\ ShutdownBegin)
  /\ \A c \in Clients : WF_vars(ClientStep(c))

FairSpec == Spec /\ Fairness

-----------------------------------------------------------------------------
Names    == Clients \cup {"diag", "worker", "shutdown"}
Requests == [who : Names, mode : {"read", "write"}]
Tasks    == [from : Clients \cup {"diag"}, op : {"start", "stop", "delete", "delete all"}]
            \cup [from : {"device"}, op : {"container"}, type : 0..MaxType]

TypeOK ==
  /\ storeQ \in Seq(Requests) /\ statusQ \in Seq(Requests)
  /\ diagCh \in Seq([from : Names, op : {"start", "stop", "delete", "delete all", "exit"}])
  /\ uiCh \in Seq([from : {"diag"}, op : {"recording", "paused", "warning"}])
  /\ analysisCh \in Seq([from : Names, op : {"new", "finished", "exit"}])
  /\ current \in BOOLEAN /\ recording \in BOOLEAN
  /\ queued \in Seq(Recordings) /\ running \in Recordings \cup {Nobody}
  /\ diag \in {"select", "lock", "report", "note", "warn", "tell", "ended", "failed", "panicked"}
  /\ task \in Tasks
  /\ maxSeen \in 0..MaxType /\ detected \in 0..MaxType
  /\ containers \in 0..MaxContainers /\ requests \in 0..MaxRequests
  /\ worker \in {"recv", "note", "count", "next", "dequeue", "open", "analyze", "finish",
                  "ended", "failed", "panicked"}
  /\ todo \in Nat
  /\ shutdown \in {"wait", "lock", "exit diag", "exit analysis", "done", "panicked"}
  /\ token \in BOOLEAN
  /\ client \in [Clients -> {"idle", "send", "reply", "status", "store", "queue", "gone"}]
  /\ wants \in [Clients -> Ops \cup Recordings \cup {Nobody}]
  /\ uiAlive \in BOOLEAN /\ display \in {"recording", "paused", "warning"}

-----------------------------------------------------------------------------
\* As long as the diag thread runs and no shutdown has closed the entry, whoever
\* else holds the store's lock sees a current entry exactly when the diag thread
\* is writing to one, although it drops its writers before it closes the entry
\* and may wait in between.  Once the thread is gone, as after a read error of
\* the device (diag.rs:296-298), nothing closes its entry: the store, and with
\* it stats.rs:165, go on reporting a recording that nobody makes.
RecordingMatchesStore ==
  ~DiagGone /\ shutdown \in {"wait", "lock"} /\ ~Granted(storeQ, "diag")
    => (recording <=> current)

\* On a device with a display, none of the diag thread's `.expect`s on the
\* state it shares with other tasks fires before the daemon is told to stop.
DiagPanicsOnlyInShutdown == diag = "panicked" => Headless \/ token

\* dequeue_to_running finds a name to take and nothing running, although the
\* number of names it takes was read under an earlier hold of the lock, and
\* finish_running_analysis finds what it ran
WorkerNeverPanics ==
  /\ worker # "panicked"
  /\ worker \in {"open", "analyze", "finish"} => running # Nobody

\* How many of the queued names the worker's loop is still going to take
Claimed ==
  CASE worker = "count"                             -> Len(queued)
    [] worker \in {"next", "dequeue"}               -> todo
    [] worker \in {"open", "analyze", "finish"}     -> todo - 1
    [] OTHER                                        -> 0

\* No lost wake-up: names queued after the worker counted have a
\* NewFilesQueued of their own, in the channel or waiting to enter it, as long
\* as the worker lives and no client hangs up
NoLostWakeup ==
  ~WorkerGone /\ Len(queued) > Claimed
    => \E i \in DOMAIN analysisCh : analysisCh[i].op = "new"

\* When the diag thread and the display are at rest, the line says "paused"
\* exactly when nothing is recorded
DisplayAtRest == diag = "select" /\ diagCh = <<>> /\ uiCh = <<>> /\ uiAlive
LineTellsRecording ==
  DisplayAtRest /\ shutdown \in {"wait", "lock"} => (display = "paused" <=> ~recording)

\* doc/using-rayhunter.md:3: the line turns to the warning's colour once a
\* suspicion is found, "until the device is rebooted or a new recording is
\* started": with a detection in this recording, the line is not green
LineShowsDetection ==
  DisplayAtRest /\ recording /\ detected > 0 => display = "warning"

\* doc/using-rayhunter.md:3: the detector "will run automatically whenever your
\* device is running": the diag thread of a device without a display outlives
\* what it detects
DiagSurvivesDetection == ~token => diag # "panicked"

\* The message of the `.expect` at diag.rs:196: while there is a writer there
\* is a current entry.
WriterHasEntry == diag = "lock" /\ Granted(storeQ, "diag") /\ recording => current

\* The worker is a queue that analyzes one recording at a time, in order
AQ == INSTANCE AnalysisQueue WITH queued <- queued, running <- running
ImplementsQueue == AQ!Spec

\* No recording is queued twice, or queued while it is being analyzed: no two
\* analyses of the same recording write the same .ndjson file in turn.
NameOnce == AQ!NameOnce

\* Somebody waits for room in the worker's channel, holding locks, and the
\* worker for one of these locks: analysis.rs:238-267 and diag.rs:104-117
Awaits(q, a) == (\E i \in DOMAIN q : q[i].who = a) /\ ~Granted(q, a)
Deadlocked ==
  /\ ~WorkerGone /\ Len(analysisCh) > AnalysisCap
  /\ Awaits(statusQ, "worker") \/ Awaits(storeQ, "worker")

\* That deadlock does not happen.  It does: Daemon_reanalyze.cfg.
NeverDeadlocked == ~Deadlocked

\* ... and nothing but a client that hangs up ends it
DeadlockLasts == [][~HangUps /\ Deadlocked => Deadlocked']_vars

\* The notification worker always makes room for the diag thread's message
NotesTaken == []<>(diag # "note")

\* Every HTTP request is answered, or given up by its client, whatever fails,
\* unless the notification worker never takes what the diag thread tells it
\* with the store locked, or the worker's full channel deadlocks it: nothing
\* else that the daemon waits for keeps a request from its answer.
RequestsAnswered ==
  NotesTaken => \A c \in Clients :
    client[c] # "idle" ~> client[c] \in {"idle", "gone"} \/ Deadlocked

\* Every recording queued for re-analysis is analyzed or given up, under the
\* same two conditions and as long as the worker is not killed by a file it
\* cannot read
AnalysesFinish ==
  NotesTaken => \A r \in Recordings :
    Pending(r) ~> ~Pending(r) \/ Deadlocked \/ worker = "failed"

\* main.rs:194: the task tracker can "eventually await all of them ending",
\* given that the notification worker makes room for the diag thread's message
AllEnded == /\ DiagGone /\ WorkerGone /\ ~uiAlive /\ ServerGone
            /\ shutdown \in {"done", "panicked"}
ShutdownCompletes == NotesTaken => (token ~> AllEnded)

=============================================================================
