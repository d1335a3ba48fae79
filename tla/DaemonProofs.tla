----------------------------- MODULE DaemonProofs -----------------------------
(***************************************************************************)
(* What holds of the daemon's tasks for any clients, recordings, channel   *)
(* capacities and severities: the analysis worker never panics and is a    *)
(* queue that holds no recording twice, and none of its wake-ups is lost;  *)
(* until the daemon is told to stop, none of the diag thread's             *)
(* expectations of the other tasks is disappointed, and as long as it runs *)
(* it writes exactly while the store has a current entry; and the display  *)
(* says which.                                                             *)
(***************************************************************************)
EXTENDS Daemon, TLAPS

-----------------------------------------------------------------------------
(* The worker and its queue                                                *)

Working == {"open", "analyze", "finish"}

ClientStates == {"idle", "send", "reply", "status", "store", "queue", "gone"}

\* What the worker counted is still there: only it takes names off the queue.
CountIsStale ==
  /\ worker \in {"next", "dequeue"} => todo <= Len(queued)
  /\ worker = "dequeue" => todo > 0
  /\ worker \in Working => todo > 0 /\ todo - 1 <= Len(queued)

\* A name is running exactly while the worker works on it, and for good if the
\* worker dies of a file it cannot read.
RunningIsWorkedOn ==
  /\ worker # "panicked"
  /\ worker \in Working \cup {"failed"} <=> running # Nobody

\* A request to re-analyze carries the name of a recording.
AsksForRecording ==
  /\ client \in [Clients -> ClientStates]
  /\ wants \in [Clients -> Ops \cup Recordings \cup {Nobody}]
  /\ \A c \in Clients : client[c] \in {"status", "store"} => wants[c] \in Recordings

QueueTypes ==
  /\ queued \in Seq(Recordings) /\ running \in Recordings \cup {Nobody}
  /\ todo \in Nat

WorkInv == QueueTypes /\ CountIsStale /\ RunningIsWorkedOn /\ AsksForRecording

workState == <<queued, running, worker, todo>>

LEMMA WorkInit == Init => WorkInv
BY RecordingsAssumption
DEF Init, WorkInv, QueueTypes, CountIsStale, RunningIsWorkedOn, AsksForRecording,
    Working, ClientStates

\* The worker's part of the invariant, when it and its queue are left alone
LEMMA WorkFrame ==
  ASSUME WorkInv, UNCHANGED workState, AsksForRecording'
  PROVE  WorkInv'
BY DEF WorkInv, workState, QueueTypes, CountIsStale, RunningIsWorkedOn, Working

\* ... and the clients' part, when they are left alone
LEMMA ClientFrame ==
  ASSUME WorkInv, UNCHANGED <<client, wants>>
  PROVE  AsksForRecording'
BY DEF WorkInv, AsksForRecording

LEMMA WorkerStepKeepsWork ==
  ASSUME WorkInv, WorkerStep
  PROVE  WorkInv'
<1>0. AsksForRecording'
  BY ClientFrame
  DEF WorkerStep, WorkerReceive, WorkerNone, WorkerNote, WorkerCount, WorkerNext,
      WorkerDequeue, WorkerOpen, WorkerAnalyze, WorkerFinish, httpVars
<1> USE <1>0, RecordingsAssumption
    DEF WorkInv, QueueTypes, CountIsStale, RunningIsWorkedOn, Working
<1>1. CASE WorkerReceive
  BY <1>1 DEF WorkerReceive, jobVars
<1>2. CASE WorkerNone
  BY <1>2 DEF WorkerNone, jobVars
<1>3. CASE WorkerNote
  BY <1>3 DEF WorkerNote, jobVars
<1>4. CASE WorkerCount
  BY <1>4 DEF WorkerCount, QueuedLen, jobVars
<1>5. CASE WorkerNext
  BY <1>5 DEF WorkerNext, jobVars
<1>6. CASE WorkerDequeue
  <2>1. queued # <<>> /\ running = Nobody
    BY <1>6 DEF WorkerDequeue
  <2>2. /\ running' = Head(queued) /\ queued' = Tail(queued)
        /\ worker' = "open" /\ todo' = todo
    BY <1>6, <2>1 DEF WorkerDequeue
  <2>3. running' \in Recordings /\ queued' \in Seq(Recordings)
        /\ Len(queued') = Len(queued) - 1
    BY <2>1, <2>2
  <2>4. todo > 0 /\ todo <= Len(queued)
    BY <1>6 DEF WorkerDequeue
  <2>5. QED
    BY <2>2, <2>3, <2>4
<1>7. CASE WorkerOpen
  BY <1>7 DEF WorkerOpen, jobVars
<1>8. CASE WorkerAnalyze
  BY <1>8 DEF WorkerAnalyze, jobVars
<1>9. CASE WorkerFinish
  BY <1>9 DEF WorkerFinish, Round
<1>10. QED
  BY <1>1, <1>2, <1>3, <1>4, <1>5, <1>6, <1>7, <1>8, <1>9 DEF WorkerStep

LEMMA ClientStepKeepsWork ==
  ASSUME WorkInv, NEW c \in Clients, ClientStep(c)
  PROVE  WorkInv'
<1> USE DEF WorkInv, AsksForRecording, ClientStates
<1>1. CASE ClientSent(c)
  <2>1. AsksForRecording'
    BY <1>1 DEF ClientSent, Answer
  <2>2. UNCHANGED workState
    BY <1>1 DEF ClientSent, workState, jobVars, workVars
  <2>3. QED
    BY <2>1, <2>2, WorkFrame
<1>2. CASE ClientNoReply(c)
  <2>1. AsksForRecording'
    BY <1>2 DEF ClientNoReply, Answer
  <2>2. UNCHANGED workState
    BY <1>2 DEF ClientNoReply, workState, jobVars, workVars
  <2>3. QED
    BY <2>1, <2>2, WorkFrame
<1>3. CASE AnalyzeLockStore(c)
  <2>1. AsksForRecording'
    BY <1>3 DEF AnalyzeLockStore
  <2>2. UNCHANGED workState
    BY <1>3 DEF AnalyzeLockStore, workState, jobVars, workVars
  <2>3. QED
    BY <2>1, <2>2, WorkFrame
<1>4. CASE AnalyzeQueue(c)
  <2>1. AsksForRecording' /\ wants[c] \in Recordings
    BY <1>4 DEF AnalyzeQueue
  <2>2. queued' \in Seq(Recordings) /\ Len(queued') >= Len(queued)
    BY <1>4, <2>1 DEF AnalyzeQueue, QueueTypes
  <2>3. UNCHANGED <<running, worker, todo>>
    BY <1>4 DEF AnalyzeQueue, workVars
  <2>4. QED
    BY <2>1, <2>2, <2>3 DEF QueueTypes, CountIsStale, RunningIsWorkedOn, Working
<1>5. CASE AnalyzeEnd(c)
  <2>1. AsksForRecording'
    BY <1>5 DEF AnalyzeEnd, Answer
  <2>2. UNCHANGED workState
    BY <1>5 DEF AnalyzeEnd, workState, jobVars, workVars
  <2>3. QED
    BY <2>1, <2>2, WorkFrame
<1>6. QED
  BY <1>1, <1>2, <1>3, <1>4, <1>5 DEF ClientStep

LEMMA DiagStepKeepsWork ==
  ASSUME WorkInv, DiagStep
  PROVE  WorkInv'
<1>1. UNCHANGED workState
  BY DEF DiagStep, DiagReceive, DiagStart, DiagStop, DiagClose, DiagDeleteOther,
         DiagProcess, DiagWarn, DiagRelease, workState, jobVars, workVars
<1>2. UNCHANGED <<client, wants>> \/ DiagRelease
  BY DEF DiagStep, DiagReceive, DiagStart, DiagStop, DiagClose, DiagDeleteOther,
         DiagProcess, DiagWarn, httpVars
<1>3. CASE DiagRelease
  <2>1. AsksForRecording'
    BY <1>3 DEF DiagRelease, Answer, httpVars, WorkInv, AsksForRecording, ClientStates
  <2>2. QED
    BY <1>1, <2>1, WorkFrame
<1>4. QED
  BY <1>1, <1>2, <1>3, WorkFrame, ClientFrame

LEMMA EnvironmentKeepsWork ==
  ASSUME WorkInv, Environment
  PROVE  WorkInv'
<1>1. CASE WorkerReadFails
  <2>1. AsksForRecording'
    BY <1>1, ClientFrame DEF WorkerReadFails, httpVars
  <2>2. QED
    BY <1>1, <2>1 DEF WorkerReadFails, WorkInv, QueueTypes, CountIsStale, RunningIsWorkedOn,
                      Working, jobVars
<1>2. ~WorkerReadFails => UNCHANGED workState
  BY DEF Environment, ClientSend, AnalyzeBegin, HangUp, DiagReadContainer, DiagReadError,
         DiagFails, NoteTake, Restart, ShutdownBegin, workState, jobVars, workVars
<1>3. AsksForRecording'
  <2> USE DEF WorkInv, AsksForRecording, ClientStates, Ask
  <2>1. ASSUME NEW c \in Clients, NEW op \in Ops, ClientSend(c, op)
        PROVE  AsksForRecording'
    BY <2>1 DEF ClientSend
  <2>2. ASSUME NEW c \in Clients, NEW r \in Recordings, AnalyzeBegin(c, r)
        PROVE  AsksForRecording'
    BY <2>2 DEF AnalyzeBegin
  <2>3. ASSUME NEW c \in Clients, HangUp(c)
        PROVE  AsksForRecording'
    BY <2>3 DEF HangUp
  <2>4. CASE DiagReadContainer \/ DiagReadError \/ DiagFails \/ WorkerReadFails \/ NoteTake
             \/ Restart \/ ShutdownBegin
    BY <2>4, ClientFrame DEF DiagReadContainer, DiagReadError, DiagFails, WorkerReadFails,
                             NoteTake, Restart, ShutdownBegin, httpVars
  <2>5. QED
    BY <2>1, <2>2, <2>3, <2>4 DEF Environment
<1>4. QED
  BY <1>1, <1>2, <1>3, WorkFrame

LEMMA OthersKeepWork ==
  ASSUME WorkInv, UiStep \/ ShutdownStep \/ UNCHANGED vars
  PROVE  WorkInv'
BY WorkFrame, ClientFrame
DEF UiStep, UiDraw, UiExit, ShutdownStep, ShutdownClose, ShutdownExitAnalysis,
    ShutdownEnd, vars, workState, jobVars, workVars, httpVars

THEOREM WorkInvariant == Spec => []WorkInv
<1>1. WorkInv /\ [Next]_vars => WorkInv'
  BY WorkerStepKeepsWork, ClientStepKeepsWork, DiagStepKeepsWork,
     EnvironmentKeepsWork, OthersKeepWork DEF Next
<1>2. QED
  BY <1>1, WorkInit, PTL DEF Spec

\* The analysis worker neither takes a name from an empty queue, nor finds one
\* running, nor finishes what does not run.
THEOREM WorkerIsSafe == Spec => []WorkerNeverPanics
<1>1. WorkInv => WorkerNeverPanics
  BY DEF WorkInv, RunningIsWorkedOn, Working, WorkerNeverPanics
<1>2. QED
  BY <1>1, WorkInvariant, PTL

-----------------------------------------------------------------------------
(* The worker and its queue implement AnalysisQueue                        *)

LEMMA QueueInitRefines == Init => AQ!Init
BY DEF Init, AQ!Init

\* Only the worker and the clients touch the queue.
LEMMA OthersLeaveQueue ==
  ASSUME DiagStep \/ UiStep \/ ShutdownStep \/ Environment \/ UNCHANGED vars
  PROVE  UNCHANGED AQ!vars
BY DEF DiagStep, DiagReceive, DiagStart, DiagStop, DiagClose, DiagDeleteOther,
       DiagProcess, DiagWarn, DiagRelease, UiStep, UiDraw, UiExit, ShutdownStep,
       ShutdownClose, ShutdownExitAnalysis, ShutdownEnd, Environment, ClientSend,
       AnalyzeBegin, HangUp, DiagReadContainer, DiagReadError, DiagFails, WorkerReadFails,
       NoteTake, Restart, ShutdownBegin, vars, AQ!vars, jobVars

LEMMA WorkerRefines ==
  ASSUME WorkInv, WorkerStep
  PROVE  [AQ!Next]_AQ!vars
<1>1. CASE WorkerDequeue
  BY <1>1 DEF WorkerDequeue, jobVars, AQ!Next, AQ!Begin, AQ!vars
<1>2. CASE WorkerFinish
  <2>1. running # Nobody
    BY <1>2 DEF WorkerFinish, WorkInv, RunningIsWorkedOn, Working
  <2>2. AQ!End
    BY <1>2, <2>1 DEF WorkerFinish, AQ!End
  <2>3. QED
    BY <2>2 DEF AQ!Next
<1>3. CASE WorkerReceive \/ WorkerNone \/ WorkerNote \/ WorkerCount \/ WorkerNext
           \/ WorkerOpen \/ WorkerAnalyze
  BY <1>3 DEF WorkerReceive, WorkerNone, WorkerNote, WorkerCount, WorkerNext, WorkerOpen,
              WorkerAnalyze, jobVars, AQ!vars
<1>4. QED
  BY <1>1, <1>2, <1>3 DEF WorkerStep

LEMMA ClientRefines ==
  ASSUME WorkInv, NEW c \in Clients, ClientStep(c)
  PROVE  [AQ!Next]_AQ!vars
<1>1. CASE AnalyzeQueue(c) /\ ~Pending(wants[c])
  <2>1. wants[c] \in Recordings
    BY <1>1 DEF AnalyzeQueue, WorkInv, AsksForRecording
  <2>2. AQ!Enqueue(wants[c])
    BY <1>1 DEF AnalyzeQueue, Pending, AQ!Enqueue, AQ!Waiting
  <2>3. QED
    BY <2>1, <2>2 DEF AQ!Next
<1>2. CASE AnalyzeQueue(c) /\ Pending(wants[c])
  BY <1>2 DEF AnalyzeQueue, AQ!vars
<1>3. CASE ClientSent(c) \/ ClientNoReply(c) \/ AnalyzeLockStore(c) \/ AnalyzeEnd(c)
  BY <1>3 DEF ClientSent, ClientNoReply, AnalyzeLockStore, AnalyzeEnd, jobVars, AQ!vars
<1>4. QED
  BY <1>1, <1>2, <1>3 DEF ClientStep

LEMMA QueueStep == WorkInv /\ [Next]_vars => [AQ!Next]_AQ!vars
BY OthersLeaveQueue, WorkerRefines, ClientRefines DEF Next

\* Whatever the daemon's tasks do, the queue of re-analyses behaves as
\* AnalysisQueue says: in the order asked for, one at a time, none twice.
THEOREM QueueImplemented == Spec => ImplementsQueue
<1>1. WorkInv /\ [Next]_vars => [AQ!Next]_AQ!vars
  BY QueueStep
<1>2. QED
  BY <1>1, QueueInitRefines, WorkInvariant, PTL DEF Spec, AQ!Spec, ImplementsQueue

\* A step of the abstract queue keeps its names apart.
LEMMA QueueStepKeepsOnce ==
  ASSUME QueueTypes, NameOnce, [AQ!Next]_AQ!vars
  PROVE  NameOnce'
<1> USE DEF QueueTypes, NameOnce, AQ!NameOnce
<1>1. CASE AQ!Begin
  BY <1>1 DEF AQ!Begin
<1>2. CASE AQ!End
  BY <1>2, RecordingsAssumption DEF AQ!End
<1>3. ASSUME NEW r \in Recordings, AQ!Enqueue(r)
      PROVE  NameOnce'
  BY <1>3 DEF AQ!Enqueue, AQ!Waiting
<1>4. CASE UNCHANGED AQ!vars
  BY <1>4 DEF AQ!vars
<1>5. QED
  BY <1>1, <1>2, <1>3, <1>4 DEF AQ!Next

\* Whatever clients ask for, and however often, no recording is in the queue
\* twice or queued while it is analyzed.
THEOREM QueuedOnce == Spec => []NameOnce
<1>1. Init => NameOnce
  BY DEF Init, NameOnce, AQ!NameOnce
<1>2. WorkInv /\ NameOnce /\ [Next]_vars => NameOnce'
  BY QueueStep, QueueStepKeepsOnce DEF WorkInv
<1>3. QED
  BY <1>1, <1>2, WorkInvariant, PTL DEF Spec

-----------------------------------------------------------------------------
(* No wake-up is lost                                                      *)

NewIn(ch) == \E i \in DOMAIN ch : ch[i].op = "new"

\* The channel is a sequence, and no wake-up is lost.
WakeInv == analysisCh \in Seq([from : Clients \cup {"diag", "shutdown"},
                               op : {"new", "finished", "exit"}])
           /\ NoLostWakeup

LEMMA NewSurvivesAppend ==
  ASSUME NEW S, NEW ch \in Seq(S), NEW m \in S, NewIn(ch) \/ m.op = "new"
  PROVE  NewIn(Append(ch, m))
<1>1. CASE NewIn(ch)
  BY <1>1 DEF NewIn
<1>2. CASE m.op = "new"
  <2>1. /\ Len(ch) + 1 \in DOMAIN Append(ch, m)
        /\ Append(ch, m)[Len(ch) + 1] = m
    OBVIOUS
  <2>2. QED
    BY <1>2, <2>1 DEF NewIn
<1>3. QED
  BY <1>1, <1>2

LEMMA NewSurvivesTail ==
  ASSUME NEW S, NEW ch \in Seq(S), ch # <<>>, NewIn(ch), Head(ch).op # "new"
  PROVE  NewIn(Tail(ch))
<1>1. PICK i \in DOMAIN ch : ch[i].op = "new"
  BY DEF NewIn
<1>2. i # 1
  BY <1>1
<1>3. i - 1 \in DOMAIN Tail(ch) /\ Tail(ch)[i - 1] = ch[i]
  BY <1>2
<1>4. QED
  BY <1>1, <1>3 DEF NewIn

Reports == [from : Clients \cup {"diag", "shutdown"}, op : {"new", "finished", "exit"}]

LEMMA WakeInit == Init => WakeInv
BY DEF Init, WakeInv, NoLostWakeup, Claimed

\* While the worker, its queue and its channel are left alone
LEMMA WakeFrame ==
  ASSUME WakeInv, UNCHANGED <<workState, analysisCh>>
  PROVE  WakeInv'
BY DEF WakeInv, NoLostWakeup, Claimed, WorkerGone, workState

\* ... and when its channel receives one more message
LEMMA WakeSend ==
  ASSUME WakeInv, UNCHANGED workState, NEW m \in Reports,
         analysisCh' = Append(analysisCh, m)
  PROVE  WakeInv'
<1>1. analysisCh \in Seq(Reports) /\ analysisCh' \in Seq(Reports)
  BY DEF WakeInv, Reports
<1>2. NewIn(analysisCh) => NewIn(analysisCh')
  BY <1>1, NewSurvivesAppend
<1>3. QED
  BY <1>1, <1>2 DEF WakeInv, NoLostWakeup, NewIn, Claimed, WorkerGone, workState, Reports

LEMMA WakeReceive ==
  ASSUME WakeInv, WorkInv, WorkerReceive
  PROVE  WakeInv'
<1>1. /\ analysisCh \in Seq(Reports) /\ analysisCh # <<>>
      /\ analysisCh' = Tail(analysisCh) /\ analysisCh' \in Seq(Reports)
  BY DEF WorkerReceive, WakeInv, Reports
<1>2. UNCHANGED <<queued, todo>> /\ worker = "recv"
  BY DEF WorkerReceive, jobVars
<1>3. CASE Head(analysisCh).op = "new"
  <2>1. worker' = "count"
    BY <1>3 DEF WorkerReceive
  <2>2. Claimed' = Len(queued')
    BY <2>1 DEF Claimed
  <2>3. Len(queued') \in Nat
    BY <1>2 DEF WorkInv, QueueTypes
  <2>4. QED
    BY <1>1, <2>2, <2>3 DEF WakeInv, NoLostWakeup, Reports
<1>4. CASE Head(analysisCh).op = "finished"
  <2>1. worker' = "note"
    BY <1>4 DEF WorkerReceive
  <2>2. Claimed = 0 /\ Claimed' = 0 /\ ~WorkerGone
    BY <1>2, <2>1 DEF Claimed, WorkerGone
  <2>3. NewIn(analysisCh) => NewIn(analysisCh')
    BY <1>1, <1>4, NewSurvivesTail
  <2>4. QED
    BY <1>1, <1>2, <2>2, <2>3 DEF WakeInv, NoLostWakeup, NewIn, Reports
<1>5. CASE Head(analysisCh).op = "exit"
  <2>1. worker' = "ended"
    BY <1>5 DEF WorkerReceive
  <2>2. QED
    BY <1>1, <2>1 DEF WakeInv, NoLostWakeup, WorkerGone, Reports
<1>6. QED
  BY <1>3, <1>4, <1>5 DEF WorkerReceive

LEMMA WorkerKeepsWake ==
  ASSUME WakeInv, WorkInv, WorkerStep
  PROVE  WakeInv'
<1> USE DEF WakeInv, NoLostWakeup, Claimed, WorkerGone, WorkInv, QueueTypes, CountIsStale,
            Working
<1>1. CASE WorkerNone
  BY <1>1 DEF WorkerNone, channels, jobVars
<1>2. CASE WorkerNote
  BY <1>2 DEF WorkerNote, channels, jobVars
<1>3. CASE WorkerCount
  BY <1>3 DEF WorkerCount, QueuedLen, channels, jobVars
<1>4. CASE WorkerNext
  BY <1>4 DEF WorkerNext, channels, jobVars
<1>5. CASE WorkerDequeue
  <2>1. queued # <<>> /\ running = Nobody
    BY <1>5 DEF WorkerDequeue, RunningIsWorkedOn
  <2>2. /\ queued' = Tail(queued) /\ worker' = "open" /\ UNCHANGED <<todo, analysisCh>>
        /\ worker = "dequeue"
    BY <1>5, <2>1 DEF WorkerDequeue, channels
  <2>3. Len(queued') = Len(queued) - 1
    BY <2>1, <2>2
  <2>4. QED
    BY <2>2, <2>3
<1>6. CASE WorkerOpen
  BY <1>6 DEF WorkerOpen, channels, jobVars
<1>7. CASE WorkerAnalyze
  BY <1>7 DEF WorkerAnalyze, channels, jobVars
<1>8. CASE WorkerFinish
  BY <1>8 DEF WorkerFinish, Round, channels
<1>9. QED
  BY <1>1, <1>2, <1>3, <1>4, <1>5, <1>6, <1>7, <1>8, WakeReceive DEF WorkerStep

LEMMA ClientKeepsWake ==
  ASSUME WakeInv, WorkInv, NEW c \in Clients, ClientStep(c)
  PROVE  WakeInv'
<1>1. CASE AnalyzeQueue(c) /\ ~Pending(wants[c])
  <2>1. Msg(c, "new") \in Reports /\ analysisCh \in Seq(Reports)
    BY DEF Msg, Reports, WakeInv
  <2>2. /\ analysisCh' = Wake(c)
        /\ UNCHANGED <<worker, todo>>
    BY <1>1 DEF AnalyzeQueue, workVars
  <2>3. CASE WorkerGone
    BY <2>2, <2>3 DEF Wake, Send, WakeInv, NoLostWakeup, WorkerGone
  <2>4. CASE ~WorkerGone
    <3>1. analysisCh' = Append(analysisCh, Msg(c, "new"))
      BY <2>2, <2>4 DEF Wake, Send
    <3>2. NewIn(analysisCh')
      BY <2>1, <3>1, NewSurvivesAppend DEF Msg
    <3>3. analysisCh' \in Seq(Reports)
      BY <2>1, <3>1
    <3>4. QED
      BY <3>2, <3>3 DEF WakeInv, NoLostWakeup, NewIn, Reports
  <2>5. QED
    BY <2>3, <2>4
<1>2. CASE AnalyzeQueue(c) /\ Pending(wants[c])
  BY <1>2, WakeFrame DEF AnalyzeQueue, workVars, workState
<1>3. CASE ClientSent(c) \/ ClientNoReply(c) \/ AnalyzeLockStore(c) \/ AnalyzeEnd(c)
  BY <1>3, WakeFrame DEF ClientSent, ClientNoReply, AnalyzeLockStore, AnalyzeEnd, channels,
                         jobVars, workVars, workState
<1>4. QED
  BY <1>1, <1>2, <1>3 DEF ClientStep

LEMMA DiagKeepsWake ==
  ASSUME WakeInv, DiagStep
  PROVE  WakeInv'
<1>1. CASE DiagStop
  <2>1. Msg("diag", "finished") \in Reports
    BY DEF Msg, Reports
  <2>2. UNCHANGED workState
    BY <1>1 DEF DiagStop, workState, jobVars, workVars
  <2>3. \/ UNCHANGED analysisCh
        \/ analysisCh' = Append(analysisCh, Msg("diag", "finished"))
    BY <1>1 DEF DiagStop, Send
  <2>4. QED
    BY <2>1, <2>2, <2>3, WakeFrame, WakeSend
<1>2. CASE DiagReceive \/ DiagStart \/ DiagClose \/ DiagDeleteOther \/ DiagProcess
           \/ DiagWarn \/ DiagRelease
  BY <1>2, WakeFrame DEF DiagReceive, DiagStart, DiagClose, DiagDeleteOther, DiagProcess,
                         DiagWarn, DiagRelease, channels, workState, jobVars, workVars
<1>3. QED
  BY <1>1, <1>2 DEF DiagStep

LEMMA ShutdownKeepsWake ==
  ASSUME WakeInv, ShutdownStep
  PROVE  WakeInv'
<1>1. CASE ShutdownExitAnalysis
  <2>1. Msg("shutdown", "exit") \in Reports
    BY DEF Msg, Reports
  <2>2. UNCHANGED workState
    BY <1>1 DEF ShutdownExitAnalysis, workState, jobVars, workVars
  <2>3. \/ UNCHANGED analysisCh
        \/ analysisCh' = Append(analysisCh, Msg("shutdown", "exit"))
    BY <1>1 DEF ShutdownExitAnalysis
  <2>4. QED
    BY <2>1, <2>2, <2>3, WakeFrame, WakeSend
<1>2. CASE ShutdownClose \/ ShutdownEnd
  BY <1>2, WakeFrame DEF ShutdownClose, ShutdownEnd, channels, workState, jobVars, workVars
<1>3. QED
  BY <1>1, <1>2 DEF ShutdownStep

LEMMA OthersKeepWake ==
  ASSUME ~HangUps, WakeInv, Environment \/ UiStep \/ UNCHANGED vars
  PROVE  WakeInv'
<1>1. CASE WorkerReadFails
  BY <1>1 DEF WorkerReadFails, WakeInv, NoLostWakeup, WorkerGone, channels
<1>2. CASE ~WorkerReadFails
  BY <1>2, WakeFrame
  DEF Environment, ClientSend, AnalyzeBegin, HangUp, DiagReadContainer, DiagReadError,
      DiagFails, NoteTake, Restart, ShutdownBegin, UiStep, UiDraw, UiExit, vars, channels,
      workState, jobVars, workVars
<1>3. QED
  BY <1>1, <1>2

\* As long as no client hangs up, every name the worker has not counted yet has
\* a NewFilesQueued on its way.
THEOREM NoWakeupLost ==
  ASSUME ~HangUps
  PROVE  Spec => []NoLostWakeup
<1>1. WakeInv /\ WorkInv /\ [Next]_vars => WakeInv'
  BY WorkerKeepsWake, ClientKeepsWake, DiagKeepsWake, ShutdownKeepsWake, OthersKeepWake
  DEF Next
<1>2. WakeInv => NoLostWakeup
  BY DEF WakeInv
<1>3. QED
  BY <1>1, <1>2, WakeInit, WorkInvariant, PTL DEF Spec

-----------------------------------------------------------------------------
(* The queue of a lock                                                     *)

\* A request at the head of the queue holds the lock.
HoldsFirst(q, a) == Len(q) > 0 /\ q[1].who = a

LEMMA FirstIsGranted ==
  ASSUME NEW q \in Seq(Requests), NEW a, HoldsFirst(q, a)
  PROVE  Granted(q, a)
BY DEF HoldsFirst, Granted

\* A task that only ever asks to write holds the lock from the head alone.
LEMMA WriterIsFirst ==
  ASSUME NEW q \in Seq(Requests), NEW a, Granted(q, a),
         \A i \in DOMAIN q : q[i].who = a => q[i].mode = "write"
  PROVE  HoldsFirst(q, a)
<1>1. PICK i \in DOMAIN q : /\ q[i].who = a
                            /\ \A j \in 1..(i - 1) : q[i].mode = "read" /\ q[j].mode = "read"
  BY DEF Granted
<1>2. i = 1
  <2>1. q[i].mode = "write"
    BY <1>1
  <2>2. ~(1 \in 1..(i - 1))
    BY <1>1, <2>1
  <2>3. QED
    BY <2>2
<1>3. QED
  BY <1>1, <1>2 DEF HoldsFirst

LEMMA RemoveAtElements ==
  ASSUME NEW S, NEW q \in Seq(S), NEW k \in DOMAIN q
  PROVE  /\ RemoveAt(q, k) \in Seq(S)
         /\ Len(RemoveAt(q, k)) = Len(q) - 1
         /\ \A j \in 1..(Len(q) - 1) :
              RemoveAt(q, k)[j] = IF j < k THEN q[j] ELSE q[j + 1]
<1> DEFINE front == SubSeq(q, 1, k - 1)
           back  == SubSeq(q, k + 1, Len(q))
<1>1. /\ front \in Seq(S) /\ Len(front) = k - 1
      /\ \A j \in 1..(k - 1) : front[j] = q[j]
  OBVIOUS
<1>2. /\ back \in Seq(S) /\ Len(back) = Len(q) - k
      /\ \A j \in 1..(Len(q) - k) : back[j] = q[k + j]
  OBVIOUS
<1>3. RemoveAt(q, k) = front \o back
  BY DEF RemoveAt
<1> HIDE DEF front, back
<1>4. /\ front \o back \in Seq(S) /\ Len(front \o back) = Len(q) - 1
      /\ \A j \in 1..(Len(q) - 1) :
           (front \o back)[j] = IF j < k THEN front[j] ELSE back[j - (k - 1)]
  BY <1>1, <1>2
<1>5. \A j \in 1..(Len(q) - 1) :
        (front \o back)[j] = IF j < k THEN q[j] ELSE q[j + 1]
  <2> TAKE j \in 1..(Len(q) - 1)
  <2>1. CASE j < k
    BY <2>1, <1>1, <1>4
  <2>2. CASE ~(j < k)
    <3>1. j - (k - 1) \in 1..(Len(q) - k) /\ k + (j - (k - 1)) = j + 1
      BY <2>2
    <3>2. back[j - (k - 1)] = q[j + 1]
      BY <3>1, <1>2
    <3>3. QED
      BY <2>2, <3>2, <1>4
  <2>3. QED
    BY <2>1, <2>2
<1>6. QED
  BY <1>3, <1>4, <1>5

LEMMA ReleaseRequests ==
  ASSUME NEW q \in Seq(Requests), NEW a
  PROVE  Release(q, a) \in Seq(Requests)
BY RemoveAtElements DEF Release

\* Another task's release leaves the holder where it is.
LEMMA ReleaseKeepsFirst ==
  ASSUME NEW q \in Seq(Requests), NEW a, NEW b, a # b, HoldsFirst(q, a)
  PROVE  HoldsFirst(Release(q, b), a)
<1>1. CASE \E i \in DOMAIN q : q[i].who = b
  <2> DEFINE k == CHOOSE i \in DOMAIN q : q[i].who = b
  <2>1. k \in DOMAIN q /\ q[k].who = b /\ Release(q, b) = RemoveAt(q, k)
    BY <1>1 DEF Release
  <2> HIDE DEF k
  <2>2. k > 1 /\ k <= Len(q)
    BY <2>1 DEF HoldsFirst
  <2>3. Len(RemoveAt(q, k)) = Len(q) - 1 /\ RemoveAt(q, k)[1] = q[1]
    BY <2>1, <2>2, RemoveAtElements
  <2>4. QED
    BY <2>1, <2>2, <2>3 DEF HoldsFirst
<1>2. CASE ~\E i \in DOMAIN q : q[i].who = b
  BY <1>2 DEF Release
<1>3. QED
  BY <1>1, <1>2

\* What a release or a new request does to the modes the diag thread asks for.
WritesOnly(q, a) == \A i \in DOMAIN q : q[i].who = a => q[i].mode = "write"

LEMMA ReleaseWritesOnly ==
  ASSUME NEW q \in Seq(Requests), NEW a, NEW b, WritesOnly(q, a)
  PROVE  WritesOnly(Release(q, b), a)
<1>1. CASE \E i \in DOMAIN q : q[i].who = b
  <2> DEFINE k == CHOOSE i \in DOMAIN q : q[i].who = b
  <2>1. k \in DOMAIN q /\ Release(q, b) = RemoveAt(q, k)
    BY <1>1 DEF Release
  <2> HIDE DEF k
  <2> SUFFICES ASSUME NEW j \in DOMAIN RemoveAt(q, k), RemoveAt(q, k)[j].who = a
               PROVE  RemoveAt(q, k)[j].mode = "write"
    BY <2>1 DEF WritesOnly
  <2>2. /\ RemoveAt(q, k) \in Seq(Requests) /\ Len(RemoveAt(q, k)) = Len(q) - 1
        /\ \A i \in 1..(Len(q) - 1) :
             RemoveAt(q, k)[i] = IF i < k THEN q[i] ELSE q[i + 1]
    BY <2>1, RemoveAtElements
  <2>3. j \in 1..(Len(q) - 1)
    BY <2>2
  <2>4. QED
    BY <2>2, <2>3 DEF WritesOnly
<1>2. CASE ~\E i \in DOMAIN q : q[i].who = b
  BY <1>2 DEF Release
<1>3. QED
  BY <1>1, <1>2

LEMMA AskKeeps ==
  ASSUME NEW q \in Seq(Requests), NEW a, NEW b \in Names, NEW m \in {"read", "write"},
         WritesOnly(q, a), a = b => m = "write"
  PROVE  /\ Append(q, Request(b, m)) \in Seq(Requests)
         /\ WritesOnly(Append(q, Request(b, m)), a)
         /\ HoldsFirst(q, a) => HoldsFirst(Append(q, Request(b, m)), a)
<1>1. Request(b, m) \in Requests
  BY DEF Request, Requests
<1>2. QED
  BY <1>1 DEF Request, WritesOnly, HoldsFirst

-----------------------------------------------------------------------------
(* The store's lock and what the diag thread does under it                 *)

\* The diag thread asks for the store only to write.
LockInv ==
  /\ storeQ \in Seq(Requests)
  /\ WritesOnly(storeQ, "diag")

\* While it stops a recording, the writers are gone and the entry is not yet
\* closed, but the diag thread holds the lock; else the two go together.
Stopping == diag = "report" => ~recording /\ HoldsFirst(storeQ, "diag")
Agreed ==
  ~DiagGone /\ diag # "report" /\ shutdown \in {"wait", "lock"}
    => (recording <=> current)

AgreeInv == /\ recording \in BOOLEAN /\ current \in BOOLEAN
            /\ LockInv /\ Stopping /\ Agreed

storeState == <<storeQ, diag, recording, current, shutdown>>

LEMMA AgreeInit == Init => AgreeInv
<1> SUFFICES ASSUME Init PROVE AgreeInv
  OBVIOUS
<1>1. storeQ = <<>>
  BY DEF Init
<1>2. storeQ \in Seq(Requests) /\ DOMAIN storeQ = {}
  BY <1>1
<1>3. LockInv
  BY <1>2 DEF LockInv, WritesOnly
<1>4. QED
  BY <1>3 DEF Init, AgreeInv, Stopping, Agreed

LEMMA AgreeFrame ==
  ASSUME AgreeInv, UNCHANGED storeState
  PROVE  AgreeInv'
BY DEF AgreeInv, storeState, LockInv, Stopping, Agreed, DiagGone, WritesOnly, HoldsFirst

\* Another task asks for the lock ...
LEMMA OtherAsks ==
  ASSUME AgreeInv, NEW b \in Names \ {"diag"}, NEW m \in {"read", "write"},
         storeQ' = Append(storeQ, Request(b, m)),
         UNCHANGED <<diag, recording, current>>,
         shutdown' = "lock" => shutdown \in {"wait", "lock"},
         shutdown' = "wait" => shutdown = "wait"
  PROVE  AgreeInv'
<1>1. /\ storeQ' \in Seq(Requests) /\ WritesOnly(storeQ', "diag")
      /\ HoldsFirst(storeQ, "diag") => HoldsFirst(storeQ', "diag")
  BY AskKeeps DEF AgreeInv, LockInv
<1>2. QED
  BY <1>1 DEF AgreeInv, LockInv, Stopping, Agreed, DiagGone, WritesOnly, HoldsFirst

\* ... or gives it up.
LEMMA OtherReleases ==
  ASSUME AgreeInv, NEW b, b # "diag", storeQ' = Release(storeQ, b),
         UNCHANGED <<diag, recording, current>>,
         shutdown' = shutdown \/ shutdown' \notin {"wait", "lock"}
  PROVE  AgreeInv'
<1>1. /\ storeQ' \in Seq(Requests) /\ WritesOnly(storeQ', "diag")
      /\ HoldsFirst(storeQ, "diag") => HoldsFirst(storeQ', "diag")
  BY ReleaseRequests, ReleaseWritesOnly, ReleaseKeepsFirst DEF AgreeInv, LockInv
<1>2. QED
  BY <1>1 DEF AgreeInv, LockInv, Stopping, Agreed, DiagGone, WritesOnly, HoldsFirst

LEMMA DiagStepAgrees ==
  ASSUME AgreeInv, DiagStep
  PROVE  AgreeInv'
<1> USE DEF AgreeInv, LockInv, Stopping, Agreed, DiagGone
<1>1. CASE DiagReceive
  <2>1. CASE Head(diagCh).op = "exit"
    BY <1>1, <2>1 DEF DiagReceive, StopCurrentRecording, stopVars, WritesOnly
  <2>2. CASE Head(diagCh).op # "exit"
    <3>1. /\ storeQ' = Append(storeQ, Request("diag", "write")) /\ diag' = "lock"
          /\ UNCHANGED <<recording, current, shutdown>> /\ diag = "select"
      BY <1>1, <2>2 DEF DiagReceive, stopVars
    <3>2. storeQ' \in Seq(Requests) /\ WritesOnly(storeQ', "diag")
      BY <3>1, AskKeeps DEF Names
    <3>3. QED
      BY <3>1, <3>2 DEF WritesOnly
  <2>3. QED
    BY <2>1, <2>2
<1>2. CASE DiagStart
  BY <1>2 DEF DiagStart, locks, stopVars, WritesOnly
<1>3. CASE DiagStop
  <2>1. HoldsFirst(storeQ, "diag")
    BY <1>3, WriterIsFirst DEF DiagStop, WritesOnly
  <2>2. /\ diag' = "report" /\ recording' = FALSE
        /\ UNCHANGED <<storeQ, current, shutdown>>
    BY <1>3 DEF DiagStop, StopCurrentRecording, locks, stopVars
  <2>3. QED
    BY <2>1, <2>2 DEF WritesOnly, HoldsFirst
<1>4. CASE DiagClose
  BY <1>4 DEF DiagClose, CloseCurrentEntry, locks, stopVars, WritesOnly
<1>5. CASE DiagDeleteOther
  BY <1>5 DEF DiagDeleteOther, locks, stopVars, WritesOnly
<1>6. CASE DiagProcess
  <2>1. storeQ' \in Seq(Requests) /\ WritesOnly(storeQ', "diag")
    BY <1>6, ReleaseRequests, ReleaseWritesOnly DEF DiagProcess
  <2>2. /\ diag = "lock" /\ diag' \in {"panicked", "note", "warn", "tell"}
        /\ recording' \in BOOLEAN /\ (diag' # "panicked" => recording' = recording)
        /\ UNCHANGED <<current, shutdown>>
    BY <1>6 DEF DiagProcess, stopVars
  <2>3. QED
    BY <2>1, <2>2 DEF WritesOnly
<1>7. CASE DiagWarn
  <2>1. storeQ' \in Seq(Requests) /\ WritesOnly(storeQ', "diag")
    BY <1>7, ReleaseRequests, ReleaseWritesOnly DEF DiagWarn
  <2>2. /\ diag = "warn" /\ diag' \in {"panicked", "tell"}
        /\ recording' \in BOOLEAN /\ (diag' # "panicked" => recording' = recording)
        /\ UNCHANGED <<current, shutdown>>
    BY <1>7 DEF DiagWarn, stopVars
  <2>3. QED
    BY <2>1, <2>2 DEF WritesOnly
<1>8. CASE DiagRelease
  <2>1. storeQ' \in Seq(Requests) /\ WritesOnly(storeQ', "diag")
    BY <1>8, ReleaseRequests, ReleaseWritesOnly DEF DiagRelease
  <2>2. /\ diag = "tell" /\ diag' \in {"panicked", "select"}
        /\ diag' = "select" => recording' = recording
        /\ recording' \in BOOLEAN /\ UNCHANGED <<current, shutdown>>
    BY <1>8 DEF DiagRelease, stopVars
  <2>3. QED
    BY <2>1, <2>2 DEF WritesOnly
<1>9. QED
  BY <1>1, <1>2, <1>3, <1>4, <1>5, <1>6, <1>7, <1>8 DEF DiagStep

LEMMA ClientStepAgrees ==
  ASSUME AgreeInv, NEW c \in Clients, ClientStep(c)
  PROVE  AgreeInv'
<1>0. c \in Names \ {"diag"}
  BY ClientsAssumption DEF Names
<1>1. CASE AnalyzeLockStore(c)
  <2>1. /\ storeQ' = Append(storeQ, Request(c, "read"))
        /\ UNCHANGED <<diag, recording, current, shutdown>>
    BY <1>1 DEF AnalyzeLockStore, diagVars, stopVars
  <2>2. QED
    BY <1>0, <2>1, OtherAsks DEF Names
<1>2. CASE AnalyzeEnd(c)
  BY <1>0, <1>2, OtherReleases DEF AnalyzeEnd, diagVars, stopVars
<1>3. CASE ClientSent(c) \/ ClientNoReply(c) \/ AnalyzeQueue(c)
  BY <1>3, AgreeFrame
  DEF ClientSent, ClientNoReply, AnalyzeQueue, storeState, locks, diagVars, stopVars
<1>4. QED
  BY <1>1, <1>2, <1>3 DEF ClientStep

LEMMA WorkerStepAgrees ==
  ASSUME AgreeInv, WorkerStep
  PROVE  AgreeInv'
<1>0. "worker" \in Names \ {"diag"}
  BY DEF Names
<1>1. CASE WorkerDequeue
  <2>1. \/ UNCHANGED storeQ
        \/ storeQ' = Append(storeQ, Request("worker", "write"))
    BY <1>1 DEF WorkerDequeue
  <2>2. UNCHANGED <<diag, recording, current, shutdown>>
    BY <1>1 DEF WorkerDequeue, diagVars, stopVars
  <2>3. CASE UNCHANGED storeQ
    BY <2>2, <2>3, AgreeFrame DEF storeState
  <2>4. CASE storeQ' = Append(storeQ, Request("worker", "write"))
    BY <1>0, <2>2, <2>4, OtherAsks DEF Names
  <2>5. QED
    BY <2>1, <2>3, <2>4
<1>2. CASE WorkerOpen
  BY <1>0, <1>2, OtherReleases DEF WorkerOpen, diagVars, stopVars
<1>3. CASE WorkerReceive \/ WorkerNone \/ WorkerNote \/ WorkerCount \/ WorkerNext
           \/ WorkerAnalyze \/ WorkerFinish
  BY <1>3, AgreeFrame
  DEF WorkerReceive, WorkerNone, WorkerNote, WorkerCount, WorkerNext, WorkerAnalyze,
      WorkerFinish, storeState, locks, diagVars, stopVars
<1>4. QED
  BY <1>1, <1>2, <1>3 DEF WorkerStep

LEMMA ShutdownStepAgrees ==
  ASSUME AgreeInv, ShutdownStep
  PROVE  AgreeInv'
<1>1. CASE ShutdownClose
  <2>1. storeQ' \in Seq(Requests) /\ WritesOnly(storeQ', "diag")
    BY <1>1, ReleaseRequests, ReleaseWritesOnly
    DEF ShutdownClose, AgreeInv, LockInv, WritesOnly
  <2>2. HoldsFirst(storeQ, "diag") => HoldsFirst(storeQ', "diag")
    <3>1. storeQ' = storeQ \/ storeQ' = Release(storeQ, "shutdown")
      BY <1>1 DEF ShutdownClose
    <3>2. HoldsFirst(storeQ, "diag") => HoldsFirst(Release(storeQ, "shutdown"), "diag")
      BY ReleaseKeepsFirst DEF AgreeInv, LockInv
    <3>3. QED
      BY <3>1, <3>2
  <2>3. /\ shutdown' \in {"panicked", "exit diag"} /\ current' = FALSE
        /\ UNCHANGED <<diag, recording>>
    BY <1>1 DEF ShutdownClose, CloseCurrentEntry, diagVars
  <2>4. QED
    BY <2>1, <2>2, <2>3
    DEF AgreeInv, LockInv, Stopping, Agreed, WritesOnly, HoldsFirst
<1>2. CASE ShutdownExitAnalysis
  <2>1. UNCHANGED storeQ \/ storeQ' = Release(storeQ, "shutdown")
    BY <1>2 DEF ShutdownExitAnalysis
  <2>2. /\ shutdown' \notin {"wait", "lock"} /\ shutdown \notin {"wait", "lock"}
        /\ UNCHANGED <<diag, recording, current>>
    BY <1>2 DEF ShutdownExitAnalysis, diagVars
  <2>3. CASE UNCHANGED storeQ
    BY <2>2, <2>3
    DEF AgreeInv, LockInv, Stopping, Agreed, WritesOnly, HoldsFirst
  <2>4. CASE storeQ' = Release(storeQ, "shutdown")
    BY <2>2, <2>4, OtherReleases
  <2>5. QED
    BY <2>1, <2>3, <2>4
<1>3. CASE ShutdownEnd
  <2>1. /\ storeQ' = Release(storeQ, "shutdown") /\ shutdown' \notin {"wait", "lock"}
        /\ UNCHANGED <<diag, recording, current>>
    BY <1>3 DEF ShutdownEnd, diagVars
  <2>2. QED
    BY <2>1, OtherReleases
<1>4. QED
  BY <1>1, <1>2, <1>3 DEF ShutdownStep

LEMMA EnvironmentAgrees ==
  ASSUME AgreeInv, Environment
  PROVE  AgreeInv'
<1>1. ASSUME NEW c \in Clients, NEW op \in Ops, ClientSend(c, op)
      PROVE  AgreeInv'
  BY <1>1, AgreeFrame DEF ClientSend, storeState, locks, diagVars, stopVars
<1>2. ASSUME NEW c \in Clients, NEW r \in Recordings, AnalyzeBegin(c, r)
      PROVE  AgreeInv'
  BY <1>2, AgreeFrame DEF AnalyzeBegin, storeState, diagVars, stopVars
<1>3. ASSUME NEW c \in Clients, HangUp(c)
      PROVE  AgreeInv'
  BY <1>3, ClientsAssumption, OtherReleases DEF HangUp, diagVars, stopVars
<1>4. CASE DiagReadContainer
  <2>1. /\ storeQ' = Append(storeQ, Request("diag", "write"))
        /\ diag = "select" /\ diag' = "lock"
        /\ UNCHANGED <<recording, current, shutdown>>
    BY <1>4 DEF DiagReadContainer, stopVars
  <2>2. storeQ' \in Seq(Requests) /\ WritesOnly(storeQ', "diag")
    BY <2>1, AskKeeps DEF AgreeInv, LockInv, Names
  <2>3. QED
    BY <2>1, <2>2 DEF AgreeInv, LockInv, Stopping, Agreed, DiagGone, WritesOnly
<1>5. CASE DiagReadError
  BY <1>5
  DEF DiagReadError, AgreeInv, LockInv, Stopping, Agreed, DiagGone, WritesOnly, locks,
      stopVars
<1>6. CASE Restart
  BY <1>6, AgreeFrame DEF Restart, storeState, locks, diagVars
<1>7. CASE ShutdownBegin
  <2>1. /\ storeQ' = Append(storeQ, Request("shutdown", "write"))
        /\ shutdown = "wait" /\ shutdown' = "lock"
        /\ UNCHANGED <<diag, recording, current>>
    BY <1>7 DEF ShutdownBegin, diagVars
  <2>2. QED
    BY <2>1, OtherAsks DEF Names
<1>8. CASE DiagFails
  <2>1. storeQ' \in Seq(Requests) /\ WritesOnly(storeQ', "diag")
    BY <1>8, ReleaseRequests, ReleaseWritesOnly DEF DiagFails, AgreeInv, LockInv
  <2>2. /\ diag' = "failed" /\ recording' = FALSE /\ current' \in BOOLEAN
        /\ UNCHANGED shutdown
    BY <1>8 DEF DiagFails, stopVars, AgreeInv
  <2>3. QED
    BY <2>1, <2>2 DEF AgreeInv, LockInv, Stopping, Agreed, DiagGone, WritesOnly
<1>9. CASE WorkerReadFails
  BY <1>9, AgreeFrame DEF WorkerReadFails, storeState, locks, diagVars, stopVars
<1>10. CASE NoteTake
  BY <1>10
  DEF NoteTake, AgreeInv, LockInv, Stopping, Agreed, DiagGone, WritesOnly, locks, stopVars
<1>11. QED
  BY <1>1, <1>2, <1>3, <1>4, <1>5, <1>6, <1>7, <1>8, <1>9, <1>10 DEF Environment

LEMMA OthersAgree ==
  ASSUME AgreeInv, UiStep \/ UNCHANGED vars
  PROVE  AgreeInv'
BY AgreeFrame
DEF UiStep, UiDraw, UiExit, vars, storeState, locks, diagVars, stopVars

\* As long as the diag thread runs, and until a shutdown closes the entry, whoever
\* else holds the store sees a current entry exactly while the thread writes to
\* one.  A thread that has ended on an error of the device or of a file leaves
\* its entry current.
THEOREM RecordingAgrees == Spec => []RecordingMatchesStore
<1>1. AgreeInv /\ [Next]_vars => AgreeInv'
  BY DiagStepAgrees, ClientStepAgrees, WorkerStepAgrees, ShutdownStepAgrees,
     EnvironmentAgrees, OthersAgree DEF Next
<1>2. AgreeInv => RecordingMatchesStore
  BY FirstIsGranted
  DEF AgreeInv, LockInv, Stopping, Agreed, RecordingMatchesStore
<1>3. QED
  BY <1>1, <1>2, AgreeInit, PTL DEF Spec

-----------------------------------------------------------------------------
(* The diag thread, the display and the end of the daemon                  *)

\* The display leaves, and the shutdown gets past the store, only when the
\* daemon is told to stop.
ToldToStop == Headless \/ token
StopInv ==
  /\ uiAlive \in BOOLEAN /\ token \in BOOLEAN
  /\ ~uiAlive => ToldToStop
  /\ shutdown \notin {"wait", "lock"} => token
  /\ diag = "panicked" => ToldToStop

\* What the display will show when it has drawn all it was sent
LastShown == IF uiCh = <<>> THEN display ELSE uiCh[Len(uiCh)].op

Notes == [from : {"diag"}, op : {"recording", "paused", "warning"}]

Orders == [from : Names, op : {"start", "stop", "delete", "delete all", "exit"}]

\* The diag thread has yet to obey the start it sent itself when it began
FirstStart ==
  \/ diagCh # <<>> /\ Head(diagCh).op = "start"
  \/ diag = "lock" /\ task.op = "start"

LineAgrees ==
  uiAlive /\ diag \in {"select", "lock", "note", "warn", "tell"} =>
    FirstStart \/ (LastShown = "paused" <=> ~recording)

LineInv ==
  /\ uiCh \in Seq(Notes) /\ diagCh \in Seq(Orders)
  /\ recording \in BOOLEAN
  /\ diag \in {"note", "warn"} => recording
  /\ LineAgrees

stopState == <<uiAlive, token, shutdown, diag>>

LEMMA StopFrame ==
  ASSUME StopInv, UNCHANGED stopState
  PROVE  StopInv'
BY DEF StopInv, ToldToStop, stopState

LEMMA StopInit == Init => StopInv
BY FlagsAssumption DEF Init, StopInv, ToldToStop

\* The diag thread panics on the store only if that is closed under it, and on
\* the display only if that is gone.
LEMMA DiagKeepsStop ==
  ASSUME StopInv, AgreeInv,
         DiagStep \/ DiagReadContainer \/ DiagReadError \/ DiagFails \/ NoteTake
  PROVE  StopInv'
<1>1. UNCHANGED <<uiAlive, token, shutdown>>
  BY DEF DiagStep, DiagReceive, DiagStart, DiagStop, DiagClose, DiagDeleteOther, DiagProcess,
         DiagWarn, DiagRelease, DiagReadContainer, DiagReadError, DiagFails, NoteTake, uiVars,
         stopVars
<1>2. CASE DiagProcess
  <2>1. diag = "lock" /\ (diag' = "panicked" => recording /\ ~current)
    BY <1>2 DEF DiagProcess
  <2>2. shutdown \in {"wait", "lock"} => (recording <=> current)
    BY <2>1 DEF AgreeInv, Agreed, DiagGone
  <2>3. QED
    BY <1>1, <2>1, <2>2 DEF StopInv, ToldToStop
<1>3. CASE DiagRelease \/ DiagWarn
  <2>1. diag' = "panicked" => ~uiAlive
    BY <1>3 DEF DiagRelease, DiagWarn
  <2>2. QED
    BY <1>1, <2>1 DEF StopInv, ToldToStop
<1>4. CASE DiagReceive \/ DiagStart \/ DiagStop \/ DiagClose \/ DiagDeleteOther
           \/ DiagReadContainer \/ DiagReadError \/ DiagFails \/ NoteTake
  <2>1. diag' # "panicked"
    BY <1>4 DEF DiagReceive, DiagStart, DiagStop, DiagClose, DiagDeleteOther,
                DiagReadContainer, DiagReadError, DiagFails, NoteTake
  <2>2. QED
    BY <1>1, <2>1 DEF StopInv, ToldToStop
<1>5. QED
  BY <1>2, <1>3, <1>4 DEF DiagStep

LEMMA OthersKeepStop ==
  ASSUME StopInv, \/ WorkerStep \/ WorkerReadFails \/ UiStep \/ ShutdownStep \/ Restart \/ ShutdownBegin
                  \/ UNCHANGED vars
                  \/ \E c \in Clients : ClientStep(c)
                  \/ \E c \in Clients, op \in Ops : ClientSend(c, op)
                  \/ \E c \in Clients, r \in Recordings : AnalyzeBegin(c, r)
                  \/ \E c \in Clients : HangUp(c)
  PROVE  StopInv'
<1>1. CASE UiStep \/ Restart \/ ShutdownBegin
  BY <1>1 DEF UiStep, UiDraw, UiExit, Restart, ShutdownBegin, StopInv, ToldToStop, uiVars,
              stopVars, diagVars
<1>2. CASE ShutdownStep
  BY <1>2 DEF ShutdownStep, ShutdownClose, ShutdownExitAnalysis, ShutdownEnd, StopInv,
              ToldToStop, uiVars, diagVars
<1>3. CASE WorkerStep \/ WorkerReadFails
  BY <1>3, StopFrame
  DEF WorkerStep, WorkerReadFails, WorkerReceive, WorkerNone, WorkerNote, WorkerCount, WorkerNext,
      WorkerDequeue, WorkerOpen, WorkerAnalyze, WorkerFinish, stopState, uiVars, stopVars,
      diagVars
<1>4. CASE \E c \in Clients : ClientStep(c) \/ HangUp(c)
  BY <1>4, StopFrame
  DEF ClientStep, ClientSent, ClientNoReply, AnalyzeLockStore, AnalyzeQueue, AnalyzeEnd,
      HangUp, stopState, uiVars, stopVars, diagVars
<1>5. CASE \/ \E c \in Clients, op \in Ops : ClientSend(c, op)
           \/ \E c \in Clients, r \in Recordings : AnalyzeBegin(c, r)
  BY <1>5, StopFrame DEF ClientSend, AnalyzeBegin, stopState, uiVars, stopVars, diagVars
<1>6. CASE UNCHANGED vars
  BY <1>6, StopFrame DEF vars, stopState, uiVars, stopVars, diagVars
<1>7. QED
  BY <1>1, <1>2, <1>3, <1>4, <1>5, <1>6

\* On a device with a display the diag thread outlives everything but a stop of
\* the daemon: no order of requests, containers, disconnections and analyses
\* makes one of its assumptions about the others false.
THEOREM NoPanicBeforeStop == Spec => []DiagPanicsOnlyInShutdown
<1>1. AgreeInv /\ StopInv /\ [Next]_vars => StopInv'
  BY DiagKeepsStop, OthersKeepStop DEF Next, Environment
<1>2. AgreeInv /\ [Next]_vars => AgreeInv'
  BY DiagStepAgrees, ClientStepAgrees, WorkerStepAgrees, ShutdownStepAgrees,
     EnvironmentAgrees, OthersAgree DEF Next
<1>3. StopInv => DiagPanicsOnlyInShutdown
  BY DEF StopInv, ToldToStop, DiagPanicsOnlyInShutdown
<1>4. QED
  BY <1>1, <1>2, <1>3, AgreeInit, StopInit, PTL DEF Spec

\* Withdrawing a message that waits for room leaves the first where it is.
LEMMA WithdrawKeepsHead ==
  ASSUME NEW S, NEW ch \in Seq(S), NEW cap \in Nat \ {0}, NEW a
  PROVE  /\ Withdraw(ch, cap, a) \in Seq(S)
         /\ ch # <<>> => /\ Withdraw(ch, cap, a) # <<>>
                         /\ Head(Withdraw(ch, cap, a)) = Head(ch)
<1>1. CASE Blocked(ch, cap, a)
  <2> DEFINE k == CHOOSE i \in DOMAIN ch : Waits(ch, cap, a, i)
  <2>1. k \in DOMAIN ch /\ k > cap /\ Withdraw(ch, cap, a) = RemoveAt(ch, k)
    BY <1>1 DEF Blocked, Waits, Withdraw
  <2> HIDE DEF k
  <2>2. k > 1 /\ k <= Len(ch) /\ Len(ch) \in Nat
    BY <2>1
  <2>3. /\ RemoveAt(ch, k) \in Seq(S) /\ Len(RemoveAt(ch, k)) = Len(ch) - 1
        /\ \A j \in 1..(Len(ch) - 1) :
             RemoveAt(ch, k)[j] = IF j < k THEN ch[j] ELSE ch[j + 1]
    BY <2>1, RemoveAtElements
  <2>4. 1 \in 1..(Len(ch) - 1)
    <3>1. k \in Nat
      BY <2>1
    <3>2. QED
      BY <2>2, <3>1
  <2>5. RemoveAt(ch, k) # <<>> /\ RemoveAt(ch, k)[1] = ch[1]
    BY <2>2, <2>3, <2>4
  <2>6. QED
    BY <2>1, <2>3, <2>5
<1>2. CASE ~Blocked(ch, cap, a)
  BY <1>2 DEF Withdraw
<1>3. QED
  BY <1>1, <1>2

LEMMA LineInit == Init => LineInv
<1> SUFFICES ASSUME Init PROVE LineInv
  OBVIOUS
<1>1. /\ uiCh = <<>> /\ diagCh = <<Msg("diag", "start")>> /\ recording = FALSE
      /\ diag = "select"
  BY DEF Init
<1>2. Msg("diag", "start") \in Orders
  BY DEF Msg, Orders, Names
<1>3. diagCh \in Seq(Orders) /\ diagCh # <<>> /\ Head(diagCh).op = "start"
  BY <1>1, <1>2 DEF Msg
<1>4. uiCh \in Seq(Notes)
  BY <1>1
<1>5. recording \in BOOLEAN
  BY <1>1
<1>6. FirstStart
  BY <1>3 DEF FirstStart
<1>7. QED
  BY <1>1, <1>3, <1>4, <1>5, <1>6 DEF LineInv, LineAgrees

lineState == <<uiCh, display, uiAlive, recording, diag, task>>

LEMMA LineFrame ==
  ASSUME LineInv, UNCHANGED <<lineState, diagCh>>
  PROVE  LineInv'
BY DEF LineInv, LineAgrees, FirstStart, LastShown, lineState

\* A task that leaves the head of the diag thread's channel
LEMMA LineKeepsHead ==
  ASSUME LineInv, UNCHANGED lineState, diagCh' \in Seq(Orders),
         diagCh # <<>> => diagCh' # <<>> /\ Head(diagCh') = Head(diagCh)
  PROVE  LineInv'
<1>1. FirstStart => FirstStart'
  BY DEF FirstStart, lineState
<1>2. QED
  BY <1>1 DEF LineInv, LineAgrees, LastShown, lineState

LEMMA LineSend ==
  ASSUME LineInv, UNCHANGED lineState, NEW m \in Orders, NEW gone,
         diagCh' = Send(diagCh, gone, m)
  PROVE  LineInv'
<1>1. /\ Append(diagCh, m) \in Seq(Orders)
      /\ diagCh # <<>> => Append(diagCh, m) # <<>> /\ Head(Append(diagCh, m)) = Head(diagCh)
  BY DEF LineInv
<1>2. QED
  BY <1>1, LineKeepsHead DEF Send, LineInv

\* What Show sends to a display that is there is what it will show in the end.
LEMMA ShowIsLast ==
  ASSUME LineInv, NEW state \in {"recording", "paused", "warning"}, Show(state),
         UNCHANGED uiAlive
  PROVE  /\ uiCh' \in Seq(Notes)
         /\ uiAlive => LastShown' = state
<1>1. Msg("diag", state) \in Notes /\ Msg("diag", state).op = state
  BY DEF Msg, Notes
<1>2. CASE uiAlive
  <2>1. uiCh' = Append(uiCh, Msg("diag", state))
    BY <1>2 DEF Show, Send
  <2>2. /\ uiCh' \in Seq(Notes) /\ Len(uiCh') = Len(uiCh) + 1
        /\ uiCh'[Len(uiCh')] = Msg("diag", state) /\ uiCh' # <<>>
    BY <1>1, <2>1 DEF LineInv
  <2>3. QED
    BY <1>1, <2>2 DEF LastShown
<1>3. CASE ~uiAlive
  BY <1>3 DEF Show, Send, LineInv
<1>4. QED
  BY <1>2, <1>3

LEMMA DiagKeepsLine ==
  ASSUME LineInv, AgreeInv,
         DiagStep \/ DiagReadContainer \/ DiagReadError \/ DiagFails \/ NoteTake
  PROVE  LineInv'
<1>0. UNCHANGED <<uiAlive, display>>
  BY DEF DiagStep, DiagReceive, DiagStart, DiagStop, DiagClose, DiagDeleteOther, DiagProcess,
         DiagWarn, DiagRelease, DiagReadContainer, DiagReadError, DiagFails, NoteTake, uiVars
<1>1. CASE DiagReceive
  <2>1. /\ UNCHANGED uiCh /\ diagCh # <<>> /\ diagCh' = Tail(diagCh)
        /\ recording' = FALSE \/ UNCHANGED recording
    BY <1>1 DEF DiagReceive, StopCurrentRecording
  <2>2. diagCh' \in Seq(Orders)
    <3>1. diagCh \in Seq(Orders)
      BY DEF LineInv
    <3>2. QED
      BY <2>1, <3>1
  <2>3. recording' \in BOOLEAN
    BY <2>1 DEF LineInv
  <2>4. CASE Head(diagCh).op = "exit"
    BY <2>1, <2>2, <2>3, <2>4, <1>1 DEF DiagReceive, LineInv, LineAgrees
  <2>5. CASE Head(diagCh).op # "exit"
    <3>1. /\ diag = "select" /\ diag' = "lock" /\ task' = Head(diagCh)
          /\ UNCHANGED recording
      BY <1>1, <2>5 DEF DiagReceive
    <3>2. FirstStart => FirstStart'
      BY <3>1 DEF FirstStart
    <3>3. LastShown' = LastShown
      BY <2>1, <1>0 DEF LastShown
    <3>4. QED
      BY <1>0, <2>1, <2>2, <2>3, <3>1, <3>2, <3>3 DEF LineInv, LineAgrees
  <2>6. QED
    BY <2>4, <2>5
<1>2. CASE DiagStart
  <2>1. Show("recording") /\ recording' = TRUE /\ UNCHANGED diagCh
    BY <1>2 DEF DiagStart
  <2>2. QED
    BY <1>0, <2>1, ShowIsLast DEF LineInv, LineAgrees
<1>3. CASE DiagStop
  BY <1>3 DEF DiagStop, StopCurrentRecording, LineInv, LineAgrees
<1>4. CASE DiagClose
  <2>1. /\ Show("paused") /\ UNCHANGED <<recording, diagCh>> /\ ~recording
        /\ diag' = "tell"
    BY <1>4 DEF DiagClose, AgreeInv, Stopping
  <2>2. QED
    BY <1>0, <2>1, ShowIsLast DEF LineInv, LineAgrees
<1>5. CASE DiagDeleteOther
  <2>1. /\ diag = "lock" /\ diag' = "tell" /\ task.op = "delete"
        /\ UNCHANGED <<uiCh, diagCh, recording, task>>
    BY <1>5 DEF DiagDeleteOther, channels
  <2>2. (FirstStart => FirstStart') /\ LastShown' = LastShown
    BY <1>0, <2>1 DEF FirstStart, LastShown
  <2>3. QED
    BY <1>0, <2>1, <2>2 DEF LineInv, LineAgrees
<1>6. CASE DiagProcess
  <2>1. /\ diag = "lock" /\ task.op = "container"
        /\ \/ diag' = "panicked"
           \/ diag' \in {"note", "warn"} /\ recording
           \/ diag' = "tell"
        /\ recording' \in BOOLEAN /\ (diag' # "panicked" => recording' = recording)
        /\ UNCHANGED <<uiCh, diagCh, task>>
    BY <1>6 DEF DiagProcess, channels, LineInv
  <2>2. (FirstStart => FirstStart') /\ LastShown' = LastShown
    BY <1>0, <2>1 DEF FirstStart, LastShown
  <2>3. QED
    BY <1>0, <2>1, <2>2 DEF LineInv, LineAgrees
<1>7. CASE DiagWarn
  <2>1. /\ diag = "warn" /\ recording /\ diag' \in {"panicked", "tell"}
        /\ recording' \in BOOLEAN /\ (diag' # "panicked" => recording')
        /\ UNCHANGED <<diagCh, task>>
        /\ Show("warning") \/ UNCHANGED uiCh
    BY <1>7 DEF DiagWarn, LineInv
  <2>2. CASE Show("warning")
    BY <1>0, <2>1, <2>2, ShowIsLast DEF LineInv, LineAgrees
  <2>3. CASE UNCHANGED uiCh
    <3>1. (FirstStart => FirstStart') /\ LastShown' = LastShown
      BY <1>0, <2>1, <2>3 DEF FirstStart, LastShown
    <3>2. QED
      BY <1>0, <2>1, <2>3, <3>1 DEF LineInv, LineAgrees
  <2>4. QED
    BY <2>1, <2>2, <2>3
<1>8. CASE DiagFails
  BY <1>8 DEF DiagFails, channels, LineInv, LineAgrees
<1>9. CASE NoteTake
  <2>1. diag = "note" /\ diag' = "warn" /\ UNCHANGED <<uiCh, diagCh, recording, task>>
    BY <1>9 DEF NoteTake, channels
  <2>2. (FirstStart => FirstStart') /\ LastShown' = LastShown
    BY <1>0, <2>1 DEF FirstStart, LastShown
  <2>3. QED
    BY <1>0, <2>1, <2>2 DEF LineInv, LineAgrees
<1>10. CASE DiagRelease
  <2>1. /\ diag = "tell" /\ diag' \in {"panicked", "select"}
        /\ diag' # "panicked" => recording' = recording
        /\ recording' \in BOOLEAN /\ UNCHANGED <<uiCh, diagCh, task>>
    BY <1>10 DEF DiagRelease, channels, LineInv
  <2>2. (FirstStart => FirstStart') /\ LastShown' = LastShown
    BY <1>0, <2>1 DEF FirstStart, LastShown
  <2>3. QED
    BY <1>0, <2>1, <2>2 DEF LineInv, LineAgrees
<1>11. CASE DiagReadContainer
  <2>1. diag = "select" /\ diag' = "lock" /\ UNCHANGED <<uiCh, diagCh, recording>>
    BY <1>11 DEF DiagReadContainer, channels
  <2>2. (FirstStart => FirstStart') /\ LastShown' = LastShown
    BY <1>0, <2>1 DEF FirstStart, LastShown
  <2>3. QED
    BY <1>0, <2>1, <2>2 DEF LineInv, LineAgrees
<1>12. CASE DiagReadError
  BY <1>12 DEF DiagReadError, channels, LineInv, LineAgrees
<1>13. QED
  BY <1>1, <1>2, <1>3, <1>4, <1>5, <1>6, <1>7, <1>8, <1>9, <1>10, <1>11,
     <1>12
  DEF DiagStep

\* The display draws what it was sent in order, so that it ends on the last.
LEMMA UiKeepsLine ==
  ASSUME LineInv, UiStep
  PROVE  LineInv'
<1>1. CASE UiDraw
  <2>1. /\ uiCh # <<>> /\ uiCh' = Tail(uiCh) /\ display' = Head(uiCh).op
        /\ UNCHANGED <<diagCh, diag, task, recording, uiAlive>>
    BY <1>1 DEF UiDraw, diagVars
  <2>2. uiCh' \in Seq(Notes) /\ Len(uiCh') = Len(uiCh) - 1
        /\ \A i \in 1..Len(uiCh') : uiCh'[i] = uiCh[i + 1]
    BY <2>1 DEF LineInv
  <2>3. LastShown' = LastShown
    <3>1. CASE Len(uiCh) = 1
      <4>1. uiCh' = <<>> /\ Head(uiCh) = uiCh[Len(uiCh)]
        BY <2>1, <2>2, <3>1 DEF LineInv
      <4>2. QED
        BY <2>1, <4>1 DEF LastShown
    <3>2. CASE Len(uiCh) > 1
      <4>1. uiCh' # <<>> /\ uiCh'[Len(uiCh')] = uiCh[Len(uiCh)]
        BY <2>2, <3>2 DEF LineInv
      <4>2. QED
        BY <2>1, <4>1 DEF LastShown
    <3>3. Len(uiCh) = 1 \/ Len(uiCh) > 1
      <4>1. uiCh \in Seq(Notes)
        BY DEF LineInv
      <4>2. Len(uiCh) \in Nat /\ Len(uiCh) # 0
        BY <2>1, <4>1
      <4>3. \A n \in Nat : n # 0 => n = 1 \/ n > 1
        OBVIOUS
      <4>4. QED
        BY <4>2, <4>3
    <3>4. QED
      BY <3>1, <3>2, <3>3
  <2>4. QED
    BY <2>1, <2>2, <2>3 DEF LineInv, LineAgrees, FirstStart
<1>2. CASE UiExit
  BY <1>2 DEF UiExit, channels, diagVars, LineInv, LineAgrees
<1>3. QED
  BY <1>1, <1>2 DEF UiStep

LEMMA OthersKeepLine ==
  ASSUME LineInv, \/ WorkerStep \/ WorkerReadFails \/ ShutdownStep \/ Restart \/ ShutdownBegin
                  \/ UNCHANGED vars
                  \/ \E c \in Clients : ClientStep(c)
                  \/ \E c \in Clients, op \in Ops : ClientSend(c, op)
                  \/ \E c \in Clients, r \in Recordings : AnalyzeBegin(c, r)
                  \/ \E c \in Clients : HangUp(c)
  PROVE  LineInv'
<1>1. CASE WorkerStep \/ WorkerReadFails
  BY <1>1, LineFrame
  DEF WorkerStep, WorkerReadFails, WorkerReceive, WorkerNone, WorkerNote, WorkerCount, WorkerNext,
      WorkerDequeue, WorkerOpen, WorkerAnalyze, WorkerFinish, lineState, channels, uiVars,
      diagVars
<1>2. CASE Restart \/ ShutdownBegin \/ ShutdownExitAnalysis \/ ShutdownEnd \/ UNCHANGED vars
  BY <1>2, LineFrame
  DEF Restart, ShutdownBegin, ShutdownExitAnalysis, ShutdownEnd, vars, lineState, channels,
      uiVars, diagVars
<1>3. CASE ShutdownClose
  <2>1. Msg("shutdown", "exit") \in Orders
    BY DEF Msg, Orders, Names
  <2>2. UNCHANGED lineState /\ diagCh' = Send(diagCh, DiagGone, Msg("shutdown", "exit"))
    BY <1>3 DEF ShutdownClose, lineState, uiVars, diagVars
  <2>3. QED
    BY <2>1, <2>2, LineSend
<1>4. CASE \E c \in Clients : ClientStep(c)
  BY <1>4, LineFrame
  DEF ClientStep, ClientSent, ClientNoReply, AnalyzeLockStore, AnalyzeQueue, AnalyzeEnd,
      lineState, channels, uiVars, diagVars
<1>5. ASSUME NEW c \in Clients, NEW op \in Ops, ClientSend(c, op)
      PROVE  LineInv'
  <2>1. Msg(c, op) \in Orders
    BY <1>5, OpsAssumption DEF ClientSend, Msg, Orders, Names
  <2>2. UNCHANGED lineState /\ diagCh' = Send(diagCh, DiagGone, Msg(c, op))
    BY <1>5 DEF ClientSend, lineState, uiVars, diagVars
  <2>3. QED
    BY <2>1, <2>2, LineSend
<1>6. CASE \E c \in Clients, r \in Recordings : AnalyzeBegin(c, r)
  BY <1>6, LineFrame DEF AnalyzeBegin, lineState, channels, uiVars, diagVars
<1>7. ASSUME NEW c \in Clients, HangUp(c)
      PROVE  LineInv'
  <2>1. UNCHANGED lineState /\ diagCh' = Withdraw(diagCh, DiagCap, c)
    BY <1>7 DEF HangUp, lineState, uiVars, diagVars
  <2>2. /\ diagCh' \in Seq(Orders)
        /\ diagCh # <<>> => diagCh' # <<>> /\ Head(diagCh') = Head(diagCh)
    BY <2>1, CapsAssumption, WithdrawKeepsHead DEF LineInv
  <2>3. QED
    BY <2>1, <2>2, LineKeepsHead
<1>8. QED
  BY <1>1, <1>2, <1>3, <1>4, <1>5, <1>6, <1>7 DEF ShutdownStep

\* Whatever the clients ask for, whatever is detected and however late the
\* display draws: once it has drawn all, and the diag thread has nothing left
\* to do, the line says "paused" exactly when nothing is recorded.
THEOREM LineTellsTheTruth == Spec => []LineTellsRecording
<1>1. AgreeInv /\ LineInv /\ [Next]_vars => LineInv'
  BY DiagKeepsLine, UiKeepsLine, OthersKeepLine DEF Next, Environment
<1>2. AgreeInv /\ [Next]_vars => AgreeInv'
  BY DiagStepAgrees, ClientStepAgrees, WorkerStepAgrees, ShutdownStepAgrees,
     EnvironmentAgrees, OthersAgree DEF Next
<1>3. LineInv => LineTellsRecording
  BY DEF LineInv, LineAgrees, FirstStart, LastShown, LineTellsRecording, DisplayAtRest
<1>4. QED
  BY <1>1, <1>2, <1>3, AgreeInit, LineInit, PTL DEF Spec

=============================================================================
