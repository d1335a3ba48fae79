------------------------------ MODULE KeyInput ------------------------------
(***************************************************************************)
(* The double press of the power button (daemon/src/key_input.rs): the     *)
(* kernel's queue of events, the task that reads them and tells the time   *)
(* as it reads, and its way to the diag thread, a channel other tasks send *)
(* on too.  While the task waits for room there, events wait for it.       *)
(***************************************************************************)
EXTENDS Naturals, Sequences

CONSTANTS
  Bounce,      \* an event sooner than this after the one before is dropped: 50 ms
  Shortest,    \* a double press takes so long at least: 100 ms
  Longest,     \* and at most: 800 ms
  DiagCap,     \* room in the diag thread's channel: 1
  Never,       \* no time: None
  MaxTime,     \* bound
  MaxEvents,   \* bound: presses and releases
  MaxOthers    \* bound: messages of other tasks

ASSUME TimesAssumption ==
  Bounce \in Nat \ {0} /\ Shortest \in Nat /\ Longest \in Nat /\ Shortest <= Longest
ASSUME NeverAssumption == Never \notin Nat

VARIABLES
  now,
  pressed,     \* events so far, a press and a release in turn
  events,      \* those not yet read, each with its time
  pc,          \* of the task
  lastEvent,   \* last_event_time
  lastKeyup,   \* last_keyup
  keyupAt,     \* when that release was made, rather than read
  restarts,    \* double presses seen
  diagQ,       \* the diag thread's channel: the task's messages, and "other"
  diag,        \* "up" or "gone"
  others,      \* messages of other tasks so far
  cancelled

time    == <<now, pressed>>
task    == <<pc, lastEvent, lastKeyup, keyupAt, restarts>>
channel == <<diagQ, diag, others>>
vars    == <<time, events, task, channel, cancelled>>

Init ==
  /\ now = 0 /\ pressed = 0 /\ events = <<>>
  /\ pc = "read" /\ lastEvent = Never /\ lastKeyup = Never /\ keyupAt = Never /\ restarts = 0
  /\ diagQ = <<>> /\ diag = "up" /\ others = 0 /\ cancelled = FALSE

-----------------------------------------------------------------------------
(* The world: time, the button, other tasks, the diag thread *)

\* The task reads at once when it is free to: what delays it is the channel
Tick ==
  /\ pc = "read" => events = <<>>
  /\ now < MaxTime /\ now' = now + 1
  /\ UNCHANGED <<pressed, events, task, channel, cancelled>>

\* parse_event: a byte tells a release from a press (and from a repetition)
Button ==
  /\ pressed < MaxEvents /\ pressed' = pressed + 1
  /\ events' = Append(events, [is |-> IF pressed % 2 = 0 THEN "KeyDown" ELSE "KeyUp", at |-> now])
  /\ UNCHANGED <<now, task, channel, cancelled>>

Others ==
  /\ others < MaxOthers /\ others' = others + 1
  /\ diag = "up" /\ Len(diagQ) < DiagCap
  /\ diagQ' = Append(diagQ, "other")
  /\ UNCHANGED <<time, events, task, diag, cancelled>>

DiagReceive ==
  /\ diag = "up" /\ diagQ # <<>>
  /\ diagQ' = Tail(diagQ)
  /\ UNCHANGED <<time, events, task, diag, others, cancelled>>

\* A shutdown, which the diag thread is told of, or its own end
Cancel ==
  /\ ~cancelled /\ cancelled' = TRUE
  /\ UNCHANGED <<time, events, task, channel>>
DiagEnds ==
  /\ diag = "up" /\ diag' = "gone" /\ diagQ' = <<>>
  /\ UNCHANGED <<time, events, task, others, cancelled>>

-----------------------------------------------------------------------------
(* run_key_input_thread *)

\* Not: events are read however close together; a double press of any length
NeverBounces   == FALSE
AnyDoublePress == lastKeyup # Never /\ now - lastKeyup <= Longest
Bounces == lastEvent # Never /\ now - lastEvent < Bounce

DoublePress == lastKeyup # Never /\ now - lastKeyup \in Shortest..Longest

ReadEvent ==
  /\ pc = "read" /\ events # <<>> /\ events' = Tail(events)
  /\ lastEvent' = now
  /\ \/ /\ Bounces \/ Head(events).is = "KeyDown"
        /\ UNCHANGED <<pc, lastKeyup, keyupAt, restarts>>
     \/ /\ ~Bounces /\ Head(events).is = "KeyUp" /\ DoublePress
        /\ pc' = "send stop" /\ restarts' = restarts + 1
        /\ UNCHANGED <<lastKeyup, keyupAt>>
     \/ /\ ~Bounces /\ Head(events).is = "KeyUp" /\ ~DoublePress
        /\ lastKeyup' = now /\ keyupAt' = Head(events).at
        /\ UNCHANGED <<pc, restarts>>
  /\ UNCHANGED <<time, channel, cancelled>>

\* select! may take either branch when both are ready
SeeCancelled ==
  /\ pc = "read" /\ cancelled /\ pc' = "ended"
  /\ UNCHANGED <<time, events, lastEvent, lastKeyup, keyupAt, restarts, channel, cancelled>>
ReadFails ==
  /\ pc = "read" /\ pc' = "ended"
  /\ UNCHANGED <<time, events, lastEvent, lastKeyup, keyupAt, restarts, channel, cancelled>>

\* diag_tx.send(m).await, which fails at once when nobody receives
Send(m) ==
  \/ diag = "gone" /\ UNCHANGED diagQ
  \/ diag = "up" /\ Len(diagQ) < DiagCap /\ diagQ' = Append(diagQ, m)

\* Not: a double press that leaves its second release to be paired again
SendStartKeepKeyup ==
  /\ pc = "send start" /\ Send("StartRecording") /\ pc' = "read"
  /\ UNCHANGED <<time, events, lastEvent, lastKeyup, keyupAt, restarts, diag, others,
                 cancelled>>
\* Not: the task ends between the two
SendStopCancellable ==
  /\ pc = "send stop" /\ Send("StopRecording")
  /\ pc' = IF cancelled THEN "ended" ELSE "send start"
  /\ UNCHANGED <<time, events, lastEvent, lastKeyup, keyupAt, restarts, diag, others,
                 cancelled>>
SendStop ==
  /\ pc = "send stop" /\ Send("StopRecording") /\ pc' = "send start"
  /\ UNCHANGED <<time, events, lastEvent, lastKeyup, keyupAt, restarts, diag, others,
                 cancelled>>
SendStart ==
  /\ pc = "send start" /\ Send("StartRecording") /\ pc' = "read"
  /\ lastKeyup' = Never /\ keyupAt' = Never
  /\ UNCHANGED <<time, events, lastEvent, restarts, diag, others, cancelled>>

Key  == ReadEvent \/ SeeCancelled \/ SendStop \/ SendStart
Next == Key \/ ReadFails \/ Tick \/ Button \/ Others \/ DiagReceive \/ DiagEnds \/ Cancel

\* The task and the diag thread run when they can.  The channel is fair: its
\* senders get their turn in order
Spec     == Init /\ [][Next]_vars
FairSpec == Spec /\ WF_vars(ReadEvent) /\ SF_vars(SendStop) /\ SF_vars(SendStart)
                 /\ WF_vars(DiagReceive)

-----------------------------------------------------------------------------
TypeOK ==
  /\ now \in 0..MaxTime /\ pressed \in 0..MaxEvents /\ Len(events) <= pressed
  /\ pc \in {"read", "send stop", "send start", "ended"}
  /\ lastEvent \in (0..now) \cup {Never} /\ lastKeyup \in (0..now) \cup {Never}
  /\ keyupAt \in (0..now) \cup {Never} /\ (keyupAt = Never <=> lastKeyup = Never)
  /\ restarts \in 0..MaxEvents /\ Len(diagQ) <= DiagCap /\ diag \in {"up", "gone"}
  /\ others \in 0..MaxOthers /\ cancelled \in BOOLEAN

\* No release counts for two double presses, whether it bounced, was read late
\* or came while the task was waiting (key_input.rs:89)
TwoReleasesEach == 2 * restarts <= pressed \div 2

\* A recording that the button stops is started again, while the diag thread is
\* there, whatever other tasks send and whenever the daemon is told to stop
\* (doc/configuration.md:15: "stops and immediately restarts the recording")
StopThenStart ==
  (diagQ # <<>> /\ Head(diagQ) = "StopRecording")
    ~> (diag = "gone" \/ (diagQ # <<>> /\ Head(diagQ) = "StartRecording"))

\* The button starts a recording only by a double press: of two releases that
\* were made, rather than read, so far apart, however long the task waited for
\* the channel between them.  A release read late follows its press, read late
\* with it, at once, and is dropped (doc/using-rayhunter.md:31: "you can start a
\* new recording by double-tapping the power button")
OnlyDoublePresses ==
  [][restarts' # restarts =>
       Head(events).at - keyupAt \in Shortest..Longest]_vars
=============================================================================
