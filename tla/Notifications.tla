---------------------------- MODULE Notifications ----------------------------
(***************************************************************************)
(* Notifications (daemon/src/notifications.rs): the worker that posts them *)
(* to the configured URL, and the two tasks that send them, the diag       *)
(* thread for warnings (diag.rs) and the battery worker (battery/mod.rs).  *)
(*                                                                         *)
(* The channel is its queue of messages, those of senders that wait for    *)
(* room included, as in Daemon.  A message is its type: a newer text       *)
(* replaces an older one.  Instants are kept as ages, which stop counting  *)
(* where the code can no longer tell.                                      *)
(***************************************************************************)
EXTENDS Naturals, Sequences, FiniteSets

CONSTANTS
  Cap,         \* capacity of the channel; the code: 10
  Debounce,    \* seconds without another warning; the code: 300
  MaxExponent, \* the longest wait is 2^MaxExponent seconds; the code: 8
  Pause,       \* seconds between two rounds; the code: 2
  Enabled      \* enabled_notifications

Types == {"Warning", "LowBattery"}

ASSUME NumbersAssumption ==
  /\ Cap \in Nat \ {0} /\ Debounce \in Nat \ {0}
  /\ MaxExponent \in Nat \ {0} /\ Pause \in Nat \ {0}
ASSUME EnabledAssumption == Enabled \subseteq Types

VARIABLES
  ch,         \* NotificationService's channel
  worker,     \* "drain", "round", "post", "sleep"; "discard" without a URL; "gone"
  left,       \* statuses the round has still to visit
  posting,    \* the type being posted
  slept,      \* seconds into the pause
  needs,      \* needs_sending of each type
  sentAge,    \* seconds since last_sent; Debounce if longer ago, or never
  attemptAge, \* seconds since last_attempt; LongestWait likewise
  failures,   \* failed_since_last_success
  diag,       \* "free", "sending" while it holds the store's lock, or "gone"
  battery,    \* "poll", "sending" or "gone"
  triggered   \* the battery worker has notified and not seen it recharged

LongestWait == 2 ^ MaxExponent

service == <<worker, left, posting, slept, needs, sentAge, attemptAge, failures>>
senders == <<diag, battery, triggered>>
vars    == <<ch, service, senders>>

-----------------------------------------------------------------------------
Blocked(a) == \E i \in DOMAIN ch : i > Cap /\ ch[i].from = a
Send(a, type) == ch' = Append(ch, [from |-> a, type |-> type])

\* There is a URL or not; the battery is low at start-up or not, unreadable, or
\* unsupported
Init ==
  /\ ch = <<>> /\ worker \in {"drain", "discard"} /\ left = {} /\ posting = "Warning" /\ slept = 0
  /\ needs = [t \in Types |-> FALSE]
  /\ sentAge = [t \in Types |-> Debounce] /\ attemptAge = [t \in Types |-> LongestWait]
  /\ failures = [t \in Types |-> 0]
  /\ diag = "free" /\ battery = "poll" /\ triggered \in BOOLEAN

-----------------------------------------------------------------------------
\* process_container: a heuristic triggered; the store stays locked until the
\* channel has taken the message
Detect ==
  /\ diag = "free"
  /\ Send("diag", "Warning")
  /\ diag' = "sending"
  /\ UNCHANGED <<service, battery, triggered>>

DiagSent ==
  /\ diag = "sending" /\ ~Blocked("diag")
  /\ diag' = "free"
  /\ UNCHANGED <<ch, service, battery, triggered>>

\* Every 15 seconds: rearm when plugged in and charged, notify when low
BatteryPoll(low, plugged) ==
  /\ battery = "poll"
  /\ \/ /\ triggered /\ plugged /\ ~low
        /\ triggered' = FALSE
        /\ UNCHANGED <<ch, battery>>
     \/ /\ ~triggered /\ ~plugged /\ low
        /\ Send("battery", "LowBattery")
        /\ battery' = "sending"
        /\ UNCHANGED triggered
  /\ UNCHANGED <<service, diag>>

BatterySent ==
  /\ battery = "sending" /\ ~Blocked("battery")
  /\ battery' = "poll" /\ triggered' = TRUE
  /\ UNCHANGED <<ch, service, diag>>

\* Shutdown: each sender drops its end of the channel, the diag thread also
\* when it panics
DiagEnds ==
  /\ diag = "free" /\ diag' = "gone"
  /\ UNCHANGED <<ch, service, battery, triggered>>
BatteryEnds ==
  /\ battery = "poll" /\ battery' = "gone"
  /\ UNCHANGED <<ch, service, diag, triggered>>
NoSenders == diag = "gone" /\ battery = "gone"

-----------------------------------------------------------------------------
\* Only warnings have a debounce time.  Not: one second less; any type.
DebouncedLess(type) == type = "Warning" /\ sentAge[type] < Debounce - 1
DebouncedAll(type)  == sentAge[type] < Debounce
Debounced(type)     == type = "Warning" /\ sentAge[type] < Debounce

\* The worker empties the channel without an await, so a sender that waits for
\* room has not run yet.  Without senders it ends, whatever it had to send.
Delivered == {ch[i].type : i \in 1..(IF Len(ch) < Cap THEN Len(ch) ELSE Cap)}
Drain ==
  /\ worker = "drain"
  /\ ch' = SubSeq(ch, Cap + 1, Len(ch))
  /\ needs' = [t \in Types |->
                 needs[t] \/ (t \in Delivered \cap Enabled /\ ~Debounced(t))]
  /\ left' = Types
  /\ worker' = IF NoSenders THEN "gone" ELSE "round"
  /\ UNCHANGED <<posting, slept, sentAge, attemptAge, failures, senders>>

\* Without a URL
Discard ==
  /\ worker = "discard"
  /\ \/ ch # <<>> /\ ch' = Tail(ch) /\ worker' = worker
     \/ ch = <<>> /\ NoSenders /\ worker' = "gone" /\ UNCHANGED ch
  /\ UNCHANGED <<left, posting, slept, needs, sentAge, attemptAge, failures, senders>>

\* Wait 2^failures seconds after a failed attempt
Wait(type) ==
  2 ^ (IF failures[type] < MaxExponent THEN failures[type] ELSE MaxExponent)

IsDue(type) == needs[type] /\ attemptAge[type] >= Wait(type)

\* The map of statuses is visited in any order
Visit(type) ==
  /\ worker = "round" /\ type \in left
  /\ left' = left \ {type}
  /\ IF IsDue(type) THEN worker' = "post" /\ posting' = type
                    ELSE UNCHANGED <<worker, posting>>
  /\ UNCHANGED <<ch, slept, needs, sentAge, attemptAge, failures, senders>>

\* The server answers
PostSucceeds ==
  /\ worker = "post" /\ worker' = "round"
  /\ sentAge' = [sentAge EXCEPT ![posting] = 0]
  /\ failures' = [failures EXCEPT ![posting] = 0]
  /\ needs' = [needs EXCEPT ![posting] = FALSE]
  /\ UNCHANGED <<ch, left, posting, slept, attemptAge, senders>>

\* ... with an error, or the connection fails.  Wait tells no more failures
\* apart than MaxExponent.  Not: the notification is given up.
PostGivesUp ==
  /\ worker = "post" /\ worker' = "round"
  /\ failures' = [failures EXCEPT ![posting] = IF @ < MaxExponent THEN @ + 1 ELSE @]
  /\ needs' = [needs EXCEPT ![posting] = FALSE]
  /\ attemptAge' = [attemptAge EXCEPT ![posting] = 0]
  /\ UNCHANGED <<ch, left, posting, slept, sentAge, senders>>
PostFails ==
  /\ worker = "post" /\ worker' = "round"
  /\ failures' = [failures EXCEPT ![posting] = IF @ < MaxExponent THEN @ + 1 ELSE @]
  /\ attemptAge' = [attemptAge EXCEPT ![posting] = 0]
  /\ UNCHANGED <<ch, left, posting, slept, needs, sentAge, senders>>

EndRound ==
  /\ worker = "round" /\ left = {}
  /\ worker' = "sleep" /\ slept' = 0
  /\ UNCHANGED <<ch, left, posting, needs, sentAge, attemptAge, failures, senders>>

\* Back to the top of the outer loop.  Not: of the loop over the statuses.
WakeForRetries ==
  /\ worker = "sleep" /\ slept >= Pause
  /\ worker' = "round" /\ left' = Types
  /\ UNCHANGED <<ch, posting, slept, needs, sentAge, attemptAge, failures, senders>>
WakeUp ==
  /\ worker = "sleep" /\ slept >= Pause
  /\ worker' = "drain"
  /\ UNCHANGED <<ch, left, posting, slept, needs, sentAge, attemptAge, failures, senders>>

\* A second passes, while the worker sleeps or waits for the server
Older(age, limit) == IF age < limit THEN age + 1 ELSE age
Tick ==
  /\ worker \in {"sleep", "post"}
  /\ slept' = IF worker = "sleep" THEN Older(slept, Pause) ELSE slept
  /\ sentAge' = [t \in Types |-> Older(sentAge[t], Debounce)]
  /\ attemptAge' = [t \in Types |-> Older(attemptAge[t], LongestWait)]
  /\ UNCHANGED <<ch, worker, left, posting, needs, failures, senders>>

WorkerStep == Drain \/ Discard \/ (\E t \in Types : Visit(t)) \/ EndRound \/ WakeUp

Next ==
  \/ WorkerStep \/ PostSucceeds \/ PostFails \/ Tick
  \/ Detect \/ DiagSent \/ BatterySent \/ DiagEnds \/ BatteryEnds
  \/ \E low, plugged \in BOOLEAN : BatteryPoll(low, plugged)

Spec == Init /\ [][Next]_vars

\* The runtime runs its tasks, and time passes.  Nothing makes a post end: the
\* client is reqwest's default one, which sets no time limit.
Fairness ==
  /\ WF_vars(WorkerStep) /\ WF_vars(Tick)
  /\ WF_vars(DiagSent) /\ WF_vars(BatterySent)

FairSpec == Spec /\ Fairness

-----------------------------------------------------------------------------
TypeOK ==
  /\ ch \in Seq([from : {"diag", "battery"}, type : Types]) /\ Len(ch) <= Cap + 2
  /\ worker \in {"drain", "round", "post", "sleep", "discard", "gone"}
  /\ left \subseteq Types /\ posting \in Types /\ slept \in 0..Pause
  /\ needs \in [Types -> BOOLEAN]
  /\ sentAge \in [Types -> 0..Debounce] /\ attemptAge \in [Types -> 0..LongestWait]
  /\ failures \in [Types -> 0..MaxExponent]
  /\ diag \in {"free", "sending", "gone"} /\ battery \in {"poll", "sending", "gone"}
  /\ triggered \in BOOLEAN

\* No two warnings are acknowledged by the server within the debounce time,
\* however many were detected, queued or retried in between (diag.rs:213)
DebounceHolds ==
  [][worker = "post" /\ posting = "Warning" /\ sentAge'["Warning"] = 0
       => sentAge["Warning"] >= Debounce]_vars

InChannel(type) == \E i \in DOMAIN ch : ch[i].type = type
Ended           == worker \in {"discard", "gone"}

\* What a server may be trusted with: to end every post with an answer or an
\* error, and, tried again and again, to take a notification at last
PostsEnd      == []<>(worker # "post")
TakenAtLast(type) ==
  []<>(worker = "post" /\ posting = type)
    => []<><<PostSucceeds /\ posting = type>>_vars
ServerAnswers == PostsEnd /\ TakenAtLast("Warning") /\ TakenAtLast("LowBattery")

\* Given a server that answers at last, a warning in the channel, if enabled,
\* reaches the user, or one did within the debounce time: none is lost to
\* failing posts, to a full channel or to the back-off, unless there is no URL
\* or the daemon ends
WarningArrives ==
  "Warning" \in Enabled /\ ServerAnswers =>
    (InChannel("Warning") ~> (sentAge["Warning"] < Debounce \/ Ended))

\* Given such a server, a low battery is notified whatever was sent, and however
\* recently, before
LowBatteryArrives ==
  "LowBattery" \in Enabled /\ ServerAnswers =>
    (InChannel("LowBattery") ~> (sentAge["LowBattery"] = 0 \/ Ended))

\* Given that every post ends, the diag thread, which holds the store's lock
\* while it waits for room in the channel, goes on, however often posts fail and
\* however long the worker then waits.  One post that does not end, to a server
\* that takes the connection and never answers, keeps the worker, the diag
\* thread and the store's lock for good (notifications.rs:73, 128-133).
StoreIsGivenBack == PostsEnd => (diag = "sending" ~> diag # "sending")

\* Given that every post ends, the worker does not keep the daemon from ending:
\* once the tasks that notify are gone, so is the worker (main.rs:330 waits for
\* it).  A post that does not end keeps it, and the daemon with it.
WorkerEnds == PostsEnd => (NoSenders ~> worker = "gone")
=============================================================================
