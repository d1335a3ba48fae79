--------------------------- MODULE KeyInputProofs ---------------------------
(***************************************************************************)
(* What a press of the button does, for any times, any capacity of the     *)
(* channel and any number of presses: no release counts for two double     *)
(* presses, and the time the task reads an event at, which it takes for    *)
(* the time of the event, does not deceive it about the two that count.    *)
(***************************************************************************)
EXTENDS KeyInput, TLAPS

Times  == Nat \cup {Never}
Events == [is : {"KeyDown", "KeyUp"}, at : Nat]

Sending == {"send stop", "send start"}

\* How many events the task has read; the one after is number 1 of the queue
HasRead == pressed - Len(events)

Types ==
  /\ now \in Nat /\ pressed \in Nat /\ events \in Seq(Events) /\ Len(events) <= pressed
  /\ lastEvent \in Times /\ lastKeyup \in Times /\ restarts \in Nat

\* Presses and releases take turns, also in the queue.
TakeTurns ==
  \A i \in 1..Len(events) :
    events[i].is = IF (HasRead + i) % 2 = 1 THEN "KeyDown" ELSE "KeyUp"

\* The task waits for the channel only after a release.
WaitsAfterRelease == pc \in Sending => HasRead % 2 = 0

\* A task that is free to read has no release of earlier than now before it,
\* unless it is going to drop it, or reads the press before it first.
NoLateRelease ==
  pc = "read" =>
    \/ lastEvent = now
    \/ HasRead % 2 = 0
    \/ \A i \in 1..Len(events) : events[i].at = now

\* Two releases for each double press, and one for the release that waits for
\* its second
Paired ==
  2 * restarts + (IF lastKeyup # Never /\ pc \notin Sending THEN 1 ELSE 0)
    <= HasRead \div 2

KeyInv == /\ Types /\ TakeTurns /\ WaitsAfterRelease /\ NoLateRelease /\ Paired
          /\ keyupAt = lastKeyup

-----------------------------------------------------------------------------
(* Halves *)

LEMMA Halves ==
  ASSUME NEW n \in Nat
  PROVE  /\ n % 2 \in {0, 1} /\ n \div 2 \in Nat
         /\ n % 2 = 0 => (n + 1) % 2 = 1 /\ (n + 1) \div 2 = n \div 2
         /\ n % 2 = 1 => (n + 1) % 2 = 0 /\ (n + 1) \div 2 = n \div 2 + 1
OBVIOUS

LEMMA HalvesGrow ==
  ASSUME NEW m \in Nat, NEW n \in Nat, m <= n
  PROVE  m \div 2 <= n \div 2
OBVIOUS

LEMMA HasReadIsNat == Types => HasRead \in Nat
BY DEF Types, HasRead

-----------------------------------------------------------------------------
LEMMA KeyInit == Init => KeyInv
<1> SUFFICES ASSUME Init PROVE KeyInv
  OBVIOUS
<1>1. /\ now = 0 /\ pressed = 0 /\ restarts = 0 /\ pc = "read"
      /\ lastEvent = Never /\ lastKeyup = Never /\ keyupAt = Never
  BY DEF Init
<1>2. events = <<>>
  BY DEF Init
<1>3. events \in Seq(Events) /\ Len(events) = 0
  BY <1>2
<1>4. Types
  BY <1>1, <1>3 DEF Types, Times
<1>5. HasRead = 0 /\ 1..Len(events) = {}
  BY <1>1, <1>3 DEF HasRead
<1>6. TakeTurns /\ WaitsAfterRelease /\ NoLateRelease
  BY <1>1, <1>5 DEF TakeTurns, WaitsAfterRelease, NoLateRelease, Sending
<1>7. Paired
  BY <1>1, <1>5 DEF Paired
<1>8. QED
  BY <1>1, <1>4, <1>6, <1>7 DEF KeyInv

\* What leaves the task and its events alone
LEMMA KeyFrame ==
  ASSUME KeyInv, UNCHANGED <<time, events, task>>
  PROVE  KeyInv'
BY DEF KeyInv, Types, TakeTurns, WaitsAfterRelease, NoLateRelease, Paired, HasRead, time, task

LEMMA TickKeeps ==
  ASSUME KeyInv, Tick
  PROVE  KeyInv'
<1>1. /\ pc = "read" => events = <<>>
      /\ now' = now + 1 /\ UNCHANGED <<pressed, events, task>>
  BY DEF Tick
<1>2. HasRead' = HasRead
  BY <1>1 DEF HasRead
<1>3. NoLateRelease'
  BY <1>1 DEF NoLateRelease, task
<1>4. QED
  BY <1>1, <1>2, <1>3 DEF KeyInv, Types, TakeTurns, WaitsAfterRelease, Paired, task

LEMMA ButtonKeeps ==
  ASSUME KeyInv, Button
  PROVE  KeyInv'
<1> DEFINE event == [is |-> IF pressed % 2 = 0 THEN "KeyDown" ELSE "KeyUp", at |-> now]
<1>1. pressed' = pressed + 1 /\ events' = Append(events, event) /\ UNCHANGED <<now, task>>
  BY DEF Button
<1>2. /\ now \in Nat /\ pressed \in Nat /\ events \in Seq(Events) /\ Len(events) <= pressed
      /\ Len(events) \in Nat
  BY DEF KeyInv, Types
<1>3. event \in Events /\ event.at = now
      /\ event.is = IF (pressed + 1) % 2 = 1 THEN "KeyDown" ELSE "KeyUp"
  BY <1>2, Halves DEF Events
<1> HIDE DEF event
<1>4. /\ events' \in Seq(Events) /\ Len(events') = Len(events) + 1
      /\ events'[Len(events) + 1] = event
      /\ \A i \in 1..Len(events) : events'[i] = events[i]
  BY <1>1, <1>2, <1>3
<1>5. HasRead' = HasRead /\ HasRead + (Len(events) + 1) = pressed + 1
  BY <1>1, <1>2, <1>4 DEF HasRead
<1>6. \A i \in 1..Len(events') : i \in 1..Len(events) \/ i = Len(events) + 1
  BY <1>2, <1>4
<1>7. Types'
  BY <1>1, <1>2, <1>4 DEF KeyInv, Types, task
<1>8. TakeTurns'
  BY <1>3, <1>4, <1>5, <1>6 DEF KeyInv, TakeTurns
<1>9. NoLateRelease'
  BY <1>1, <1>3, <1>4, <1>5, <1>6 DEF KeyInv, NoLateRelease, task
<1>10. QED
  BY <1>1, <1>5, <1>7, <1>8, <1>9 DEF KeyInv, WaitsAfterRelease, Paired, task

\* A release that is not dropped is read when it is made.
LEMMA ReadWhenMade ==
  ASSUME KeyInv, pc = "read", events # <<>>, ~Bounces, Head(events).is = "KeyUp"
  PROVE  HasRead % 2 = 1 /\ Head(events).at = now
<1>1. events \in Seq(Events) /\ Len(events) \in Nat /\ 1 \in 1..Len(events)
      /\ Head(events) = events[1]
  BY DEF KeyInv, Types
<1>2. (HasRead + 1) % 2 # 1
  BY <1>1 DEF KeyInv, TakeTurns
<1>3. HasRead \in Nat
  BY HasReadIsNat DEF KeyInv
<1>4. HasRead % 2 = 1
  BY <1>2, <1>3, Halves
<1>5. lastEvent # now
  <2>1. now \in Nat /\ Bounce \in Nat \ {0} /\ now # Never
    BY TimesAssumption, NeverAssumption DEF KeyInv, Types
  <2>2. QED
    BY <2>1 DEF Bounces
<1>6. QED
  BY <1>1, <1>4, <1>5 DEF KeyInv, NoLateRelease

LEMMA ReadKeeps ==
  ASSUME KeyInv, ReadEvent
  PROVE  KeyInv'
<1>1. /\ pc = "read" /\ events # <<>> /\ events' = Tail(events) /\ lastEvent' = now
      /\ UNCHANGED <<now, pressed>>
  BY DEF ReadEvent, time
<1>2. /\ now \in Nat /\ pressed \in Nat /\ events \in Seq(Events) /\ Len(events) <= pressed
      /\ Len(events) \in Nat /\ restarts \in Nat /\ lastKeyup \in Times
  BY DEF KeyInv, Types
<1>3. /\ events' \in Seq(Events) /\ Len(events') = Len(events) - 1 /\ Len(events) > 0
      /\ \A i \in 1..Len(events') : events'[i] = events[i + 1] /\ i + 1 \in 1..Len(events)
  BY <1>1, <1>2
<1>4. HasRead \in Nat /\ HasRead' = HasRead + 1
  BY <1>1, <1>2, <1>3 DEF HasRead
<1>5. TakeTurns'
  <2> SUFFICES ASSUME NEW i \in 1..Len(events')
               PROVE  events'[i].is = IF (HasRead' + i) % 2 = 1 THEN "KeyDown" ELSE "KeyUp"
    BY DEF TakeTurns
  <2>1. HasRead' + i = HasRead + (i + 1)
    BY <1>3, <1>4
  <2>2. QED
    BY <1>3, <2>1 DEF KeyInv, TakeTurns
<1>6. NoLateRelease'
  BY <1>1 DEF NoLateRelease
<1>7. lastEvent' \in Times
  BY <1>1, <1>2 DEF Times
<1>8. CASE UNCHANGED <<pc, lastKeyup, keyupAt, restarts>>
  <2>1. HasRead' \div 2 >= HasRead \div 2 /\ HasRead' \div 2 \in Nat /\ HasRead \div 2 \in Nat
    BY <1>4, HalvesGrow, Halves
  <2>2. Paired'
    BY <1>2, <1>8, <2>1 DEF KeyInv, Paired
  <2>3. pc' \notin Sending
    BY <1>1, <1>8 DEF Sending
  <2>4. QED
    BY <1>1, <1>2, <1>3, <1>5, <1>6, <1>7, <1>8, <2>2, <2>3
    DEF KeyInv, Types, WaitsAfterRelease
<1>9. CASE ~Bounces /\ Head(events).is = "KeyUp"
  <2>1. HasRead % 2 = 1 /\ Head(events).at = now
    BY <1>1, <1>9, ReadWhenMade
  <2>2. HasRead' % 2 = 0 /\ HasRead' \div 2 = HasRead \div 2 + 1 /\ HasRead \div 2 \in Nat
    BY <1>4, <2>1, Halves
  <2>3. pc \notin Sending
    BY <1>1 DEF Sending
  <2>4. CASE DoublePress
    <3>1. /\ pc' = "send stop" /\ restarts' = restarts + 1
          /\ UNCHANGED <<lastKeyup, keyupAt>> /\ lastKeyup # Never
      BY <1>8, <1>9, <2>4 DEF ReadEvent, DoublePress
    <3>2. restarts' = restarts + 1
      BY <3>1
    <3>3. restarts \in Nat
      BY <1>2
    <3>4. restarts' \in Nat /\ 2 * restarts' = (2 * restarts + 1) + 1
          /\ 2 * restarts + 1 \in Nat
      BY <3>2, <3>3
    <3>5. 2 * restarts + 1 <= HasRead \div 2
      BY <2>3, <3>1 DEF KeyInv, Paired
    <3>6. 2 * restarts' + 0 <= HasRead' \div 2
      BY <2>2, <3>4, <3>5
    <3>7. pc' \in Sending
      BY <3>1 DEF Sending
    <3>8. Paired'
      BY <3>6, <3>7 DEF Paired
    <3>9. now' \in Nat /\ pressed' \in Nat /\ Len(events') <= pressed'
      BY <1>1, <1>2, <1>3
    <3>10. lastKeyup' \in Times
      BY <1>2, <3>1
    <3>11. Types'
      BY <1>3, <1>7, <3>4, <3>9, <3>10 DEF Types
    <3>12. QED
      BY <1>5, <1>6, <2>2, <3>1, <3>8, <3>11 DEF KeyInv, WaitsAfterRelease
  <2>5. CASE ~DoublePress
    <3>1. /\ lastKeyup' = now /\ keyupAt' = now /\ UNCHANGED <<pc, restarts>>
      BY <1>9, <2>1, <2>5 DEF ReadEvent
    <3>2. Paired'
      BY <1>2, <2>2, <2>3, <3>1 DEF KeyInv, Paired
    <3>3. QED
      BY <1>1, <1>2, <1>3, <1>5, <1>6, <1>7, <2>2, <3>1, <3>2
      DEF KeyInv, Types, WaitsAfterRelease, Times
  <2>6. QED
    BY <2>4, <2>5
<1>10. QED
  BY <1>8, <1>9 DEF ReadEvent

LEMMA SendKeeps ==
  ASSUME KeyInv, SendStop \/ SendStart \/ SeeCancelled \/ ReadFails
  PROVE  KeyInv'
<1>1. UNCHANGED <<now, pressed, events, lastEvent, restarts>>
  BY DEF SendStop, SendStart, SeeCancelled, ReadFails, time
<1>2. HasRead' = HasRead
  BY <1>1 DEF HasRead
<1>3. TakeTurns'
  BY <1>1, <1>2 DEF KeyInv, TakeTurns
<1>4. restarts \in Nat /\ HasRead \div 2 \in Nat
  BY HasReadIsNat, Halves DEF KeyInv, Types
<1> USE DEF KeyInv, Types, WaitsAfterRelease, NoLateRelease, Paired, Sending
<1>5. CASE SendStop
  BY <1>1, <1>2, <1>3, <1>4, <1>5 DEF SendStop
<1>6. CASE SendStart
  <2>1. /\ pc = "send start" /\ pc' = "read" /\ lastKeyup' = Never /\ keyupAt' = Never
    BY <1>6 DEF SendStart
  <2>2. QED
    BY <1>1, <1>2, <1>3, <1>4, <2>1 DEF Times
<1>7. CASE SeeCancelled \/ ReadFails
  <2>1. pc = "read" /\ pc' = "ended" /\ UNCHANGED <<lastKeyup, keyupAt>>
    BY <1>7 DEF SeeCancelled, ReadFails
  <2>2. QED
    BY <1>1, <1>2, <1>3, <1>4, <2>1
<1>8. QED
  BY <1>5, <1>6, <1>7

LEMMA KeyStep == KeyInv /\ [Next]_vars => KeyInv'
<1> SUFFICES ASSUME KeyInv, [Next]_vars PROVE KeyInv'
  OBVIOUS
<1>1. CASE Others \/ DiagReceive \/ DiagEnds \/ Cancel \/ UNCHANGED vars
  BY <1>1, KeyFrame DEF Others, DiagReceive, DiagEnds, Cancel, vars
<1>2. QED
  BY <1>1, TickKeeps, ButtonKeeps, ReadKeeps, SendKeeps DEF Next, Key

LEMMA KeyInvariant == Spec => []KeyInv
BY KeyInit, KeyStep, PTL DEF Spec

\* However the presses bounce, and however long the channel keeps the task from
\* reading them, no release counts for two double presses.
THEOREM ReleasesCountOnce == Spec => []TwoReleasesEach
<1>1. KeyInv => TwoReleasesEach
  <2> SUFFICES ASSUME KeyInv PROVE TwoReleasesEach
    OBVIOUS
  <2>1. /\ HasRead \in Nat /\ pressed \in Nat /\ HasRead <= pressed /\ restarts \in Nat
    BY HasReadIsNat DEF KeyInv, Types, HasRead
  <2>2. /\ HasRead \div 2 <= pressed \div 2
        /\ HasRead \div 2 \in Nat /\ pressed \div 2 \in Nat
    BY <2>1, HalvesGrow, Halves
  <2>3. 2 * restarts <= HasRead \div 2
    BY <2>1, <2>2 DEF KeyInv, Paired
  <2>4. QED
    BY <2>1, <2>2, <2>3 DEF TwoReleasesEach
<1>2. QED
  BY <1>1, KeyInvariant, PTL

\* A new recording is started only by two releases that were made, and not only
\* read, as far apart as a double press may be.
THEOREM RestartsOnDoublePress == Spec => OnlyDoublePresses
<1> DEFINE InTime == restarts' # restarts => Head(events).at - keyupAt \in Shortest..Longest
<1>1. KeyInv /\ [Next]_vars => [InTime]_vars
  <2> SUFFICES ASSUME KeyInv, Next, restarts' # restarts
               PROVE  Head(events).at - keyupAt \in Shortest..Longest
    OBVIOUS
  <2>1. ReadEvent
    BY DEF Next, Key, SeeCancelled, SendStop, SendStart, ReadFails, Tick, Button, Others,
           DiagReceive, DiagEnds, Cancel, task
  <2>2. /\ pc = "read" /\ events # <<>> /\ ~Bounces /\ Head(events).is = "KeyUp"
        /\ DoublePress
    BY <2>1 DEF ReadEvent
  <2>3. Head(events).at = now
    BY <2>2, ReadWhenMade
  <2>4. QED
    BY <2>2, <2>3 DEF DoublePress, KeyInv
<1> HIDE DEF InTime
<1>2. Spec => [][InTime]_vars
  BY <1>1, KeyInvariant, PTL DEF Spec
<1>3. QED
  BY <1>2 DEF OnlyDoublePresses, InTime
=============================================================================
