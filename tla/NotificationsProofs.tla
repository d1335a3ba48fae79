-------------------------- MODULE NotificationsProofs --------------------------
(***************************************************************************)
(* The debounce of warnings holds for any debounce time, back-off, pause,  *)
(* channel and choice of notifications.                                    *)
(***************************************************************************)
EXTENDS Notifications, TLAPS

DebounceTypes ==
  /\ posting \in Types /\ left \subseteq Types
  /\ needs \in [Types -> BOOLEAN]
  /\ sentAge \in [Types -> Nat]

\* A warning that waits to be sent has waited for the debounce time: it is
\* tested when the message is taken from the channel, and what is sent until
\* then is this warning.
WaitsDebounced == needs["Warning"] => sentAge["Warning"] >= Debounce

\* What is posted needs sending: nothing takes that back meanwhile.
PostsNeeded == worker = "post" => needs[posting]

DebounceInv == DebounceTypes /\ WaitsDebounced /\ PostsNeeded

-----------------------------------------------------------------------------
LEMMA TypesAreTwo == "Warning" \in Types /\ \A t \in Types : t \in {"Warning", "LowBattery"}
BY DEF Types

LEMMA DebounceInit == Init => DebounceInv
BY NumbersAssumption
DEF Init, DebounceInv, DebounceTypes, WaitsDebounced, PostsNeeded, Types

\* The tasks that send, and a worker that only discards
LEMMA OthersKeep ==
  ASSUME DebounceInv, UNCHANGED <<posting, left, needs, sentAge>>,
         worker' \in {worker, "round", "sleep", "drain", "gone"}
  PROVE  DebounceInv'
BY DEF DebounceInv, DebounceTypes, WaitsDebounced, PostsNeeded

\* Only warnings outside the debounce time are marked for sending.
LEMMA DrainKeeps ==
  ASSUME DebounceInv, Drain
  PROVE  DebounceInv'
<1>1. worker' # "post" /\ UNCHANGED <<posting, sentAge>> /\ left' = Types
  BY DEF Drain
<1>2. /\ needs' \in [Types -> BOOLEAN]
      /\ needs'["Warning"] => needs["Warning"] \/ ~Debounced("Warning")
  BY TypesAreTwo DEF Drain, DebounceInv, DebounceTypes
<1>3. ~Debounced("Warning") => sentAge["Warning"] >= Debounce
  BY TypesAreTwo, NumbersAssumption DEF Debounced, DebounceInv, DebounceTypes
<1>4. WaitsDebounced'
  <2>1. needs["Warning"] => sentAge["Warning"] >= Debounce
    BY DEF DebounceInv, WaitsDebounced
  <2>2. QED
    BY <1>1, <1>2, <1>3, <2>1, Zenon DEF WaitsDebounced
<1>5. QED
  BY <1>1, <1>2, <1>4 DEF DebounceInv, DebounceTypes, PostsNeeded

LEMMA VisitKeeps ==
  ASSUME DebounceInv, NEW type \in Types, Visit(type)
  PROVE  DebounceInv'
BY DEF Visit, IsDue, DebounceInv, DebounceTypes, WaitsDebounced, PostsNeeded

\* A notification sent needs no sending.
LEMMA PostSucceedsKeeps ==
  ASSUME DebounceInv, PostSucceeds
  PROVE  DebounceInv'
<1>1. /\ worker' # "post" /\ UNCHANGED <<posting, left>>
      /\ needs' = [needs EXCEPT ![posting] = FALSE]
      /\ sentAge' = [sentAge EXCEPT ![posting] = 0]
  BY DEF PostSucceeds
<1>2. DebounceTypes'
  BY <1>1 DEF DebounceInv, DebounceTypes
<1>3. WaitsDebounced'
  <2>1. CASE posting = "Warning"
    BY <1>1, <2>1, TypesAreTwo DEF DebounceInv, DebounceTypes, WaitsDebounced
  <2>2. CASE posting # "Warning"
    <3>1. needs'["Warning"] = needs["Warning"] /\ sentAge'["Warning"] = sentAge["Warning"]
      BY <1>1, <2>2, TypesAreTwo DEF DebounceInv, DebounceTypes
    <3>2. QED
      BY <3>1 DEF DebounceInv, WaitsDebounced
  <2>3. QED
    BY <2>1, <2>2
<1>4. QED
  BY <1>1, <1>2, <1>3 DEF DebounceInv, PostsNeeded

\* Time only makes the last notification older.
LEMMA TickKeeps ==
  ASSUME DebounceInv, Tick
  PROVE  DebounceInv'
<1>1. UNCHANGED <<worker, posting, left, needs>>
      /\ sentAge' = [t \in Types |-> Older(sentAge[t], Debounce)]
  BY DEF Tick
<1>2. \A age \in Nat : Older(age, Debounce) \in Nat /\ Older(age, Debounce) >= age
  BY NumbersAssumption DEF Older
<1>3. sentAge' \in [Types -> Nat]
  BY <1>1, <1>2 DEF DebounceInv, DebounceTypes
<1>4. sentAge["Warning"] \in Nat /\ sentAge'["Warning"] \in Nat
      /\ sentAge'["Warning"] >= sentAge["Warning"]
  BY <1>1, <1>2, <1>3, TypesAreTwo DEF DebounceInv, DebounceTypes
<1>5. sentAge["Warning"] >= Debounce => sentAge'["Warning"] >= Debounce
  BY <1>4, NumbersAssumption
<1>6. WaitsDebounced'
  BY <1>1, <1>5, Zenon DEF DebounceInv, WaitsDebounced
<1>7. QED
  BY <1>1, <1>3, <1>6 DEF DebounceInv, DebounceTypes, PostsNeeded

LEMMA StepKeeps ==
  ASSUME DebounceInv, [Next]_vars
  PROVE  DebounceInv'
<1>1. CASE Drain
  BY <1>1, DrainKeeps
<1>2. ASSUME NEW t \in Types, Visit(t) PROVE DebounceInv'
  BY <1>2, VisitKeeps
<1>3. CASE Discard \/ EndRound \/ WakeUp
  BY <1>3, OthersKeep DEF Discard, EndRound, WakeUp
<1>4. CASE PostSucceeds
  BY <1>4, PostSucceedsKeeps
<1>5. CASE PostFails
  BY <1>5, OthersKeep DEF PostFails
<1>6. CASE Tick
  BY <1>6, TickKeeps
<1>7. CASE Detect \/ DiagSent \/ BatterySent \/ DiagEnds \/ BatteryEnds
  BY <1>7, OthersKeep DEF Detect, DiagSent, BatterySent, DiagEnds, BatteryEnds, service
<1>8. ASSUME NEW low \in BOOLEAN, NEW plugged \in BOOLEAN, BatteryPoll(low, plugged)
      PROVE  DebounceInv'
  BY <1>8, OthersKeep DEF BatteryPoll, service
<1>9. CASE UNCHANGED vars
  BY <1>9, OthersKeep DEF vars, service
<1>10. QED
  BY <1>1, <1>2, <1>3, <1>4, <1>5, <1>6, <1>7, <1>8, <1>9 DEF Next, WorkerStep

\* No warning is acknowledged within the debounce time of the one before it,
\* whatever is detected, queued, retried or passed over in between.
THEOREM DebounceKept == Spec => DebounceHolds
<1>1. DebounceInv /\ [Next]_vars
        => [worker = "post" /\ posting = "Warning" /\ sentAge'["Warning"] = 0
              => sentAge["Warning"] >= Debounce]_vars
  BY DEF DebounceInv, WaitsDebounced, PostsNeeded
<1>2. QED
  BY <1>1, DebounceInit, StepKeeps, PTL DEF Spec, DebounceHolds

=============================================================================
