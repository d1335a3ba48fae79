-------------------------- MODULE DiagDeviceProofs --------------------------
(***************************************************************************)
(* The start of a daemon, for all durations and delays, all devices, all   *)
(* modems and all wanted codes: how long it tries to open a diag device,   *)
(* and which logs are on when the diag thread begins.                      *)
(*                                                                         *)
(* The first is an invariant of the clock alone; that the delays are in    *)
(* range is what bounds the time by which an attempt may come late.  The   *)
(* second follows an answer from the modem to the daemon: there is never   *)
(* more than one, and by the time a good one can be read its mask is       *)
(* served.  That a mask says what it should is a loop over its bits.       *)
(***************************************************************************)
EXTENDS DiagDevice, NaturalsInduction, WellFoundedInduction, TLAPS

\* The clock, device by device
ClockOfNew  == opening = 0 /\ waited < MaxDuration + MaxDelay
ClockOfOld  == /\ opening >= MaxDuration /\ opening < MaxDuration + MaxDelay
               /\ opening <= waited /\ waited < opening + MaxDuration + MaxDelay
ClockAtEnd  == opening = waited /\ waited >= 2 * MaxDuration
               /\ waited < 2 * (MaxDuration + MaxDelay)
ClockUnused == opening = 0 /\ waited = 0

ClockTypes  == /\ waited \in Nat /\ opening \in Nat
               /\ delay \in Nat /\ delay >= 1 /\ delay <= MaxDelay

Clock ==
  /\ ClockTypes
  /\ phase = "open new" => ClockOfNew
  /\ phase = "open old" => ClockOfOld
  /\ phase = "no device" => ClockAtEnd
  /\ phase \notin {"open new", "open old", "no device"} => ClockUnused

LEMMA Delays ==
  /\ MaxDuration \in Nat /\ MaxDuration >= 1 /\ FirstDelay \in Nat /\ FirstDelay >= 1
  /\ MaxDelay \in Nat /\ FirstDelay <= MaxDelay
BY DelaysAssumption

LEMMA BackoffInRange ==
  ASSUME NEW d \in Nat, d >= 1
  PROVE  Backoff(d) \in Nat /\ Backoff(d) >= 1 /\ Backoff(d) <= MaxDelay
BY Delays DEF Backoff

LEMMA ClockFromZero ==
  ASSUME waited = 0, opening = 0, delay = FirstDelay
  PROVE  ClockTypes /\ ClockOfNew /\ ClockUnused
BY Delays DEF ClockTypes, ClockOfNew, ClockUnused

LEMMA ClockFromZeroNext ==
  ASSUME waited' = 0, opening' = 0, delay' = FirstDelay
  PROVE  ClockTypes' /\ ClockOfNew' /\ ClockUnused'
BY Delays DEF ClockTypes, ClockOfNew, ClockUnused

LEMMA ClockStarts == Init => Clock
<1> SUFFICES ASSUME Init PROVE Clock
  OBVIOUS
<1>1. phase = "open new" /\ ClockTypes /\ ClockOfNew
  BY ClockFromZero DEF Init
<1>2. QED BY <1>1 DEF Clock

\* An attempt: the one action that moves the clock
LEMMA OpenKeepsClock ==
  ASSUME Clock, NEW as \in {"new", "old"}, Open(as)
  PROVE  Clock'
<1>0. ClockTypes
  BY DEF Clock
<1>a. phase = IF as = "new" THEN "open new" ELSE "open old"
  BY DEF Open
<1>b. as = "new" => ClockOfNew
  BY <1>a DEF Clock
<1>c. as = "old" => ClockOfOld
  BY <1>a DEF Clock
<1>1. CASE Opens(as)
  <2>1. /\ phase' = "opened" /\ waited' = 0 /\ opening' = 0 /\ delay' = FirstDelay
    BY <1>1 DEF Open
  <2>2. ClockTypes' /\ ClockUnused'
    BY <2>1, ClockFromZeroNext
  <2>3. QED BY <2>1, <2>2 DEF Clock
<1>2. CASE ~Opens(as) /\ GivesUp(as)
  <2>0. phase' = IF as = "new" THEN "open old" ELSE "no device"
    BY <1>2 DEF Open
  <2>1. opening' = waited /\ delay' = FirstDelay /\ waited' = waited
    BY <1>2 DEF Open
  <2>2. waited - opening >= MaxDuration
    BY <1>2 DEF GivesUp
  <2>3. ClockTypes'
    BY <1>0, <2>1, Delays DEF ClockTypes
  <2>4. CASE as = "new"
    <3>1. phase' = "open old"
      BY <2>0, <2>4
    <3>2. ClockOfNew
      BY <1>b, <2>4
    <3>3. ClockOfOld'
      BY <1>0, <2>1, <2>2, <3>2, Delays DEF ClockTypes, ClockOfNew, ClockOfOld
    <3>4. QED BY <2>3, <3>1, <3>3 DEF Clock
  <2>5. CASE as = "old"
    <3>1. phase' = "no device"
      BY <2>0, <2>5
    <3>2. ClockOfOld
      BY <1>c, <2>5
    <3>3. ClockAtEnd'
      BY <1>0, <2>1, <2>2, <3>2, Delays DEF ClockTypes, ClockOfOld, ClockAtEnd
    <3>4. QED BY <2>3, <3>1, <3>3 DEF Clock
  <2>6. QED BY <2>4, <2>5
<1>3. CASE ~Opens(as) /\ ~GivesUp(as)
  <2>0. phase' = phase
    BY <1>3 DEF Open
  <2>1. opening' = opening /\ waited' = waited + delay /\ delay' = Backoff(delay)
    BY <1>3 DEF Open
  <2>2. waited - opening < MaxDuration
    BY <1>0, <1>3, Delays DEF GivesUp, ClockTypes
  <2>3. ClockTypes'
    <3>1. delay' \in Nat /\ delay' >= 1 /\ delay' <= MaxDelay
      BY <1>0, <2>1, BackoffInRange DEF ClockTypes
    <3>2. QED BY <1>0, <2>1, <3>1 DEF ClockTypes
  <2>4. CASE as = "new"
    <3>1. phase = "open new"
      BY <1>a, <2>4
    <3>2. ClockOfNew
      BY <1>b, <2>4
    <3>3. ClockOfNew'
      BY <1>0, <2>1, <2>2, <3>2, Delays DEF ClockTypes, ClockOfNew
    <3>4. QED BY <2>0, <2>3, <3>1, <3>3 DEF Clock
  <2>5. CASE as = "old"
    <3>1. phase = "open old"
      BY <1>a, <2>5
    <3>2. ClockOfOld
      BY <1>c, <2>5
    <3>3. ClockOfOld'
      BY <1>0, <2>1, <2>2, <3>2, Delays DEF ClockTypes, ClockOfOld
    <3>4. QED BY <2>0, <2>3, <3>1, <3>3 DEF Clock
  <2>6. QED BY <2>4, <2>5
<1>4. QED BY <1>1, <1>2, <1>3

\* A step that leaves the clock alone, from a phase after the opening to another
LEMMA ClockIsLeft ==
  ASSUME Clock, UNCHANGED opens,
         \/ phase' = phase
         \/ /\ phase \notin {"open new", "open old", "no device"}
            /\ phase' \notin {"open new", "open old", "no device"}
  PROVE  Clock'
<1>1. waited' = waited /\ opening' = opening /\ delay' = delay
  BY DEF opens
<1>2. /\ ClockTypes' <=> ClockTypes
      /\ ClockOfNew' <=> ClockOfNew
      /\ ClockOfOld' <=> ClockOfOld
      /\ ClockAtEnd' <=> ClockAtEnd
      /\ ClockUnused' <=> ClockUnused
  BY <1>1 DEF ClockTypes, ClockOfNew, ClockOfOld, ClockAtEnd, ClockUnused
<1>3. QED BY <1>2 DEF Clock

LEMMA RestartKeepsClock == Restart => Clock'
<1> SUFFICES ASSUME Restart PROVE Clock'
  OBVIOUS
<1>1. phase' = "open new" /\ ClockTypes' /\ ClockOfNew'
  BY ClockFromZeroNext DEF Restart
<1>2. QED BY <1>1 DEF Clock

LEMMA ClockKept == Clock /\ [Next]_vars => Clock'
<1> SUFFICES ASSUME Clock, [Next]_vars PROVE Clock'
  OBVIOUS
<1>1. CASE \E as \in {"new", "old"} : Open(as)
  BY <1>1, OpenKeepsClock
<1>2. CASE AskSizes
  BY <1>2, ClockIsLeft DEF AskSizes
<1>3. CASE SetMask
  BY <1>3, ClockIsLeft DEF SetMask
<1>4. CASE Skip
  BY <1>4, ClockIsLeft DEF Skip
<1>5. CASE ReadContainer
  <2>1. UNCHANGED opens
    BY <1>5 DEF ReadContainer
  <2>2. phase \in {"asked for sizes", "asked for mask"} /\ phase' \in {"failed", "set masks"}
    BY <1>5 DEF ReadContainer
  <2>3. QED BY <2>1, <2>2, ClockIsLeft
<1>6. CASE StartDiagThread
  BY <1>6, ClockIsLeft DEF StartDiagThread
<1>7. CASE Device
  <2>1. CASE BecomeReady
    BY <2>1, ClockIsLeft DEF BecomeReady
  <2>2. CASE Answer
    <3>1. UNCHANGED opens /\ phase' = phase
      BY <2>2 DEF Answer
    <3>2. QED BY <3>1, ClockIsLeft
  <2>3. CASE DeviceFails
    <3>1. UNCHANGED opens /\ phase' = "failed"
          /\ phase \in {"opened", "set masks", "asked for sizes", "asked for mask"}
      BY <2>3 DEF DeviceFails
    <3>2. QED BY <3>1, ClockIsLeft
  <2>4. CASE \E kind \in {"short", "other", "damaged", "user"} : Noise(kind)
    BY <2>4, ClockIsLeft DEF Noise
  <2>5. QED BY <1>7, <2>1, <2>2, <2>3, <2>4 DEF Device
<1>8. CASE Restart
  BY <1>8, RestartKeepsClock
<1>9. CASE UNCHANGED vars
  BY <1>9, ClockIsLeft DEF vars
<1>10. QED
  BY <1>1, <1>2, <1>3, <1>4, <1>5, <1>6, <1>7, <1>8, <1>9 DEF Next, Daemon

LEMMA ClockGivesPatience == Clock => Patience
<1> SUFFICES ASSUME Clock PROVE Patience
  OBVIOUS
<1>0. ClockTypes
  BY DEF Clock
<1>1. ClockOfNew \/ ClockOfOld \/ ClockAtEnd \/ ClockUnused
  BY DEF Clock
<1>2. waited - opening < MaxDuration + MaxDelay /\ waited < 2 * (MaxDuration + MaxDelay)
  BY <1>0, <1>1, Delays DEF ClockTypes, ClockOfNew, ClockOfOld, ClockAtEnd, ClockUnused
<1>3. phase = "no device" => waited >= 2 * MaxDuration
  BY DEF Clock, ClockAtEnd
<1>4. QED BY <1>2, <1>3 DEF Patience

\* Whatever the limits, the delays and the devices: each device is tried for at
\* least MaxDuration before the daemon gives it up, and for less than one more
\* MaxDelay (new_with_retries), restarts included
THEOREM TriesLongEnough == Spec => []Patience
<1>1. Init => Clock
  BY ClockStarts
<1>2. Clock /\ [Next]_vars => Clock'
  BY ClockKept
<1>3. Clock => Patience
  BY ClockGivesPatience
<1>4. QED BY <1>1, <1>2, <1>3, PTL DEF Spec

-----------------------------------------------------------------------------
(***************************************************************************)
(* The masks: for every number of bits, a mask has a bit for each wanted   *)
(* code below it, and only for those                                       *)
(***************************************************************************)
LEMMA Least ==
  ASSUME NEW S \in SUBSET Nat, S # {}
  PROVE  Min(S) \in S /\ \A m \in S : Min(S) <= m
<1>1. PICK x \in S : \A y \in S : ~(<<y, x>> \in OpToRel(<, Nat))
  BY ONLY NatLessThanWellFounded, WFMin, S \in SUBSET Nat, S # {}
<1>2. \A y \in S : ~(y < x)
  BY <1>1 DEF OpToRel
<1>3. \A y \in S : x <= y
  BY ONLY <1>2, S \in SUBSET Nat, x \in S
<1>4. QED
  BY <1>3 DEF Min

LEMMA UpTo ==
  ASSUME NEW T, NEW N \in Nat, 0 \in T, \A n \in 1..N : n - 1 \in T => n \in T
  PROVE  N \in T
<1> DEFINE S == {n \in 0..N : n \notin T}
<1> SUFFICES ASSUME N \notin T PROVE FALSE
  OBVIOUS
<1>1. S \in SUBSET Nat /\ S # {}
  OBVIOUS
<1>2. Min(S) \in S /\ \A m \in S : Min(S) <= m
  BY <1>1, Least
<1> DEFINE n == Min(S)
<1> HIDE DEF n
<1>3. n \in 0..N /\ n \notin T /\ \A m \in S : n <= m
  BY <1>2 DEF n
<1>4. n \in 1..N /\ n - 1 \in 0..N
  BY <1>3
<1>5. n - 1 \in T
  BY <1>3, <1>4
<1>6. QED
  BY <1>3, <1>4, <1>5

\* A loop from 1 to N, its body given as a function
Loop(step, base, N, f) == f = [n \in 0..N |-> IF n = 0 THEN base ELSE step[<<f[n - 1], n>>]]

LEMMA LoopExists ==
  ASSUME NEW X, NEW base \in X, NEW N \in Nat, NEW step,
         \A x \in X, n \in 1..N : step[<<x, n>>] \in X
  PROVE  \E f \in [0..N -> X] : Loop(step, base, N, f)
<1> DEFINE Upto(n, f) == \A k \in 0..n : f[k] = IF k = 0 THEN base ELSE step[<<f[k - 1], k>>]
           T == {n \in Nat : n <= N => \E f \in [0..n -> X] : Upto(n, f)}
<1>1. 0 \in T
  <2>1. [k \in 0..0 |-> base] \in [0..0 -> X] /\ Upto(0, [k \in 0..0 |-> base])
    OBVIOUS
  <2>2. QED
    BY <2>1
<1>2. ASSUME NEW n \in 1..N, n - 1 \in T
      PROVE  n \in T
  <2>1. PICK g \in [0..(n - 1) -> X] : Upto(n - 1, g)
    BY <1>2
  <2>2. g[n - 1] \in X
    BY <2>1
  <2> DEFINE f == [k \in 0..n |-> IF k = n THEN step[<<g[n - 1], n>>] ELSE g[k]]
  <2>3. f \in [0..n -> X]
    BY <2>1, <2>2
  <2>4. ASSUME NEW k \in 0..n
        PROVE  f[k] = IF k = 0 THEN base ELSE step[<<f[k - 1], k>>]
    <3>1. CASE k = n
      <4>1. n - 1 \in 0..n /\ f[n - 1] = g[n - 1] /\ k # 0
        BY <3>1
      <4>2. QED
        BY <3>1, <4>1
    <3>2. CASE k \in 0..(n - 1)
      <4>1. f[k] = g[k] /\ (k # 0 => f[k - 1] = g[k - 1])
        BY <3>2
      <4>2. QED
        BY <3>2, <4>1, <2>1
    <3>3. QED
      BY <3>1, <3>2
  <2> HIDE DEF f
  <2>5. QED
    BY <2>3, <2>4
<1> HIDE DEF T
<1>3. N \in T
  BY <1>1, <1>2, UpTo
<1>4. PICK f \in [0..N -> X] : Upto(N, f)
  BY <1>3 DEF T
<1>5. QED
  BY <1>4 DEF Loop

\* Bit by bit into bytes
LEMMA Bytes ==
  ASSUME NEW k \in Nat
  PROVE  /\ k % ByteBits \in 0..(ByteBits - 1) /\ k \div ByteBits \in Nat
         /\ k = ByteBits * (k \div ByteBits) + (k % ByteBits)
         /\ IF (k % ByteBits) + 1 = ByteBits
            THEN (k + 1) \div ByteBits = (k \div ByteBits) + 1 /\ (k + 1) % ByteBits = 0
            ELSE /\ (k + 1) \div ByteBits = k \div ByteBits
                 /\ (k + 1) % ByteBits = (k % ByteBits) + 1
         /\ \A i \in 0..k : i \div ByteBits <= k \div ByteBits
<1>1. ByteBits \in Nat \ {0}
  BY TypesAssumption
<1>2. k % ByteBits \in 0..(ByteBits - 1) /\ k \div ByteBits \in Nat
  BY <1>1
<1>3. k = ByteBits * (k \div ByteBits) + (k % ByteBits)
  BY <1>1
<1>4. IF (k % ByteBits) + 1 = ByteBits
      THEN (k + 1) \div ByteBits = (k \div ByteBits) + 1 /\ (k + 1) % ByteBits = 0
      ELSE (k + 1) \div ByteBits = k \div ByteBits /\ (k + 1) % ByteBits = (k % ByteBits) + 1
  BY <1>1
<1>5. \A i \in 0..k : i \div ByteBits <= k \div ByteBits
  BY <1>1
<1>6. QED
  BY <1>2, <1>3, <1>4, <1>5

\* The loop of build_log_mask_request after k bits, W the wanted ones
Packed(p, k, W) ==
  /\ p.bytes \in Seq(SUBSET Nat) /\ Len(p.bytes) = k \div ByteBits
  /\ p.bits = k % ByteBits
  /\ p.byte \in SUBSET Nat /\ \A b \in p.byte : b < p.bits
  /\ \A i \in 0..(k - 1) :
       (i % ByteBits) \in (IF i \div ByteBits < k \div ByteBits
                           THEN p.bytes[(i \div ByteBits) + 1] ELSE p.byte) <=> i \in W

LEMMA PackStep ==
  ASSUME NEW k \in Nat, NEW W, NEW p, Packed(p, k, W), NEW wanted \in BOOLEAN, wanted <=> k \in W,
         NEW last \in BOOLEAN
  PROVE  /\ ~last => Packed(Pack(p, wanted, last), k + 1, W)
         /\ last => \A i \in 0..k :
                      (i % ByteBits) \in Pack(p, wanted, last).bytes[(i \div ByteBits) + 1] <=> i \in W
<1> DEFINE q == k \div ByteBits
           r == k % ByteBits
           byte == p.byte \cup (IF wanted THEN {p.bits} ELSE {})
           full == r + 1 = ByteBits
           next == Pack(p, wanted, last)
<1>1. /\ ByteBits \in Nat \ {0} /\ q \in Nat /\ r \in 0..(ByteBits - 1)
      /\ k = ByteBits * q + r
      /\ IF full THEN (k + 1) \div ByteBits = q + 1 /\ (k + 1) % ByteBits = 0
                 ELSE (k + 1) \div ByteBits = q /\ (k + 1) % ByteBits = r + 1
      /\ \A i \in 0..k : i \div ByteBits <= q
  BY TypesAssumption, Bytes
<1>2. /\ p.bytes \in Seq(SUBSET Nat) /\ Len(p.bytes) = q /\ p.bits = r
      /\ p.byte \in SUBSET Nat /\ \A b \in p.byte : b < r
      /\ \A i \in 0..(k - 1) :
           (i % ByteBits) \in (IF i \div ByteBits < q THEN p.bytes[(i \div ByteBits) + 1]
                                                      ELSE p.byte) <=> i \in W
  BY DEF Packed
<1>3. /\ next.bytes = IF full \/ last THEN Append(p.bytes, byte) ELSE p.bytes
      /\ next.byte = IF full \/ last THEN {} ELSE byte
      /\ next.bits = IF full \/ last THEN 0 ELSE r + 1
  BY <1>2 DEF Pack
<1>4. byte \in SUBSET Nat /\ \A b \in byte : b < r + 1
  <2>1. r \in Nat /\ r < r + 1 /\ \A b \in p.byte : b \in Nat /\ b < r + 1
    BY <1>1, <1>2
  <2>2. \A b \in byte : b = r \/ b \in p.byte
    BY <1>2
  <2> HIDE DEF r, byte
  <2>3. QED
    BY <2>1, <2>2
<1>5. /\ Append(p.bytes, byte) \in Seq(SUBSET Nat) /\ Len(Append(p.bytes, byte)) = q + 1
      /\ Append(p.bytes, byte)[q + 1] = byte
      /\ \A n \in 1..q : Append(p.bytes, byte)[n] = p.bytes[n]
  <2> HIDE DEF byte, q
  <2>1. QED
    BY <1>2, <1>4
<1>6. ASSUME NEW i \in 0..k
      PROVE  /\ i \div ByteBits \in Nat /\ i \div ByteBits <= q
             /\ (i % ByteBits) \in (IF i \div ByteBits < q THEN p.bytes[(i \div ByteBits) + 1]
                                                           ELSE byte) <=> i \in W
  <2>1. /\ i \div ByteBits \in Nat /\ i % ByteBits \in Nat
        /\ i = ByteBits * (i \div ByteBits) + (i % ByteBits)
    BY Bytes
  <2>2. i \div ByteBits <= q
    BY <1>1
  <2>3. CASE i = k
    <3>1. i \div ByteBits = q /\ i % ByteBits = r
      BY <2>3
    <3>2. r \notin p.byte
      BY <1>1, <1>2
    <3>3. r \in byte <=> k \in W
      BY <1>2, <3>2
    <3>4. QED
      BY <2>1, <2>2, <2>3, <3>1, <3>3, <1>1
  <2>4. CASE i # k
    <3>1. i \in 0..(k - 1)
      BY <2>4
    <3>2. CASE i \div ByteBits < q
      BY <3>1, <3>2, <2>1, <2>2, <1>2
    <3>3. CASE ~(i \div ByteBits < q)
      <4>1. i \div ByteBits = q
        BY <3>3, <2>1, <2>2, <1>1
      <4>2. i % ByteBits # r
        BY <4>1, <2>1, <2>4, <1>1
      <4>3. (i % ByteBits) \in byte <=> (i % ByteBits) \in p.byte
        BY <4>2, <1>2
      <4>4. QED
        BY <3>1, <3>3, <4>3, <2>1, <2>2, <1>2
    <3>4. QED
      BY <3>2, <3>3
  <2>5. QED
    BY <2>3, <2>4
<1> HIDE DEF q, r, byte, next
<1>7. CASE full \/ last
  <2>1. ASSUME NEW i \in 0..k
        PROVE  (i % ByteBits) \in next.bytes[(i \div ByteBits) + 1] <=> i \in W
    <3>1. next.bytes = Append(p.bytes, byte) /\ i \div ByteBits \in Nat /\ i \div ByteBits <= q
      BY <1>3, <1>6, <1>7
    <3>2. CASE i \div ByteBits < q
      <4>1. (i \div ByteBits) + 1 \in 1..q
        BY <3>1, <3>2, <1>1
      <4>2. next.bytes[(i \div ByteBits) + 1] = p.bytes[(i \div ByteBits) + 1]
        BY ONLY <3>1, <4>1, <1>5
      <4>3. (i % ByteBits) \in p.bytes[(i \div ByteBits) + 1] <=> i \in W
        BY ONLY <3>2, <1>6
      <4>4. QED
        BY ONLY <4>2, <4>3
    <3>3. CASE i \div ByteBits = q
      <4>1. ~(i \div ByteBits < q)
        BY ONLY <3>3, <1>1
      <4>2. (i % ByteBits) \in byte <=> i \in W
        BY ONLY <4>1, <1>6
      <4>3. QED
        BY ONLY <3>1, <3>3, <4>2, <1>5
    <3>4. i \div ByteBits < q \/ i \div ByteBits = q
      BY ONLY <3>1, <1>1
    <3>5. QED
      BY ONLY <3>2, <3>3, <3>4
  <2>2. ASSUME ~last
        PROVE  Packed(next, k + 1, W)
    <3>1. full /\ (k + 1) \div ByteBits = q + 1 /\ (k + 1) % ByteBits = 0
      BY <1>1, <1>7, <2>2
    <3>2. next.bytes = Append(p.bytes, byte) /\ next.byte = {} /\ next.bits = 0
      BY <1>3, <1>7
    <3>3. \A i \in 0..((k + 1) - 1) : i \in 0..k /\ i \div ByteBits < q + 1
      <4>1. \A i \in 0..((k + 1) - 1) : i \in 0..k
        OBVIOUS
      <4>2. \A i \in 0..k : i \div ByteBits \in Nat /\ i \div ByteBits <= q
        BY <1>6
      <4>3. \A n \in Nat : n <= q => n < q + 1
        BY <1>1
      <4>4. QED
        BY ONLY <4>1, <4>2, <4>3
    <3>4. QED
      BY <3>1, <3>2, <3>3, <2>1, <1>5 DEF Packed
  <2>3. QED
    BY <2>1, <2>2 DEF next
<1>8. CASE ~full /\ ~last
  <2>1. (k + 1) \div ByteBits = q /\ (k + 1) % ByteBits = r + 1
    BY <1>1, <1>8
  <2>2. next.bytes = p.bytes /\ next.byte = byte /\ next.bits = r + 1
    BY <1>3, <1>8
  <2>3. \A i \in 0..((k + 1) - 1) : i \in 0..k
    OBVIOUS
  <2>4. Packed(next, k + 1, W)
    BY <2>1, <2>2, <2>3, <1>2, <1>4, <1>6 DEF Packed
  <2>5. QED
    BY <2>4, <1>8 DEF next
<1>9. QED
  BY <1>7, <1>8

\* Whatever the number of bits and the codes wanted: bit i of the mask that
\* build_log_mask_request packs is set if and only if code i is wanted
THEOREM MaskBits ==
  ASSUME NEW t, NEW size \in Nat
  PROVE  \A i \in 0..(size - 1) :
           (i % ByteBits) \in Mask(t, size)[(i \div ByteBits) + 1] <=> <<t, i>> \in Wanted
<1> DEFINE X == [bytes : Seq(SUBSET Nat), byte : SUBSET Nat, bits : Nat]
           base == [bytes |-> <<>>, byte |-> {}, bits |-> 0]
           W == {i \in Nat : <<t, i>> \in Wanted}
           Is(f) == f = [n \in 0..size |->
                           IF n = 0 THEN base
                           ELSE Pack(f[n - 1], <<t, n - 1>> \in Wanted, n = size)]
           c == CHOOSE f : Is(f)
<1>1. Mask(t, size) = c[size].bytes
  BY DEF Mask
<1>2. \E f : Is(f)
  <2> DEFINE step == [p \in X \X (1..size) |->
                        Pack(p[1], <<t, p[2] - 1>> \in Wanted, p[2] = size)]
  <2>1. base \in X
    OBVIOUS
  <2>2. ASSUME NEW x \in X, NEW n \in 1..size
        PROVE  /\ step[<<x, n>>] = Pack(x, <<t, n - 1>> \in Wanted, n = size)
               /\ step[<<x, n>>] \in X
    <3>1. <<x, n>> \in X \X (1..size) /\ <<x, n>>[1] = x /\ <<x, n>>[2] = n
      OBVIOUS
    <3>2. step[<<x, n>>] = Pack(x, <<t, n - 1>> \in Wanted, n = size)
      BY <3>1
    <3>3. \A wanted, last \in BOOLEAN : Pack(x, wanted, last) \in X
      BY DEF Pack
    <3>4. (<<t, n - 1>> \in Wanted) \in BOOLEAN /\ (n = size) \in BOOLEAN
      OBVIOUS
    <3>5. QED
      BY ONLY <3>2, <3>3, <3>4
  <2> HIDE DEF X, base, step
  <2>2a. \A x \in X, n \in 1..size : step[<<x, n>>] \in X
    BY <2>2
  <2>3. PICK f \in [0..size -> X] : Loop(step, base, size, f)
    BY <2>1, <2>2a, LoopExists
  <2>4. \A n \in 1..size : f[n - 1] \in X
    OBVIOUS
  <2>5. Is(f)
    BY <2>2, <2>3, <2>4 DEF Loop
  <2>6. QED
    BY <2>5
<1>3. Is(c)
  BY <1>2
<1> HIDE DEF c
<1>4. /\ c[0] = base
      /\ \A n \in 1..size : c[n] = Pack(c[n - 1], <<t, n - 1>> \in Wanted, n = size)
  <2>1. 0 \in 0..size /\ \A n \in 1..size : n \in 0..size /\ n # 0
    OBVIOUS
  <2> HIDE DEF base
  <2>2. QED
    BY <1>3, <2>1
<1> DEFINE T == {n \in Nat : n < size => Packed(c[n], n, W)}
<1>5. 0 \in T
  <2>1. 0 \div ByteBits = 0 /\ 0 % ByteBits = 0
    BY TypesAssumption
  <2>2. c[0].bytes = <<>> /\ c[0].byte = {} /\ c[0].bits = 0
    BY <1>4
  <2>3. <<>> \in Seq(SUBSET Nat) /\ Len(<<>>) = 0 /\ \A i \in 0..(0 - 1) : FALSE
    OBVIOUS
  <2>4. Packed(c[0], 0, W)
    BY <2>1, <2>2, <2>3 DEF Packed
  <2>5. QED
    BY <2>4
<1>6. ASSUME NEW n \in 1..size, n - 1 \in T
      PROVE  /\ n \in T
             /\ n = size => \A i \in 0..(size - 1) :
                              (i % ByteBits) \in c[size].bytes[(i \div ByteBits) + 1] <=> i \in W
  <2>1. n - 1 \in Nat /\ (n - 1) + 1 = n /\ Packed(c[n - 1], n - 1, W)
    BY <1>6
  <2> DEFINE wanted == <<t, n - 1>> \in Wanted
             last == n = size
  <2>2. wanted \in BOOLEAN /\ last \in BOOLEAN /\ (wanted <=> n - 1 \in W)
    BY <2>1
  <2>3. c[n] = Pack(c[n - 1], wanted, last)
    BY <1>4
  <2> HIDE DEF W, wanted, last
  <2>4. /\ ~last => Packed(c[n], n, W)
        /\ last => \A i \in 0..(n - 1) :
                     (i % ByteBits) \in c[n].bytes[(i \div ByteBits) + 1] <=> i \in W
    BY <2>1, <2>2, <2>3, PackStep
  <2>5. QED
    BY <2>4 DEF last
<1> HIDE DEF T
<1>7. ASSUME size # 0
      PROVE  \A i \in 0..(size - 1) :
               (i % ByteBits) \in c[size].bytes[(i \div ByteBits) + 1] <=> i \in W
  <2>1. size - 1 \in Nat /\ size \in 1..size /\ \A n \in 1..(size - 1) : n \in 1..size
    BY <1>7
  <2>2. size - 1 \in T
    BY <2>1, <1>5, <1>6, UpTo
  <2>3. QED
    BY <2>1, <2>2, <1>6
<1>8. QED
  BY <1>1, <1>7

-----------------------------------------------------------------------------
(***************************************************************************)
(* The answers: what the daemon takes for the answer to a mask is that,    *)
(* and the mask is in place by then                                        *)
(***************************************************************************)
\* Exactly the wanted codes of a log type that its mask has a bit for are on
Logged(t) == \A i \in Nat : <<t, i>> \in masks <=> <<t, i>> \in Wanted /\ i < sizes[t]

\* A container with an answer to a mask, with a good one
Tells(c)  == \E i \in DOMAIN c.messages : c.messages[i].is = "mask"
Serves(c) == \E i \in DOMAIN c.messages : c.messages[i].is = "mask" /\ c.messages[i].status = "ok"

Messages   == [is : {"log", "sizes", "mask"}, status : {"ok", "refused"}]
Containers == [kind : {"user", "short", "other", "damaged"}, messages : Seq(Messages)]

MaskTypes ==
  /\ sizes \in Modems /\ masks \subseteq Types \X Nat /\ todo \subseteq Types
  /\ incoming \in Seq(Containers)

\* A mask is asked for by the daemon that waits for the answer to it, or has failed
Asked ==
  \/ request = <<>>
  \/ request = <<[ask |-> "sizes"]>>
  \/ /\ phase \in {"asked for mask", "failed"} /\ todo # {}
     /\ request = <<MaskRequest(Min(todo))>>

\* There is one answer at most, and none before the request is served; a good one
\* means that the mask is in place
Answered ==
  /\ phase \notin {"asked for mask", "failed"} => \A k \in 1..Len(incoming) : ~Tells(incoming[k])
  /\ phase = "asked for mask" =>
       /\ todo # {}
       /\ request # <<>> => \A k \in 1..Len(incoming) : ~Tells(incoming[k])
       /\ \A j, k \in 1..Len(incoming) : Tells(incoming[j]) /\ Tells(incoming[k]) => j = k
       /\ (\E k \in 1..Len(incoming) : Serves(incoming[k])) => Logged(Min(todo))

\* What is no longer to do is done
Done ==
  /\ phase \in {"set masks", "asked for mask"} =>
       \A t \in Types : sizes[t] > 0 /\ t \notin todo => Logged(t)
  /\ phase = "recording" => \A t \in Types : sizes[t] > 0 => Logged(t)

MaskInv == MaskTypes /\ Asked /\ Answered /\ Done

LEMMA Queue ==
  ASSUME NEW S, NEW s \in Seq(S)
  PROVE  /\ Len(s) \in Nat
         /\ \A x \in S : /\ Append(s, x) \in Seq(S) /\ Len(Append(s, x)) = Len(s) + 1
                         /\ Append(s, x)[Len(s) + 1] = x
                         /\ \A k \in 1..Len(s) : Append(s, x)[k] = s[k]
         /\ s # <<>> => /\ Head(s) = s[1] /\ 1 \in 1..Len(s)
                        /\ Tail(s) \in Seq(S) /\ Len(Tail(s)) = Len(s) - 1
                        /\ \A k \in 1..Len(Tail(s)) : k + 1 \in 1..Len(s) /\ Tail(s)[k] = s[k + 1]
OBVIOUS

\* Among logs, a container tells what the modem answers and nothing else
LEMMA AnswerTells ==
  ASSUME NEW ask \in {"sizes", "mask"}, NEW status \in {"ok", "refused"},
         NEW before \in BOOLEAN, NEW after \in BOOLEAN
  PROVE  LET c == Container("user", (IF before THEN <<Other>> ELSE <<>>)
                                      \o <<[is |-> ask, status |-> status]>>
                                      \o (IF after THEN <<Other>> ELSE <<>>))
         IN /\ c \in Containers
            /\ Tells(c) => ask = "mask"
            /\ Serves(c) => ask = "mask" /\ status = "ok"
<1> DEFINE m == [is |-> ask, status |-> status]
           ms == (IF before THEN <<Other>> ELSE <<>>) \o <<m>> \o (IF after THEN <<Other>> ELSE <<>>)
           c == Container("user", ms)
<1>1. m \in Messages /\ Other \in Messages /\ Other.is = "log" /\ m.is = ask /\ m.status = status
  BY DEF Messages, Other
<1> HIDE DEF m
<1>2. ms \in Seq(Messages) /\ \A i \in DOMAIN ms : ms[i] = Other \/ ms[i] = m
  <2> DEFINE b == IF before THEN <<Other>> ELSE <<>>
             a == IF after THEN <<Other>> ELSE <<>>
             one == <<m>>
  <2>1. /\ b \in Seq(Messages) /\ \A i \in 1..Len(b) : b[i] = Other
        /\ a \in Seq(Messages) /\ \A i \in 1..Len(a) : a[i] = Other
    <3>1. /\ <<>> \in Seq(Messages) /\ \A i \in 1..Len(<<>>) : FALSE
          /\ <<Other>> \in Seq(Messages) /\ \A i \in 1..Len(<<Other>>) : <<Other>>[i] = Other
      BY <1>1
    <3>2. QED
      BY <3>1
  <2>2. one \in Seq(Messages) /\ Len(one) = 1 /\ \A i \in 1..1 : one[i] = m
    BY <1>1
  <2> HIDE DEF b, a, one
  <2>3. /\ b \o one \in Seq(Messages) /\ Len(b \o one) = Len(b) + 1
        /\ \A i \in 1..Len(b \o one) : (b \o one)[i] = Other \/ (b \o one)[i] = m
    <3>1. b \o one \in Seq(Messages) /\ Len(b \o one) = Len(b) + 1 /\ Len(b) \in Nat
      <4>1. \A x, y \in Seq(Messages) : x \o y \in Seq(Messages) /\ Len(x \o y) = Len(x) + Len(y)
        OBVIOUS
      <4>2. Len(b) \in Nat
        BY ONLY <2>1
      <4>3. QED
        BY ONLY <2>1, <2>2, <4>1, <4>2
    <3>2. ASSUME NEW i \in 1..(Len(b) + 1)
          PROVE  (b \o one)[i] = Other \/ (b \o one)[i] = m
      <4>1. CASE i <= Len(b)
        BY <4>1, <2>1, <2>2, <3>1
      <4>2. CASE i = Len(b) + 1
        <5>1. (b \o one)[i] = one[i - Len(b)] /\ i - Len(b) = 1
          BY <4>2, <2>1, <2>2, <3>1
        <5>2. QED
          BY <5>1, <2>2
      <4>3. QED
        BY <4>1, <4>2, <3>1
    <3>3. QED
      BY <3>1, <3>2
  <2> DEFINE bo == b \o one
  <2> HIDE DEF bo
  <2>4. bo \in Seq(Messages) /\ \A i \in 1..Len(bo) : bo[i] = Other \/ bo[i] = m
    BY <2>3 DEF bo
  <2>5. bo \o a \in Seq(Messages) /\ \A i \in 1..Len(bo \o a) : (bo \o a)[i] = Other \/ (bo \o a)[i] = m
    BY <2>1, <2>4
  <2>6. ms = bo \o a
    BY DEF bo, b, a, one
  <2>7. QED
    <3>1. DOMAIN (bo \o a) = 1..Len(bo \o a)
      BY <2>5
    <3> HIDE DEF ms
    <3>2. QED
      BY <2>5, <2>6, <3>1
<1> HIDE DEF ms
<1>3. c.messages = ms /\ c \in Containers
  BY <1>2 DEF Container, Containers
<1>4. QED
  BY <1>1, <1>2, <1>3 DEF Tells, Serves, ms, m

LEMMA NoiseTellsNothing ==
  ASSUME NEW kind \in {"user", "short", "other", "damaged"}
  PROVE  /\ Container(kind, <<Other>>) \in Containers
         /\ ~Tells(Container(kind, <<Other>>)) /\ ~Serves(Container(kind, <<Other>>))
<1>1. Other \in Messages /\ Other.is = "log"
  BY DEF Messages, Other
<1>2. <<Other>> \in Seq(Messages) /\ \A i \in DOMAIN <<Other>> : <<Other>>[i] = Other
  BY <1>1
<1>3. QED
  BY <1>1, <1>2 DEF Container, Containers, Tells, Serves

\* The first response is one of them
LEMMA GoodAnswer ==
  ASSUME incoming \in Seq(Containers), incoming # <<>>, ~Ends("mask")
  PROVE  Serves(Head(incoming))
<1> DEFINE messages == Head(incoming).messages
           responses == {i \in DOMAIN messages : messages[i].is = "mask"}
<1>1. Answers("mask") = "ok"
  BY DEF Ends
<1>2. responses # {} /\ messages[Min(responses)].status = "ok"
  BY <1>1 DEF Answers
<1>3. responses \in SUBSET Nat
  <2>1. Head(incoming) \in Containers
    BY Queue
  <2>2. messages \in Seq(Messages)
    BY <2>1 DEF Containers
  <2> HIDE DEF messages
  <2>3. DOMAIN messages = 1..Len(messages) /\ Len(messages) \in Nat
    BY <2>2
  <2>4. QED
    BY <2>3
<1> HIDE DEF responses
<1>4. Min(responses) \in responses
  BY <1>2, <1>3, Least
<1>5. QED
  BY <1>2, <1>4 DEF responses, Serves

\* A mask served switches on what is wanted of its log type, and nothing else
LEMMA MaskServed ==
  ASSUME NEW t \in Types, sizes \in Modems, UNCHANGED sizes,
         masks' = {c \in masks : c[1] # t} \cup CodesOf(MaskRequest(t))
  PROVE  /\ Logged(t)'
         /\ \A u \in Types \ {t} : Logged(u) => Logged(u)'
         /\ masks \subseteq Types \X Nat => masks' \subseteq Types \X Nat
<1> DEFINE n == sizes[t]
           mask == Mask(t, n)
<1>1. n \in Nat
  BY TypesAssumption DEF Types
<1>2. MaskFor[sizes][t] = mask
  BY DEF MaskFor
<1> HIDE DEF n, mask
<1>3. CodesOf(MaskRequest(t)) =
        {<<t, i>> : i \in {j \in 0..(n - 1) : (j % ByteBits) \in mask[(j \div ByteBits) + 1]}}
  <2>1. /\ MaskRequest(t).type = t /\ MaskRequest(t).bits = n /\ MaskRequest(t).mask = mask
    BY <1>2 DEF MaskRequest, n
  <2>2. QED
    BY <2>1 DEF CodesOf
<1>4. \A j \in 0..(n - 1) : (j % ByteBits) \in mask[(j \div ByteBits) + 1] <=> <<t, j>> \in Wanted
  BY <1>1, MaskBits DEF mask
<1>5. CodesOf(MaskRequest(t)) = {<<t, i>> : i \in {j \in 0..(n - 1) : <<t, j>> \in Wanted}}
  BY <1>3, <1>4
<1> DEFINE on == {j \in 0..(n - 1) : <<t, j>> \in Wanted}
<1>6. masks' = {c \in masks : c[1] # t} \cup {<<t, i>> : i \in on}
  BY <1>5
<1>7. \A i : i \in on <=> i \in Nat /\ i < n /\ <<t, i>> \in Wanted
  BY <1>1
<1> HIDE DEF on
<1>8. \A u, i : <<u, i>>[1] = u
  OBVIOUS
<1>9. \A i : <<t, i>> \in masks' <=> i \in on
  BY <1>6, <1>8
<1>10. \A u \in Types \ {t}, i \in Nat : <<u, i>> \in masks' <=> <<u, i>> \in masks
  BY <1>6, <1>8
<1>11. Logged(t)'
  BY <1>7, <1>9 DEF Logged, n
<1>12. \A u \in Types \ {t} : Logged(u) => Logged(u)'
  BY <1>10 DEF Logged
<1>13. masks \subseteq Types \X Nat => masks' \subseteq Types \X Nat
  BY <1>6, <1>7
<1>14. QED
  BY <1>11, <1>12, <1>13

-----------------------------------------------------------------------------
LEMMA TypesAreNat ==
  ASSUME NEW S \in SUBSET Types, S # {}
  PROVE  Min(S) \in S
<1>1. Types \subseteq Nat
  BY TypesAssumption DEF Types
<1>2. S \in SUBSET Nat
  BY <1>1
<1>3. QED
  BY <1>2, Least

LEMMA MaskInvStarts == Init => MaskInv
<1> SUFFICES ASSUME Init PROVE MaskInv
  OBVIOUS
<1>0. <<>> \in Seq(Containers) /\ incoming = <<>> /\ \A k \in 1..Len(<<>>) : FALSE
  <2>1. <<>> \in Seq(Containers) /\ \A k \in 1..Len(<<>>) : FALSE
    OBVIOUS
  <2>2. incoming = <<>>
    BY DEF Init
  <2>3. QED
    BY <2>1, <2>2
<1>1. MaskTypes
  BY <1>0 DEF Init, MaskTypes
<1>2. Asked
  BY DEF Init, Asked
<1>3. Answered
  BY <1>0 DEF Init, Answered
<1>4. Done
  BY DEF Init, Done
<1>5. QED
  BY <1>1, <1>2, <1>3, <1>4 DEF MaskInv

\* A step that has nothing to do with masks
LEMMA MasksLeft ==
  ASSUME MaskInv, UNCHANGED <<todo, modem, request, incoming>>,
         \/ phase' = phase
         \/ phase' = "failed"
         \/ /\ phase \notin {"asked for mask", "failed"}
            /\ phase' \in {"open new", "open old", "opened", "no device"}
  PROVE  MaskInv'
<1>1. UNCHANGED <<todo, sizes, masks, request, incoming>>
  BY DEF modem
<1>2. \A t : Logged(t)' <=> Logged(t)
  BY <1>1 DEF Logged
<1>3. MaskTypes'
  BY <1>1 DEF MaskInv, MaskTypes
<1>4. Asked'
  BY <1>1 DEF MaskInv, Asked, MaskRequest
<1>5. Answered'
  BY <1>1, <1>2 DEF MaskInv, Answered
<1>6. Done'
  BY <1>1, <1>2 DEF MaskInv, Done
<1>7. QED
  BY <1>3, <1>4, <1>5, <1>6 DEF MaskInv

LEMMA StartStep == MaskInv /\ (AskSizes \/ SetMask \/ StartDiagThread) => MaskInv'
<1> SUFFICES ASSUME MaskInv, AskSizes \/ SetMask \/ StartDiagThread PROVE MaskInv'
  OBVIOUS
<1>1. UNCHANGED <<todo, sizes, masks, incoming>>
  BY DEF AskSizes, SetMask, StartDiagThread, modem
<1>2. \A t : Logged(t)' <=> Logged(t)
  BY <1>1 DEF Logged
<1>3. MaskTypes'
  BY <1>1 DEF MaskInv, MaskTypes
<1>4. \A k \in 1..Len(incoming) : ~Tells(incoming[k]) /\ ~Serves(incoming[k])
  BY DEF AskSizes, SetMask, StartDiagThread, MaskInv, Answered, Tells, Serves
<1>5. CASE AskSizes
  <2>1. phase' = "asked for sizes" /\ request' = <<[ask |-> "sizes"]>>
    BY <1>5 DEF AskSizes
  <2>2. QED
    BY <1>1, <1>3, <1>4, <2>1 DEF MaskInv, Asked, Answered, Done
<1>6. CASE SetMask
  <2>1. /\ phase = "set masks" /\ phase' = "asked for mask" /\ todo # {}
        /\ request' = <<MaskRequest(Min(todo))>>
    BY <1>6 DEF SetMask
  <2>2. Asked'
    BY <1>1, <2>1 DEF Asked, MaskRequest
  <2>3. Answered'
    BY <1>1, <1>4, <2>1 DEF Answered
  <2>4. Done'
    BY <1>1, <1>2, <2>1 DEF MaskInv, Done
  <2>5. QED
    BY <1>3, <2>2, <2>3, <2>4 DEF MaskInv
<1>7. CASE StartDiagThread
  <2>1. phase = "set masks" /\ phase' = "recording" /\ todo = {} /\ UNCHANGED request
    BY <1>7 DEF StartDiagThread
  <2>2. Asked'
    BY <1>1, <2>1 DEF MaskInv, Asked
  <2>3. Answered'
    BY <1>1, <1>4, <2>1 DEF Answered
  <2>4. Done'
    BY <1>1, <1>2, <2>1 DEF MaskInv, Done
  <2>5. QED
    BY <1>3, <2>2, <2>3, <2>4 DEF MaskInv
<1>8. QED
  BY <1>5, <1>6, <1>7

\* A container is read, and was the answer or not
LEMMA SkipStep == MaskInv /\ Skip => MaskInv'
<1> SUFFICES ASSUME MaskInv, Skip PROVE MaskInv'
  OBVIOUS
<1>1. /\ incoming # <<>> /\ incoming' = Tail(incoming) /\ UNCHANGED <<phase, todo, sizes, masks, request>>
  BY DEF Skip, modem
<1>2. /\ incoming' \in Seq(Containers)
      /\ \A k \in 1..Len(incoming') : k + 1 \in 1..Len(incoming) /\ incoming'[k] = incoming[k + 1]
  BY <1>1, Queue DEF MaskInv, MaskTypes
<1>3. \A t : Logged(t)' <=> Logged(t)
  BY <1>1 DEF Logged
<1>4. MaskTypes'
  BY <1>1, <1>2 DEF MaskInv, MaskTypes
<1>5. Asked'
  BY <1>1 DEF MaskInv, Asked, MaskRequest
<1>6. Answered'
  <2>1. phase \notin {"asked for mask", "failed"} => \A k \in 1..Len(incoming') : ~Tells(incoming'[k])
    BY <1>2 DEF MaskInv, Answered
  <2>2. ASSUME phase = "asked for mask"
        PROVE  /\ todo # {}
               /\ request # <<>> => \A k \in 1..Len(incoming') : ~Tells(incoming'[k])
               /\ \A j, k \in 1..Len(incoming') : Tells(incoming'[j]) /\ Tells(incoming'[k]) => j = k
               /\ (\E k \in 1..Len(incoming') : Serves(incoming'[k])) => Logged(Min(todo))
    <3>1. /\ todo # {}
          /\ request # <<>> => \A k \in 1..Len(incoming) : ~Tells(incoming[k])
          /\ \A j, k \in 1..Len(incoming) : Tells(incoming[j]) /\ Tells(incoming[k]) => j = k
          /\ (\E k \in 1..Len(incoming) : Serves(incoming[k])) => Logged(Min(todo))
      BY <2>2 DEF MaskInv, Answered
    <3>2. ASSUME NEW j \in 1..Len(incoming'), NEW k \in 1..Len(incoming'),
                 Tells(incoming'[j]), Tells(incoming'[k])
          PROVE  j = k
      <4>1. j + 1 = k + 1
        BY <1>2, <3>1, <3>2
      <4>2. QED
        BY <4>1
    <3>3. QED
      BY <1>2, <3>1, <3>2
  <2>3. QED
    BY <1>1, <1>3, <2>1, <2>2 DEF Answered
<1>7. Done'
  BY <1>1, <1>3 DEF MaskInv, Done
<1>8. QED
  BY <1>4, <1>5, <1>6, <1>7 DEF MaskInv

LEMMA ReadStep == MaskInv /\ ReadContainer => MaskInv'
<1> SUFFICES ASSUME MaskInv, ReadContainer PROVE MaskInv'
  OBVIOUS
<1>1. incoming # <<>> /\ incoming' = Tail(incoming) /\ UNCHANGED <<sizes, masks, request>>
  BY DEF ReadContainer, modem
<1>2. /\ incoming' \in Seq(Containers)
      /\ Head(incoming) = incoming[1] /\ 1 \in 1..Len(incoming)
      /\ \A k \in 1..Len(incoming') : /\ k + 1 \in 1..Len(incoming) /\ k + 1 # 1
                                      /\ incoming'[k] = incoming[k + 1]
  BY <1>1, Queue DEF MaskInv, MaskTypes
<1>3. \A t : Logged(t)' <=> Logged(t)
  BY <1>1 DEF Logged
<1>4. CASE phase' = "failed" /\ UNCHANGED todo
  <2>1. MaskTypes'
    BY <1>1, <1>2, <1>4 DEF MaskInv, MaskTypes
  <2>2. Asked'
    BY <1>1, <1>4 DEF MaskInv, Asked, MaskRequest
  <2>3. Answered' /\ Done'
    BY <1>4 DEF Answered, Done
  <2>4. QED
    BY <2>1, <2>2, <2>3 DEF MaskInv
<1>5. CASE phase = "asked for sizes" /\ phase' = "set masks" /\ todo' = TypesToSet
  <2>1. MaskTypes'
    BY <1>1, <1>2, <1>5 DEF MaskInv, MaskTypes, TypesToSet
  <2>2. Asked'
    BY <1>1, <1>5 DEF MaskInv, Asked
  <2>3. Answered'
    BY <1>2, <1>5 DEF MaskInv, Answered
  <2>4. Done'
    BY <1>1, <1>5 DEF Done, TypesToSet, HasMask
  <2>5. QED
    BY <2>1, <2>2, <2>3, <2>4 DEF MaskInv
<1>6. CASE phase = "asked for mask" /\ ~Ends("mask") /\ phase' = "set masks"
           /\ todo' = todo \ {Min(todo)}
  <2>1. Serves(incoming[1]) /\ Tells(incoming[1])
    <3>1. Serves(Head(incoming))
      BY <1>1, <1>6, GoodAnswer DEF MaskInv, MaskTypes
    <3>2. QED
      BY <1>2, <3>1 DEF Serves, Tells
  <2>2. /\ request = <<>> /\ Logged(Min(todo))
        /\ \A k \in 1..Len(incoming) : Tells(incoming[k]) => k = 1
    BY <1>2, <1>6, <2>1 DEF MaskInv, Answered
  <2>3. MaskTypes'
    BY <1>1, <1>2, <1>6 DEF MaskInv, MaskTypes
  <2>4. Asked'
    BY <1>1, <2>2 DEF Asked
  <2>5. Answered'
    BY <1>2, <1>6, <2>2 DEF Answered
  <2>6. Done'
    BY <1>1, <1>3, <1>6, <2>2 DEF MaskInv, Done
  <2>7. QED
    BY <2>3, <2>4, <2>5, <2>6 DEF MaskInv
<1>7. QED
  BY <1>4, <1>5, <1>6 DEF ReadContainer

\* The modem puts a container behind the others
LEMMA Arrival ==
  ASSUME MaskInv, NEW c \in Containers, incoming' = Append(incoming, c),
         UNCHANGED <<phase, todo, sizes>>, masks' \subseteq Types \X Nat, Asked',
         request' = request \/ request' = <<>>, Serves(c) => Tells(c),
         Tells(c) => phase \in {"asked for mask", "failed"} /\ request # <<>> /\ request' = <<>>,
         Serves(c) => Logged(Min(todo))',
         \/ UNCHANGED masks
         \/ /\ phase \in {"asked for mask", "failed"} /\ Logged(Min(todo))'
            /\ \A t \in Types : t # Min(todo) => (Logged(t) => Logged(t)')
  PROVE  MaskInv'
<1>1. /\ incoming' \in Seq(Containers) /\ Len(incoming') = Len(incoming) + 1
      /\ Len(incoming) \in Nat
      /\ incoming'[Len(incoming) + 1] = c
      /\ \A k \in 1..Len(incoming) : incoming'[k] = incoming[k]
  <2>1. incoming \in Seq(Containers) /\ c \in Containers
    BY DEF MaskInv, MaskTypes
  <2>2. /\ Append(incoming, c) \in Seq(Containers) /\ Len(Append(incoming, c)) = Len(incoming) + 1
        /\ Len(incoming) \in Nat
        /\ Append(incoming, c)[Len(incoming) + 1] = c
        /\ \A k \in 1..Len(incoming) : Append(incoming, c)[k] = incoming[k]
    BY ONLY <2>1, Queue
  <2>3. QED
    BY ONLY <2>2, incoming' = Append(incoming, c)
<1>2. \A k \in 1..Len(incoming') : \/ k = Len(incoming) + 1 /\ incoming'[k] = c
                                   \/ k \in 1..Len(incoming) /\ incoming'[k] = incoming[k]
  BY ONLY <1>1
<1>3. MaskTypes'
  BY <1>1 DEF MaskInv, MaskTypes
<1>4. Answered'
  <2>1. phase \notin {"asked for mask", "failed"} => \A k \in 1..Len(incoming') : ~Tells(incoming'[k])
    BY <1>2 DEF MaskInv, Answered
  <2>2. ASSUME phase = "asked for mask"
        PROVE  /\ todo # {}
               /\ request' # <<>> => \A k \in 1..Len(incoming') : ~Tells(incoming'[k])
               /\ \A j, k \in 1..Len(incoming') : Tells(incoming'[j]) /\ Tells(incoming'[k]) => j = k
               /\ (\E k \in 1..Len(incoming') : Serves(incoming'[k])) => Logged(Min(todo))'
    <3>1. /\ todo # {}
          /\ request # <<>> => \A k \in 1..Len(incoming) : ~Tells(incoming[k])
          /\ \A j, k \in 1..Len(incoming) : Tells(incoming[j]) /\ Tells(incoming[k]) => j = k
          /\ (\E k \in 1..Len(incoming) : Serves(incoming[k])) => Logged(Min(todo))
      BY <2>2 DEF MaskInv, Answered
    <3>2. request' # <<>> => \A k \in 1..Len(incoming') : ~Tells(incoming'[k])
      BY <1>2, <3>1
    <3>3. \A j, k \in 1..Len(incoming') : Tells(incoming'[j]) /\ Tells(incoming'[k]) => j = k
      BY <1>2, <3>1
    <3>4. ASSUME NEW k \in 1..Len(incoming'), Serves(incoming'[k])
          PROVE  Logged(Min(todo))'
      <4>1. CASE Serves(c)
        BY <4>1
      <4>2. CASE ~Serves(c)
        <5>1. Logged(Min(todo))
          BY <1>2, <3>1, <3>4, <4>2
        <5>2. CASE UNCHANGED masks
          BY <5>1, <5>2 DEF Logged
        <5>3. QED
          BY <5>2
      <4>3. QED
        BY <4>1, <4>2
    <3>5. QED
      BY <3>1, <3>2, <3>3, <3>4
  <2>3. QED
    BY <2>1, <2>2 DEF Answered
<1>5. Done'
  <2>1. CASE phase = "asked for mask"
    <3>1. todo # {} /\ \A t \in Types : sizes[t] > 0 /\ t \notin todo => Logged(t)
      BY <2>1 DEF MaskInv, Answered, Done
    <3>2. Min(todo) \in todo
      BY <3>1, TypesAreNat DEF MaskInv, MaskTypes
    <3>3. ASSUME NEW t \in Types, sizes[t] > 0, t \notin todo
          PROVE  Logged(t)'
      <4>1. Logged(t) /\ t # Min(todo)
        BY <3>1, <3>2, <3>3
      <4>2. CASE UNCHANGED masks
        BY <4>1, <4>2 DEF Logged
      <4>3. QED
        BY <4>1, <4>2
    <3>4. QED
      BY <2>1, <3>3 DEF Done
  <2>2. CASE phase # "asked for mask"
    <3>1. CASE phase = "failed"
      BY <3>1 DEF Done
    <3>2. CASE phase # "failed"
      <4>1. UNCHANGED masks
        BY <2>2, <3>2
      <4>2. \A t : Logged(t)' <=> Logged(t)
        BY <4>1 DEF Logged
      <4>3. QED
        BY <2>2, <4>2 DEF MaskInv, Done
    <3>3. QED
      BY <3>1, <3>2
  <2>3. QED
    BY <2>1, <2>2
<1>6. QED
  BY <1>3, <1>4, <1>5 DEF MaskInv

LEMMA NoiseStep ==
  ASSUME MaskInv, NEW kind \in {"short", "other", "damaged", "user"}, Noise(kind)
  PROVE  MaskInv'
<1> DEFINE c == Container(kind, <<Other>>)
<1>1. /\ incoming' = Append(incoming, c) /\ UNCHANGED <<phase, todo, sizes, masks, request>>
  BY DEF Noise, modem
<1>2. c \in Containers /\ ~Tells(c) /\ ~Serves(c)
  BY NoiseTellsNothing
<1>3. \A t : Logged(t)' <=> Logged(t)
  BY <1>1 DEF Logged
<1>4. masks' \subseteq Types \X Nat
  BY <1>1 DEF MaskInv, MaskTypes
<1>5. Asked'
  BY <1>1 DEF MaskInv, Asked, MaskRequest
<1> HIDE DEF c
<1>6. QED
  BY <1>1, <1>2, <1>3, <1>4, <1>5, Arrival

LEMMA AnswerStep == MaskInv /\ Answer => MaskInv'
<1> SUFFICES ASSUME MaskInv, Answer PROVE MaskInv'
  OBVIOUS
<1> DEFINE r == request[1]
           C(status, before, after) ==
             Container("user", (IF before THEN <<Other>> ELSE <<>>)
                                 \o <<[is |-> r.ask, status |-> status]>>
                                 \o (IF after THEN <<Other>> ELSE <<>>))
<1>1. request # <<>> /\ request' = <<>> /\ UNCHANGED <<phase, todo, sizes>>
  BY DEF Answer
<1>2. PICK status \in {"ok", "refused"}, before \in BOOLEAN, after \in BOOLEAN :
        /\ masks' = IF r.ask = "mask" /\ status = "ok"
                    THEN {x \in masks : x[1] # r.type} \cup CodesOf(r) ELSE masks
        /\ incoming' = Append(incoming, C(status, before, after))
  BY DEF Answer
<1> DEFINE c == C(status, before, after)
<1>3. \/ r = [ask |-> "sizes"]
      \/ phase \in {"asked for mask", "failed"} /\ todo # {} /\ r = MaskRequest(Min(todo))
  <2>1. CASE request = <<[ask |-> "sizes"]>>
    BY <2>1
  <2>2. CASE /\ phase \in {"asked for mask", "failed"} /\ todo # {}
             /\ request = <<MaskRequest(Min(todo))>>
    BY <2>2
  <2>3. QED
    BY <1>1, <2>1, <2>2 DEF MaskInv, Asked
<1> HIDE DEF r
<1>3a. (r = [ask |-> "sizes"] => r.ask = "sizes") /\ \A t : MaskRequest(t).ask = "mask"
  BY DEF MaskRequest
<1>4. r.ask \in {"sizes", "mask"}
  BY <1>3, <1>3a
<1>5. c \in Containers /\ (Tells(c) => r.ask = "mask") /\ (Serves(c) => r.ask = "mask" /\ status = "ok")
  BY <1>4, AnswerTells
<1>6. incoming' = Append(incoming, c)
  BY <1>2
<1>7. Serves(c) => Tells(c)
  BY DEF Serves, Tells
<1>8. Asked'
  BY <1>1 DEF Asked
<1>9. masks \subseteq Types \X Nat /\ sizes \in Modems
  BY DEF MaskInv, MaskTypes
<1> HIDE DEF c
<1>10. CASE r.ask = "mask" /\ status = "ok"
  <2>1. /\ phase \in {"asked for mask", "failed"} /\ todo # {} /\ r = MaskRequest(Min(todo))
    BY <1>3, <1>3a, <1>10
  <2>2. Min(todo) \in Types
    BY <2>1, TypesAreNat DEF MaskInv, MaskTypes
  <2>3. masks' = {x \in masks : x[1] # Min(todo)} \cup CodesOf(MaskRequest(Min(todo)))
    BY <1>2, <1>10, <2>1 DEF MaskRequest
  <2>4. PICK t \in Types : t = Min(todo)
    BY <2>2
  <2>5. /\ Logged(t)'
        /\ \A u \in Types \ {t} : Logged(u) => Logged(u)'
        /\ masks' \subseteq Types \X Nat
    BY <1>1, <1>9, <2>3, <2>4, MaskServed
  <2>6. Logged(Min(todo))' /\ \A u \in Types : u # Min(todo) => (Logged(u) => Logged(u)')
    <3>1. Logged(Min(todo))'
      BY <1>1, <2>4, <2>5 DEF Logged
    <3>2. QED
      BY <3>1, <2>4, <2>5
  <2>7. QED
    BY <1>1, <1>5, <1>6, <1>7, <1>8, <2>1, <2>5, <2>6, Arrival
<1>11. CASE ~(r.ask = "mask" /\ status = "ok")
  <2>1. UNCHANGED masks
    BY <1>2, <1>11
  <2>3. ~Serves(c)
    BY <1>5, <1>11
  <2>4. Tells(c) => phase \in {"asked for mask", "failed"}
    <3>1. r.ask = "mask" => phase \in {"asked for mask", "failed"}
      BY <1>3, <1>3a
    <3>2. QED
      BY <1>5, <3>1
  <2>5. QED
    BY <1>1, <1>5, <1>6, <1>8, <1>9, <2>1, <2>3, <2>4, Arrival
<1>12. QED
  BY <1>10, <1>11

LEMMA RestartStep == MaskInv /\ Restart => MaskInv'
<1> SUFFICES ASSUME MaskInv, Restart PROVE MaskInv'
  OBVIOUS
<1>1. /\ phase' = "open new" /\ todo' = {} /\ request' = <<>> /\ incoming' = <<>>
      /\ masks' \in {masks, {}} /\ UNCHANGED sizes
  BY DEF Restart
<1>2. MaskTypes'
  <2>1. masks' \subseteq Types \X Nat /\ sizes' \in Modems
    BY <1>1 DEF MaskInv, MaskTypes
  <2>2. <<>> \in Seq(Containers)
    OBVIOUS
  <2>3. QED
    BY <1>1, <2>1, <2>2 DEF MaskTypes
<1>3. Asked' /\ Done'
  BY <1>1 DEF Asked, Done
<1>3a. Answered'
  <2>1. \A k \in 1..Len(<<>>) : FALSE
    OBVIOUS
  <2>2. QED
    BY <1>1, <2>1 DEF Answered
<1>4. QED
  BY <1>2, <1>3, <1>3a DEF MaskInv

LEMMA MaskInvKept == MaskInv /\ [Next]_vars => MaskInv'
<1> SUFFICES ASSUME MaskInv, [Next]_vars PROVE MaskInv'
  OBVIOUS
<1>1. CASE \E as \in {"new", "old"} : Open(as)
  <2>1. PICK as \in {"new", "old"} : Open(as)
    BY <1>1
  <2>2. /\ UNCHANGED <<todo, modem, request, incoming>>
        /\ phase \in {"open new", "open old"}
        /\ phase' \in {phase, "open old", "opened", "no device"}
    BY <2>1 DEF Open
  <2>3. QED
    BY <2>2, MasksLeft
<1>2. CASE AskSizes \/ SetMask \/ StartDiagThread
  BY <1>2, StartStep
<1>3. CASE Skip
  BY <1>3, SkipStep
<1>4. CASE ReadContainer
  BY <1>4, ReadStep
<1>5. CASE BecomeReady \/ DeviceFails
  <2>1. UNCHANGED <<todo, modem, request, incoming>> /\ (phase' = phase \/ phase' = "failed")
    BY <1>5 DEF BecomeReady, DeviceFails
  <2>2. QED
    BY <2>1, MasksLeft
<1>6. CASE Answer
  BY <1>6, AnswerStep
<1>7. CASE \E kind \in {"short", "other", "damaged", "user"} : Noise(kind)
  BY <1>7, NoiseStep
<1>8. CASE Restart
  BY <1>8, RestartStep
<1>9. CASE UNCHANGED vars
  BY <1>9, MasksLeft DEF vars
<1>10. QED
  BY <1>1, <1>2, <1>3, <1>4, <1>5, <1>6, <1>7, <1>8, <1>9 DEF Next, Daemon, Device

\* For any number of log types and bits, any wanted codes and modems, whatever an
\* earlier start has left switched on and whatever containers arrive: once the
\* diag thread starts, exactly the wanted codes that a mask has a bit for are on
\* (config_logs, build_log_mask_request)
THEOREM WantedLogsAreOn == Spec => []LogsAreOn
<1>1. MaskInv => LogsAreOn
  <2> SUFFICES ASSUME MaskInv, phase = "recording"
               PROVE  {c \in masks : sizes[c[1]] > 0}
                        = {c \in Wanted : c[1] \in Types /\ c[2] < sizes[c[1]]}
    BY DEF LogsAreOn
  <2>1. \A t \in Types : sizes[t] > 0 => Logged(t)
    BY DEF MaskInv, Done
  <2>2. masks \subseteq Types \X Nat /\ Wanted \subseteq Nat \X Nat
    BY TypesAssumption DEF MaskInv, MaskTypes
  <2>3. \A t \in Types : sizes[t] \in Nat
    BY TypesAssumption DEF MaskInv, MaskTypes, Types
  <2>4. ASSUME NEW t \in Types, NEW i \in Nat
        PROVE  <<t, i>> \in masks /\ sizes[t] > 0 <=> <<t, i>> \in Wanted /\ i < sizes[t]
    BY <2>1, <2>3 DEF Logged
  <2>5. ASSUME NEW c \in masks, sizes[c[1]] > 0
        PROVE  c \in Wanted /\ c[1] \in Types /\ c[2] < sizes[c[1]]
    <3>1. c = <<c[1], c[2]>> /\ c[1] \in Types /\ c[2] \in Nat
      BY <2>2
    <3>2. QED
      BY <2>4, <2>5, <3>1
  <2>6. ASSUME NEW c \in Wanted, c[1] \in Types, c[2] < sizes[c[1]]
        PROVE  c \in masks /\ sizes[c[1]] > 0
    <3>1. c = <<c[1], c[2]>> /\ c[2] \in Nat
      BY <2>2
    <3>2. QED
      BY <2>4, <2>6, <3>1
  <2>7. QED
    BY <2>5, <2>6
<1>2. QED
  BY <1>1, MaskInvStarts, MaskInvKept, PTL DEF Spec
=============================================================================
