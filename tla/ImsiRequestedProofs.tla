------------------------- MODULE ImsiRequestedProofs -------------------------
(***************************************************************************)
(* The documented cases of the stateful heuristic, for any threshold; and, *)
(* for any messages, that a recording and its pcap file tell the same.     *)
(***************************************************************************)
EXTENDS LogAnalysis, TLAPS

\* The counter may be zero.
LEMMA ZeroCounts == 0 \in 0..(Threshold - 1)
  BY ThresholdAssumption

\* The inductive invariant holds at first, and with every new recording.
LEMMA InitInv == Init => AnalyzerInv
  <1> SUFFICES ASSUME Init PROVE AnalyzerInv
    OBVIOUS
  <1>1. TypeOK
    BY ZeroCounts DEF Init, TypeOK, States, Events, Kinds
  <1> QED BY <1>1 DEF Init, AnalyzerInv

\* Where a message leads, and that it leads to a state.
LEMMA TargetType ==
  ASSUME NEW kind \in Kinds, state \in States
  PROVE  /\ Target(kind) \in States
         /\ kind # "other" => (Target(kind) = "IdentityRequest" <=> kind = "identity")
         /\ kind # "other" => (Target(kind) = "AuthAccept" <=> kind = "auth")
         /\ kind # "other" => (Target(kind) = "Disconnect" <=> kind = "disconnect")
         /\ kind = "other" => Target(kind) = state
  <1>1. CASE kind = "connect"    BY <1>1 DEF Target, States
  <1>2. CASE kind = "identity"   BY <1>2 DEF Target, States
  <1>3. CASE kind = "auth"       BY <1>3 DEF Target, States
  <1>4. CASE kind = "disconnect" BY <1>4 DEF Target, States
  <1>5. CASE kind = "other"      BY <1>5 DEF Target, States
  <1> QED BY <1>1, <1>2, <1>3, <1>4, <1>5 DEF Kinds

\* The analyzer says one of its events.
LEMMA SaysType ==
  ASSUME NEW from, NEW to PROVE Says(from, to) \in Events
  BY DEF Says, Events

\* One message preserves the invariant.
LEMMA AnalyzeInv ==
  ASSUME AnalyzerInv, NEW kind \in Kinds, Analyze(kind)
  PROVE  AnalyzerInv'
  <1> DEFINE to    == Target(kind)
             from0 == IF kind # "other" /\ Restarts(state, to) THEN 0 ELSE timeoutCounter
             count == IF to = "IdentityRequest" THEN from0 + 1 ELSE from0
             late  == TimesOut(to, count)
  <1>1. /\ state' = to
        /\ timeoutCounter' = IF late THEN 0 ELSE count
        /\ event' = IF late THEN "no auth"
                    ELSE IF kind # "other" THEN Says(state, to) ELSE "none"
        /\ Record(kind)
    BY DEF Analyze, Hear
  <1>2. state \in States /\ to \in States
    BY TargetType DEF AnalyzerInv, TypeOK
  <1>3. timeoutCounter \in Nat /\ timeoutCounter < Threshold
        /\ Threshold \in Nat /\ Threshold >= 2
    BY ThresholdAssumption DEF AnalyzerInv, TypeOK
  <1>4. from0 \in Nat /\ from0 <= timeoutCounter
    BY <1>3
  <1>5. count \in Nat /\ count <= Threshold
        /\ (to # "IdentityRequest" => count = from0)
        /\ (to = "IdentityRequest" => count = from0 + 1)
    BY <1>3, <1>4
  <1>6. late <=> to = "IdentityRequest" /\ count >= Threshold
    BY DEF TimesOut
  <1>7. timeoutCounter' \in 0..(Threshold - 1)
    <2>1. timeoutCounter' = IF late THEN 0 ELSE count
      BY <1>1
    <2>2. ~late => count < Threshold
      BY <1>3, <1>4, <1>5, <1>6
    <2>3. CASE late
      BY <2>1, <2>3, ZeroCounts
    <2>4. CASE ~late
      <3> HIDE DEF late, count
      <3> QED BY <2>1, <2>2, <2>4, <1>3, <1>5
    <2> QED BY <2>3, <2>4
  <1>8. event' \in Events
    BY <1>1, SaysType DEF Events
  <1>9. asked' = (kind = "identity" \/ (kind = "other" /\ asked))
        /\ authed' = (kind = "auth" \/ (kind = "other" /\ authed))
        /\ message' = kind
    BY <1>1 DEF Record
  <1>10. link' \in {"unknown", "up", "down"} /\ (state' = "Disconnect" => link' = "down")
    <2>1. CASE kind = "other"
      BY <1>1, <2>1, TargetType, <1>2 DEF Record, AnalyzerInv, TypeOK
    <2>2. CASE kind # "other"
      BY <1>1, <2>2, TargetType, <1>2 DEF Record, AnalyzerInv, TypeOK
    <2> QED BY <2>1, <2>2
  <1>11. (asked' <=> state' = "IdentityRequest") /\ (authed' <=> state' = "AuthAccept")
    <2>1. CASE kind = "other"
      BY <1>1, <1>9, <2>1, TargetType, <1>2 DEF AnalyzerInv
    <2>2. CASE kind # "other"
      BY <1>1, <1>9, <2>2, TargetType, <1>2
    <2> QED BY <2>1, <2>2
  <1>12. state' = "AuthAccept" => timeoutCounter' = 0
    <2> SUFFICES ASSUME to = "AuthAccept" PROVE from0 = 0
      BY <1>1, <1>5, <1>6
    <2>1. CASE kind = "other"
      BY <2>1, TargetType, <1>2 DEF AnalyzerInv
    <2>2. CASE kind # "other"
      BY <2>2 DEF Restarts
    <2> QED BY <2>1, <2>2
  <1>13. waited' \in Nat /\ (asked' => waited' <= timeoutCounter')
    <2>1. waited' = IF ~asked' \/ event' = "no auth" THEN 0
                    ELSE IF kind = "identity" THEN 1 ELSE waited + 1
      BY <1>1 DEF Record
    <2>2. waited \in Nat
      BY DEF AnalyzerInv, TypeOK
    <2> DEFINE Bounded == waited' \in Nat /\ waited' <= timeoutCounter'
    <2>3. CASE ~asked' \/ event' = "no auth"
      <3>1. waited' = 0
        BY <2>1, <2>3, Zenon
      <3>2. Bounded
        BY <3>1, <1>7, <1>3
      <3> QED BY <3>2
    <2>4. CASE asked' /\ event' # "no auth"
      <3>1. ~late /\ to = "IdentityRequest" /\ timeoutCounter' = from0 + 1
        BY <1>1, <1>5, <1>11, <2>4
      <3>2. CASE kind = "identity"
        <4>1. waited' = 1
          BY <2>1, <2>4, <3>2, Zenon
        <4>2. Bounded
          BY <4>1, <3>1, <1>4
        <4> QED BY <4>2
      <3>3. CASE kind # "identity"
        <4>1. kind = "other" /\ asked
          BY <1>9, <2>4, <3>3
        <4>2. from0 = timeoutCounter /\ waited <= timeoutCounter
          BY <4>1 DEF AnalyzerInv
        <4>3. waited' = waited + 1
          BY <2>1, <2>4, <3>3, Zenon
        <4>4. Bounded
          BY <2>2, <3>1, <4>2, <4>3, <1>3
        <4> QED BY <4>4
      <3> QED BY <3>2, <3>3
    <2> QED BY <2>3, <2>4
  <1> QED
    BY <1>1, <1>2, <1>7, <1>8, <1>9, <1>10, <1>11, <1>12, <1>13
       DEF AnalyzerInv, TypeOK

\* The analyzer's state stands for what happened, for any threshold above one.
THEOREM AnalyzerInvariant == Spec => []AnalyzerInv
  <1>1. AnalyzerInv /\ [Next]_vars => AnalyzerInv'
    <2> SUFFICES ASSUME AnalyzerInv, [Next]_vars PROVE AnalyzerInv'
      OBVIOUS
    <2>1. CASE NewRecording
      <3>1. TypeOK'
        BY <2>1, ZeroCounts DEF NewRecording, TypeOK, States, Events, Kinds
      <3> QED BY <2>1, <3>1 DEF NewRecording, AnalyzerInv
    <2>2. ASSUME NEW kind \in Kinds, Analyze(kind) PROVE AnalyzerInv'
      BY <2>2, AnalyzeInv
    <2>3. CASE UNCHANGED vars
      BY <2>3 DEF vars, analyzer, history, AnalyzerInv, TypeOK
    <2> QED BY <2>1, <2>2, <2>3 DEF Next
  <1> QED BY InitInv, <1>1, PTL DEF Spec

\* For any Threshold: while a request is left without an answer, and no
\* connection or disconnection ends the wait, the Informational event of
\* imsi_requested.rs:174-179 comes before Threshold messages have passed.
THEOREM NoticeComes == Spec => []NoAuthIsNoticed
  <1>1. AnalyzerInv => NoAuthIsNoticed
    BY ThresholdAssumption DEF AnalyzerInv, TypeOK, NoAuthIsNoticed
  <1> QED BY AnalyzerInvariant, <1>1, PTL

\* What each message makes the analyzer say, from its state.
LEMMA WhatIsSaid ==
  ASSUME AnalyzerInv, NEW kind \in Kinds, Analyze(kind)
  PROVE  /\ message' = kind
         /\ kind = "disconnect" /\ asked  => event' = "suspicious"
         /\ kind = "identity" /\ authed   => event' = "suspicious"
         /\ event' = "suspicious" =>
              \/ kind = "identity" /\ (authed \/ link = "down")
              \/ kind = "disconnect" /\ asked
  <1> DEFINE to    == Target(kind)
             from0 == IF kind # "other" /\ Restarts(state, to) THEN 0 ELSE timeoutCounter
             count == IF to = "IdentityRequest" THEN from0 + 1 ELSE from0
             late  == TimesOut(to, count)
  <1>1. event' = IF late THEN "no auth"
                 ELSE IF kind # "other" THEN Says(state, to) ELSE "none"
    BY DEF Analyze, Hear
  <1>2. state \in States
    BY DEF AnalyzerInv, TypeOK
  <1>3. message' = kind
    BY DEF Analyze, Record
  <1>4. ASSUME kind = "disconnect", asked PROVE event' = "suspicious"
    <2>1. to = "Disconnect" /\ state = "IdentityRequest"
      BY <1>2, <1>4, TargetType DEF AnalyzerInv
    <2>2. ~late
      BY <2>1 DEF TimesOut
    <2> QED BY <1>1, <1>4, <2>1, <2>2 DEF Says, Suspicious
  <1>5. ASSUME kind = "identity", authed PROVE event' = "suspicious"
    <2>1. to = "IdentityRequest" /\ state = "AuthAccept" /\ timeoutCounter = 0
      BY <1>2, <1>5, TargetType DEF AnalyzerInv
    <2>2. from0 = 0 /\ ~late
      BY <2>1, ThresholdAssumption DEF TimesOut
    <2> QED BY <1>1, <1>5, <2>1, <2>2 DEF Says, Suspicious
  <1>6. ASSUME event' = "suspicious"
        PROVE  \/ kind = "identity" /\ (authed \/ link = "down")
               \/ kind = "disconnect" /\ asked
    <2>1. kind # "other" /\ Says(state, to) = "suspicious"
      BY <1>1, <1>6
    <2>2. Suspicious(state, to)
      BY <2>1 DEF Says
    <2> QED BY <1>2, <2>1, <2>2, TargetType DEF Suspicious, AnalyzerInv
  <1> QED BY <1>3, <1>4, <1>5, <1>6

\* The three action properties say nothing of a step that starts a recording
\* or changes nothing.
LEMMA OtherSteps ==
  ASSUME AnalyzerInv, NewRecording
  PROVE  message' = "other" /\ event' = "none"
  BY DEF NewRecording

\* The chain of doc/heuristics.md:19 always ends in a warning.
THEOREM ChainIsDetected == Spec => ChainDetected
  <1>1. AnalyzerInv /\ [Next]_vars
          => [asked /\ message' = "disconnect" => event' = "suspicious"]_vars
    <2> SUFFICES ASSUME AnalyzerInv, Next
                 PROVE  asked /\ message' = "disconnect" => event' = "suspicious"
      OBVIOUS
    <2> QED BY WhatIsSaid, OtherSteps DEF Next
  <1> QED BY AnalyzerInvariant, <1>1, PTL DEF Spec, ChainDetected

\* An identity request after authentication always warns.
THEOREM AfterAuthWarns == Spec => RequestAfterAuthWarns
  <1>1. AnalyzerInv /\ [Next]_vars
          => [authed /\ message' = "identity" => event' = "suspicious"]_vars
    <2> SUFFICES ASSUME AnalyzerInv, Next
                 PROVE  authed /\ message' = "identity" => event' = "suspicious"
      OBVIOUS
    <2> QED BY WhatIsSaid, OtherSteps DEF Next
  <1> QED BY AnalyzerInvariant, <1>1, PTL DEF Spec, RequestAfterAuthWarns

\* There is no warning but in the documented cases.
THEOREM OnlyDocumentedWarnings == Spec => WarningIsDocumented
  <1>1. AnalyzerInv /\ [Next]_vars
          => [event' = "suspicious" =>
                \/ message' = "identity" /\ (authed \/ link = "down")
                \/ message' = "disconnect" /\ asked]_vars
    <2> SUFFICES ASSUME AnalyzerInv, Next, event' = "suspicious"
                 PROVE  \/ message' = "identity" /\ (authed \/ link = "down")
                        \/ message' = "disconnect" /\ asked
      OBVIOUS
    <2>1. PICK kind \in Kinds : Analyze(kind)
      BY OtherSteps DEF Next
    <2> QED BY <2>1, WhatIsSaid
  <1> QED BY AnalyzerInvariant, <1>1, PTL DEF Spec, WarningIsDocumented
-----------------------------------------------------------------------------
\* A channel of the log tables is an LteRrcSubtype.
LEMMA ChannelsAreSubtypes ==
  \A i \in DOMAIN LogChannels : \E j \in DOMAIN RrcSubtypes : RrcSubtypes[j] = LogChannels[i]
  BY DEF LogChannels, RrcSubtypes

\* The subtype read back from a packet's bytes is the one they were made from.
LEMMA BytesTellChannel ==
  ASSUME NEW m \in Messages, IsPacket(m)
  PROVE  FromBytes(TypeBytes(Channel(m))) = Channel(m)
  <1>1. CASE m.log = "nas"
    BY <1>1 DEF Channel, TypeBytes, FromBytes
  <1>2. CASE m.log # "nas"
    <2>1. Channel(m) \in ChannelsOf(m)
      BY <1>2 DEF IsPacket, Channel
    <2>2. PICK i \in DOMAIN LogChannels : Channel(m) = LogChannels[i]
      BY <2>1 DEF ChannelsOf
    <2>3. Channel(m) # "NAS"
      BY <2>2 DEF LogChannels
    <2> DEFINE n == CHOOSE j \in DOMAIN RrcSubtypes : RrcSubtypes[j] = Channel(m)
    <2>4. n \in DOMAIN RrcSubtypes /\ RrcSubtypes[n] = Channel(m)
      BY <2>2, ChannelsAreSubtypes
    <2>5. n \in Nat
      BY <2>4 DEF RrcSubtypes
    <2>6. TypeBytes(Channel(m)) = <<13, n - 1>>
      BY <2>3 DEF TypeBytes
    <2> HIDE DEF n
    <2>7. FromBytes(TypeBytes(Channel(m))) = RrcSubtypes[(n - 1) + 1]
      BY <2>6 DEF FromBytes
    <2> QED BY <2>4, <2>5, <2>7
  <1> QED BY <1>1, <1>2

\* The two harnesses' stateful heuristics, in the same state, hear the same.
LEMMA HeardAlike ==
  ASSUME NEW kind \in Kinds, pcapState = state, pcapCounter = timeoutCounter,
         Hear(kind), Pcap!Hear(kind)
  PROVE  pcapState' = state' /\ pcapCounter' = timeoutCounter' /\ pcapEvent' = event'
  <1>1. Target(kind) = Pcap!Target(kind)
    BY DEF Target, Pcap!Target
  <1>2. \A from, to : Restarts(from, to) = Pcap!Restarts(from, to)
                      /\ Says(from, to) = Pcap!Says(from, to)
    BY DEF Restarts, Pcap!Restarts, Says, Pcap!Says, Suspicious, Pcap!Suspicious
  <1>3. \A to, n : TimesOut(to, n) = Pcap!TimesOut(to, n)
    BY DEF TimesOut, Pcap!TimesOut
  <1> QED BY <1>1, <1>2, <1>3 DEF Hear, Pcap!Hear

\* What the stateful heuristic is told of an element is one of its kinds.
LEMMA KindType == \A channel, b : Kind(channel, b) \in Kinds
  BY DEF Kind, Kinds

\* One message keeps the two harnesses in step.
LEMMA MessageKeepsStep ==
  ASSUME PcapTellsTheSame, NEW m \in Messages, Message(m)
  PROVE  PcapTellsTheSame'
  <1> DEFINE channel == Channel(m)
             kind    == Kind(channel, m.body)
  <1>1. inPcap' = IsPacket(m)
    BY DEF Message, Convert
  <1>2. pcapState = state /\ pcapCounter = timeoutCounter
    BY DEF PcapTellsTheSame
  <1>3. CASE ~IsPacket(m)
    <2>1. UNCHANGED vars /\ UNCHANGED pcapAnalyzer
      BY <1>3 DEF Message, AnalyzeMessage, AnalyzePacket
    <2>2. row'.events = {}
      BY <1>3 DEF Message, AnalyzeMessage, EmptyRow, SkippedRow
    <2> QED BY <1>1, <1>2, <1>3, <2>1, <2>2
            DEF PcapTellsTheSame, vars, analyzer, pcapAnalyzer
  <1>4. CASE IsPacket(m) /\ ~Decodes(channel, m.body)
    <2>1. FromBytes(TypeBytes(channel)) = channel
      BY <1>4, BytesTellChannel
    <2>2. UNCHANGED vars /\ UNCHANGED pcapAnalyzer /\ packetRow' = SkippedRow
      BY <1>4, <2>1 DEF Message, AnalyzeMessage, AnalyzePacket
    <2>3. row' = SkippedRow
      <3>1. m.log # "other"
        BY <1>4 DEF IsPacket
      <3> QED BY <1>4, <3>1 DEF Message, AnalyzeMessage
    <2> QED BY <1>1, <1>2, <1>4, <2>2, <2>3
            DEF PcapTellsTheSame, vars, analyzer, pcapAnalyzer
  <1>5. CASE IsPacket(m) /\ Decodes(channel, m.body)
    <2>1. FromBytes(TypeBytes(channel)) = channel
      BY <1>5, BytesTellChannel
    <2>2. /\ Hear(kind)
          /\ row' = [skipped |-> FALSE, events |-> EventsOf(channel, m.body, event')]
      BY <1>5 DEF Message, AnalyzeMessage, Analyze
    <2>3. /\ Pcap!Hear(kind)
          /\ packetRow' = [skipped |-> FALSE, events |-> EventsOf(channel, m.body, pcapEvent')]
      BY <1>5, <2>1 DEF Message, AnalyzePacket
    <2>4. pcapState' = state' /\ pcapCounter' = timeoutCounter' /\ pcapEvent' = event'
      BY <1>2, <2>2, <2>3, KindType, HeardAlike
    <2>5. packetRow' = row'
      BY <2>2, <2>3, <2>4
    <2> QED BY <1>1, <1>5, <2>4, <2>5 DEF PcapTellsTheSame
  <1> QED BY <1>3, <1>4, <1>5

\* A recording and the pcap file made of it tell the same, message by message:
\* doc/reanalyzing.md:14, for any messages, threshold and set of heuristics.
THEOREM PcapTells == SpecLogs => []PcapTellsTheSame
  <1>1. InitLogs => PcapTellsTheSame
    BY DEF InitLogs, Init, PcapTellsTheSame, EmptyRow
  <1>2. PcapTellsTheSame /\ [NextLogs]_allVars => PcapTellsTheSame'
    <2> SUFFICES ASSUME PcapTellsTheSame, [NextLogs]_allVars PROVE PcapTellsTheSame'
      OBVIOUS
    <2>1. CASE AnotherRecording
      BY <2>1 DEF AnotherRecording, NewRecording, PcapTellsTheSame, EmptyRow
    <2>2. ASSUME NEW m \in Messages, Message(m) PROVE PcapTellsTheSame'
      BY <2>2, MessageKeepsStep
    <2>3. CASE UNCHANGED allVars
      BY <2>3 DEF allVars, vars, analyzer, pcapAnalyzer, PcapTellsTheSame
    <2> QED BY <2>1, <2>2, <2>3 DEF NextLogs
  <1> QED BY <1>1, <1>2, PTL DEF SpecLogs

\* Inside the harness the heuristic still does what it is specified to do, so
\* what is proved of it alone holds of it there.
THEOREM HarnessRunsHeuristic == SpecLogs => Spec
  <1>1. InitLogs => Init
    BY DEF InitLogs
  <1>2. [NextLogs]_allVars => [Next]_vars
    <2> SUFFICES ASSUME NextLogs, vars' # vars PROVE Next
      BY DEF allVars
    <2>1. CASE AnotherRecording
      BY <2>1 DEF AnotherRecording, Next
    <2>2. ASSUME NEW m \in Messages, Message(m) PROVE Next
      <3>1. Analyze(Kind(Channel(m), m.body))
        BY <2>2 DEF Message, AnalyzeMessage
      <3> QED BY <3>1, KindType DEF Next
    <2> QED BY <2>1, <2>2 DEF NextLogs
  <1> QED BY <1>1, <1>2, PTL DEF SpecLogs, Spec
=============================================================================
