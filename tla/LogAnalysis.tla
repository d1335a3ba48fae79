----------------------------- MODULE LogAnalysis -----------------------------
(***************************************************************************)
(* What becomes of a message of a recording.  The harness                  *)
(* (analysis/analyzer.rs) turns a log message into a packet                *)
(* (gsmtap_parser.rs), decodes it (information_element.rs), and shows it   *)
(* to every heuristic; the row of their events is written to the report,   *)
(* unless it is empty.  The conversion of the recording to a pcap file     *)
(* writes the same packets: `check -P` all of them, the daemon's download  *)
(* (daemon/src/pcap.rs) up to the first it cannot make.  A pcap file is    *)
(* analyzed again by `check`, which reads type and subtype back from bytes *)
(* and has a harness of its own.                                           *)
(*                                                                         *)
(* The body of a message is what it says once decoded, named for what the  *)
(* heuristics look at; "undecodable" if it cannot be.                      *)
(***************************************************************************)
EXTENDS ImsiRequested, Sequences

CONSTANTS Messages,  \* the messages recordings hold
          Enabled    \* AnalyzerConfig: the heuristics switched on

Heuristics == {"imsi_requested", "connection_redirect_2g_downgrade", "lte_sib6_and_7_downgrade",
               "null_cipher", "nas_null_cipher", "incomplete_sib", "test_analyzer"}

\* A frame that is no message; a response, or a log that is none of the two
\* others; LteRrcOtaMessage; Nas4GMessage
Logs == {"damaged", "other", "rrc", "nas"}

ASSUME MessagesAssumption ==
  \A m \in Messages : /\ m = [log |-> m.log, version |-> m.version, pdu |-> m.pdu, body |-> m.body]
                      /\ m.log \in Logs /\ m.version \in Nat /\ m.pdu \in Nat

ASSUME EnabledAssumption == Enabled \subseteq Heuristics

VARIABLES
  row,          \* the harness's row for the last message of the recording
  body,         \* history: what that message said
  written,      \* whether the report has the row
  inPcap,       \* whether `check -P` made a packet of the message
  inDownload,   \* whether the daemon's download has that packet
  cut,          \* the download has ended before the end of the recording
  packetRow,    \* the row of that packet when the pcap file is analyzed
  \* the stateful heuristic of the pcap file's harness
  pcapState, pcapCounter, pcapEvent

pcapAnalyzer == <<pcapState, pcapCounter, pcapEvent>>
download     == <<inDownload, cut>>
allVars      == <<vars, row, body, written, inPcap, download, packetRow, pcapAnalyzer>>

\* The other harness's heuristic; only its Hear is used
Pcap == INSTANCE ImsiRequested
          WITH state <- pcapState, timeoutCounter <- pcapCounter, event <- pcapEvent

-----------------------------------------------------------------------------
\* LteRrcSubtype, in the order of its numbers, from 0
RrcSubtypes == <<"DlCcch", "DlDcch", "UlCcch", "UlDcch", "BcchBch", "BcchDlSch", "PCCH", "MCCH",
                 "BcchBchMbms", "BcchDlSchBr", "BcchDlSchMbms", "ScMcch", "SbcchSlBch",
                 "SbcchSlBchV2x", "DlCcchNb", "DlDcchNb", "UlCcchNb", "UlDcchNb", "BcchBchNb",
                 "BcchBchTddNb", "BcchDlSchNb", "PcchNb", "ScMcchNb">>

\* The channels of the log's header, as the tables of log_to_gsmtap list them
LogChannels == <<"BcchBch", "BcchDlSch", "MCCH", "PCCH", "DlCcch", "DlDcch", "UlCcch", "UlDcch",
                 "BcchBchNb", "BcchDlSchNb", "PcchNb", "DlCcchNb", "DlDcchNb", "UlCcchNb",
                 "UlDcchNb">>

\* Those tables: for some header versions, the PDU numbers of these channels
Tables == {
  [versions |-> {2, 3, 4, 6, 7, 8, 13, 22}, pdus |-> <<1, 2, 3, 4, 5, 6, 7, 8>>],
  [versions |-> {9, 12},     pdus |-> <<8, 9, 10, 11, 12, 13, 14, 15>>],
  [versions |-> {14, 15, 16}, pdus |-> <<1, 2, 4, 5, 6, 7, 8, 9>>],
  [versions |-> {19, 26, 27}, pdus |-> <<1, 3, 6, 7, 8, 9, 10, 11, 45, 46, 47, 48, 49, 50, 52>>],
  [versions |-> {20, 24, 25}, pdus |-> <<1, 2, 4, 5, 6, 7, 8, 9, 54, 55, 56, 57, 58, 59, 61>>]}

\* The channels a header's version and PDU number stand for: one, or none
ChannelsOf(m) == {LogChannels[i] : i \in {j \in DOMAIN LogChannels :
                    \E t \in Tables : m.version \in t.versions /\ j \in DOMAIN t.pdus
                                      /\ t.pdus[j] = m.pdu}}

\* gsmtap_parser::parse: an error, nothing to make a packet of, or a packet
IsError(m)  == m.log = "rrc" /\ ChannelsOf(m) = {}
IsPacket(m) == m.log = "nas" \/ (m.log = "rrc" /\ ChannelsOf(m) # {})
Channel(m)  == IF m.log = "nas" THEN "NAS" ELSE CHOOSE c \in ChannelsOf(m) : TRUE

\* The type and subtype bytes a packet carries, and what is read from them
\* (GsmtapType::get_type, get_subtype, new).
TypeBytes(channel) ==
  IF channel = "NAS" THEN <<18, 0>>
  ELSE <<13, (CHOOSE i \in DOMAIN RrcSubtypes : RrcSubtypes[i] = channel) - 1>>
FromBytes(bytes) == IF bytes[1] = 18 THEN "NAS" ELSE RrcSubtypes[bytes[2] + 1]

\* InformationElement::try_from: no narrow-band channel is decoded
Decodes(channel, b) ==
  b # "undecodable" /\ (channel = "NAS" \/ \E i \in 1..14 : RrcSubtypes[i] = channel)

-----------------------------------------------------------------------------
\* What the stateful heuristic makes of an element
Releases == {"release to 2G", "release elsewhere", "release"}
Kind(channel, b) ==
  IF channel = "NAS" /\ b \in Kinds THEN b
  ELSE IF channel = "UlCcch" /\ b = "connection request" THEN "connect"
  ELSE IF channel = "DlDcch" /\ b \in Releases THEN "disconnect"
  ELSE "other"

\* EventType
Informational == 0
Low  == 1
High == 3

\* What the heuristics without state look for, on which channel, and how
\* severe they find it.  A null cipher (EEA0) may be chosen at a handover, for
\* a secondary cell group, at a handover to or from 5G, or for security mode.
\* A SIB 6 or 7 may give a 3G or 2G carrier a reselection priority.
Redirect2GDowngrade ==
  {[on |-> <<"DlDcch", "release to 2G">>, type |-> High],
   [on |-> <<"DlDcch", "release elsewhere">>, type |-> Informational]}
Sib6And7Downgrade ==
  {[on |-> <<"BcchDlSch", b>>, type |-> High] : b \in {"SIB6 priority 0", "SIB7 priority 0"}}
NullCipher ==
  {[on |-> <<"DlDcch", b>>, type |-> High] :
     b \in {"handover EEA0", "cell group EEA0", "5G handover EEA0", "security mode EEA0"}}
NasNullCipher == {[on |-> <<"NAS", "security mode EEA0">>, type |-> High]}
IncompleteSib == {[on |-> <<"BcchDlSch", "short SIB1">>, type |-> Informational]}
TestAnalyzer  == {[on |-> <<"BcchDlSch", b>>, type |-> Low] : b \in {"short SIB1", "SIB1"}}

Finds(heuristic) ==
  CASE heuristic = "connection_redirect_2g_downgrade" -> Redirect2GDowngrade
    [] heuristic = "lte_sib6_and_7_downgrade" -> Sib6And7Downgrade
    [] heuristic = "null_cipher"     -> NullCipher
    [] heuristic = "nas_null_cipher" -> NasNullCipher
    [] heuristic = "incomplete_sib"  -> IncompleteSib
    [] heuristic = "test_analyzer"   -> TestAnalyzer
    [] heuristic = "imsi_requested"  -> {}

\* The event of the stateful heuristic, if any
ImsiEvents(e) == IF e = "none" THEN {}
                 ELSE {[by |-> "imsi_requested",
                        type |-> IF e = "suspicious" THEN High ELSE Informational]}

\* Harness::analyze_information_element: the heuristics' events, e the
\* stateful one's
EventsOf(channel, b, e) ==
  {v \in ImsiEvents(e) \cup UNION {{[by |-> h, type |-> f.type] :
                                      f \in {g \in Finds(h) : g.on = <<channel, b>>}} :
                                    h \in Heuristics} :
     v.by \in Enabled}

EmptyRow   == [skipped |-> FALSE, events |-> {}]
SkippedRow == [skipped |-> TRUE, events |-> {}]

\* AnalysisRow: informational events alone are no warning, and a row without a
\* warning or a reason to skip is empty
ContainsWarnings(r) == \E v \in r.events : v.type # Informational
IsEmpty(r)          == ~r.skipped /\ ~ContainsWarnings(r)

InitLogs ==
  /\ Init
  /\ row = EmptyRow /\ body = "other" /\ written = FALSE
  /\ inPcap = FALSE /\ inDownload = FALSE /\ cut = FALSE
  /\ packetRow = EmptyRow
  /\ pcapState = "Unattached" /\ pcapCounter = 0 /\ pcapEvent = "none"

\* analyze_qmdl_messages, for one message.  Not: a message that is skipped
\* counts as one without an answer.
AnalyzeEveryMessage(m) ==
  /\ IF IsPacket(m) /\ Decodes(Channel(m), m.body)
     THEN /\ Analyze(Kind(Channel(m), m.body))
          /\ row' = [skipped |-> FALSE, events |-> EventsOf(Channel(m), m.body, event')]
     ELSE /\ Analyze("other")
          /\ row' = IF m.log = "other" THEN EmptyRow ELSE SkippedRow
  /\ body' = m.body
  /\ written' = ~IsEmpty(row')

AnalyzeMessage(m) ==
  /\ IF IsPacket(m) /\ Decodes(Channel(m), m.body)
     THEN /\ Analyze(Kind(Channel(m), m.body))
          /\ row' = [skipped |-> FALSE, events |-> EventsOf(Channel(m), m.body, event')]
     ELSE /\ UNCHANGED vars
          /\ row' = IF m.log = "other" THEN EmptyRow ELSE SkippedRow
  /\ body' = m.body
  /\ written' = ~IsEmpty(row')

\* `check -P` writes the packet of every message that has one; the daemon's
\* download ends with the first message whose header it does not know
Convert(m) ==
  /\ inPcap' = IsPacket(m)
  /\ cut' = (cut \/ IsError(m))
  /\ inDownload' = (IsPacket(m) /\ ~cut)

\* analyze_pcap_packet, for the packet of that message
AnalyzePacket(m) ==
  LET channel == FromBytes(TypeBytes(Channel(m)))
  IN IF ~IsPacket(m) THEN UNCHANGED <<packetRow, pcapAnalyzer>>
     ELSE IF Decodes(channel, m.body)
     THEN /\ Pcap!Hear(Kind(channel, m.body))
          /\ packetRow' = [skipped |-> FALSE, events |-> EventsOf(channel, m.body, pcapEvent')]
     ELSE /\ packetRow' = SkippedRow
          /\ UNCHANGED pcapAnalyzer

Message(m) == AnalyzeMessage(m) /\ Convert(m) /\ AnalyzePacket(m)

\* Each recording, and each analysis, has new heuristics
AnotherRecording ==
  /\ NewRecording
  /\ row' = EmptyRow /\ body' = "other" /\ written' = FALSE
  /\ inPcap' = FALSE /\ inDownload' = FALSE /\ cut' = FALSE
  /\ packetRow' = EmptyRow
  /\ pcapState' = "Unattached" /\ pcapCounter' = 0 /\ pcapEvent' = "none"

NextLogs == AnotherRecording \/ \E m \in Messages : Message(m)

SpecLogs == InitLogs /\ [][NextLogs]_allVars

-----------------------------------------------------------------------------
Rows == [skipped : BOOLEAN, events : SUBSET [by : Heuristics, type : Informational..High]]

TypeOKLogs ==
  /\ TypeOK
  /\ row \in Rows /\ packetRow \in Rows
  /\ written \in BOOLEAN /\ inPcap \in BOOLEAN /\ inDownload \in BOOLEAN /\ cut \in BOOLEAN
  /\ pcapState \in States /\ pcapCounter \in 0..(Threshold - 1) /\ pcapEvent \in Events

\* doc/reanalyzing.md:14 offers the analysis of "a PCAP or QMDL file": the pcap
\* file made of a recording tells the same, message by message.  Damaged,
\* unknown and undecodable messages, which only the recording has, change
\* nothing in what either harness makes of the others.
PcapTellsTheSame ==
  /\ pcapState = state /\ pcapCounter = timeoutCounter
  /\ IF inPcap THEN packetRow = row ELSE row.events = {}

\* daemon/src/pcap.rs:21: the download streams "the QMDL data written so far";
\* a message `check -P` makes a packet of is in it
DownloadHasEveryPacket == inPcap => inDownload

\* doc/heuristics.md:35 and :81: identity requests and incomplete SIBs are
\* there to be seen; whatever an enabled heuristic says is in the report
EventIsReported == row.events # {} => written

\* doc/heuristics.md:45: SIB 6 and 7 messages "which include 2G/3G frequencies
\* with higher priorities"; 7 is the highest there is (3GPP TS 36.304)
HigherPriorityWarns ==
  body \in {"SIB6 priority 7", "SIB7 priority 7"} /\ ~row.skipped => ContainsWarnings(row)
=============================================================================
