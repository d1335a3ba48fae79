---------------------------- MODULE MCLogAnalysis ----------------------------
EXTENDS LogAnalysis

\* AnalyzerConfig::default: all but the test
MCDefaults == Heuristics \ {"test_analyzer"}

\* What a message of a channel may say
MCBodies(channel) ==
  {"undecodable", "other"} \cup
  (CASE channel = "NAS"       -> {"connect", "identity", "auth", "disconnect", "security mode EEA0"}
     [] channel = "UlCcch"    -> {"connection request"}
     [] channel = "DlDcch"    -> Releases \cup {"handover EEA0", "cell group EEA0",
                                               "5G handover EEA0", "security mode EEA0"}
     [] channel = "BcchDlSch" -> {"SIB1", "short SIB1", "SIB6 priority 0", "SIB7 priority 0",
                                  "SIB6 priority 7", "SIB7 priority 7"}
     [] OTHER -> {})

\* A header version of each table, with every PDU number of the table
MCHeaders == {<<t.versions, t.pdus[i], LogChannels[i]>> : t \in Tables, i \in 1..8}
             \cup {<<t.versions, t.pdus[i], LogChannels[i]>> :
                     t \in {u \in Tables : Len(u.pdus) = 15}, i \in 9..15}

\* Every body in one table's channels, a few in those of the others; headers of
\* an unknown version and of an unknown PDU number
MCMessages ==
  {[log |-> l, version |-> 0, pdu |-> 0, body |-> "other"] : l \in {"damaged", "other"}}
  \cup {[log |-> "rrc", version |-> v, pdu |-> 0, body |-> "other"] : v \in {5, 19}}
  \cup {[log |-> "nas", version |-> 0, pdu |-> 0, body |-> b] : b \in MCBodies("NAS")}
  \cup UNION {{[log |-> "rrc", version |-> CHOOSE v \in h[1] : TRUE, pdu |-> h[2], body |-> b] :
                 b \in IF 2 \in h[1] THEN MCBodies(h[3])
                       ELSE MCBodies(h[3]) \cap {"undecodable", "connection request", "release",
                                                "SIB7 priority 0"}} : h \in MCHeaders}
=============================================================================
