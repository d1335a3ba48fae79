---------------------------- MODULE ImsiRequested ----------------------------
(***************************************************************************)
(* The heuristic that keeps state across messages                          *)
(* (lib/src/analysis/imsi_requested.rs).  LogAnalysis runs it on messages, *)
(* with the other heuristics.                                              *)
(*                                                                         *)
(* A message is one of five kinds.  "connect": attach request, extended    *)
(* service request, RRC connection or re-establishment request.            *)
(* "identity": identity request.  "auth": authentication response, attach  *)
(* complete.  "disconnect": service, attach or tracking area update        *)
(* reject, detach of either side, RRC connection release.  "other": any    *)
(* other message that parses; one that does not reaches no heuristic.      *)
(***************************************************************************)
EXTENDS Naturals

CONSTANT Threshold  \* TIMEOUT_THRESHHOLD; the code: 50

ASSUME ThresholdAssumption == Threshold \in Nat \ {0, 1}

Kinds == {"connect", "identity", "auth", "disconnect", "other"}

VARIABLES
  state,           \* the analyzer's State
  timeoutCounter,
  event,           \* what the last message made it say, or "none"
  message,         \* the last message
  link,            \* history: the last "connect" or "disconnect", or "unknown"
  asked,           \* history: an identity request, nothing decisive since
  authed,          \* history: authenticated, nothing decisive since
  waited           \* history: messages since that request or the last notice

analyzer == <<state, timeoutCounter>>
history  == <<message, link, asked, authed, waited>>
vars     == <<analyzer, event, history>>

States == {"Unattached", "AttachRequest", "IdentityRequest", "AuthAccept", "Disconnect"}
Events == {"none", "not suspicious yet", "no auth", "suspicious"}

-----------------------------------------------------------------------------
\* The state a message leads to
Target(kind) == CASE kind = "connect"    -> "AttachRequest"
                  [] kind = "identity"   -> "IdentityRequest"
                  [] kind = "auth"       -> "AuthAccept"
                  [] kind = "disconnect" -> "Disconnect"
                  [] kind = "other"      -> state

\* The transitions that warn.  Not: any repeated request, too; not the
\* disconnection that ends the chain; not a request after authentication.
RepetitionSuspicious(from, to) ==
  <<from, to>> \in {<<"AuthAccept", "IdentityRequest">>, <<"Disconnect", "IdentityRequest">>,
                    <<"IdentityRequest", "Disconnect">>, <<"IdentityRequest", "IdentityRequest">>}
ChainForgotten(from, to) ==
  <<from, to>> \in {<<"AuthAccept", "IdentityRequest">>, <<"Disconnect", "IdentityRequest">>}
AuthForgotten(from, to) ==
  <<from, to>> \in {<<"Disconnect", "IdentityRequest">>, <<"IdentityRequest", "Disconnect">>}
Suspicious(from, to) ==
  <<from, to>> \in {<<"AuthAccept", "IdentityRequest">>, <<"Disconnect", "IdentityRequest">>,
                    <<"IdentityRequest", "Disconnect">>}

\* transition: what the step from one state to the next says ...
Says(from, to) == CASE Suspicious(from, to)    -> "suspicious"
                    [] ~Suspicious(from, to) /\ to = "IdentityRequest" -> "not suspicious yet"
                    [] OTHER                   -> "none"

\* ... and whether it restarts the counter
Restarts(from, to) ==
  \/ to = "AuthAccept"
  \/ to = "IdentityRequest" /\ ~Suspicious(from, to)

\* No answer to a request for Threshold messages.  Not: one message late.
TimesOutLate(to, count) == to = "IdentityRequest" /\ count > Threshold
TimesOut(to, count)     == to = "IdentityRequest" /\ count >= Threshold

Init ==
  /\ state = "Unattached" /\ timeoutCounter = 0
  /\ event = "none" /\ message = "other"
  /\ link = "unknown" /\ asked = FALSE /\ authed = FALSE /\ waited = 0

\* What happened, as the documentation would tell it
Record(kind) ==
  /\ message' = kind
  /\ link' = IF kind = "connect" THEN "up" ELSE IF kind = "disconnect" THEN "down" ELSE link
  /\ asked' = (kind = "identity" \/ (kind = "other" /\ asked))
  /\ authed' = (kind = "auth" \/ (kind = "other" /\ authed))
  /\ waited' = IF ~asked' \/ event' = "no auth" THEN 0
               ELSE IF kind = "identity" THEN 1 ELSE waited + 1

\* analyze_information_element: the transition, then the count of messages
\* without an answer, whose notice replaces whatever the transition said
Hear(kind) ==
  LET to    == Target(kind)
      moves == kind # "other"
      from0 == IF moves /\ Restarts(state, to) THEN 0 ELSE timeoutCounter
      count == IF to = "IdentityRequest" THEN from0 + 1 ELSE from0
      late  == TimesOut(to, count)
  IN /\ state' = to
     /\ timeoutCounter' = IF late THEN 0 ELSE count
     /\ event' = IF late THEN "no auth" ELSE IF moves THEN Says(state, to) ELSE "none"

Analyze(kind) == Hear(kind) /\ Record(kind)

\* AnalysisWriter::new: each recording, and each re-analysis, has new analyzers
NewRecording ==
  /\ state' = "Unattached" /\ timeoutCounter' = 0
  /\ event' = "none" /\ message' = "other"
  /\ link' = "unknown" /\ asked' = FALSE /\ authed' = FALSE /\ waited' = 0

Next == NewRecording \/ \E kind \in Kinds : Analyze(kind)

Spec == Init /\ [][Next]_vars

-----------------------------------------------------------------------------
\* The counter never reaches the threshold between two messages
TypeOK ==
  /\ state \in States /\ timeoutCounter \in 0..(Threshold - 1)
  /\ event \in Events /\ message \in Kinds
  /\ link \in {"unknown", "up", "down"}
  /\ asked \in BOOLEAN /\ authed \in BOOLEAN /\ waited \in Nat

\* doc/heuristics.md:19, the chain the heuristic is for: identity requested, no
\* authentication and no new connection since, then a disconnection: it warns
ChainDetected == [][asked /\ message' = "disconnect" => event' = "suspicious"]_vars

\* doc/heuristics.md:31: an identity request after authentication warns
RequestAfterAuthWarns == [][authed /\ message' = "identity" => event' = "suspicious"]_vars

\* No false alarm: a warning is one of the cases doc/heuristics.md:19-32 lists
WarningIsDocumented ==
  [][event' = "suspicious" =>
       \/ message' = "identity" /\ (authed \/ link = "down")
       \/ message' = "disconnect" /\ asked]_vars

\* What imsi_requested.rs:168-181 does about a request without an answer: as long
\* as neither an authentication, a connection nor a disconnection follows it,
\* fewer than Threshold messages pass before the Informational event "no auth",
\* and again before the next one, whatever had been counted when the request
\* came.  A connection after the request ends the wait without a notice, and the
\* notice is not a warning: it is less than the alert of doc/heuristics.md:30-33.
NoAuthIsNoticed == asked => waited < Threshold

\* doc/heuristics.md:32 promises an alert when "identity is requested without
\* your phone connecting to the tower": the first request after a disconnection
RequestAfterReleaseWarns ==
  [][link = "down" /\ ~asked /\ ~authed /\ message' = "identity"
       => event' = "suspicious"]_vars

-----------------------------------------------------------------------------
\* The inductive invariant: the history the properties speak of is what the
\* analyzer's state stands for, and its counter runs ahead of the waiting.
AnalyzerInv ==
  /\ TypeOK
  /\ asked <=> state = "IdentityRequest"
  /\ authed <=> state = "AuthAccept"
  /\ state = "Disconnect" => link = "down"
  /\ state = "AuthAccept" => timeoutCounter = 0
  /\ asked => waited <= timeoutCounter
=============================================================================
