------------------------------ MODULE ReportsPage ------------------------------
(***************************************************************************)
(* The device's web page beside the reports (daemon/web/src/lib/           *)
(* analysisManager.svelte.ts, ReAnalyzeButton.svelte): once a second it    *)
(* asks for the analysis status, and fetches the report of a recording     *)
(* that has become finished.  A re-analysis is asked for with its button,  *)
(* or by another client.                                                   *)
(***************************************************************************)
EXTENDS Reports

VARIABLES
  status,    \* AnalysisManager.status of the recording, or "none"
  shown,     \* AnalysisManager.reports of it: its cells, or why there are none
  button,    \* the re-analyze button: "up", or "down" while it waits for the answer
  reply,     \* the answer to GET /api/analysis under way, or NoReply
  fetching,  \* GET /api/analysis-report is under way
  unreached, \* history: the last request for the report failed on its way
  settled,   \* history: the page has asked, and has applied, since anything changed
  reanalyzed \* history: a re-analysis was asked for

page    == <<status, shown, button, reply, fetching>>
history == <<unreached, settled, reanalyzed>>
allVars == <<vars, page, history>>

NoReply == [taken |-> FALSE]
Nothing == <<>>
Failed  == <<Line(0, 1)>>  \* the message in its place: no report has this line

InitAll == /\ Init
           /\ status = "none" /\ shown = Nothing /\ button = "up" /\ reply = NoReply
           /\ fetching = FALSE /\ unreached = FALSE /\ settled = "no" /\ reanalyzed = FALSE

-----------------------------------------------------------------------------
\* The daemon goes on by itself
Daemon ==
  /\ Next
  /\ settled' = "no" /\ reanalyzed' = (reanalyzed \/ asks' < asks)
  /\ UNCHANGED <<page, unreached>>

\* handleClick: the request, and once it is answered set_queued_status.  There is
\* no button for the current recording, and none while it is being analyzed.
Click ==
  /\ button = "up" /\ status \notin {"Queued", "Running"} /\ rec \notin {"on", "dead"}
  /\ Ask
  /\ button' = "down" /\ settled' = "no" /\ reanalyzed' = TRUE
  /\ UNCHANGED <<status, shown, reply, fetching, unreached>>
Clicked ==
  /\ button = "down"
  /\ button' = "up" /\ status' = "Queued" /\ shown' = Nothing /\ settled' = "no"
  /\ UNCHANGED <<vars, reply, fetching, unreached, reanalyzed>>

\* update: ask for the status ...
AskStatus ==
  /\ reply = NoReply
  /\ reply' = [taken |-> TRUE, queued |-> queued, running |-> running, finished |-> finished]
  /\ settled' = IF settled = "no" THEN "asked" ELSE settled
  /\ UNCHANGED <<vars, status, shown, button, fetching, unreached, reanalyzed>>

\* ... and go through running, queued and finished, in this order.  A name may be
\* in two of them: nothing ever leaves finished.  Not: fetched each time.
StatusBefore(r) == IF r.queued THEN "Queued" ELSE IF r.running THEN "Running" ELSE status
ApplyNever ==
  /\ reply # NoReply /\ reply' = NoReply
  /\ status' = IF reply.finished THEN "Finished" ELSE StatusBefore(reply)
  /\ settled' = IF settled = "asked" THEN "applied" ELSE settled
  /\ UNCHANGED <<vars, button, unreached, reanalyzed, shown, fetching>>
Apply ==
  /\ reply # NoReply /\ reply' = NoReply
  /\ status' = IF reply.finished THEN "Finished" ELSE StatusBefore(reply)
  /\ IF reply.finished /\ StatusBefore(reply) # "Finished"
     THEN shown' = Nothing /\ fetching' = TRUE
     ELSE UNCHANGED <<shown, fetching>>
  /\ settled' = IF settled = "asked" THEN "applied" ELSE settled
  /\ UNCHANGED <<vars, button, unreached, reanalyzed>>

\* get_report: 404 without an entry; a line that is not JSON, or no line at all,
\* is an error.  Reading it takes the store's lock.
Readable == rec # "deleted" /\ report # <<>> /\ \A k \in DOMAIN report : report[k] # Hole
Answer   == IF Readable THEN report ELSE Failed
Fetch ==
  /\ fetching /\ ~owed /\ fetching' = FALSE
  /\ shown' = Answer /\ unreached' = FALSE
  /\ UNCHANGED <<vars, status, button, reply, settled, reanalyzed>>

\* The request does not get through: an error is kept in the report's place
FetchFails ==
  /\ fetching /\ fetching' = FALSE
  /\ shown' = Failed /\ unreached' = TRUE
  /\ UNCHANGED <<vars, status, button, reply, settled, reanalyzed>>

NextAll == Daemon \/ Click \/ Clicked \/ AskStatus \/ Apply \/ Fetch \/ FetchFails

SpecAll == InitAll /\ [][NextAll]_allVars

-----------------------------------------------------------------------------
\* Nothing happens any more and the page knows
AtRest == /\ settled = "applied" /\ ~fetching /\ button = "up" /\ reply = NoReply
          /\ rec = "stopped" /\ worker = "idle" /\ ~queued /\ ~notice

\* Once the page says finished, what it shows of a recording that was never
\* analyzed again is what the daemon answers now, not an earlier state of the
\* report: rows and all, or an error where the file cannot be read.  Only where
\* the request failed on its way the error stays, since the report of what is
\* finished already is not asked for again (analysisManager.svelte.ts:42-60).
FirstReportShown ==
  AtRest /\ status = "Finished" /\ ~reanalyzed => shown = IF unreached THEN Failed ELSE Answer

\* So is any: "analysis is finished, and the new report can be accessed"
\* (analysisManager.svelte.ts:11).
ReportShown == AtRest /\ status = "Finished" /\ ~cut /\ ~unreached => shown = report

=============================================================================
