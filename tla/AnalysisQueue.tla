---------------------------- MODULE AnalysisQueue ----------------------------
(***************************************************************************)
(* What the detector promises of re-analysis (daemon/src/analysis.rs): the *)
(* recordings asked for are analyzed one at a time, in the order asked     *)
(* for, and none is waiting or running twice.                              *)
(***************************************************************************)
EXTENDS Naturals, Sequences

CONSTANTS Recordings, Nobody

VARIABLES
  queued,   \* AnalysisStatus.queued
  running   \* AnalysisStatus.running

vars == <<queued, running>>

Init == queued = <<>> /\ running = Nobody

Waiting(r) == running = r \/ \E i \in DOMAIN queued : queued[i] = r

\* queue_qmdl, of a recording neither queued nor running
Enqueue(r) == /\ ~Waiting(r)
              /\ queued' = Append(queued, r)
              /\ UNCHANGED running

\* dequeue_to_running
Begin == /\ running = Nobody /\ queued # <<>>
         /\ running' = Head(queued)
         /\ queued' = Tail(queued)

\* finish_running_analysis
End == /\ running # Nobody
       /\ running' = Nobody
       /\ UNCHANGED queued

Next == Begin \/ End \/ \E r \in Recordings : Enqueue(r)

Spec == Init /\ [][Next]_vars

-----------------------------------------------------------------------------
\* No recording is queued twice, or queued while it is being analyzed: two
\* analyses never write the same .ndjson file, one after the other for nothing.
NameOnce ==
  /\ \A i, j \in DOMAIN queued : queued[i] = queued[j] => i = j
  /\ \A i \in DOMAIN queued : queued[i] # running

=============================================================================
