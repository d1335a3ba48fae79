----------------------------- MODULE ReportsProofs -----------------------------
(***************************************************************************)
(* The report of a recording is whole whenever nobody is at it, and no     *)
(* line of it is ever overwritten by another: for any number of            *)
(* containers, re-analyses, restarts and failing calls.                    *)
(*                                                                         *)
(* That Whole holds between two analyses says nothing of what the worker   *)
(* does in between.  The invariant follows it: the cells before its        *)
(* offset are lines, those past what it saw of the recording are the live  *)
(* writer's, and every cell of a file somebody may still write is either   *)
(* its own line, of the present heuristics, or a gap.                      *)
(*                                                                         *)
(* Beside the page (ReportsPage) the daemon takes the same steps, so all   *)
(* of this holds there too; at the end the first report is followed from   *)
(* its file to the page.                                                   *)
(***************************************************************************)
EXTENDS ReportsPage, TLAPS

\* A container is half way only while recording, and the live writer is one line
\* per container further than the metadata
LiveInv == /\ owed => rec = "on"
           /\ rec = "on" => liveAt = IF owed THEN qmdl ELSE qmdl + 1
           /\ owed => qmdl > 0
           /\ Len(report) <= qmdl + 1

\* Writers of the same file write the same lines
Writing  == worker \in {"meta", "size", "rows"}
OwnLines == rec = "on" \/ Writing =>
              \A k \in 1..Len(report) : report[k] = Hole \/ report[k] = Line(version, k - 1)

\* Where the worker is
Behind == Writing =>
  /\ workAt <= Len(report)
  /\ \A k \in 1..workAt : report[k] = Line(version, k - 1)
Ahead == /\ worker = "size" => workAt = 1
         /\ worker = "meta" => workAt = 0
         /\ worker = "rows" =>
              /\ workAt > 0 /\ workAt <= workMax + 1 /\ workMax <= qmdl
              /\ ~cut => \A k \in (workMax + 2)..(IF owed THEN qmdl ELSE qmdl + 1) :
                   k <= Len(report) /\ report[k] = Line(version, k - 1)
              /\ owed /\ workMax < qmdl => Len(report) <= qmdl

\* And when it is not at work
Uniform == \E v \in 1..MaxVersions : \A k \in 1..Len(report) : report[k] = Line(v, k - 1)
Rest == ~Writing /\ ~cut => /\ Uniform
                            /\ Len(report) = qmdl + 1 \/ (owed /\ Len(report) = qmdl)

IInv == TypeOK /\ LiveInv /\ OwnLines /\ Behind /\ Ahead /\ Rest

-----------------------------------------------------------------------------
\* A line lands in its cell, the others stay, and the file has no more than a gap
\* in between.
LEMMA WriteAtFacts ==
  ASSUME NEW f \in Seq(Cells), NEW at \in 0..MaxRows, NEW v \in 1..MaxVersions
  PROVE  LET g == WriteAt(f, at, Line(v, at)) IN
         /\ g \in Seq(Cells)
         /\ Len(g) = (IF Len(f) > at THEN Len(f) ELSE at + 1)
         /\ g[at + 1] = Line(v, at)
         /\ \A k \in 1..Len(f) : k # at + 1 => g[k] = f[k]
         /\ \A k \in 1..Len(g) : k # at + 1 /\ k > Len(f) => g[k] = Hole
<1> USE ReportsAssumption
<1> DEFINE g == WriteAt(f, at, Line(v, at))
           n == IF Len(f) > at THEN Len(f) ELSE at + 1
<1>1. n \in Nat /\ Len(f) \in Nat /\ n >= at + 1 /\ n >= Len(f) OBVIOUS
<1>2. Line(v, at) \in Cells /\ Hole \in Cells BY DEF Line, Hole, Cells
<1>3. g = [k \in 1..n |-> IF k = at + 1 THEN Line(v, at) ELSE IF k <= Len(f) THEN f[k] ELSE Hole]
  BY DEF WriteAt
<1>4. \A k \in 1..n : (IF k = at + 1 THEN Line(v, at) ELSE IF k <= Len(f) THEN f[k] ELSE Hole) \in Cells
  BY <1>1, <1>2
<1>5. g \in [1..n -> Cells] BY <1>3, <1>4
<1>6. g \in Seq(Cells) /\ Len(g) = n BY <1>1, <1>5
<1> QED BY <1>1, <1>3, <1>6

\* The lines of two versions or of two cells, and gaps, are told apart by what
\* they are.
LEMMA LineFacts ==
  ASSUME NEW v \in 1..MaxVersions, NEW n \in Nat
  PROVE  Line(v, n) # Hole
BY ReportsAssumption DEF Line, Hole

-----------------------------------------------------------------------------
LEMMA InitIInv == Init => IInv
<1> SUFFICES ASSUME Init PROVE IInv OBVIOUS
<1> USE ReportsAssumption DEF Init
<1>1. Line(1, 0) \in Cells BY DEF Line, Cells
<1>2. report \in Seq(Cells) /\ Len(report) = 1 /\ report[1] = Line(1, 0) BY <1>1
<1>3. TypeOK
  <2>1. /\ owed \in BOOLEAN /\ notice \in BOOLEAN /\ queued \in BOOLEAN /\ running \in BOOLEAN
        /\ finished \in BOOLEAN /\ cut \in BOOLEAN
    OBVIOUS
  <2>2. /\ version \in 1..MaxVersions /\ qmdl \in 0..MaxRows /\ liveAt \in 1..(MaxRows + 1)
        /\ workAt \in 0..(MaxRows + 1) /\ workMax \in 0..MaxRows
        /\ asks \in 0..MaxAsks /\ faults \in 0..MaxFaults
    OBVIOUS
  <2> QED BY <2>1, <2>2, <1>2 DEF TypeOK
<1>4. LiveInv BY <1>2 DEF LiveInv
<1>5. OwnLines BY <1>2 DEF OwnLines
<1>6. Behind /\ Ahead BY DEF Behind, Ahead, Writing
<1>7. Rest BY <1>2 DEF Rest, Uniform
<1> QED BY <1>3, <1>4, <1>5, <1>6, <1>7 DEF IInv

-----------------------------------------------------------------------------
\* The diag thread's steps
LEMMA ContainerStep == IInv /\ Container => IInv'
<1> SUFFICES ASSUME IInv, Container PROVE IInv' OBVIOUS
<1> USE ReportsAssumption DEF IInv, Container, statusVars, workVars, bounds
<1>1. TypeOK' BY DEF TypeOK
<1>2. LiveInv' BY DEF LiveInv, TypeOK
<1>3. OwnLines' /\ Behind' BY DEF OwnLines, Behind, Writing
<1>4. Ahead'
  <2>1. /\ UNCHANGED <<version, report, worker, workAt, workMax, cut>>
        /\ qmdl' = qmdl + 1 /\ owed' = TRUE /\ ~owed /\ qmdl \in Nat /\ workMax \in Nat
        /\ Len(report) <= qmdl + 1
    BY DEF TypeOK, LiveInv
  <2>2. CASE worker = "rows"
    <3>1. /\ workAt > 0 /\ workAt <= workMax + 1 /\ workMax <= qmdl
          /\ ~cut => \A k \in (workMax + 2)..(qmdl + 1) :
               k <= Len(report) /\ report[k] = Line(version, k - 1)
      BY <2>1, <2>2 DEF Ahead
    <3> QED BY <2>1, <2>2, <3>1 DEF Ahead
  <2>3. CASE worker # "rows" BY <2>1, <2>3 DEF Ahead
  <2> QED BY <2>2, <2>3
<1>5. Rest' BY DEF Rest, Uniform, Writing, TypeOK
<1> QED BY <1>1, <1>2, <1>3, <1>4, <1>5

LEMMA LiveRowStep == IInv /\ LiveRow => IInv'
<1> SUFFICES ASSUME IInv, LiveRow PROVE IInv' OBVIOUS
<1> USE ReportsAssumption DEF IInv
<1>0. /\ owed /\ rec = "on" /\ liveAt = qmdl /\ qmdl \in 1..MaxRows /\ version \in 1..MaxVersions
      /\ report \in Seq(Cells) /\ Len(report) \in Nat /\ Len(report) <= qmdl + 1
      /\ workAt \in Nat /\ workMax \in Nat
  BY DEF LiveRow, LiveInv, TypeOK
<1>1. /\ report' = WriteAt(report, liveAt, Line(version, liveAt))
      /\ liveAt' = liveAt + 1 /\ owed' = FALSE
      /\ UNCHANGED <<rec, version, qmdl, notice, queued, running, finished, worker, workAt,
                     workMax, asks, faults, cut>>
  BY DEF LiveRow, statusVars, workVars, bounds
<1>2. liveAt \in 0..MaxRows BY <1>0
<1>3. /\ report' \in Seq(Cells)
      /\ Len(report') = (IF Len(report) > liveAt THEN Len(report) ELSE liveAt + 1)
      /\ report'[liveAt + 1] = Line(version, liveAt)
      /\ \A k \in 1..Len(report) : k # liveAt + 1 => report'[k] = report[k]
      /\ \A k \in 1..Len(report') : k # liveAt + 1 /\ k > Len(report) => report'[k] = Hole
  <2>1. report \in Seq(Cells) /\ version \in 1..MaxVersions BY <1>0
  <2>2. report' = WriteAt(report, liveAt, Line(version, liveAt)) BY <1>1
  <2> HIDE DEF IInv
  <2> QED BY <2>1, <2>2, <1>2, WriteAtFacts
<1>4. Len(report') = qmdl + 1 BY <1>0, <1>3
<1>5. TypeOK'
  <2>1. liveAt' \in 1..(MaxRows + 1) BY <1>0, <1>1
  <2>2. owed' \in BOOLEAN BY <1>1
  <2> QED BY <2>1, <2>2, <1>1, <1>3 DEF TypeOK
<1>6. LiveInv' BY <1>0, <1>1, <1>4 DEF LiveInv
<1>7. \A k \in 1..Len(report') : report'[k] = Hole \/ report'[k] = Line(version, k - 1)
  <2> TAKE k \in 1..Len(report')
  <2>1. CASE k = liveAt + 1 BY <2>1, <1>0, <1>3
  <2>2. CASE k # liveAt + 1 /\ k > Len(report) BY <2>2, <1>3
  <2>3. CASE k # liveAt + 1 /\ k <= Len(report)
    BY <2>3, <1>0, <1>3 DEF OwnLines
  <2> QED BY <2>1, <2>2, <2>3, <1>0, <1>4
<1>8. OwnLines' BY <1>7, <1>1 DEF OwnLines
<1>9. Behind'
  <2> SUFFICES ASSUME Writing' PROVE workAt' <= Len(report') /\
                        \A k \in 1..workAt' : report'[k] = Line(version', k - 1)
    BY DEF Behind
  <2>1. Writing BY <1>1 DEF Writing
  <2>2. workAt <= Len(report) /\ \A k \in 1..workAt : report[k] = Line(version, k - 1)
    BY <2>1 DEF Behind
  <2> QED BY <2>2, <1>0, <1>1, <1>3, <1>4
<1>10. Ahead'
  <2>1. CASE worker = "rows"
    <3>1. /\ workAt > 0 /\ workAt <= workMax + 1 /\ workMax <= qmdl
          /\ ~cut => \A k \in (workMax + 2)..qmdl :
               k <= Len(report) /\ report[k] = Line(version, k - 1)
      BY <2>1, <1>0 DEF Ahead
    <3>2. ASSUME ~cut, NEW k \in (workMax + 2)..(qmdl + 1)
          PROVE  k <= Len(report') /\ report'[k] = Line(version, k - 1)
      <4>1. CASE k = qmdl + 1 BY <4>1, <1>0, <1>3, <1>4
      <4>2. CASE k # qmdl + 1 BY <4>2, <3>1, <3>2, <1>0, <1>3, <1>4
      <4> QED BY <4>1, <4>2
    <3> QED BY <2>1, <3>1, <3>2, <1>1 DEF Ahead
  <2>2. CASE worker # "rows" BY <2>2, <1>1 DEF Ahead
  <2> QED BY <2>1, <2>2
<1>11. Rest'
  <2> SUFFICES ASSUME ~Writing', ~cut' PROVE Uniform' /\ Len(report') = qmdl' + 1
    BY DEF Rest
  <2>1. Uniform /\ (Len(report) = qmdl + 1 \/ Len(report) = qmdl) BY <1>1 DEF Rest, Writing
  <2>2. \A k \in 1..Len(report) : report[k] = Line(version, k - 1)
    BY <2>1, <1>0, LineFacts DEF OwnLines, Uniform
  <2>3. \A k \in 1..Len(report') : report'[k] = Line(version, k - 1)
    BY <2>1, <2>2, <1>0, <1>3, <1>4
  <2> QED BY <2>3, <1>0, <1>1, <1>4 DEF Uniform
<1> QED BY <1>5, <1>6, <1>8, <1>9, <1>10, <1>11

\* The recording ends, in one way or another
LEMMA EndedStep == IInv /\ (Stop \/ StartAnother \/ Delete) => IInv'
<1> SUFFICES ASSUME IInv, Stop \/ StartAnother \/ Delete PROVE IInv' OBVIOUS
<1> USE DEF IInv
<1>1. /\ UNCHANGED <<version, qmdl, report, liveAt, owed, queued, running, finished, worker,
                     workAt, workMax, asks, faults, cut>>
      /\ ~owed /\ rec' \in {"stopped", "deleted"}
      /\ notice' \in BOOLEAN
  BY DEF Stop, StartAnother, Delete, fileVars, statusVars, workVars, bounds, TypeOK
<1>2. TypeOK' BY <1>1 DEF TypeOK
<1>3. LiveInv' BY <1>1 DEF LiveInv
<1>4. OwnLines' BY <1>1 DEF OwnLines, Writing
<1>5. Behind' /\ Ahead' BY <1>1 DEF Behind, Ahead, Writing
<1>6. Rest' BY <1>1 DEF Rest, Writing, Uniform
<1> QED BY <1>2, <1>3, <1>4, <1>5, <1>6

-----------------------------------------------------------------------------
\* What leaves the file and both writers alone
LEMMA StatusStep == IInv /\ (Ask \/ Notice \/ Take) => IInv'
<1> SUFFICES ASSUME IInv, Ask \/ Notice \/ Take PROVE IInv' OBVIOUS
<1> USE DEF IInv
<1>1. /\ UNCHANGED <<rec, version, qmdl, report, liveAt, owed, workAt, workMax, faults, cut>>
      /\ worker' = worker \/ (~Writing /\ ~Writing' /\ worker' = "open")
      /\ notice' \in BOOLEAN /\ queued' \in BOOLEAN /\ running' \in BOOLEAN
      /\ finished' \in BOOLEAN /\ asks' \in 0..MaxAsks
  <2>1. CASE Ask
    <3>1. asks' \in 0..MaxAsks BY <2>1, ReportsAssumption DEF Ask, CanAsk, TypeOK
    <3>2. /\ UNCHANGED <<rec, version, qmdl, report, liveAt, owed, workAt, workMax, faults, cut,
                         worker, notice, running, finished>>
          /\ queued' = TRUE
      BY <2>1 DEF Ask, fileVars, workVars
    <3> QED BY <3>1, <3>2 DEF TypeOK
  <2>2. CASE Notice BY <2>2 DEF Notice, fileVars, workVars, bounds, TypeOK
  <2>3. CASE Take BY <2>3 DEF Take, fileVars, bounds, TypeOK, Writing
  <2> QED BY <2>1, <2>2, <2>3
<1>2. TypeOK' BY <1>1 DEF TypeOK
<1>3. LiveInv' BY <1>1 DEF LiveInv
<1>4. OwnLines' BY <1>1 DEF OwnLines, Writing
<1>5. Behind' /\ Ahead' BY <1>1 DEF Behind, Ahead, Writing
<1>6. Rest' BY <1>1 DEF Rest, Writing, Uniform
<1> QED BY <1>2, <1>3, <1>4, <1>5, <1>6

LEMMA OpenStep == IInv /\ Open => IInv'
<1> SUFFICES ASSUME IInv, Open PROVE IInv' OBVIOUS
<1> USE ReportsAssumption DEF IInv
<1>1. /\ UNCHANGED <<rec, version, qmdl, liveAt, owed, notice, queued, workMax, asks, faults, cut>>
      /\ ~owed /\ worker = "open"
  BY DEF Open, bounds
<1>2. CASE rec = "deleted"
  <2>1. /\ UNCHANGED <<report, workAt>> /\ worker' = "idle"
        /\ running' = FALSE /\ finished' = TRUE
    BY <1>2 DEF Open, Finish
  <2>2. TypeOK' BY <1>1, <2>1 DEF TypeOK
  <2>3. LiveInv' /\ OwnLines' /\ Behind' /\ Ahead'
    BY <1>1, <1>2, <2>1 DEF LiveInv, OwnLines, Behind, Ahead, Writing
  <2>4. Rest' BY <1>1, <2>1 DEF Rest, Writing, Uniform
  <2> QED BY <2>2, <2>3, <2>4
<1>3. CASE rec # "deleted"
  <2>1. worker' = "meta" /\ report' = <<>> /\ workAt' = 0 /\ UNCHANGED <<running, finished>>
    BY <1>3 DEF Open
  <2>2. Len(report') = 0 /\ report' \in Seq(Cells) BY <2>1
  <2>3. TypeOK' BY <1>1, <2>1, <2>2 DEF TypeOK
  <2>4. LiveInv' BY <1>1, <2>2 DEF LiveInv, TypeOK
  <2>5. OwnLines' /\ Behind' /\ Ahead' BY <2>1, <2>2 DEF OwnLines, Behind, Ahead
  <2>6. Rest' BY <2>1 DEF Rest, Writing
  <2> QED BY <2>3, <2>4, <2>5, <2>6
<1> QED BY <1>2, <1>3

\* The worker writes the line at its offset: the cells before it are lines, what
\* the live writer has put further on stays.
LEMMA WorkerWrites ==
  ASSUME IInv, Writing, WriteLine, workAt \in 0..qmdl, workAt <= MaxRows,
         UNCHANGED <<version, qmdl, owed, workMax>>
  PROVE  /\ report' \in Seq(Cells) /\ Len(report') \in Nat /\ Len(report') <= qmdl + 1
         /\ workAt' = workAt + 1 /\ workAt' <= Len(report')
         /\ Len(report) <= Len(report')
         /\ Len(report') = Len(report) \/ Len(report') = workAt'
         /\ \A k \in 1..Len(report) : report[k] # Hole => report'[k] = report[k]
         /\ \A k \in 1..Len(report') : report'[k] = Hole \/ report'[k] = Line(version, k - 1)
         /\ \A k \in 1..workAt' : report'[k] = Line(version, k - 1)
<1> USE ReportsAssumption DEF IInv
<1>0. /\ version \in 1..MaxVersions /\ report \in Seq(Cells) /\ Len(report) \in Nat
      /\ Len(report) <= qmdl + 1 /\ workAt \in 0..MaxRows /\ qmdl \in 0..MaxRows
  BY DEF TypeOK, LiveInv
<1>1. report' = WriteAt(report, workAt, Line(version, workAt)) /\ workAt' = workAt + 1
  BY DEF WriteLine
<1>2. /\ report' \in Seq(Cells)
      /\ Len(report') = (IF Len(report) > workAt THEN Len(report) ELSE workAt + 1)
      /\ report'[workAt + 1] = Line(version, workAt)
      /\ \A k \in 1..Len(report) : k # workAt + 1 => report'[k] = report[k]
      /\ \A k \in 1..Len(report') : k # workAt + 1 /\ k > Len(report) => report'[k] = Hole
  BY <1>0, <1>1, WriteAtFacts
<1>3. /\ Len(report') \in Nat /\ Len(report') <= qmdl + 1 /\ workAt' <= Len(report')
      /\ Len(report) <= Len(report')
      /\ Len(report') = Len(report) \/ Len(report') = workAt'
  BY <1>0, <1>1, <1>2
<1>4. \A k \in 1..Len(report) : report[k] = Hole \/ report[k] = Line(version, k - 1)
  BY DEF OwnLines
<1>5. ASSUME NEW k \in 1..Len(report), report[k] # Hole PROVE report'[k] = report[k]
  <2>1. report[k] = Line(version, k - 1) BY <1>4, <1>5
  <2>2. CASE k = workAt + 1 BY <2>1, <2>2, <1>0, <1>2
  <2> QED BY <2>2, <1>2
<1>6. \A k \in 1..Len(report') : report'[k] = Hole \/ report'[k] = Line(version, k - 1)
  <2> TAKE k \in 1..Len(report')
  <2>1. CASE k = workAt + 1 BY <2>1, <1>0, <1>2
  <2>2. CASE k # workAt + 1 /\ k > Len(report) BY <2>2, <1>2
  <2>3. CASE k # workAt + 1 /\ k <= Len(report) BY <2>3, <1>0, <1>2, <1>4
  <2> QED BY <2>1, <2>2, <2>3, <1>0, <1>3
<1>7. workAt <= Len(report) /\ \A k \in 1..workAt : report[k] = Line(version, k - 1)
  BY DEF Behind
<1>8. ASSUME NEW k \in 1..workAt' PROVE report'[k] = Line(version, k - 1)
  <2>1. CASE k = workAt + 1 BY <2>1, <1>0, <1>2
  <2>2. CASE k # workAt + 1 BY <2>2, <1>0, <1>1, <1>2, <1>7
  <2> QED BY <2>1, <2>2
<1> QED BY <1>1, <1>2, <1>3, <1>5, <1>6, <1>8

LEMMA MetaStep == IInv /\ Meta => IInv'
<1> SUFFICES ASSUME IInv, Meta PROVE IInv' OBVIOUS
<1> USE ReportsAssumption DEF IInv
<1>1. /\ worker = "meta" /\ worker' = "size" /\ WriteLine /\ Writing /\ workAt = 0
      /\ UNCHANGED <<rec, version, qmdl, liveAt, owed, notice, queued, running, finished, workMax,
                     asks, faults, cut>>
      /\ qmdl \in 0..MaxRows
  BY DEF Meta, Writing, Ahead, statusVars, bounds, TypeOK
<1>2. /\ report' \in Seq(Cells) /\ Len(report') \in Nat /\ Len(report') <= qmdl + 1
      /\ workAt' = 1 /\ workAt' <= Len(report')
      /\ \A k \in 1..Len(report') : report'[k] = Hole \/ report'[k] = Line(version, k - 1)
      /\ \A k \in 1..workAt' : report'[k] = Line(version, k - 1)
  BY <1>1, WorkerWrites
<1>3. TypeOK' BY <1>1, <1>2 DEF TypeOK
<1>4. LiveInv' BY <1>1, <1>2 DEF LiveInv
<1>5. OwnLines' /\ Behind' BY <1>1, <1>2 DEF OwnLines, Behind
<1>6. Ahead' BY <1>1, <1>2 DEF Ahead
<1>7. Rest' BY <1>1 DEF Rest, Writing
<1> QED BY <1>3, <1>4, <1>5, <1>6, <1>7

LEMMA SizeStep == IInv /\ Size => IInv'
<1> SUFFICES ASSUME IInv, Size PROVE IInv' OBVIOUS
<1> USE ReportsAssumption DEF IInv
<1>1. /\ worker = "size" /\ worker' = "rows" /\ workMax' = qmdl /\ workAt = 1 /\ Writing
      /\ UNCHANGED <<rec, version, qmdl, report, liveAt, owed, notice, queued, running, finished,
                     workAt, asks, faults>>
      /\ cut' = FALSE /\ qmdl \in 0..MaxRows
  BY DEF Size, Writing, Ahead, fileVars, statusVars, bounds, TypeOK
<1>2. TypeOK' /\ LiveInv' BY <1>1 DEF TypeOK, LiveInv
<1>3. OwnLines' /\ Behind' BY <1>1 DEF OwnLines, Behind, Writing
<1>4. Ahead' BY <1>1 DEF Ahead
<1>5. Rest' BY <1>1 DEF Rest, Writing
<1> QED BY <1>2, <1>3, <1>4, <1>5

LEMMA RowStep == IInv /\ Row => IInv'
<1> SUFFICES ASSUME IInv, Row PROVE IInv' OBVIOUS
<1> USE ReportsAssumption DEF IInv
<1>1. /\ worker = "rows" /\ WriteLine /\ Writing
      /\ UNCHANGED <<rec, version, qmdl, liveAt, owed, notice, queued, running, finished, worker,
                     workMax, asks, faults, cut>>
      /\ qmdl \in 0..MaxRows /\ workAt \in 1..workMax /\ workMax <= qmdl /\ workMax \in Nat
      /\ owed \in BOOLEAN
  BY DEF Row, Writing, Ahead, statusVars, bounds, TypeOK
<1>2. /\ report' \in Seq(Cells) /\ Len(report') \in Nat /\ Len(report') <= qmdl + 1
      /\ workAt' = workAt + 1 /\ workAt' <= Len(report') /\ Len(report) <= Len(report')
      /\ Len(report') = Len(report) \/ Len(report') = workAt'
      /\ \A k \in 1..Len(report) : report[k] # Hole => report'[k] = report[k]
      /\ \A k \in 1..Len(report') : report'[k] = Hole \/ report'[k] = Line(version, k - 1)
      /\ \A k \in 1..workAt' : report'[k] = Line(version, k - 1)
  <2>1. workAt \in 0..qmdl /\ workAt <= MaxRows BY <1>1
  <2> HIDE DEF IInv
  <2> QED BY <1>1, <2>1, WorkerWrites
<1>3. TypeOK' BY <1>1, <1>2 DEF TypeOK
<1>4. LiveInv' BY <1>1, <1>2 DEF LiveInv
<1>5. OwnLines' /\ Behind' BY <1>1, <1>2 DEF OwnLines, Behind
<1>6. ASSUME ~cut, NEW k \in (workMax + 2)..(IF owed THEN qmdl ELSE qmdl + 1)
      PROVE  k <= Len(report') /\ report'[k] = Line(version, k - 1)
  <2>1. k <= Len(report) /\ report[k] = Line(version, k - 1) BY <1>1, <1>6 DEF Ahead
  <2>2. version \in 1..MaxVersions /\ Len(report) \in Nat /\ k - 1 \in Nat /\ k \in 1..Len(report)
    BY <1>1, <2>1 DEF TypeOK
  <2>3. report[k] # Hole BY <2>1, <2>2, LineFacts
  <2> QED BY <2>1, <2>2, <2>3, <1>2
<1>7. owed /\ workMax < qmdl => Len(report') <= qmdl BY <1>1, <1>2 DEF Ahead
<1>8. Ahead'
  <2>1. workAt' > 0 /\ workAt' <= workMax + 1 BY <1>1, <1>2
  <2> QED BY <2>1, <1>1, <1>6, <1>7 DEF Ahead
<1>9. Rest' BY <1>1 DEF Rest, Writing
<1> QED BY <1>3, <1>4, <1>5, <1>8, <1>9

\* The analysis is over: what it wrote and what the live writer has written since
\* make the whole report.
LEMMA EndStep == IInv /\ End => IInv'
<1> SUFFICES ASSUME IInv, End PROVE IInv' OBVIOUS
<1> USE ReportsAssumption DEF IInv
<1>1. /\ worker = "rows" /\ worker' = "idle" /\ Writing /\ ~Writing'
      /\ UNCHANGED <<rec, version, qmdl, report, liveAt, owed, notice, queued, workAt, workMax,
                     asks, faults, cut>>
      /\ running' = FALSE /\ finished' = TRUE
      /\ qmdl \in 0..MaxRows /\ workMax <= qmdl /\ workMax \in Nat /\ workAt = workMax + 1
      /\ version \in 1..MaxVersions /\ Len(report) \in Nat /\ Len(report) <= qmdl + 1
      /\ owed \in BOOLEAN /\ (owed /\ workMax < qmdl => Len(report) <= qmdl)
  BY DEF End, Finish, Writing, Ahead, fileVars, bounds, TypeOK, LiveInv
<1>2. TypeOK' BY <1>1 DEF TypeOK
<1>3. LiveInv' BY <1>1 DEF LiveInv
<1>4. OwnLines' BY <1>1 DEF OwnLines
<1>5. Behind' /\ Ahead' BY <1>1 DEF Behind, Ahead
<1>6. workMax + 1 <= Len(report) /\ \A k \in 1..(workMax + 1) : report[k] = Line(version, k - 1)
  BY <1>1 DEF Behind
<1>7. SUFFICES ASSUME ~cut PROVE Rest'
  BY <1>1, <1>2, <1>3, <1>4, <1>5 DEF Rest
<1>8. \A k \in (workMax + 2)..(IF owed THEN qmdl ELSE qmdl + 1) :
         k <= Len(report) /\ report[k] = Line(version, k - 1)
  BY <1>1, <1>7 DEF Ahead
<1>9. Len(report) = qmdl + 1 \/ (owed /\ Len(report) = qmdl)
  <2>1. CASE owed
    <3>1. CASE workMax + 2 <= qmdl
      <4>1. qmdl <= Len(report) BY <2>1, <3>1, <1>1, <1>8
      <4> QED BY <2>1, <4>1, <1>1
    <3>2. CASE ~(workMax + 2 <= qmdl) BY <2>1, <3>2, <1>1, <1>6
    <3> QED BY <3>1, <3>2
  <2>2. CASE ~owed
    <3>1. CASE workMax + 2 <= qmdl + 1 BY <2>2, <3>1, <1>1, <1>8
    <3>2. CASE ~(workMax + 2 <= qmdl + 1) BY <2>2, <3>2, <1>1, <1>6
    <3> QED BY <3>1, <3>2
  <2> QED BY <2>1, <2>2
<1>10. ASSUME NEW k \in 1..Len(report) PROVE report[k] = Line(version, k - 1)
  <2>1. CASE k <= workMax + 1 BY <2>1, <1>1, <1>6
  <2>2. CASE k > workMax + 1
    <3>1. CASE k = qmdl + 1 /\ owed  \* the row the diag thread owes is not there
      BY <3>1, <2>2, <1>1
    <3>2. CASE ~(k = qmdl + 1 /\ owed) BY <3>2, <2>2, <1>1, <1>8
    <3> QED BY <3>1, <3>2
  <2> QED BY <2>1, <2>2, <1>1
<1> QED BY <1>1, <1>9, <1>10 DEF Rest, Uniform

-----------------------------------------------------------------------------
\* Faults.  A part of a line is a hole past the end of the file, if anything.
LEMMA FailAtFacts ==
  ASSUME NEW f \in Seq(Cells), NEW at \in 0..MaxRows
  PROVE  LET g == WriteAt(f, at, Hole) IN
         ~(at < Len(f)) => /\ g \in Seq(Cells) /\ Len(g) = at + 1
                           /\ \A k \in 1..Len(f) : g[k] = f[k]
                           /\ \A k \in 1..Len(g) : k > Len(f) => g[k] = Hole
<1> USE ReportsAssumption
<1> DEFINE g == WriteAt(f, at, Hole)
           n == IF Len(f) > at THEN Len(f) ELSE at + 1
<1> SUFFICES ASSUME ~(at < Len(f))
             PROVE  /\ g \in Seq(Cells) /\ Len(g) = at + 1
                    /\ \A k \in 1..Len(f) : g[k] = f[k]
                    /\ \A k \in 1..Len(g) : k > Len(f) => g[k] = Hole
  OBVIOUS
<1>1. n = at + 1 /\ n \in Nat /\ Len(f) \in Nat /\ Len(f) < n OBVIOUS
<1>2. Hole \in Cells BY DEF Hole, Cells
<1>3. g = [k \in 1..n |-> IF k = at + 1 THEN Hole ELSE IF k <= Len(f) THEN f[k] ELSE Hole]
  BY DEF WriteAt
<1>4. \A k \in 1..n : (IF k = at + 1 THEN Hole ELSE IF k <= Len(f) THEN f[k] ELSE Hole) \in Cells
  BY <1>1, <1>2
<1>5. g \in [1..n -> Cells] BY <1>3, <1>4
<1>6. g \in Seq(Cells) /\ Len(g) = n BY <1>1, <1>5
<1> QED BY <1>1, <1>3, <1>6

LEMMA Failing ==
  ASSUME IInv, NEW at \in 0..MaxRows, at <= qmdl, FailAt(at)
  PROVE  /\ report' \in Seq(Cells) /\ Len(report') \in Nat
         /\ Len(report) <= Len(report') /\ Len(report') <= qmdl + 1
         /\ \A k \in 1..Len(report) : report'[k] = report[k]
         /\ \A k \in 1..Len(report') : k > Len(report) => report'[k] = Hole
<1>1. /\ report \in Seq(Cells) /\ Len(report) \in Nat /\ Len(report) <= qmdl + 1
      /\ qmdl \in Nat /\ at \in Nat
  BY ReportsAssumption DEF IInv, TypeOK, LiveInv
<1>2. CASE report' = report BY <1>1, <1>2
<1>3. CASE ~(at < Len(report)) /\ report' = WriteAt(report, at, Hole)
  <2>1. /\ report' \in Seq(Cells) /\ Len(report') = at + 1
        /\ \A k \in 1..Len(report) : report'[k] = report[k]
        /\ \A k \in 1..Len(report') : k > Len(report) => report'[k] = Hole
    BY <1>1, <1>3, FailAtFacts
  <2> QED BY <1>1, <1>3, <2>1
<1> QED BY <1>2, <1>3 DEF FailAt

LEMMA DiagFailsStep == IInv /\ DiagFails => IInv'
<1> SUFFICES ASSUME IInv, DiagFails PROVE IInv' OBVIOUS
<1> USE ReportsAssumption DEF IInv
<1>1. /\ rec' = "dead" /\ owed' = FALSE /\ faults' \in 0..MaxFaults
      /\ UNCHANGED <<version, qmdl, liveAt, notice, queued, running, finished, worker, workAt,
                     workMax, asks>>
      /\ cut' \in BOOLEAN /\ (~cut' => ~owed /\ ~cut)
      /\ rec = "on" /\ qmdl \in Nat
  <2>1. rec = "on" /\ faults' \in 0..MaxFaults /\ qmdl \in Nat
    BY DEF DiagFails, TypeOK
  <2>2. cut' \in BOOLEAN /\ (~cut' => ~owed /\ ~cut)
    <3>1. CASE owed BY <3>1 DEF DiagFails
    <3>2. CASE ~owed BY <3>2 DEF DiagFails, TypeOK
    <3> QED BY <3>1, <3>2
  <2> QED BY <2>1, <2>2 DEF DiagFails, statusVars, workVars
<1>2. /\ report' \in Seq(Cells) /\ Len(report') \in Nat
      /\ Len(report) <= Len(report') /\ Len(report') <= qmdl + 1
      /\ \A k \in 1..Len(report) : report'[k] = report[k]
      /\ \A k \in 1..Len(report') : k > Len(report) => report'[k] = Hole
  <2>1. CASE owed
    <3>1. liveAt \in 0..MaxRows /\ liveAt <= qmdl /\ FailAt(liveAt)
      BY <1>1, <2>1 DEF DiagFails, LiveInv, TypeOK
    <3> HIDE DEF IInv
    <3> QED BY <3>1, Failing
  <2>2. CASE ~owed BY <2>2 DEF DiagFails, TypeOK, LiveInv
  <2> QED BY <2>1, <2>2
<1>3. ~cut' => UNCHANGED report BY <1>1 DEF DiagFails
<1>4. TypeOK' BY <1>1, <1>2 DEF TypeOK
<1>5. LiveInv' BY <1>1, <1>2 DEF LiveInv
<1>6. OwnLines' BY <1>1, <1>2 DEF OwnLines, TypeOK
<1>7. Behind'
  <2>1. CASE Writing
    <3>1. /\ workAt <= Len(report) /\ \A k \in 1..workAt : report[k] = Line(version, k - 1)
          /\ workAt \in Nat /\ Len(report) \in Nat
      BY <2>1 DEF Behind, TypeOK
    <3> QED BY <3>1, <1>1, <1>2 DEF Behind
  <2>2. CASE ~Writing BY <2>2, <1>1 DEF Behind, Writing
  <2> QED BY <2>1, <2>2
<1>8. Ahead' BY <1>1, <1>3 DEF Ahead
<1>9. Rest' BY <1>1, <1>3 DEF Rest, Writing, Uniform
<1> QED BY <1>4, <1>5, <1>6, <1>7, <1>8, <1>9

LEMMA OpenFailsStep == IInv /\ OpenFails => IInv'
<1> SUFFICES ASSUME IInv, OpenFails PROVE IInv' OBVIOUS
<1> USE ReportsAssumption DEF IInv
<1>1. /\ worker = "open" /\ worker' = "idle" /\ running' = FALSE /\ finished' = TRUE
      /\ UNCHANGED <<rec, version, qmdl, liveAt, owed, notice, queued, workAt, workMax, asks>>
      /\ faults' \in 0..MaxFaults /\ ~owed /\ qmdl \in Nat
      /\ UNCHANGED <<report, cut>> \/ (report' = <<>> /\ cut' = TRUE)
  BY DEF OpenFails, Finish, TypeOK
<1>2. CASE UNCHANGED <<report, cut>>
  <2>1. TypeOK' BY <1>1, <1>2 DEF TypeOK
  <2>2. LiveInv' /\ OwnLines' /\ Behind' /\ Ahead'
    BY <1>1, <1>2 DEF LiveInv, OwnLines, Behind, Ahead, Writing
  <2>3. Rest' BY <1>1, <1>2 DEF Rest, Writing, Uniform
  <2> QED BY <2>1, <2>2, <2>3
<1>3. CASE report' = <<>> /\ cut' = TRUE
  <2>1. report' \in Seq(Cells) /\ Len(report') = 0 BY <1>3
  <2>2. TypeOK' BY <1>1, <1>3, <2>1 DEF TypeOK
  <2>3. LiveInv' BY <1>1, <2>1 DEF LiveInv
  <2>4. OwnLines' BY <2>1 DEF OwnLines
  <2>5. Behind' /\ Ahead' /\ Rest' BY <1>1, <1>3 DEF Behind, Ahead, Rest, Writing
  <2> QED BY <2>2, <2>3, <2>4, <2>5
<1> QED BY <1>1, <1>2, <1>3

LEMMA WorkerFailsStep == IInv /\ (WriteFails \/ ReadFails) => IInv'
<1> SUFFICES ASSUME IInv, WriteFails \/ ReadFails PROVE IInv' OBVIOUS
<1> USE ReportsAssumption DEF IInv
<1>1. /\ worker' \in {"idle", "dead"} /\ running' \in BOOLEAN /\ finished' \in BOOLEAN
      /\ UNCHANGED <<rec, version, qmdl, liveAt, owed, notice, queued, workAt, workMax, asks>>
      /\ faults' \in 0..MaxFaults /\ cut' = TRUE /\ Writing /\ ~Writing'
      /\ qmdl \in 0..MaxRows
  <2>1. faults' \in 0..MaxFaults /\ qmdl \in 0..MaxRows
    BY DEF WriteFails, ReadFails, TypeOK
  <2>2. CASE WriteFails BY <2>1, <2>2 DEF WriteFails, Finish, Writing
  <2>3. CASE ReadFails BY <2>1, <2>3 DEF ReadFails, TypeOK, Writing, fileVars, statusVars
  <2> QED BY <2>2, <2>3
<1>2. /\ report' \in Seq(Cells) /\ Len(report') \in Nat /\ Len(report') <= qmdl + 1
      /\ \A k \in 1..Len(report) : report'[k] = report[k]
      /\ \A k \in 1..Len(report') : k > Len(report) => report'[k] = Hole
  <2>1. CASE WriteFails
    <3>1. workAt \in 0..MaxRows /\ workAt <= qmdl /\ FailAt(workAt)
      BY <2>1, <1>1 DEF WriteFails, Ahead, TypeOK
    <3> HIDE DEF IInv
    <3> QED BY <3>1, <1>1, Failing
  <2>2. CASE ReadFails BY <2>2, <1>1 DEF ReadFails, fileVars, TypeOK, LiveInv
  <2> QED BY <2>1, <2>2
<1>3. TypeOK' BY <1>1, <1>2 DEF TypeOK
<1>4. LiveInv' BY <1>1, <1>2 DEF LiveInv
<1>5. OwnLines' BY <1>1, <1>2 DEF OwnLines, TypeOK
<1>6. Behind' /\ Ahead' /\ Rest' BY <1>1 DEF Behind, Ahead, Rest, Writing
<1> QED BY <1>3, <1>4, <1>5, <1>6

LEMMA RestartStep == IInv /\ Restart => IInv'
<1> SUFFICES ASSUME IInv, Restart PROVE IInv' OBVIOUS
<1> USE ReportsAssumption DEF IInv
<1>1. /\ worker' = "idle" /\ owed' = FALSE /\ rec' \in {"stopped", "deleted"}
      /\ UNCHANGED <<qmdl, report, liveAt, workAt, workMax, asks>>
      /\ version' \in 1..MaxVersions /\ faults' \in 0..MaxFaults
      /\ notice' = FALSE /\ queued' = FALSE /\ running' = FALSE
  BY DEF Restart, RestartWith, TypeOK
<1>2. finished' \in BOOLEAN BY DEF Restart, RestartWith
<1>3. cut' \in BOOLEAN /\ (~cut' => ~cut /\ ~owed /\ ~Writing)
  BY DEF Restart, RestartWith, TypeOK, Writing
<1>4. TypeOK' BY <1>1, <1>2, <1>3 DEF TypeOK
<1>5. LiveInv' BY <1>1 DEF LiveInv
<1>6. OwnLines' /\ Behind' /\ Ahead' BY <1>1 DEF OwnLines, Behind, Ahead, Writing
<1>7. Rest' BY <1>1, <1>3 DEF Rest, Uniform
<1> QED BY <1>4, <1>5, <1>6, <1>7

LEMMA NextIInv == IInv /\ [Next]_vars => IInv'
<1> SUFFICES ASSUME IInv, [Next]_vars PROVE IInv' OBVIOUS
<1>1. CASE UNCHANGED vars
  BY <1>1 DEF vars, fileVars, statusVars, workVars, bounds, IInv, TypeOK, LiveInv, OwnLines,
              Behind, Ahead, Rest, Uniform, Writing
<1>2. CASE Next
  BY <1>2, ContainerStep, LiveRowStep, EndedStep, StatusStep, OpenStep, MetaStep, SizeStep,
     RowStep, EndStep, DiagFailsStep, OpenFailsStep, WorkerFailsStep, RestartStep
     DEF Next, Record, Analyze, Fault
<1> QED BY <1>1, <1>2

LEMMA Invariant == Spec => []IInv
BY InitIInv, NextIInv, PTL DEF Spec

-----------------------------------------------------------------------------
\* Every state has its type.
THEOREM TypeCorrect == Spec => []TypeOK
<1>1. IInv => TypeOK BY DEF IInv
<1> QED BY <1>1, Invariant, PTL

\* Whenever the worker is done and no container is half way, the report is whole,
\* re-analyses of the recording under way included (analysis.rs:138), unless a
\* failing call or the end of the daemon cut it short (138-145, diag.rs:202-205)
\* and no analysis has gone over the recording since.
THEOREM ReportsWhole == Spec => []ReportWhole
<1>1. IInv => ReportWhole
  <2> SUFFICES ASSUME IInv, worker = "idle", ~owed, ~cut PROVE Whole BY DEF ReportWhole
  <2>1. Uniform /\ Len(report) = qmdl + 1 BY DEF IInv, Rest, Writing
  <2> QED BY <2>1 DEF Uniform, Whole
<1> QED BY <1>1, Invariant, PTL

\* A line written is not overwritten by another (analysis.rs:64-71).
THEOREM LinesAreKept == Spec => LinesStay
<1>1. ASSUME IInv, [Next]_vars
      PROVE  report' # <<>> => \A k \in DOMAIN report : report[k] # Hole => report'[k] = report[k]
  <2> SUFFICES ASSUME report' # <<>>, NEW k \in DOMAIN report, report[k] # Hole
               PROVE  report'[k] = report[k]
    OBVIOUS
  <2>1. report \in Seq(Cells) /\ k \in 1..Len(report) BY <1>1 DEF IInv, TypeOK
  <2>2. CASE LiveRow
    <3>1. /\ rec = "on" /\ liveAt = qmdl /\ qmdl \in 1..MaxRows /\ version \in 1..MaxVersions
      BY <1>1, <2>2 DEF LiveRow, IInv, LiveInv, TypeOK
    <3>2. report' = WriteAt(report, liveAt, Line(version, liveAt)) BY <2>2 DEF LiveRow
    <3>3. liveAt \in 0..MaxRows BY <3>1, ReportsAssumption
    <3>4. /\ report'[liveAt + 1] = Line(version, liveAt)
          /\ k # liveAt + 1 => report'[k] = report[k]
      BY <2>1, <3>1, <3>2, <3>3, WriteAtFacts
    <3>5. report[k] = Line(version, k - 1) BY <1>1, <2>1, <3>1 DEF IInv, OwnLines
    <3> QED BY <3>1, <3>4, <3>5
  <2>3. CASE Meta \/ Row
    <3>1. /\ WriteLine /\ Writing /\ workAt \in 0..qmdl /\ workAt <= MaxRows
          /\ UNCHANGED <<version, qmdl, owed, workMax>>
      BY <1>1, <2>3, ReportsAssumption DEF Meta, Row, Writing, IInv, TypeOK, Ahead
    <3> QED BY <1>1, <2>1, <3>1, WorkerWrites
  <2>4. CASE WriteFails \/ (DiagFails /\ owed)
    <3>1. PICK at \in 0..MaxRows : at <= qmdl /\ FailAt(at)
      <4>1. CASE WriteFails
        BY <1>1, <4>1, ReportsAssumption DEF WriteFails, IInv, Ahead, TypeOK
      <4>2. CASE DiagFails /\ owed
        BY <1>1, <4>2, ReportsAssumption DEF DiagFails, IInv, LiveInv, TypeOK
      <4> QED BY <2>4, <4>1, <4>2
    <3> QED BY <1>1, <2>1, <3>1, Failing
  <2>5. CASE UNCHANGED report BY <2>5
  <2>6. CASE report' = <<>> BY <2>6
  <2>7. \/ LiveRow \/ Meta \/ Row \/ WriteFails \/ (DiagFails /\ owed)
        \/ UNCHANGED report \/ report' = <<>>
    BY <1>1 DEF Next, Record, Analyze, Fault, Container, Stop, StartAnother, Delete, Ask, Notice,
                Take, Open, Size, End, DiagFails, OpenFails, ReadFails, Restart, RestartWith, vars,
                fileVars
  <2> QED BY <2>2, <2>3, <2>4, <2>5, <2>6, <2>7
<1> QED BY <1>1, Invariant, PTL DEF Spec, LinesStay

-----------------------------------------------------------------------------
(***************************************************************************)
(* The page beside the reports                                             *)
(***************************************************************************)
\* Whatever the page does, the daemon does what it does alone, or nothing.
LEMMA PageSteps == [NextAll]_allVars => [Next]_vars
<1> SUFFICES ASSUME [NextAll]_allVars PROVE [Next]_vars OBVIOUS
<1>1. CASE Daemon BY <1>1 DEF Daemon
<1>2. CASE Click BY <1>2 DEF Click, Next
<1>3. CASE Clicked \/ AskStatus \/ Apply \/ Fetch \/ FetchFails
  BY <1>3 DEF Clicked, AskStatus, Apply, Fetch, FetchFails
<1>4. CASE UNCHANGED allVars BY <1>4 DEF allVars
<1> QED BY <1>1, <1>2, <1>3, <1>4 DEF NextAll

LEMMA PageDaemon == SpecAll => Spec
<1>1. InitAll => Init BY DEF InitAll
<1> QED BY <1>1, PageSteps, PTL DEF SpecAll, Spec

\* Nobody has asked for a re-analysis, and the page has heard of none
Unasked == ~reanalyzed =>
  /\ ~queued /\ ~running /\ worker = "idle" /\ button = "up"
  /\ status \in {"none", "Finished"}
  /\ reply = NoReply \/ (reply.taken /\ ~reply.queued /\ ~reply.running)

\* and whoever knows of the end of the recording knows it rightly
Ended == ~reanalyzed =>
  /\ notice \/ finished \/ status = "Finished" \/ fetching => rec # "on"
  /\ reply # NoReply /\ reply.finished => rec # "on"

\* What the page shows, or is about to show
Fetched == ~reanalyzed /\ status = "Finished" =>
             fetching \/ rec = "deleted" \/ shown = IF unreached THEN Failed ELSE Answer

PageInv == Unasked /\ Ended /\ Fetched

LEMMA InitPageInv == InitAll => PageInv
<1> SUFFICES ASSUME InitAll PROVE PageInv OBVIOUS
<1> USE DEF InitAll, Init
<1>1. Unasked BY DEF Unasked
<1>2. Ended BY DEF Ended, NoReply
<1>3. Fetched BY DEF Fetched
<1> QED BY <1>1, <1>2, <1>3 DEF PageInv

\* As long as nobody asks, only these steps of the daemon are left
LEMMA DaemonUnasked ==
  ASSUME IInv, PageInv, Daemon, ~reanalyzed'
  PROVE  /\ ~reanalyzed /\ ~queued' /\ ~running' /\ worker' = "idle"
         /\ UNCHANGED <<status, shown, button, reply, fetching, unreached>>
         /\ Record \/ DiagFails \/ Notice \/ Restart
<1>1. ~reanalyzed /\ ~(asks' < asks)
      /\ UNCHANGED <<status, shown, button, reply, fetching, unreached>>
  BY DEF Daemon, page
<1>2. ~queued /\ ~running /\ worker = "idle" BY <1>1 DEF PageInv, Unasked
<1>3. ~Ask
  <2>1. asks \in Nat BY DEF IInv, TypeOK
  <2> QED BY <1>1, <2>1 DEF Ask
<1>4. Record \/ DiagFails \/ Notice \/ Restart
  BY <1>2, <1>3 DEF Daemon, Next, Analyze, Fault, Take, Open, Meta, Size, Row, End, OpenFails,
                    WriteFails, ReadFails
<1>5. ~queued' /\ ~running' /\ worker' = "idle"
  BY <1>2, <1>4 DEF Record, Container, LiveRow, Stop, StartAnother, Delete, DiagFails, Notice,
                    Restart, RestartWith, statusVars, workVars
<1> QED BY <1>1, <1>4, <1>5

\* and none of them writes to a recording that has ended
LEMMA DaemonPage == IInv /\ PageInv /\ Daemon => PageInv'
<1> SUFFICES ASSUME IInv, PageInv, Daemon PROVE PageInv' OBVIOUS
<1>1. CASE reanalyzed' BY <1>1 DEF PageInv, Unasked, Ended, Fetched
<1>2. CASE ~reanalyzed'
  <2>1. /\ ~reanalyzed /\ ~queued' /\ ~running' /\ worker' = "idle"
        /\ UNCHANGED <<status, shown, button, reply, fetching, unreached>>
        /\ Record \/ DiagFails \/ Notice \/ Restart
    BY <1>2, DaemonUnasked
  <2>2. Unasked' BY <2>1 DEF PageInv, Unasked
  <2>3. /\ rec # "on" => rec' # "on" /\ UNCHANGED report
        /\ rec # "on" /\ rec' # "deleted" => (rec = "deleted" <=> rec' = "deleted")
        /\ notice' \/ finished' => notice \/ finished \/ rec' # "on"
        /\ rec = "deleted" => rec' = "deleted"
    <3>1. owed => rec = "on" BY DEF IInv, LiveInv
    <3> QED BY <2>1, <3>1 DEF Record, Container, LiveRow, Stop, StartAnother, Delete, DiagFails,
                              Notice, Restart, RestartWith, statusVars, fileVars
  <2>4. Ended' BY <2>1, <2>3 DEF PageInv, Ended
  <2>5. Fetched'
    <3> SUFFICES ASSUME status' = "Finished", ~fetching', rec' # "deleted"
                 PROVE  shown' = IF unreached' THEN Failed ELSE Answer'
      BY DEF Fetched
    <3>1. rec # "on" /\ rec # "deleted" /\ shown = IF unreached THEN Failed ELSE Answer
      BY <2>1, <2>3 DEF PageInv, Ended, Fetched
    <3>2. report' = report BY <2>3, <3>1
    <3>3. Answer' = Answer BY <3>1, <3>2 DEF Answer, Readable
    <3> QED BY <2>1, <3>1, <3>3
  <2> QED BY <2>2, <2>4, <2>5 DEF PageInv
<1> QED BY <1>1, <1>2

\* The page's own steps
LEMMA ClickPage == PageInv /\ (Click \/ Clicked) => PageInv'
<1> SUFFICES ASSUME PageInv, Click \/ Clicked PROVE PageInv' OBVIOUS
<1>1. reanalyzed'
  BY DEF PageInv, Unasked, Click, Clicked
<1> QED BY <1>1 DEF PageInv, Unasked, Ended, Fetched

LEMMA AskPage == PageInv /\ AskStatus => PageInv'
<1> SUFFICES ASSUME PageInv, AskStatus, ~reanalyzed' PROVE PageInv'
  BY DEF PageInv, Unasked, Ended, Fetched
<1>1. /\ ~reanalyzed
      /\ UNCHANGED <<vars, status, shown, button, fetching, unreached>>
      /\ reply' = [taken |-> TRUE, queued |-> queued, running |-> running, finished |-> finished]
  BY DEF AskStatus
<1>2. UNCHANGED <<rec, report, queued, running, worker, notice, finished>>
  BY <1>1 DEF vars, fileVars, statusVars, workVars
<1>3. /\ reply'.taken = TRUE /\ reply'.queued = queued /\ reply'.running = running
      /\ reply'.finished = finished
  BY <1>1
<1>4. Unasked' BY <1>1, <1>2, <1>3 DEF PageInv, Unasked
<1>5. Ended' BY <1>1, <1>2, <1>3 DEF PageInv, Ended
<1>6. Fetched' BY <1>1, <1>2 DEF PageInv, Fetched, Answer, Readable
<1> QED BY <1>4, <1>5, <1>6 DEF PageInv

LEMMA ApplyPage == PageInv /\ Apply => PageInv'
<1> SUFFICES ASSUME PageInv, Apply, ~reanalyzed' PROVE PageInv'
  BY DEF PageInv, Unasked, Ended, Fetched
<1>1. ~reanalyzed /\ reply # NoReply /\ reply' = NoReply /\ UNCHANGED <<vars, button, unreached>>
  BY DEF Apply
<1>2. UNCHANGED <<rec, report, queued, running, worker, notice, finished>>
  BY <1>1 DEF vars, fileVars, statusVars, workVars
<1>3. StatusBefore(reply) = status /\ status \in {"none", "Finished"}
  BY <1>1 DEF PageInv, Unasked, StatusBefore
<1>4. /\ status' = IF reply.finished THEN "Finished" ELSE status
      /\ reply.finished /\ status # "Finished" => fetching'
      /\ ~(reply.finished /\ status # "Finished") => UNCHANGED <<shown, fetching>>
  BY <1>3 DEF Apply
<1>5. Unasked' BY <1>1, <1>2, <1>3, <1>4 DEF PageInv, Unasked
<1>6. Ended' BY <1>1, <1>2, <1>3, <1>4 DEF PageInv, Ended
<1>7. Fetched' BY <1>1, <1>2, <1>3, <1>4 DEF PageInv, Fetched, Answer, Readable
<1> QED BY <1>5, <1>6, <1>7 DEF PageInv

LEMMA FetchPage == PageInv /\ (Fetch \/ FetchFails) => PageInv'
<1> SUFFICES ASSUME PageInv, Fetch \/ FetchFails, ~reanalyzed' PROVE PageInv'
  BY DEF PageInv, Unasked, Ended, Fetched
<1>1. /\ ~reanalyzed /\ fetching' = FALSE /\ UNCHANGED <<vars, status, button, reply>>
      /\ shown' = IF unreached' THEN Failed ELSE Answer
  BY DEF Fetch, FetchFails
<1>2. UNCHANGED <<rec, report, queued, running, worker, notice, finished>>
  BY <1>1 DEF vars, fileVars, statusVars, workVars
<1>3. Answer' = Answer BY <1>2 DEF Answer, Readable
<1>4. Unasked' BY <1>1, <1>2 DEF PageInv, Unasked
<1>5. Ended' BY <1>1, <1>2 DEF PageInv, Ended
<1>6. Fetched' BY <1>1, <1>3 DEF Fetched
<1> QED BY <1>4, <1>5, <1>6 DEF PageInv

LEMMA NextPageInv == IInv /\ PageInv /\ [NextAll]_allVars => PageInv'
<1> SUFFICES ASSUME IInv, PageInv, [NextAll]_allVars PROVE PageInv' OBVIOUS
<1>1. CASE UNCHANGED allVars
  BY <1>1 DEF allVars, vars, fileVars, statusVars, workVars, page, history, PageInv, Unasked, Ended,
              Fetched, Answer, Readable
<1>2. CASE NextAll
  BY <1>2, DaemonPage, ClickPage, AskPage, ApplyPage, FetchPage DEF NextAll
<1> QED BY <1>1, <1>2

\* Once the page says finished and everything is at rest, it shows of a recording
\* that was never analyzed again what the daemon answers now, unless the request
\* failed on its way, and then the error: for any number of containers, restarts
\* and failing requests (analysisManager.svelte.ts:42-60).
THEOREM FirstReportIsShown == SpecAll => []FirstReportShown
<1>1. PageInv => FirstReportShown
  BY DEF PageInv, Fetched, FirstReportShown, AtRest
<1> QED BY <1>1, InitPageInv, NextPageInv, PageDaemon, Invariant, PTL DEF SpecAll

=============================================================================
