------------------------------ MODULE QmdlStream ------------------------------
(***************************************************************************)
(* A recording's bytes: the diag thread writes the messages of a container *)
(* to the .qmdl file (lib/src/qmdl.rs), announces the size in the manifest *)
(* and analyzes the container (daemon/src/diag.rs); a reader, the          *)
(* re-analysis or a download, takes the file apart again, one frame at a   *)
(* time, up to the size it was told.  The reader does not wait for the     *)
(* writer, and the daemon may die while it writes.                         *)
(***************************************************************************)
EXTENDS Hdlc

CONSTANTS
  Payloads,      \* messages the modem may send
  Damaged(_),    \* what may become of a frame on its way to the daemon
  Unterminated,  \* whether a message may lack its terminator
  MaxContainers  \* bound on the containers sent

ASSUME StreamAssumption == /\ Payloads \subseteq Seq(Bytes)
                           /\ Unterminated \in BOOLEAN /\ MaxContainers \in Nat
ASSUME FramesAssumption ==
  \A p \in Payloads : /\ Crc(p) \in Seq(Bytes) /\ Len(Crc(p)) = 2
                      /\ Damaged(Encapsulate(p)) \subseteq Seq(Bytes)

VARIABLES
  phase,        \* where the diag thread is with a container
  container,    \* the data of its messages
  todo,         \* those not written yet
  file,         \* the bytes of the .qmdl file
  totalWritten, \* QmdlWriter.total_written
  announced,    \* qmdl_size_bytes of the manifest entry
  live,         \* what the analysis under way was given, row by row
  containers,   \* containers still to come
  reader,       \* "closed", "open" or "ended"
  maxBytes, bytesRead,  \* of QmdlReader
  reread,       \* what the reader gave, row by row
  written,      \* history: the rows of the messages written
  complete,     \* history: those of the containers announced
  intact,       \* history: which rows are of undamaged frames, and of what
  due           \* history: the rows the reader was opened for

writerVars == <<phase, container, todo, file, totalWritten, announced, live, containers>>
readerVars == <<reader, maxBytes, bytesRead, reread, due>>
history    == <<written, complete, intact>>
vars       == <<writerVars, readerVars, history>>

Init ==
  /\ phase = "idle" /\ container = <<>> /\ todo = <<>> /\ file = <<>>
  /\ totalWritten = 0 /\ announced = 0 /\ live = <<>> /\ containers = MaxContainers
  /\ reader = "closed" /\ maxBytes = 0 /\ bytesRead = 0 /\ reread = <<>> /\ due = <<>>
  /\ written = <<>> /\ complete = <<>> /\ intact = {}

-----------------------------------------------------------------------------
\* What comes from the modem in a message: one frame or several, some damaged
Frame(p) == [bytes |-> Encapsulate(p), intact |-> TRUE, payload |-> p]
Frames == {Frame(p) : p \in Payloads}
          \cup UNION {{[bytes |-> b, intact |-> FALSE, payload |-> p] : b \in Damaged(Encapsulate(p))} :
                       p \in Payloads}
Terminated(f) == f.bytes # <<>> /\ Last(f.bytes) = Term

\* ... and with what in it
Groups == {g \in {<<<<f>>>> : f \in Frames} \cup {<<<<f, g>>>> : f, g \in Frames}
                 \cup {<<<<f>>, <<g>>>> : f, g \in Frames} :
             Unterminated \/ \A m \in DOMAIN g : \A k \in DOMAIN g[m] : Terminated(g[m][k])}

DataOf(message) == FlattenSeq([k \in DOMAIN message |-> message[k].bytes])

\* Rows the frames of a group come to lie at, those before it counted in
IntactRows(g, before) ==
  LET all == FlattenSeq(g)
      Count(k) == Len(IntoMessages(<<FlattenSeq([i \in 1..k |-> all[i].bytes])>>))
  IN  {[row |-> before + Count(k), payload |-> all[k].payload] :
          k \in {k \in DOMAIN all : all[k].intact}}

\* process_container: one that is not for user space is passed over; the store's
\* lock is held from here to Analyze
Receive ==
  /\ phase = "idle" /\ containers > 0
  /\ containers' = containers - 1
  /\ \E g \in Groups :
       /\ container' = [m \in DOMAIN g |-> DataOf(g[m])]
       /\ intact' = intact \cup IntactRows(g, Len(live))
  /\ todo' = container' /\ phase' = "write"
  /\ UNCHANGED <<file, totalWritten, announced, live, readerVars, written, complete>>

PassOver ==
  /\ phase = "idle" /\ containers > 0
  /\ containers' = containers - 1
  /\ UNCHANGED <<phase, container, todo, file, totalWritten, announced, live, readerVars, history>>

\* write_container, a message at a time.  The file has the bytes when this step is
\* taken: write_all may give back before that, and a reader told of more than the
\* file has waits at its end (ReadNext), as if it had been told that much later.
WriteMessage ==
  /\ phase = "write" /\ todo # <<>>
  /\ file' = file \o Head(todo)
  /\ totalWritten' = totalWritten + Len(Head(todo))
  /\ todo' = Tail(todo)
  /\ written' = written \o IntoMessages(<<Head(todo)>>)
  /\ UNCHANGED <<phase, container, announced, live, containers, readerVars, complete, intact>>

\* update_entry_qmdl_size
Announce ==
  /\ phase = "write" /\ todo = <<>>
  /\ announced' = totalWritten
  /\ complete' = written
  /\ phase' = "analyze"
  /\ UNCHANGED <<container, todo, file, totalWritten, live, containers, readerVars, written, intact>>

\* AnalysisWriter::analyze.  Not: the first message only, as when re-reading.
AnalyzeFirst ==
  /\ phase = "analyze"
  /\ live' = live \o IntoMessages(<<Head(container)>>)
  /\ phase' = "idle" /\ container' = <<>>
  /\ UNCHANGED <<todo, file, totalWritten, announced, containers, readerVars, history>>
Analyze ==
  /\ phase = "analyze"
  /\ live' = live \o IntoMessages(container)
  /\ phase' = "idle" /\ container' = <<>>
  /\ UNCHANGED <<todo, file, totalWritten, announced, containers, readerVars, history>>

\* The daemon dies, with part of a message written.  Nothing is ever added to
\* this file again: the next recording has a file of its own.
Crash ==
  /\ phase # "dead"
  /\ \/ UNCHANGED <<file, written>>
     \/ /\ phase = "write" /\ todo # <<>>
        /\ \E n \in 1..(Len(Head(todo)) - 1) :
             LET part == SubSeq(Head(todo), 1, n)
             IN  file' = file \o part /\ written' = written \o IntoMessages(<<part>>)
  /\ phase' = "dead"
  /\ UNCHANGED <<container, todo, totalWritten, announced, live, containers, readerVars, complete, intact>>

-----------------------------------------------------------------------------
\* QmdlReader::new.  A download asks the manifest for the size, under the store's
\* lock; the re-analysis asks the file, with the lock given back already.  A
\* reader of a dying daemon dies with it: what happens after is a new reader.
OpenReader ==
  /\ reader # "open"
  /\ reader' = "open" /\ bytesRead' = 0 /\ reread' = <<>>
  /\ \/ /\ phase \in {"idle", "dead"}
        /\ maxBytes' = announced /\ due' = complete
     \/ maxBytes' = Len(file) /\ due' = written
  /\ UNCHANGED <<writerVars, history>>

\* read_until: up to and with the next terminator, or all there is.  Not: the
\* terminator left for the next time.
NextPieceBare == LET p == Head(Pieces(SubSeq(file, bytesRead + 1, Len(file))))
                 IN  IF Len(p) > 1 /\ Last(p) = Term THEN Front(p) ELSE p
NextPiece == LET rest == SubSeq(file, bytesRead + 1, Len(file)) IN Head(Pieces(rest))

\* get_next_messages_container, while there is something left to read; what it
\* makes of a file shorter than it was told is in Downloads.  Not: once more when
\* all that was announced is read.
ReadOneMore ==
  /\ reader = "open" /\ bytesRead <= maxBytes /\ bytesRead < Len(file)
  /\ bytesRead' = bytesRead + Len(NextPiece)
  /\ reread' = reread \o IntoMessages(<<NextPiece>>)
  /\ UNCHANGED <<writerVars, reader, maxBytes, due, history>>
ReadNext ==
  /\ reader = "open" /\ bytesRead < maxBytes /\ bytesRead < Len(file)
  /\ bytesRead' = bytesRead + Len(NextPiece)
  /\ reread' = reread \o IntoMessages(<<NextPiece>>)
  /\ UNCHANGED <<writerVars, reader, maxBytes, due, history>>

ReadEnd ==
  /\ reader = "open" /\ bytesRead >= maxBytes
  /\ reader' = "ended"
  /\ UNCHANGED <<writerVars, maxBytes, bytesRead, reread, due, history>>

Next == Receive \/ PassOver \/ WriteMessage \/ Announce \/ Analyze \/ Crash
        \/ OpenReader \/ ReadNext \/ ReadEnd

Spec == Init /\ [][Next]_vars

-----------------------------------------------------------------------------
TypeOK ==
  /\ phase \in {"idle", "write", "analyze", "dead"} /\ reader \in {"closed", "open", "ended"}
  /\ file \in Seq(Bytes) /\ containers \in 0..MaxContainers
  /\ announced <= totalWritten /\ totalWritten <= Len(file)
  /\ maxBytes <= Len(file) /\ bytesRead <= Len(file)

\* A frame that arrives undamaged reaches the heuristics as it was sent, in its
\* row, whatever comes before it or after it in its container and however
\* damaged that is (hdlc.rs:29-94, diag.rs:87-114).
IntactFramesRead ==
  \A i \in intact : i.row <= Len(live) => live[i.row] = Ok(i.payload)

\* What a re-analysis has had of a recording, frame by frame out of the file and
\* while it was written, is what the live analysis was given of it, container by
\* container (lib/src/qmdl.rs:91-108, diag.rs:87-114); whenever the diag thread is
\* between two containers, the only time it has judged all that is in the file.
RereadIsLive == phase = "idle" => IsPrefix(reread, live)

\* A reader that ends has had every row there was when it was opened and no
\* other: announced ones for a download, all on disk for a re-analysis
\* (qmdl.rs:77-109); however far the writer has come since.
ReadsWhatWasDue == reader = "ended" => reread = due

\* What a reader gets is what was put in, in order, each row once.
Rows    == [ok : {TRUE}, data : Seq(Bytes)]
           \cup [ok : {FALSE}, error : {"TooShort", "NoTrailingCharacter", "InvalidEscapeSequence",
                                        "MissingChecksum", "InvalidChecksum"}]
Stored  == INSTANCE InOrder WITH sent <- written, got <- reread
InOrder == Stored!Spec

=============================================================================
