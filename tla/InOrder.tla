------------------------------- MODULE InOrder -------------------------------
(***************************************************************************)
(* What a recording on disk promises of the messages put into it           *)
(* (lib/src/qmdl.rs): whoever reads it gets the same messages, in the      *)
(* order they came, each once; and may start over from the first.          *)
(***************************************************************************)
EXTENDS Naturals, Sequences

CONSTANT Rows

VARIABLES
  sent,  \* what was put in
  got    \* what the reader has had

vars == <<sent, got>>

Init == sent = <<>> /\ got = <<>>

Send    == /\ sent' \in Seq(Rows) /\ SubSeq(sent', 1, Len(sent)) = sent
           /\ UNCHANGED got

Receive == /\ Len(got) < Len(sent)
           /\ got' = Append(got, sent[Len(got) + 1])
           /\ UNCHANGED sent

Restart == got' = <<>> /\ UNCHANGED sent

Next == Send \/ Receive \/ Restart

Spec == Init /\ [][Next]_vars

=============================================================================
