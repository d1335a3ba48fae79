--------------------------------- MODULE Hdlc ---------------------------------
(***************************************************************************)
(* The framing of diag messages (lib/src/hdlc.rs) and the way back from a  *)
(* container of frames to messages (lib/src/diag.rs).  Only the four bytes *)
(* with a meaning are told apart; Plain stands for the other 252.  The     *)
(* checksum is the crc crate's, any function to two bytes.                 *)
(***************************************************************************)
EXTENDS Integers, Sequences, SequencesExt, FiniteSets

CONSTANTS
  Plain,   \* bytes without a meaning of their own
  Crc(_)   \* the checksum of a sequence of bytes: two bytes, low one first

Term    == "7e"  \* MESSAGE_TERMINATOR
Esc     == "7d"  \* MESSAGE_ESCAPE_CHAR
EscTerm == "5e"  \* ESCAPED_MESSAGE_TERMINATOR
EscEsc  == "5d"  \* ESCAPED_MESSAGE_ESCAPE_CHAR
Bytes   == {Term, Esc, EscTerm, EscEsc} \cup Plain

ASSUME PlainAssumption == Plain \cap {Term, Esc, EscTerm, EscEsc} = {}

-----------------------------------------------------------------------------
\* Not: the escape character itself sent as it is.
EscapeTermOnly(b) == IF b = Term THEN <<Esc, EscTerm>> ELSE <<b>>
Escape(b) == CASE b = Term -> <<Esc, EscTerm>>
               [] b = Esc  -> <<Esc, EscEsc>>
               [] OTHER    -> <<b>>

EscapeAll(s) == FlattenSeq([i \in DOMAIN s |-> Escape(s[i])])

\* hdlc_encapsulate.  Not: the checksum's bytes sent as they are.
EncapsulateBareCrc(data) == EscapeAll(data) \o Crc(data) \o <<Term>>
Encapsulate(data) == EscapeAll(data \o Crc(data)) \o <<Term>>

\* What decapsulation answers: the message, or why there is none
Ok(data)  == [ok |-> TRUE, data |-> data]
Failed(e) == [ok |-> FALSE, error |-> e]

\* The loop of hdlc_decapsulate: one byte more.  An escape sequence it does not
\* know ends it; an escape character left at the end is forgotten.
Fresh == [out |-> <<>>, escaping |-> FALSE, bad |-> FALSE]
UnescapeByte(u, b) ==
  CASE u.bad -> u
    [] ~u.bad /\ u.escaping /\ b \in {EscTerm, EscEsc} ->
         [u EXCEPT !.out = Append(@, IF b = EscTerm THEN Term ELSE Esc), !.escaping = FALSE]
    [] ~u.bad /\ u.escaping /\ b \notin {EscTerm, EscEsc} -> [u EXCEPT !.bad = TRUE]
    [] ~u.bad /\ ~u.escaping /\ b = Esc -> [u EXCEPT !.escaping = TRUE]
    [] OTHER -> [u EXCEPT !.out = Append(@, b)]

Unescape(s) ==
  LET after[n \in 0..Len(s)] == IF n = 0 THEN Fresh ELSE UnescapeByte(after[n - 1], s[n])
  IN  after[Len(s)]

\* hdlc_decapsulate
Decapsulate(s) ==
  LET u == Unescape(Front(s))
      n == Len(u.out)
      data == SubSeq(u.out, 1, n - 2)
  IN  CASE Len(s) < 3 -> Failed("TooShort")
        [] Len(s) >= 3 /\ Last(s) # Term -> Failed("NoTrailingCharacter")
        [] Len(s) >= 3 /\ Last(s) = Term /\ u.bad -> Failed("InvalidEscapeSequence")
        [] Len(s) >= 3 /\ Last(s) = Term /\ ~u.bad /\ n < 2 -> Failed("MissingChecksum")
        [] OTHER -> IF SubSeq(u.out, n - 1, n) = Crc(data) THEN Ok(data)
                    ELSE Failed("InvalidChecksum")

-----------------------------------------------------------------------------
\* split_inclusive: the pieces that end with a terminator, and what is left
AddByte(pieces, b) ==
  IF pieces = <<>> \/ Last(Last(pieces)) = Term THEN Append(pieces, <<b>>)
  ELSE [pieces EXCEPT ![Len(pieces)] = Append(@, b)]
Pieces(s) ==
  LET after[n \in 0..Len(s)] == IF n = 0 THEN <<>> ELSE AddByte(after[n - 1], s[n])
  IN  after[Len(s)]

\* MessagesContainer::into_messages, of the data of its messages.  Not: each
\* message taken for a single frame.
OneFrameEach(datas) == [i \in DOMAIN datas |-> Decapsulate(datas[i])]
IntoMessages(datas) ==
  FlattenSeq([i \in DOMAIN datas |-> OneFrameEach(Pieces(datas[i]))])

=============================================================================
