---------------------------- MODULE MCQmdlStream ----------------------------
EXTENDS QmdlStream

\* A checksum that tells the small payloads apart and takes every special value
MCCrc(s) ==
  LET order == <<Term, Esc, "00", EscTerm, EscEsc>>
      Value(b) == CHOOSE i \in DOMAIN order : order[i] = b
      Add(sum, b) == (2 * sum + Value(b)) % 25
      sum == FoldLeft(Add, 0, s)
  IN  <<order[1 + (sum % 5)], order[1 + ((sum \div 5) % 5)]>>

MCPayloads   == {<<Term>>, <<EscTerm, Esc>>}
ManyPayloads == {<<>>, <<Term>>, <<Esc>>, <<"00">>, <<EscTerm, Esc>>}

\* A frame cut in two, one with half an escape sequence at its end; either
\* without its terminator
MCDamaged(frame) ==
  {IF Head(frame) = Esc THEN [frame EXCEPT ![1] = Term] ELSE [frame EXCEPT ![Len(frame) - 1] = Esc],
   [frame EXCEPT ![Len(frame)] = "00"]}

\* Any one byte of it is another
AnyDamage(frame) ==
  {[frame EXCEPT ![i] = b] : i \in DOMAIN frame, b \in {Term, Esc, "00"}} \ {frame}

=============================================================================
