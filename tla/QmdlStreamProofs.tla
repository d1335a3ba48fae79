-------------------------- MODULE QmdlStreamProofs --------------------------
(***************************************************************************)
(* Proofs about frames and recordings, for every sequence of bytes, every  *)
(* checksum of two bytes and every damage: what is encapsulated comes out  *)
(* of decapsulation as it was; what is analyzed live is what is written;   *)
(* and, while every message ends with a terminator, what is read back.     *)
(***************************************************************************)
EXTENDS QmdlStream, SequenceTheorems, WellFoundedInduction, TLAPS

-----------------------------------------------------------------------------
(* Induction, and functions defined by it                                  *)

LEMMA Least ==
  ASSUME NEW T \in SUBSET Nat, T # {}
  PROVE  \E n \in T : \A m \in T : n <= m
<1>1. PICK x \in T : \A y \in T : ~(<<y, x>> \in OpToRel(<, Nat))
  BY ONLY NatLessThanWellFounded, WFMin, T \in SUBSET Nat, T # {}
<1>2. \A y \in T : ~(y < x)
  BY <1>1 DEF OpToRel
<1>3. QED
  BY ONLY <1>2, T \in SUBSET Nat, x \in T

LEMMA SetInduction ==
  ASSUME NEW T, 0 \in T, \A n \in Nat : n \in T => n + 1 \in T
  PROVE  Nat \subseteq T
<1> SUFFICES ASSUME Nat \ T # {} PROVE FALSE
  OBVIOUS
<1>1. PICK n \in Nat \ T : \A m \in Nat \ T : n <= m
  BY Least
<1>2. n # 0 /\ n - 1 \in Nat /\ n - 1 \in T
  BY <1>1
<1>3. QED
  BY <1>1, <1>2

\* Two functions that start alike and go on alike end alike.
LEMMA EndAlike ==
  ASSUME NEW f, NEW g, NEW N \in Nat, f[0] = g[0],
         \A n \in 1..N : f[n - 1] = g[n - 1] => f[n] = g[n]
  PROVE  f[N] = g[N]
<1> DEFINE T == {n \in Nat : n <= N => f[n] = g[n]}
<1>1. 0 \in T
  OBVIOUS
<1>2. ASSUME NEW n \in Nat, n \in T
      PROVE  n + 1 \in T
  <2>1. n + 1 <= N => n + 1 \in 1..N /\ (n + 1) - 1 = n /\ n <= N
    OBVIOUS
  <2>2. QED
    BY <1>2, <2>1
<1> HIDE DEF T
<1>3. N \in T
  BY <1>1, <1>2, SetInduction
<1>4. QED
  BY <1>3 DEF T

\* A loop over s, its body given as a function
Loop(step, base, s, f) ==
  f = [n \in 0..Len(s) |-> IF n = 0 THEN base ELSE step[<<f[n - 1], s[n]>>]]

Closed(step, X, B) == \A x \in X, b \in B : step[<<x, b>>] \in X

LEMMA LoopExists ==
  ASSUME NEW X, NEW B, NEW base \in X, NEW s \in Seq(B), NEW step, Closed(step, X, B)
  PROVE  \E f \in [0..Len(s) -> X] : Loop(step, base, s, f)
<1> DEFINE Upto(n, f) == \A k \in 0..n : f[k] = IF k = 0 THEN base ELSE step[<<f[k - 1], s[k]>>]
           T == {n \in Nat : n <= Len(s) => \E f \in [0..n -> X] : Upto(n, f)}
<1>1. 0 \in T
  <2>1. [k \in 0..0 |-> base] \in [0..0 -> X] /\ Upto(0, [k \in 0..0 |-> base])
    OBVIOUS
  <2>2. QED
    BY <2>1
<1>2. ASSUME NEW n \in Nat, n \in T
      PROVE  n + 1 \in T
  <2> SUFFICES ASSUME n + 1 <= Len(s)
               PROVE  \E f \in [0..(n + 1) -> X] : Upto(n + 1, f)
    OBVIOUS
  <2>1. PICK g \in [0..n -> X] : Upto(n, g)
    BY <1>2
  <2>2. s[n + 1] \in B /\ g[n] \in X
    BY <2>1
  <2> DEFINE f == [k \in 0..(n + 1) |-> IF k = n + 1 THEN step[<<g[n], s[n + 1]>>] ELSE g[k]]
  <2>3. step[<<g[n], s[n + 1]>>] \in X
    BY <2>2 DEF Closed
  <2>4. f \in [0..(n + 1) -> X]
    BY <2>1, <2>3
  <2>5. ASSUME NEW k \in 0..(n + 1)
        PROVE  f[k] = IF k = 0 THEN base ELSE step[<<f[k - 1], s[k]>>]
    <3>1. CASE k = n + 1
      <4>1. n \in 0..(n + 1) /\ f[n] = g[n]
        OBVIOUS
      <4>2. QED
        BY <3>1, <4>1
    <3>2. CASE k \in 0..n
      <4>1. f[k] = g[k] /\ (k # 0 => f[k - 1] = g[k - 1])
        BY <3>2
      <4>2. QED
        BY <3>2, <4>1, <2>1
    <3>3. QED
      BY <3>1, <3>2
  <2> HIDE DEF f
  <2>6. QED
    BY <2>4, <2>5
<1> HIDE DEF T
<1>3. Len(s) \in T
  BY <1>1, <1>2, SetInduction
<1>4. PICK f \in [0..Len(s) -> X] : Upto(Len(s), f)
  BY <1>3 DEF T
<1>5. QED
  BY <1>4 DEF Loop

\* What the loop ends with, and what it does with one element more
Folded(step, base, s) == (CHOOSE f : Loop(step, base, s, f))[Len(s)]

LEMMA FoldedIs ==
  ASSUME NEW X, NEW B, NEW base \in X, NEW s \in Seq(B), NEW step, Closed(step, X, B)
  PROVE  \E f \in [0..Len(s) -> X] :
           /\ \A n \in 0..Len(s) : f[n] = IF n = 0 THEN base ELSE step[<<f[n - 1], s[n]>>]
           /\ Folded(step, base, s) = f[Len(s)]
<1>1. PICK f \in [0..Len(s) -> X] : Loop(step, base, s, f)
  BY LoopExists
<1> DEFINE c == CHOOSE g : Loop(step, base, s, g)
<1>2. Loop(step, base, s, c)
  BY <1>1
<1> HIDE DEF c
<1>3. Len(s) \in Nat
  OBVIOUS
<1>4. \A n \in 0..Len(s) :
        /\ f[n] = IF n = 0 THEN base ELSE step[<<f[n - 1], s[n]>>]
        /\ c[n] = IF n = 0 THEN base ELSE step[<<c[n - 1], s[n]>>]
  BY <1>1, <1>2 DEF Loop
<1>5. c[0] = f[0] /\ \A n \in 1..Len(s) : c[n - 1] = f[n - 1] => c[n] = f[n]
  <2>1. 0 \in 0..Len(s) /\ \A n \in 1..Len(s) : n \in 0..Len(s) /\ n # 0
    BY <1>3
  <2>2. QED
    BY <1>4, <2>1
<1>6. c[Len(s)] = f[Len(s)]
  BY <1>3, <1>5, EndAlike
<1>7. QED
  BY <1>4, <1>6 DEF Folded, c

LEMMA FoldedFacts ==
  ASSUME NEW X, NEW B, NEW base \in X, NEW step, Closed(step, X, B)
  PROVE  /\ Folded(step, base, <<>>) = base
         /\ \A s \in Seq(B) : Folded(step, base, s) \in X
         /\ \A s \in Seq(B), b \in B :
              Folded(step, base, Append(s, b)) = step[<<Folded(step, base, s), b>>]
<1>1. Folded(step, base, <<>>) = base
  <2>1. ASSUME NEW e \in Seq(B), Len(e) = 0
        PROVE  Folded(step, base, e) = base
    <3>1. PICK f \in [0..Len(e) -> X] :
             /\ \A n \in 0..Len(e) : f[n] = IF n = 0 THEN base ELSE step[<<f[n - 1], e[n]>>]
             /\ Folded(step, base, e) = f[Len(e)]
      BY FoldedIs
    <3>2. 0 \in 0..Len(e)
      BY <2>1
    <3>3. f[0] = base
      BY <3>1, <3>2
    <3>4. QED
      BY <2>1, <3>1, <3>3
  <2>2. <<>> \in Seq(B)
    OBVIOUS
  <2>3. QED
    BY <2>1, <2>2
<1>2. ASSUME NEW s \in Seq(B)
      PROVE  Folded(step, base, s) \in X
  <2>1. Len(s) \in 0..Len(s)
    OBVIOUS
  <2>2. QED
    BY <2>1, FoldedIs
<1>3. ASSUME NEW s \in Seq(B), NEW b \in B
      PROVE  Folded(step, base, Append(s, b)) = step[<<Folded(step, base, s), b>>]
  <2> DEFINE t == Append(s, b)
  <2>0. t \in Seq(B)
    OBVIOUS
  <2>1. /\ Len(t) = Len(s) + 1 /\ t[Len(s) + 1] = b /\ Len(s) \in Nat
        /\ \A n \in 1..Len(s) : t[n] = s[n]
    OBVIOUS
  <2> HIDE DEF t
  <2>2. PICK f \in [0..Len(s) -> X] :
           /\ \A n \in 0..Len(s) : f[n] = IF n = 0 THEN base ELSE step[<<f[n - 1], s[n]>>]
           /\ Folded(step, base, s) = f[Len(s)]
    BY FoldedIs
  <2>3. PICK g \in [0..Len(t) -> X] :
           /\ \A n \in 0..Len(t) : g[n] = IF n = 0 THEN base ELSE step[<<g[n - 1], t[n]>>]
           /\ Folded(step, base, t) = g[Len(t)]
    BY <2>0, FoldedIs
  <2>4. g[0] = f[0] /\ \A n \in 1..Len(s) : g[n - 1] = f[n - 1] => g[n] = f[n]
    <3>1. /\ 0 \in 0..Len(s) /\ \A n \in 1..Len(s) : n \in 0..Len(s) /\ n # 0
          /\ 0 \in 0..Len(t) /\ \A n \in 1..Len(s) : n \in 0..Len(t)
      BY <2>1
    <3>2. QED
      BY <2>1, <2>2, <2>3, <3>1
  <2>5. g[Len(s)] = f[Len(s)]
    BY <2>1, <2>4, EndAlike
  <2>6. g[Len(s) + 1] = step[<<g[Len(s)], b>>]
    <3>1. Len(s) + 1 \in 0..Len(t) /\ Len(s) + 1 # 0 /\ (Len(s) + 1) - 1 = Len(s)
      BY <2>1
    <3>2. QED
      BY <2>1, <2>3, <3>1
  <2>7. QED
    BY <2>1, <2>2, <2>3, <2>5, <2>6 DEF t
<1>4. QED
  BY <1>1, <1>2, <1>3

\* Whatever does as the loop does ends as it ends.
LEMMA EndsFolded ==
  ASSUME NEW X, NEW B, NEW base \in X, NEW s \in Seq(B), NEW step, Closed(step, X, B),
         NEW c, c[0] = base,
         \A n \in 1..Len(s) : c[n - 1] \in X => c[n] = step[<<c[n - 1], s[n]>>]
  PROVE  c[Len(s)] = Folded(step, base, s)
<1>1. PICK f \in [0..Len(s) -> X] :
         /\ \A n \in 0..Len(s) : f[n] = IF n = 0 THEN base ELSE step[<<f[n - 1], s[n]>>]
         /\ Folded(step, base, s) = f[Len(s)]
  BY FoldedIs
<1>2. Len(s) \in Nat /\ 0 \in 0..Len(s)
  OBVIOUS
<1>3. \A n \in 1..Len(s) : n \in 0..Len(s) /\ n # 0 /\ n - 1 \in 0..Len(s)
  OBVIOUS
<1>4. f[0] = c[0] /\ \A n \in 1..Len(s) : f[n - 1] = c[n - 1] => f[n] = c[n]
  BY <1>1, <1>2, <1>3
<1>5. f[Len(s)] = c[Len(s)]
  BY <1>2, <1>4, EndAlike
<1>6. QED
  BY <1>1, <1>5

LEMMA SeqInduction ==
  ASSUME NEW B, NEW T, <<>> \in T, \A s \in Seq(B), b \in B : s \in T => Append(s, b) \in T
  PROVE  Seq(B) \subseteq T
<1> DEFINE N == {n \in Nat : \A s \in Seq(B) : Len(s) = n => s \in T}
<1>1. 0 \in N
  <2>1. \A s \in Seq(B) : Len(s) = 0 => s = <<>>
    OBVIOUS
  <2>2. QED
    BY <2>1
<1>2. ASSUME NEW n \in Nat, n \in N
      PROVE  n + 1 \in N
  <2> SUFFICES ASSUME NEW s \in Seq(B), Len(s) = n + 1
               PROVE  s \in T
    OBVIOUS
  <2>1. s # <<>>
    OBVIOUS
  <2>2. PICK r \in Seq(B), b \in B : s = Append(r, b)
    BY <2>1, SequenceEmptyOrAppend
  <2>3. Len(r) = n
    BY <2>2
  <2>4. QED
    BY <1>2, <2>2, <2>3
<1> HIDE DEF N
<1>3. Nat \subseteq N
  BY <1>1, <1>2, SetInduction
<1>4. QED
  BY <1>3 DEF N

-----------------------------------------------------------------------------
(* Sequences of sequences, end to end                                      *)

Catenate(A) == [p \in Seq(A) \X Seq(A) |-> p[1] \o p[2]]

LEMMA CatenateClosed ==
  ASSUME NEW A
  PROVE  /\ Closed(Catenate(A), Seq(A), Seq(A))
         /\ \A x, y \in Seq(A) : Catenate(A)[<<x, y>>] = x \o y
<1>1. ASSUME NEW x \in Seq(A), NEW y \in Seq(A)
      PROVE  Catenate(A)[<<x, y>>] = x \o y
  <2>1. <<x, y>> \in Seq(A) \X Seq(A) /\ <<x, y>>[1] = x /\ <<x, y>>[2] = y
    OBVIOUS
  <2>2. QED
    BY <2>1 DEF Catenate
<1>2. \A x, y \in Seq(A) : x \o y \in Seq(A)
  OBVIOUS
<1>3. QED
  BY <1>1, <1>2 DEF Closed

LEMMA CatenateFolded ==
  ASSUME NEW A
  PROVE  /\ Folded(Catenate(A), <<>>, <<>>) = <<>>
         /\ \A ss \in Seq(Seq(A)) :
              /\ Folded(Catenate(A), <<>>, ss) \in Seq(A)
              /\ \E f \in [0..Len(ss) -> Seq(A)] :
                   /\ \A n \in 0..Len(ss) :
                        f[n] = IF n = 0 THEN <<>> ELSE Catenate(A)[<<f[n - 1], ss[n]>>]
                   /\ Folded(Catenate(A), <<>>, ss) = f[Len(ss)]
         /\ \A ss \in Seq(Seq(A)), s \in Seq(A) :
              Folded(Catenate(A), <<>>, Append(ss, s))
                = Catenate(A)[<<Folded(Catenate(A), <<>>, ss), s>>]
<1> DEFINE X == Seq(A)
           step == Catenate(A)
           e == <<>>
<1>1. e \in X
  OBVIOUS
<1>2. Closed(step, X, X)
  BY CatenateClosed
<1> HIDE DEF X, step, e
<1>3. /\ Folded(step, e, <<>>) = e
      /\ \A ss \in Seq(X) : Folded(step, e, ss) \in X
      /\ \A ss \in Seq(X), s \in X :
           Folded(step, e, Append(ss, s)) = step[<<Folded(step, e, ss), s>>]
  BY <1>1, <1>2, FoldedFacts
<1>4. \A ss \in Seq(X) :
        \E f \in [0..Len(ss) -> X] :
          /\ \A n \in 0..Len(ss) : f[n] = IF n = 0 THEN e ELSE step[<<f[n - 1], ss[n]>>]
          /\ Folded(step, e, ss) = f[Len(ss)]
  BY <1>1, <1>2, FoldedIs
<1>5. QED
  BY <1>3, <1>4 DEF X, step, e

LEMMA FlattenIsFolded ==
  ASSUME NEW A, NEW ss \in Seq(Seq(A))
  PROVE  FlattenSeq(ss) = Folded(Catenate(A), <<>>, ss)
<1>1. CASE ss = <<>>
  BY <1>1, CatenateFolded DEF FlattenSeq
<1>2. CASE ss # <<>>
  <2> DEFINE Rec(f) == f = [i \in 1..Len(ss) |-> IF i = 1 THEN ss[i] ELSE f[i - 1] \o ss[i]]
             c == CHOOSE f : Rec(f)
  <2>1. FlattenSeq(ss) = c[Len(ss)]
    BY <1>2 DEF FlattenSeq
  <2>2. PICK f \in [0..Len(ss) -> Seq(A)] :
           /\ \A n \in 0..Len(ss) :
                f[n] = IF n = 0 THEN <<>> ELSE Catenate(A)[<<f[n - 1], ss[n]>>]
           /\ Folded(Catenate(A), <<>>, ss) = f[Len(ss)]
    BY CatenateFolded
  <2> DEFINE g == [i \in 1..Len(ss) |-> f[i]]
  <2>3. ASSUME NEW i \in 1..Len(ss)
        PROVE  g[i] = IF i = 1 THEN ss[i] ELSE g[i - 1] \o ss[i]
    <3>1. f[i] = f[i - 1] \o ss[i] /\ f[0] = <<>>
      <4>1. i \in 0..Len(ss) /\ 0 \in 0..Len(ss) /\ i # 0 /\ i - 1 \in 0..Len(ss)
        OBVIOUS
      <4>2. f[i - 1] \in Seq(A)
        BY <2>2, <4>1
      <4>3. ss[i] \in Seq(A)
        OBVIOUS
      <4>4. f[i] = Catenate(A)[<<f[i - 1], ss[i]>>] /\ f[0] = <<>>
        BY <2>2, <4>1
      <4>5. QED
        BY <4>2, <4>3, <4>4, CatenateClosed
    <3>2. ss[i] \in Seq(A)
      OBVIOUS
    <3>3. CASE i = 1
      <4>1. f[i] = <<>> \o ss[i]
        <5>1. f[i - 1] = f[0]
          BY <3>3
        <5>2. QED
          BY <3>1, <5>1
      <4>2. f[i] = ss[i]
        BY <3>2, <4>1, ConcatEmptySeq
      <4>3. QED
        BY <3>3, <4>2
    <3>4. CASE i # 1
      <4>1. i - 1 \in 1..Len(ss)
        BY <3>4
      <4>2. g[i] = f[i] /\ g[i - 1] = f[i - 1]
        BY <4>1
      <4>3. QED
        BY <3>1, <3>4, <4>2
    <3>5. QED
      BY <3>3, <3>4
  <2>4. Rec(g)
    <3> HIDE DEF g
    <3>1. g = [i \in 1..Len(ss) |-> g[i]]
      BY DEF g
    <3>2. QED
      BY <2>3, <3>1
  <2>5. Rec(c)
    BY <2>4
  <2> HIDE DEF c, g
  <2>6. Len(ss) \in 1..Len(ss)
    BY <1>2
  <2>7. \A i \in 1..Len(ss) : /\ c[i] = IF i = 1 THEN ss[i] ELSE c[i - 1] \o ss[i]
                              /\ g[i] = IF i = 1 THEN ss[i] ELSE g[i - 1] \o ss[i]
    BY <2>3, <2>5
  <2> DEFINE T == {n \in Nat : n + 1 <= Len(ss) => c[n + 1] = g[n + 1]}
  <2>8. 0 \in T
    BY <2>6, <2>7
  <2>9. ASSUME NEW n \in Nat, n \in T
        PROVE  n + 1 \in T
    <3>1. n + 2 <= Len(ss) => n + 2 \in 1..Len(ss) /\ (n + 2) - 1 = n + 1 /\ n + 2 # 1
      OBVIOUS
    <3>2. QED
      BY <2>7, <2>9, <3>1
  <2> HIDE DEF T
  <2>10. Len(ss) - 1 \in T
    <3>1. Nat \subseteq T
      BY <2>8, <2>9, SetInduction
    <3>2. Len(ss) - 1 \in Nat
      BY <2>6
    <3>3. QED
      BY <3>1, <3>2
  <2>11. c[Len(ss)] = g[Len(ss)]
    BY <2>6, <2>10 DEF T
  <2>12. QED
    BY <2>1, <2>2, <2>6, <2>11 DEF g
<1>3. QED
  BY <1>1, <1>2

LEMMA FlattenFacts ==
  ASSUME NEW A
  PROVE  /\ FlattenSeq(<<>>) = <<>>
         /\ \A ss \in Seq(Seq(A)) : FlattenSeq(ss) \in Seq(A)
         /\ \A ss \in Seq(Seq(A)), s \in Seq(A) :
              FlattenSeq(Append(ss, s)) = FlattenSeq(ss) \o s
<1>1. FlattenSeq(<<>>) = <<>>
  BY DEF FlattenSeq
<1>2. \A ss \in Seq(Seq(A)) : FlattenSeq(ss) \in Seq(A)
  BY FlattenIsFolded, CatenateFolded
<1>3. ASSUME NEW ss \in Seq(Seq(A)), NEW s \in Seq(A)
      PROVE  FlattenSeq(Append(ss, s)) = FlattenSeq(ss) \o s
  <2>1. Append(ss, s) \in Seq(Seq(A))
    OBVIOUS
  <2>2. FlattenSeq(Append(ss, s)) = Catenate(A)[<<FlattenSeq(ss), s>>]
    <3>1. FlattenSeq(Append(ss, s)) = Folded(Catenate(A), <<>>, Append(ss, s))
      BY <2>1, FlattenIsFolded
    <3>2. FlattenSeq(ss) = Folded(Catenate(A), <<>>, ss)
      BY FlattenIsFolded
    <3>3. QED
      BY <3>1, <3>2, CatenateFolded
  <2>3. QED
    BY <1>2, <2>2, CatenateClosed
<1>4. QED
  BY <1>1, <1>2, <1>3

LEMMA FlattenConcat ==
  ASSUME NEW A, NEW ss \in Seq(Seq(A)), NEW tt \in Seq(Seq(A))
  PROVE  FlattenSeq(ss \o tt) = FlattenSeq(ss) \o FlattenSeq(tt)
<1> DEFINE T == {t \in Seq(Seq(A)) : FlattenSeq(ss \o t) = FlattenSeq(ss) \o FlattenSeq(t)}
<1>1. <<>> \in T
  <2>1. ss \o <<>> = ss /\ FlattenSeq(<<>>) = <<>> /\ FlattenSeq(ss) \in Seq(A)
    BY FlattenFacts, ConcatEmptySeq
  <2>2. FlattenSeq(ss) \o <<>> = FlattenSeq(ss)
    BY <2>1, ConcatEmptySeq
  <2>3. <<>> \in Seq(Seq(A))
    OBVIOUS
  <2>4. QED
    BY <2>1, <2>2, <2>3
<1>2. ASSUME NEW t \in Seq(Seq(A)), NEW s \in Seq(A), t \in T
      PROVE  Append(t, s) \in T
  <2>1. /\ Append(t, s) \in Seq(Seq(A)) /\ ss \o t \in Seq(Seq(A))
    OBVIOUS
  <2>2. ss \o Append(t, s) = Append(ss \o t, s)
    OBVIOUS
  <2>3. FlattenSeq(ss \o Append(t, s)) = FlattenSeq(ss \o t) \o s
    BY <2>1, <2>2, FlattenFacts
  <2>4. FlattenSeq(Append(t, s)) = FlattenSeq(t) \o s
    BY <2>1, FlattenFacts
  <2>5. FlattenSeq(ss) \in Seq(A) /\ FlattenSeq(t) \in Seq(A)
    BY FlattenFacts
  <2>6. (FlattenSeq(ss) \o FlattenSeq(t)) \o s = FlattenSeq(ss) \o (FlattenSeq(t) \o s)
    BY <2>5, ConcatAssociative
  <2>7. QED
    BY <1>2, <2>1, <2>3, <2>4, <2>6
<1> HIDE DEF T
<1>3. Seq(Seq(A)) \subseteq T
  BY <1>1, <1>2, SeqInduction
<1>4. QED
  BY <1>3 DEF T

LEMMA FlattenOne ==
  ASSUME NEW A, NEW s \in Seq(A)
  PROVE  FlattenSeq(<<s>>) = s
<1>1. <<>> \in Seq(Seq(A))
  OBVIOUS
<1>2. <<s>> = Append(<<>>, s)
  OBVIOUS
<1>3. FlattenSeq(<<s>>) = <<>> \o s
  BY <1>1, <1>2, FlattenFacts
<1>4. QED
  BY <1>3, ConcatEmptySeq

-----------------------------------------------------------------------------
(* The pieces of a sequence of bytes                                       *)

PieceSeqs == Seq(Seq(Bytes))

ByteAdder == [p \in PieceSeqs \X Bytes |-> AddByte(p[1], p[2])]

LEMMA AddByteType ==
  ASSUME NEW pieces \in PieceSeqs, NEW b \in Bytes
  PROVE  /\ AddByte(pieces, b) \in PieceSeqs
         /\ ByteAdder[<<pieces, b>>] = AddByte(pieces, b)
<1>1. <<b>> \in Seq(Bytes)
  OBVIOUS
<1>2. Append(pieces, <<b>>) \in PieceSeqs
  BY <1>1 DEF PieceSeqs
<1>3. CASE pieces # <<>>
  <2>1. pieces[Len(pieces)] \in Seq(Bytes) /\ Len(pieces) \in DOMAIN pieces
    BY <1>3 DEF PieceSeqs
  <2>2. Append(pieces[Len(pieces)], b) \in Seq(Bytes)
    BY <2>1
  <2>3. [pieces EXCEPT ![Len(pieces)] = Append(@, b)] \in PieceSeqs
    BY <2>1, <2>2 DEF PieceSeqs
  <2>4. QED
    BY <1>2, <2>3 DEF AddByte, ByteAdder
<1>4. CASE pieces = <<>>
  BY <1>2, <1>4 DEF AddByte, ByteAdder
<1>5. QED
  BY <1>3, <1>4

LEMMA ByteAdderFolded ==
  /\ Folded(ByteAdder, <<>>, <<>>) = <<>>
  /\ \A s \in Seq(Bytes) :
       /\ Folded(ByteAdder, <<>>, s) \in PieceSeqs
       /\ Pieces(s) = Folded(ByteAdder, <<>>, s)
  /\ \A s \in Seq(Bytes), b \in Bytes :
       Folded(ByteAdder, <<>>, Append(s, b)) = ByteAdder[<<Folded(ByteAdder, <<>>, s), b>>]
<1> DEFINE e == <<>>
<1>1. e \in PieceSeqs
  BY DEF PieceSeqs
<1>2. Closed(ByteAdder, PieceSeqs, Bytes)
  BY AddByteType DEF Closed
<1> HIDE DEF e
<1>3. /\ Folded(ByteAdder, e, <<>>) = e
      /\ \A s \in Seq(Bytes) : Folded(ByteAdder, e, s) \in PieceSeqs
      /\ \A s \in Seq(Bytes), b \in Bytes :
           Folded(ByteAdder, e, Append(s, b)) = ByteAdder[<<Folded(ByteAdder, e, s), b>>]
  BY <1>1, <1>2, FoldedFacts
<1>4. ASSUME NEW s \in Seq(Bytes)
      PROVE  Pieces(s) = Folded(ByteAdder, e, s)
  <2> DEFINE Rec(f) == f = [n \in 0..Len(s) |-> IF n = 0 THEN <<>> ELSE AddByte(f[n - 1], s[n])]
             c == CHOOSE f : Rec(f)
  <2>1. Pieces(s) = c[Len(s)]
    BY DEF Pieces
  <2>2. PICK f \in [0..Len(s) -> PieceSeqs] :
           /\ \A n \in 0..Len(s) : f[n] = IF n = 0 THEN e ELSE ByteAdder[<<f[n - 1], s[n]>>]
           /\ Folded(ByteAdder, e, s) = f[Len(s)]
    BY <1>1, <1>2, FoldedIs
  <2>3. ASSUME NEW n \in 0..Len(s)
        PROVE  f[n] = IF n = 0 THEN <<>> ELSE AddByte(f[n - 1], s[n])
    <3>1. CASE n = 0
      BY <2>2, <3>1 DEF e
    <3>2. CASE n # 0
      <4>1. n - 1 \in 0..Len(s) /\ n \in 1..Len(s)
        BY <3>2
      <4>2. f[n - 1] \in PieceSeqs
        BY <4>1
      <4>3. s[n] \in Bytes
        BY <4>1
      <4>4. QED
        BY <2>2, <3>2, <4>2, <4>3, AddByteType
    <3>3. QED
      BY <3>1, <3>2
  <2>4. Rec(f)
    BY <2>3
  <2>5. Rec(c)
    BY <2>4
  <2> HIDE DEF c
  <2>6. \A n \in 0..Len(s) : c[n] = IF n = 0 THEN <<>> ELSE AddByte(c[n - 1], s[n])
    BY <2>5
  <2>7. c[0] = e
    BY <2>6 DEF e
  <2>8. ASSUME NEW n \in 1..Len(s), c[n - 1] \in PieceSeqs
        PROVE  c[n] = ByteAdder[<<c[n - 1], s[n]>>]
    <3>1. n \in 0..Len(s) /\ n # 0
      OBVIOUS
    <3>2. s[n] \in Bytes
      OBVIOUS
    <3>3. QED
      BY <2>6, <2>8, <3>1, <3>2, AddByteType
  <2>9. QED
    BY <1>1, <1>2, <2>1, <2>7, <2>8, EndsFolded
<1>5. QED
  BY <1>3, <1>4 DEF e

LEMMA PiecesFacts ==
  /\ Pieces(<<>>) = <<>>
  /\ \A s \in Seq(Bytes) : Pieces(s) \in PieceSeqs
  /\ \A s \in Seq(Bytes), b \in Bytes : Pieces(Append(s, b)) = AddByte(Pieces(s), b)
<1>1. <<>> \in Seq(Bytes)
  OBVIOUS
<1>2. \A s \in Seq(Bytes) : Pieces(s) \in PieceSeqs
  BY ByteAdderFolded
<1>3. ASSUME NEW s \in Seq(Bytes), NEW b \in Bytes
      PROVE  Pieces(Append(s, b)) = AddByte(Pieces(s), b)
  <2>1. Append(s, b) \in Seq(Bytes)
    OBVIOUS
  <2>2. Pieces(Append(s, b)) = ByteAdder[<<Pieces(s), b>>]
    BY <2>1, ByteAdderFolded
  <2>3. QED
    BY <1>2, <2>2, AddByteType
<1>4. QED
  BY <1>1, <1>2, <1>3, ByteAdderFolded

-----------------------------------------------------------------------------
(* Escaping and back                                                       *)

Unescaping == [out : Seq(Bytes), escaping : BOOLEAN, bad : BOOLEAN]

ByteUnescaper == [p \in Unescaping \X Bytes |-> UnescapeByte(p[1], p[2])]

LEMMA UnescapeByteType ==
  ASSUME NEW u \in Unescaping, NEW b \in Bytes
  PROVE  /\ UnescapeByte(u, b) \in Unescaping
         /\ ByteUnescaper[<<u, b>>] = UnescapeByte(u, b)
<1>1. Term \in Bytes /\ Esc \in Bytes
  BY DEF Bytes
<1>2. /\ Append(u.out, b) \in Seq(Bytes)
      /\ Append(u.out, IF b = EscTerm THEN Term ELSE Esc) \in Seq(Bytes)
  BY <1>1 DEF Unescaping
<1>3. UnescapeByte(u, b) \in Unescaping
  BY <1>2 DEF UnescapeByte, Unescaping
<1>4. QED
  BY <1>3 DEF ByteUnescaper

LEMMA ByteUnescaperFolded ==
  /\ Folded(ByteUnescaper, Fresh, <<>>) = Fresh
  /\ \A s \in Seq(Bytes) :
       /\ Folded(ByteUnescaper, Fresh, s) \in Unescaping
       /\ Unescape(s) = Folded(ByteUnescaper, Fresh, s)
  /\ \A s \in Seq(Bytes), b \in Bytes :
       Folded(ByteUnescaper, Fresh, Append(s, b))
         = ByteUnescaper[<<Folded(ByteUnescaper, Fresh, s), b>>]
<1>1. Fresh \in Unescaping
  BY DEF Fresh, Unescaping
<1>2. Closed(ByteUnescaper, Unescaping, Bytes)
  BY UnescapeByteType DEF Closed
<1>3. /\ Folded(ByteUnescaper, Fresh, <<>>) = Fresh
      /\ \A s \in Seq(Bytes) : Folded(ByteUnescaper, Fresh, s) \in Unescaping
      /\ \A s \in Seq(Bytes), b \in Bytes :
           Folded(ByteUnescaper, Fresh, Append(s, b))
             = ByteUnescaper[<<Folded(ByteUnescaper, Fresh, s), b>>]
  BY <1>1, <1>2, FoldedFacts
<1>4. ASSUME NEW s \in Seq(Bytes)
      PROVE  Unescape(s) = Folded(ByteUnescaper, Fresh, s)
  <2> DEFINE Rec(f) == f = [n \in 0..Len(s) |-> IF n = 0 THEN Fresh
                                                ELSE UnescapeByte(f[n - 1], s[n])]
             c == CHOOSE f : Rec(f)
  <2>1. Unescape(s) = c[Len(s)]
    BY DEF Unescape
  <2>2. PICK f \in [0..Len(s) -> Unescaping] :
           /\ \A n \in 0..Len(s) :
                f[n] = IF n = 0 THEN Fresh ELSE ByteUnescaper[<<f[n - 1], s[n]>>]
           /\ Folded(ByteUnescaper, Fresh, s) = f[Len(s)]
    BY <1>1, <1>2, FoldedIs
  <2>3. ASSUME NEW n \in 0..Len(s)
        PROVE  f[n] = IF n = 0 THEN Fresh ELSE UnescapeByte(f[n - 1], s[n])
    <3>1. CASE n = 0
      BY <2>2, <3>1
    <3>2. CASE n # 0
      <4>1. n - 1 \in 0..Len(s) /\ n \in 1..Len(s)
        BY <3>2
      <4>2. f[n - 1] \in Unescaping
        BY <4>1
      <4>3. s[n] \in Bytes
        BY <4>1
      <4>4. QED
        BY <2>2, <3>2, <4>2, <4>3, UnescapeByteType
    <3>3. QED
      BY <3>1, <3>2
  <2>4. Rec(f)
    BY <2>3
  <2>5. Rec(c)
    BY <2>4
  <2> HIDE DEF c
  <2>6. \A n \in 0..Len(s) : c[n] = IF n = 0 THEN Fresh ELSE UnescapeByte(c[n - 1], s[n])
    BY <2>5
  <2>7. c[0] = Fresh
    BY <2>6
  <2>8. ASSUME NEW n \in 1..Len(s), c[n - 1] \in Unescaping
        PROVE  c[n] = ByteUnescaper[<<c[n - 1], s[n]>>]
    <3>1. n \in 0..Len(s) /\ n # 0
      OBVIOUS
    <3>2. s[n] \in Bytes
      OBVIOUS
    <3>3. QED
      BY <2>6, <2>8, <3>1, <3>2, UnescapeByteType
  <2>9. QED
    BY <1>1, <1>2, <2>1, <2>7, <2>8, EndsFolded
<1>5. QED
  BY <1>3, <1>4

LEMMA UnescapeFacts ==
  /\ Unescape(<<>>) = Fresh
  /\ \A s \in Seq(Bytes) : Unescape(s) \in Unescaping
  /\ \A s \in Seq(Bytes), b \in Bytes : Unescape(Append(s, b)) = UnescapeByte(Unescape(s), b)
<1>1. <<>> \in Seq(Bytes)
  OBVIOUS
<1>2. \A s \in Seq(Bytes) : Unescape(s) \in Unescaping
  BY ByteUnescaperFolded
<1>3. ASSUME NEW s \in Seq(Bytes), NEW b \in Bytes
      PROVE  Unescape(Append(s, b)) = UnescapeByte(Unescape(s), b)
  <2>1. Append(s, b) \in Seq(Bytes)
    OBVIOUS
  <2>2. Unescape(Append(s, b)) = ByteUnescaper[<<Unescape(s), b>>]
    BY <2>1, ByteUnescaperFolded
  <2>3. QED
    BY <1>2, <2>2, UnescapeByteType
<1>4. QED
  BY <1>1, <1>2, <1>3, ByteUnescaperFolded

LEMMA EscapeType ==
  ASSUME NEW b \in Bytes
  PROVE  /\ Escape(b) \in Seq(Bytes) /\ Len(Escape(b)) >= 1
         /\ \A i \in 1..Len(Escape(b)) : Escape(b)[i] # Term
<1>1. {Term, Esc, EscTerm, EscEsc} \subseteq Bytes
  BY DEF Bytes
<1>2. Escape(b) \in {<<Esc, EscTerm>>, <<Esc, EscEsc>>} \/ (Escape(b) = <<b>> /\ b # Term)
  BY DEF Escape
<1>3. /\ <<Esc, EscTerm>> \in Seq(Bytes) /\ <<Esc, EscEsc>> \in Seq(Bytes)
      /\ <<b>> \in Seq(Bytes)
  BY <1>1
<1>4. CASE Escape(b) = <<Esc, EscTerm>>
  <2>1. Len(Escape(b)) = 2 /\ Escape(b)[1] = Esc /\ Escape(b)[2] = EscTerm
    BY <1>4
  <2>2. \A i \in 1..2 : i = 1 \/ i = 2
    OBVIOUS
  <2>3. \A i \in 1..2 : Escape(b)[i] # Term
    BY <2>1, <2>2 DEF Term, Esc, EscTerm
  <2>4. QED
    BY <1>3, <1>4, <2>1, <2>3
<1>5. CASE Escape(b) = <<Esc, EscEsc>>
  <2>1. Len(Escape(b)) = 2 /\ Escape(b)[1] = Esc /\ Escape(b)[2] = EscEsc
    BY <1>5
  <2>2. \A i \in 1..2 : i = 1 \/ i = 2
    OBVIOUS
  <2>3. \A i \in 1..2 : Escape(b)[i] # Term
    BY <2>1, <2>2 DEF Term, Esc, EscEsc
  <2>4. QED
    BY <1>3, <1>5, <2>1, <2>3
<1>6. CASE Escape(b) = <<b>> /\ b # Term
  <2>1. Len(Escape(b)) = 1 /\ Escape(b)[1] = b
    BY <1>6
  <2>2. \A i \in 1..1 : i = 1
    OBVIOUS
  <2>3. \A i \in 1..1 : Escape(b)[i] # Term
    BY <1>6, <2>1, <2>2
  <2>4. QED
    BY <1>3, <1>6, <2>1, <2>3
<1>7. QED
  BY <1>2, <1>4, <1>5, <1>6

LEMMA EscapeAllFacts ==
  /\ EscapeAll(<<>>) = <<>>
  /\ \A s \in Seq(Bytes) : EscapeAll(s) \in Seq(Bytes)
  /\ \A s \in Seq(Bytes), b \in Bytes : EscapeAll(Append(s, b)) = EscapeAll(s) \o Escape(b)
<1> DEFINE Each(s) == [i \in DOMAIN s |-> Escape(s[i])]
<1>1. \A s \in Seq(Bytes) : Each(s) \in Seq(Seq(Bytes)) /\ Len(Each(s)) = Len(s)
  <2> SUFFICES ASSUME NEW s \in Seq(Bytes)
               PROVE  Each(s) \in Seq(Seq(Bytes)) /\ Len(Each(s)) = Len(s)
    OBVIOUS
  <2>1. \A i \in 1..Len(s) : Escape(s[i]) \in Seq(Bytes)
    BY EscapeType
  <2>2. QED
    BY <2>1
<1>2. \A s \in Seq(Bytes) : EscapeAll(s) = FlattenSeq(Each(s))
  BY DEF EscapeAll
<1>3. ASSUME NEW s \in Seq(Bytes), NEW b \in Bytes
      PROVE  EscapeAll(Append(s, b)) = EscapeAll(s) \o Escape(b)
  <2>1. Escape(b) \in Seq(Bytes) /\ Append(s, b) \in Seq(Bytes)
    BY EscapeType
  <2>2. Each(Append(s, b)) = Append(Each(s), Escape(b))
    <3>1. /\ Each(Append(s, b)) \in Seq(Seq(Bytes)) /\ Append(Each(s), Escape(b)) \in Seq(Seq(Bytes))
          /\ Len(Each(Append(s, b))) = Len(s) + 1
          /\ Len(Append(Each(s), Escape(b))) = Len(s) + 1
      BY <1>1, <2>1
    <3>2. \A i \in 1..(Len(s) + 1) : Each(Append(s, b))[i] = Append(Each(s), Escape(b))[i]
      BY <1>1, <2>1
    <3> HIDE DEF Each
    <3>3. QED
      BY <3>1, <3>2, SeqEqual
  <2> HIDE DEF Each
  <2>3. QED
    BY <1>1, <1>2, <2>1, <2>2, FlattenFacts
<1>4. EscapeAll(<<>>) = <<>>
  <2>1. Each(<<>>) = <<>>
    OBVIOUS
  <2>2. QED
    BY <2>1, FlattenFacts DEF EscapeAll
<1>5. QED
  BY <1>1, <1>2, <1>3, <1>4, FlattenFacts

\* No terminator inside a frame
LEMMA EscapeAllHidesTerm ==
  ASSUME NEW s \in Seq(Bytes)
  PROVE  /\ Len(EscapeAll(s)) >= Len(s)
         /\ \A i \in 1..Len(EscapeAll(s)) : EscapeAll(s)[i] # Term
<1> DEFINE T == {x \in Seq(Bytes) : /\ Len(EscapeAll(x)) >= Len(x)
                                    /\ \A i \in 1..Len(EscapeAll(x)) : EscapeAll(x)[i] # Term}
<1>1. <<>> \in T
  BY EscapeAllFacts
<1>2. ASSUME NEW x \in Seq(Bytes), NEW b \in Bytes, x \in T
      PROVE  Append(x, b) \in T
  <2>1. /\ EscapeAll(x) \in Seq(Bytes) /\ EscapeAll(Append(x, b)) = EscapeAll(x) \o Escape(b)
        /\ Append(x, b) \in Seq(Bytes) /\ Len(Append(x, b)) = Len(x) + 1
    BY EscapeAllFacts
  <2>2. /\ Escape(b) \in Seq(Bytes) /\ Len(Escape(b)) >= 1
        /\ \A i \in 1..Len(Escape(b)) : Escape(b)[i] # Term
    BY EscapeType
  <2> DEFINE e == EscapeAll(x)
             f == Escape(b)
  <2>3. e \in Seq(Bytes) /\ f \in Seq(Bytes)
    BY <2>1, <2>2
  <2>4. /\ Len(e) >= Len(x) /\ \A i \in 1..Len(e) : e[i] # Term
        /\ Len(f) >= 1 /\ \A i \in 1..Len(f) : f[i] # Term
    BY <1>2, <2>2
  <2>5. EscapeAll(Append(x, b)) = e \o f
    BY <2>1
  <2> HIDE DEF e, f
  <2>6. Len(e \o f) >= Len(x) + 1
    BY <2>3, <2>4
  <2>7. \A i \in 1..Len(e \o f) : (e \o f)[i] # Term
    BY <2>3, <2>4
  <2>8. QED
    BY <2>1, <2>5, <2>6, <2>7
<1> HIDE DEF T
<1>3. Seq(Bytes) \subseteq T
  BY <1>1, <1>2, SeqInduction
<1>4. QED
  BY <1>3 DEF T

\* One escaped byte more is one byte more.
LEMMA UnescapeEscaped ==
  ASSUME NEW x \in Seq(Bytes), NEW b \in Bytes, NEW s \in Seq(Bytes),
         Unescape(x) = [out |-> s, escaping |-> FALSE, bad |-> FALSE]
  PROVE  Unescape(x \o Escape(b)) = [out |-> Append(s, b), escaping |-> FALSE, bad |-> FALSE]
<1> DEFINE After(o, e) == [out |-> o, escaping |-> e, bad |-> FALSE]
<1>1. {Term, Esc, EscTerm, EscEsc} \subseteq Bytes
  BY DEF Bytes
<1>2. ASSUME NEW c \in {EscTerm, EscEsc}
      PROVE  Unescape(x \o <<Esc, c>>)
               = After(Append(s, IF c = EscTerm THEN Term ELSE Esc), FALSE)
  <2>1. Append(x, Esc) \in Seq(Bytes) /\ c \in Bytes /\ Esc \in Bytes
    BY <1>1
  <2>2. x \o <<Esc, c>> = Append(Append(x, Esc), c)
    BY <2>1
  <2>3. Unescape(Append(x, Esc)) = After(s, TRUE)
    <3>1. Unescape(Append(x, Esc)) = UnescapeByte(After(s, FALSE), Esc)
      BY <2>1, UnescapeFacts
    <3>2. UnescapeByte(After(s, FALSE), Esc) = After(s, TRUE)
      BY DEF UnescapeByte
    <3>3. QED
      BY <3>1, <3>2
  <2>4. Unescape(Append(Append(x, Esc), c)) = UnescapeByte(After(s, TRUE), c)
    BY <2>1, <2>3, UnescapeFacts
  <2>5. UnescapeByte(After(s, TRUE), c)
          = After(Append(s, IF c = EscTerm THEN Term ELSE Esc), FALSE)
    BY DEF UnescapeByte
  <2>6. QED
    BY <2>2, <2>4, <2>5
<1>3. CASE b = Term
  <2>1. Escape(b) = <<Esc, EscTerm>>
    BY <1>3 DEF Escape, Term, Esc
  <2>2. QED
    BY <1>2, <1>3, <2>1
<1>4. CASE b = Esc
  <2>1. Escape(b) = <<Esc, EscEsc>> /\ EscEsc # EscTerm
    BY <1>4 DEF Escape, Term, Esc, EscTerm, EscEsc
  <2>2. QED
    BY <1>2, <1>4, <2>1
<1>5. CASE b # Term /\ b # Esc
  <2>1. Escape(b) = <<b>> /\ x \o <<b>> = Append(x, b)
    BY <1>5 DEF Escape
  <2>2. Unescape(Append(x, b)) = UnescapeByte(After(s, FALSE), b)
    BY UnescapeFacts
  <2>3. UnescapeByte(After(s, FALSE), b) = After(Append(s, b), FALSE)
    BY <1>5 DEF UnescapeByte
  <2>4. QED
    BY <2>1, <2>2, <2>3
<1>6. QED
  BY <1>3, <1>4, <1>5

LEMMA UnescapesEscaped ==
  ASSUME NEW s \in Seq(Bytes)
  PROVE  Unescape(EscapeAll(s)) = [out |-> s, escaping |-> FALSE, bad |-> FALSE]
<1> DEFINE T == {x \in Seq(Bytes) :
                   Unescape(EscapeAll(x)) = [out |-> x, escaping |-> FALSE, bad |-> FALSE]}
<1>1. <<>> \in T
  BY EscapeAllFacts, UnescapeFacts DEF Fresh
<1>2. ASSUME NEW x \in Seq(Bytes), NEW b \in Bytes, x \in T
      PROVE  Append(x, b) \in T
  <2>1. EscapeAll(x) \in Seq(Bytes) /\ EscapeAll(Append(x, b)) = EscapeAll(x) \o Escape(b)
    BY EscapeAllFacts
  <2>2. Append(x, b) \in Seq(Bytes)
    OBVIOUS
  <2>3. Unescape(EscapeAll(x)) = [out |-> x, escaping |-> FALSE, bad |-> FALSE]
    BY <1>2
  <2>4. Unescape(EscapeAll(x) \o Escape(b))
          = [out |-> Append(x, b), escaping |-> FALSE, bad |-> FALSE]
    <3> DEFINE y == EscapeAll(x)
    <3>1. y \in Seq(Bytes)
      BY <2>1
    <3>2. Unescape(y) = [out |-> x, escaping |-> FALSE, bad |-> FALSE]
      BY <2>3
    <3> HIDE DEF y
    <3>3. Unescape(y \o Escape(b)) = [out |-> Append(x, b), escaping |-> FALSE, bad |-> FALSE]
      BY <3>1, <3>2, UnescapeEscaped
    <3>4. QED
      BY <3>3 DEF y
  <2>5. QED
    BY <2>1, <2>2, <2>4
<1> HIDE DEF T
<1>3. Seq(Bytes) \subseteq T
  BY <1>1, <1>2, SeqInduction
<1>4. QED
  BY <1>3 DEF T

\* What hdlc_encapsulate makes of a message, hdlc_decapsulate takes apart again,
\* whatever bytes the message and its checksum consist of (hdlc.rs:29-94).
THEOREM RoundTrip ==
  ASSUME NEW data \in Seq(Bytes), Crc(data) \in Seq(Bytes), Len(Crc(data)) = 2
  PROVE  Decapsulate(Encapsulate(data)) = Ok(data)
<1> DEFINE all == data \o Crc(data)
           e == EscapeAll(all)
           c == Crc(data)
<1>1. c \in Seq(Bytes) /\ all \in Seq(Bytes) /\ Len(all) = Len(data) + 2
  <2>1. \A x \in Seq(Bytes) : data \o x \in Seq(Bytes) /\ Len(data \o x) = Len(data) + Len(x)
    OBVIOUS
  <2>2. QED
    BY <2>1
<1>2. e \in Seq(Bytes) /\ Len(e) >= Len(data) + 2
  <2> HIDE DEF all
  <2>1. Len(EscapeAll(all)) >= Len(all)
    BY <1>1, EscapeAllHidesTerm
  <2>2. EscapeAll(all) \in Seq(Bytes)
    BY <1>1, EscapeAllFacts
  <2>3. QED
    BY <1>1, <2>1, <2>2
<1>3. Unescape(e) = [out |-> all, escaping |-> FALSE, bad |-> FALSE]
  <2> HIDE DEF all
  <2>1. QED
    BY <1>1, UnescapesEscaped
<1>4. Encapsulate(data) = e \o <<Term>>
  BY DEF Encapsulate
<1>5. SubSeq(all, 1, Len(data)) = data
  BY <1>1
<1>6. SubSeq(all, Len(data) + 1, Len(data) + 2) = c
  <2>1. /\ SubSeq(all, Len(data) + 1, Len(data) + 2) \in Seq(Bytes)
        /\ Len(SubSeq(all, Len(data) + 1, Len(data) + 2)) = 2
        /\ \A i \in 1..2 : SubSeq(all, Len(data) + 1, Len(data) + 2)[i] = all[Len(data) + i]
    BY <1>1
  <2>2. \A i \in 1..2 : all[Len(data) + i] = c[i]
    BY <1>1
  <2>3. Len(c) = 2
    OBVIOUS
  <2> HIDE DEF all, c
  <2>4. QED
    BY <1>1, <2>1, <2>2, <2>3, SeqEqual
<1> HIDE DEF all, e
<1>7. /\ Len(e \o <<Term>>) >= 3 /\ Last(e \o <<Term>>) = Term
      /\ Front(e \o <<Term>>) = e
  BY <1>2 DEF Last, Front
<1>8. Len(all) - 2 = Len(data) /\ Len(all) - 1 = Len(data) + 1 /\ Len(all) >= 2
  BY <1>1
<1>9. Decapsulate(e \o <<Term>>)
        = IF SubSeq(all, Len(all) - 1, Len(all)) = Crc(SubSeq(all, 1, Len(all) - 2))
          THEN Ok(SubSeq(all, 1, Len(all) - 2)) ELSE Failed("InvalidChecksum")
  <2> DEFINE f == e \o <<Term>>
             u == Unescape(Front(f))
  <2>1. u.out = all /\ u.bad = FALSE
    BY <1>3, <1>7
  <2>2. ~(Len(f) < 3) /\ ~(Last(f) # Term) /\ ~(Len(all) < 2)
    BY <1>1, <1>7, <1>8
  <2> HIDE DEF f
  <2>3. QED
    BY <2>1, <2>2 DEF Decapsulate, f
<1>10. /\ SubSeq(all, 1, Len(all) - 2) = data
       /\ SubSeq(all, Len(all) - 1, Len(all)) = c
  <2>1. Len(all) = Len(data) + 2
    BY <1>1
  <2>2. QED
    BY <1>5, <1>6, <1>8, <2>1
<1>11. QED
  BY <1>4, <1>9, <1>10

-----------------------------------------------------------------------------
(* What split_inclusive cuts, and where                                    *)

Whole(s) == s = <<>> \/ Last(s) = Term

LEMMA AppendLast ==
  ASSUME NEW A, NEW t \in Seq(A), NEW x \in A
  PROVE  Append(t, x) \in Seq(A) /\ Append(t, x) # <<>> /\ Last(Append(t, x)) = x
BY DEF Last

LEMMA AddByteConcat ==
  ASSUME NEW p \in PieceSeqs, NEW q \in PieceSeqs, q # <<>>, NEW b \in Bytes
  PROVE  AddByte(p \o q, b) = p \o AddByte(q, b)
<1>1. Last(p \o q) = Last(q) /\ p \o q # <<>>
  BY DEF PieceSeqs, Last
<1>2. CASE Last(Last(q)) = Term
  <2>1. AddByte(p \o q, b) = Append(p \o q, <<b>>) /\ AddByte(q, b) = Append(q, <<b>>)
    BY <1>1, <1>2 DEF AddByte
  <2>2. <<b>> \in Seq(Bytes)
    OBVIOUS
  <2>3. Append(p \o q, <<b>>) = p \o Append(q, <<b>>)
    <3> DEFINE one == <<b>>
               A == Seq(Bytes)
    <3>1. one \in A /\ p \in Seq(A) /\ q \in Seq(A)
      BY <2>2 DEF PieceSeqs
    <3> HIDE DEF one, A
    <3>2. Append(p \o q, one) = p \o Append(q, one)
      BY <3>1
    <3>3. QED
      BY <3>2 DEF one
  <2>4. QED
    BY <2>1, <2>3
<1>3. CASE Last(Last(q)) # Term
  <2> DEFINE l == Append(q[Len(q)], b)
             pq == p \o q
             x == [pq EXCEPT ![Len(pq)] = Append(@, b)]
             y == [q EXCEPT ![Len(q)] = l]
  <2>1. AddByte(p \o q, b) = x /\ AddByte(q, b) = y
    BY <1>1, <1>3 DEF AddByte
  <2>2. /\ Len(q) \in 1..Len(q) /\ Len(pq) = Len(p) + Len(q) /\ pq[Len(pq)] = q[Len(q)]
        /\ pq \in PieceSeqs /\ q[Len(q)] \in Seq(Bytes) /\ l \in Seq(Bytes)
        /\ Len(pq) \in 1..Len(pq)
    <3>1. Len(q) \in 1..Len(q) /\ Len(pq) = Len(p) + Len(q) /\ pq \in PieceSeqs
      BY DEF PieceSeqs
    <3>2. pq[Len(pq)] = q[Len(q)] /\ q[Len(q)] \in Seq(Bytes)
      BY <3>1 DEF PieceSeqs
    <3>3. l \in Seq(Bytes)
      BY <3>2
    <3>4. Len(pq) \in 1..Len(pq)
      BY <3>1 DEF PieceSeqs
    <3>5. QED
      BY <3>1, <3>2, <3>3, <3>4
  <2>3. x = [pq EXCEPT ![Len(pq)] = l]
    BY <2>2
  <2> HIDE DEF l
  <2>4. y \in PieceSeqs /\ Len(y) = Len(q) /\ y[Len(q)] = l
        /\ \A i \in 1..(Len(q) - 1) : y[i] = q[i]
    BY <2>2 DEF PieceSeqs
  <2>5. x \in PieceSeqs /\ Len(x) = Len(p) + Len(q) /\ x[Len(p) + Len(q)] = l
        /\ \A i \in 1..(Len(p) + Len(q) - 1) : x[i] = pq[i]
    <3> HIDE DEF pq, x
    <3>1. QED
      BY <2>2, <2>3 DEF PieceSeqs
  <2>6. p \o y \in PieceSeqs /\ Len(p \o y) = Len(p) + Len(q)
    <3> DEFINE A == Seq(Bytes)
    <3>1. y \in Seq(A) /\ p \in Seq(A) /\ Len(y) = Len(q)
      BY <2>4 DEF PieceSeqs
    <3> HIDE DEF y, A
    <3>2. \A f, g \in Seq(A) : f \o g \in Seq(A) /\ Len(f \o g) = Len(f) + Len(g)
      BY ConcatProperties
    <3>3. p \o y \in Seq(A)
      BY <3>1, <3>2
    <3>4. Len(p \o y) = Len(p) + Len(q)
      BY <3>1, <3>2
    <3>5. QED
      BY <3>3, <3>4 DEF A, PieceSeqs
  <2>7. ASSUME NEW i \in 1..(Len(p) + Len(q))
        PROVE  x[i] = (p \o y)[i]
    <3>1. (p \o y)[i] = IF i <= Len(p) THEN p[i] ELSE y[i - Len(p)]
      <4> HIDE DEF y
      <4>1. QED
        BY <2>4, ConcatProperties DEF PieceSeqs
    <3>2. pq[i] = IF i <= Len(p) THEN p[i] ELSE q[i - Len(p)]
      BY DEF PieceSeqs
    <3>3. Len(p) \in Nat /\ Len(q) \in Nat /\ Len(q) >= 1
      BY DEF PieceSeqs
    <3> HIDE DEF x, y, pq
    <3>4. CASE i = Len(p) + Len(q)
      <4>1. i - Len(p) = Len(q) /\ ~(i <= Len(p))
        BY <3>3, <3>4
      <4>2. QED
        BY <2>4, <2>5, <3>1, <3>4, <4>1
    <3>5. CASE i # Len(p) + Len(q)
      <4>1. i \in 1..(Len(p) + Len(q) - 1) /\ (~(i <= Len(p)) => i - Len(p) \in 1..(Len(q) - 1))
        BY <3>3, <3>5
      <4>2. QED
        BY <2>4, <2>5, <3>1, <3>2, <4>1
    <3>6. QED
      BY <3>4, <3>5
  <2> HIDE DEF x, y, pq
  <2>8. x = p \o y
    BY <2>5, <2>6, <2>7, SeqEqual DEF PieceSeqs
  <2>9. QED
    BY <2>1, <2>8
<1>4. QED
  BY <1>2, <1>3

LEMMA PiecesEnd ==
  ASSUME NEW s \in Seq(Bytes), s # <<>>
  PROVE  /\ Pieces(s) \in PieceSeqs /\ Pieces(s) # <<>>
         /\ Last(Last(Pieces(s))) = Last(s)
<1>1. PICK r \in Seq(Bytes), b \in Bytes : s = Append(r, b)
  BY SequenceEmptyOrAppend
<1> DEFINE p == Pieces(r)
<1>2. Pieces(s) = AddByte(p, b) /\ p \in PieceSeqs /\ Pieces(s) \in PieceSeqs /\ Last(s) = b
  <2>1. Pieces(s) = AddByte(p, b) /\ p \in PieceSeqs /\ Pieces(s) \in PieceSeqs
    BY <1>1, PiecesFacts
  <2>2. Last(Append(r, b)) = b
    BY DEF Last
  <2>3. QED
    BY <1>1, <2>1, <2>2
<1> HIDE DEF p
<1>3. CASE p = <<>> \/ Last(Last(p)) = Term
  <2>1. AddByte(p, b) = Append(p, <<b>>)
    BY <1>3 DEF AddByte
  <2>2. <<b>> \in Seq(Bytes) /\ Last(<<b>>) = b
    BY DEF Last
  <2>3. Append(p, <<b>>) # <<>> /\ Last(Append(p, <<b>>)) = <<b>>
    <3> DEFINE one == <<b>>
               A == Seq(Bytes)
    <3>1. one \in A /\ p \in Seq(A)
      BY <1>2, <2>2 DEF PieceSeqs
    <3> HIDE DEF one, A
    <3>2. Append(p, one) # <<>> /\ Last(Append(p, one)) = one
      BY <3>1, AppendLast
    <3>3. QED
      BY <3>2 DEF one
  <2>4. QED
    BY <1>2, <2>1, <2>2, <2>3
<1>4. CASE p # <<>> /\ Last(Last(p)) # Term
  <2>1. AddByte(p, b) = [p EXCEPT ![Len(p)] = Append(@, b)]
    BY <1>4 DEF AddByte
  <2>2. Len(p) \in 1..Len(p) /\ p[Len(p)] \in Seq(Bytes)
    BY <1>2, <1>4 DEF PieceSeqs
  <2> DEFINE l == Append(p[Len(p)], b)
  <2>3. l \in Seq(Bytes) /\ Last(l) = b
    BY <2>2 DEF Last
  <2>4. AddByte(p, b) = [p EXCEPT ![Len(p)] = l]
    BY <2>1, <2>2
  <2> HIDE DEF l
  <2>5. [p EXCEPT ![Len(p)] = l] # <<>> /\ Last([p EXCEPT ![Len(p)] = l]) = l
    BY <1>2, <2>2, <2>3 DEF Last, PieceSeqs
  <2>6. QED
    BY <1>2, <2>3, <2>4, <2>5
<1>5. QED
  BY <1>3, <1>4

LEMMA PiecesSplit ==
  ASSUME NEW a \in Seq(Bytes), Whole(a), NEW b \in Seq(Bytes)
  PROVE  Pieces(a \o b) = Pieces(a) \o Pieces(b)
<1> DEFINE T == {x \in Seq(Bytes) : Pieces(a \o x) = Pieces(a) \o Pieces(x)}
<1>0. Pieces(a) \in PieceSeqs
  BY PiecesFacts
<1>1. <<>> \in T
  <2>1. a \o <<>> = a /\ Pieces(a) \o <<>> = Pieces(a)
    BY <1>0, ConcatEmptySeq DEF PieceSeqs
  <2>2. <<>> \in Seq(Bytes) /\ Pieces(<<>>) = <<>>
    BY PiecesFacts
  <2>3. Pieces(a \o <<>>) = Pieces(a) \o Pieces(<<>>)
    BY <2>1, <2>2
  <2>4. QED
    BY <2>2, <2>3
<1>2. ASSUME NEW x \in Seq(Bytes), NEW c \in Bytes, x \in T
      PROVE  Append(x, c) \in T
  <2>1. Append(x, c) \in Seq(Bytes) /\ a \o x \in Seq(Bytes) /\ a \o Append(x, c) = Append(a \o x, c)
    OBVIOUS
  <2>2. Pieces(a \o Append(x, c)) = AddByte(Pieces(a) \o Pieces(x), c)
    BY <1>2, <2>1, PiecesFacts
  <2>3. Pieces(Append(x, c)) = AddByte(Pieces(x), c) /\ Pieces(x) \in PieceSeqs
    BY PiecesFacts
  <2>4. AddByte(Pieces(a) \o Pieces(x), c) = Pieces(a) \o AddByte(Pieces(x), c)
    <3>1. CASE x = <<>>
      <4>1. Pieces(x) = <<>> /\ Pieces(a) \o Pieces(x) = Pieces(a)
        BY <1>0, <3>1, PiecesFacts, ConcatEmptySeq DEF PieceSeqs
      <4>2. AddByte(Pieces(x), c) = Append(<<>>, <<c>>)
        BY <4>1 DEF AddByte
      <4>3. Pieces(a) = <<>> \/ Last(Last(Pieces(a))) = Term
        BY PiecesEnd, PiecesFacts DEF Whole
      <4>4. AddByte(Pieces(a), c) = Append(Pieces(a), <<c>>)
        BY <4>3 DEF AddByte
      <4>5. Append(Pieces(a), <<c>>) = Pieces(a) \o Append(<<>>, <<c>>)
        <5>1. <<c>> \in Seq(Bytes)
          OBVIOUS
        <5>2. QED
          BY <1>0, <5>1 DEF PieceSeqs
      <4>6. QED
        BY <4>1, <4>2, <4>4, <4>5
    <3>2. CASE x # <<>>
      <4>1. Pieces(x) # <<>>
        BY <3>2, PiecesEnd
      <4>2. QED
        BY <1>0, <2>3, <4>1, AddByteConcat
    <3>3. QED
      BY <3>1, <3>2
  <2>5. QED
    BY <2>1, <2>2, <2>3, <2>4
<1> HIDE DEF T
<1>3. Seq(Bytes) \subseteq T
  BY <1>1, <1>2, SeqInduction
<1>4. QED
  BY <1>3 DEF T

\* Without a terminator before its end it is one piece.
LEMMA PiecesOne ==
  ASSUME NEW s \in Seq(Bytes), s # <<>>, \A i \in 1..(Len(s) - 1) : s[i] # Term
  PROVE  Pieces(s) = <<s>>
<1> DEFINE T == {x \in Seq(Bytes) : x = <<>> \/ (\E i \in 1..(Len(x) - 1) : x[i] = Term)
                                      \/ Pieces(x) = <<x>>}
<1>1. <<>> \in T
  OBVIOUS
<1>2. ASSUME NEW x \in Seq(Bytes), NEW c \in Bytes, x \in T
      PROVE  Append(x, c) \in T
  <2> DEFINE y == Append(x, c)
  <2>1. y \in Seq(Bytes) /\ Len(y) = Len(x) + 1 /\ \A i \in 1..Len(x) : y[i] = x[i]
    OBVIOUS
  <2> SUFFICES ASSUME \A i \in 1..(Len(y) - 1) : y[i] # Term
               PROVE  Pieces(y) = <<y>>
    BY <2>1
  <2>2. Pieces(y) = AddByte(Pieces(x), c)
    BY PiecesFacts
  <2>3. CASE x = <<>>
    <3>1. y = <<c>>
      BY <2>3
    <3>2. Pieces(y) = AddByte(<<>>, c)
      BY <2>2, <2>3, PiecesFacts
    <3>3. AddByte(<<>>, c) = Append(<<>>, <<c>>)
      BY DEF AddByte
    <3>4. Append(<<>>, <<c>>) = <<<<c>>>>
      OBVIOUS
    <3>5. QED
      BY <3>1, <3>2, <3>3, <3>4
  <2>4. CASE x # <<>>
    <3>1. \A i \in 1..Len(x) : x[i] # Term
      BY <2>1
    <3>2. Len(x) \in 1..Len(x)
      BY <2>4
    <3>3. Pieces(x) = <<x>>
      <4>1. \A i \in 1..(Len(x) - 1) : i \in 1..Len(x)
        OBVIOUS
      <4>2. QED
        BY <1>2, <2>4, <3>1, <4>1
    <3>4. Last(Last(<<x>>)) # Term /\ <<x>> # <<>>
      BY <3>1, <3>2 DEF Last
    <3>5. AddByte(<<x>>, c) = [<<x>> EXCEPT ![1] = Append(@, c)]
      BY <3>4 DEF AddByte
    <3>6. QED
      BY <2>2, <3>3, <3>5
  <2>5. QED
    BY <2>3, <2>4
<1> HIDE DEF T
<1>3. s \in T
  BY <1>1, <1>2, SeqInduction
<1>4. QED
  BY <1>3 DEF T

\* The first piece goes up to the first terminator, or to the end.
LEMMA FirstPiece ==
  ASSUME NEW s \in Seq(Bytes), s # <<>>
  PROVE  \E k \in 1..Len(s) :
           /\ Head(Pieces(s)) = SubSeq(s, 1, k)
           /\ Pieces(SubSeq(s, 1, k)) = <<SubSeq(s, 1, k)>>
           /\ \A i \in 1..(k - 1) : s[i] # Term
           /\ k = Len(s) \/ s[k] = Term
<1>1. CASE \A i \in 1..Len(s) : s[i] # Term
  <2>1. Pieces(s) = <<s>>
    BY <1>1, PiecesOne
  <2>2. SubSeq(s, 1, Len(s)) = s /\ Len(s) \in 1..Len(s)
    BY SubSeqFull
  <2>3. \A i \in 1..(Len(s) - 1) : s[i] # Term
    BY <1>1
  <2>4. Head(<<s>>) = s
    OBVIOUS
  <2> WITNESS Len(s) \in 1..Len(s)
  <2>5. QED
    BY <2>1, <2>2, <2>3, <2>4
<1>2. CASE \E i \in 1..Len(s) : s[i] = Term
  <2> DEFINE P == {i \in 1..Len(s) : s[i] = Term}
  <2>1. P \in SUBSET Nat /\ P # {}
    BY <1>2
  <2>2. PICK k \in P : \A i \in P : k <= i
    <3> HIDE DEF P
    <3>1. QED
      BY <2>1, Least
  <2>3. k \in 1..Len(s) /\ s[k] = Term /\ \A i \in 1..(k - 1) : s[i] # Term
    BY <2>2
  <2> HIDE DEF P
  <2> DEFINE a == SubSeq(s, 1, k)
             b == SubSeq(s, k + 1, Len(s))
  <2>4. /\ a \in Seq(Bytes) /\ Len(a) = k /\ \A i \in 1..k : a[i] = s[i]
        /\ b \in Seq(Bytes)
    BY <2>3
  <2>5. a \o b = s
    BY <2>3, ConcatAdjacentSubSeq, SubSeqFull
  <2> HIDE DEF a, b
  <2>6. a # <<>> /\ Whole(a)
    BY <2>3, <2>4 DEF Whole, Last
  <2>7. Pieces(a) = <<a>>
    <3>1. \A i \in 1..(Len(a) - 1) : a[i] # Term
      BY <2>3, <2>4
    <3>2. QED
      BY <2>4, <2>6, <3>1, PiecesOne
  <2>8. Pieces(s) = <<a>> \o Pieces(b)
    BY <2>4, <2>5, <2>6, <2>7, PiecesSplit
  <2>9. Head(<<a>> \o Pieces(b)) = a
    <3>1. Pieces(b) \in PieceSeqs
      BY <2>4, PiecesFacts
    <3>2. QED
      BY <2>4, <3>1 DEF PieceSeqs
  <2>10. QED
    BY <2>3, <2>7, <2>8, <2>9 DEF a
<1>3. QED
  BY <1>1, <1>2

-----------------------------------------------------------------------------
(* From bytes to messages                                                  *)

\* The rows of what is written end to end
RowsOf(s) == OneFrameEach(Pieces(s))

LEMMA DecapsulateType ==
  ASSUME NEW s \in Seq(Bytes)
  PROVE  Decapsulate(s) \in Rows
<1> DEFINE u == Unescape(Front(s))
           n == Len(u.out)
           data == SubSeq(u.out, 1, n - 2)
<1>1. \A e \in {"TooShort", "NoTrailingCharacter", "InvalidEscapeSequence",
                "MissingChecksum", "InvalidChecksum"} : Failed(e) \in Rows
  BY DEF Failed, Rows
<1>2. CASE Len(s) < 3
  BY <1>1, <1>2 DEF Decapsulate
<1>3. CASE Len(s) >= 3
  <2>1. Front(s) \in Seq(Bytes)
    BY <1>3 DEF Front
  <2>2. u.out \in Seq(Bytes)
    BY <2>1, UnescapeFacts DEF Unescaping
  <2>3. data \in Seq(Bytes)
    <3> HIDE DEF u
    <3>1. \A i \in 1..(n - 2) : u.out[i] \in Bytes
      BY <2>2
    <3>2. QED
      BY <2>2, <3>1
  <2>4. Ok(data) \in Rows
    BY <2>3 DEF Ok, Rows
  <2>5. Decapsulate(s) \in {Failed(e) : e \in {"TooShort", "NoTrailingCharacter",
                            "InvalidEscapeSequence", "MissingChecksum", "InvalidChecksum"}}
        \/ Decapsulate(s) = Ok(data)
    <3> HIDE DEF u, Rows
    <3>1. QED
      BY DEF Decapsulate, u
  <2>6. QED
    BY <1>1, <2>4, <2>5
<1>4. QED
  BY <1>2, <1>3

LEMMA OneFrameEachFacts ==
  /\ OneFrameEach(<<>>) = <<>>
  /\ \A a \in PieceSeqs : OneFrameEach(a) \in Seq(Rows) /\ Len(OneFrameEach(a)) = Len(a)
  /\ \A a \in PieceSeqs, b \in PieceSeqs : OneFrameEach(a \o b) = OneFrameEach(a) \o OneFrameEach(b)
  /\ \A d \in Seq(Bytes) : OneFrameEach(<<d>>) = <<Decapsulate(d)>>
<1>1. ASSUME NEW a \in PieceSeqs
      PROVE  OneFrameEach(a) \in Seq(Rows) /\ Len(OneFrameEach(a)) = Len(a)
  <2>1. \A i \in 1..Len(a) : Decapsulate(a[i]) \in Rows
    BY DecapsulateType DEF PieceSeqs
  <2>2. QED
    BY <2>1 DEF OneFrameEach, PieceSeqs
<1>2. ASSUME NEW a \in PieceSeqs, NEW b \in PieceSeqs
      PROVE  OneFrameEach(a \o b) = OneFrameEach(a) \o OneFrameEach(b)
  <2>1. a \o b \in PieceSeqs /\ Len(a \o b) = Len(a) + Len(b)
    BY DEF PieceSeqs
  <2>2. Len(a) \in Nat /\ Len(b) \in Nat
    BY DEF PieceSeqs
  <2> DEFINE x == OneFrameEach(a \o b)
             y == OneFrameEach(a)
             z == OneFrameEach(b)
  <2>3. /\ x \in Seq(Rows) /\ Len(x) = Len(a) + Len(b)
        /\ y \in Seq(Rows) /\ Len(y) = Len(a)
        /\ z \in Seq(Rows) /\ Len(z) = Len(b)
    BY <1>1, <2>1
  <2>4. /\ \A i \in 1..(Len(a) + Len(b)) : x[i] = Decapsulate((a \o b)[i])
        /\ \A i \in 1..Len(a) : y[i] = Decapsulate(a[i])
        /\ \A i \in 1..Len(b) : z[i] = Decapsulate(b[i])
    BY <2>1 DEF OneFrameEach, PieceSeqs
  <2>5. \A i \in 1..(Len(a) + Len(b)) :
          (a \o b)[i] = IF i <= Len(a) THEN a[i] ELSE b[i - Len(a)]
    BY DEF PieceSeqs
  <2> HIDE DEF x, y, z
  <2>6. y \o z \in Seq(Rows) /\ Len(y \o z) = Len(a) + Len(b)
    BY <2>3
  <2>7. \A i \in 1..(Len(a) + Len(b)) :
          (y \o z)[i] = IF i <= Len(a) THEN y[i] ELSE z[i - Len(a)]
    BY <2>3
  <2>8. \A i \in 1..(Len(a) + Len(b)) :
          IF i <= Len(a) THEN i \in 1..Len(a) ELSE i - Len(a) \in 1..Len(b)
    BY <2>2
  <2>9. \A i \in 1..(Len(a) + Len(b)) : x[i] = (y \o z)[i]
    BY <2>4, <2>5, <2>7, <2>8
  <2>10. x = y \o z
    BY <2>3, <2>6, <2>9, SeqEqual
  <2>11. QED
    BY <2>10 DEF x, y, z
<1>3. OneFrameEach(<<>>) = <<>>
  BY DEF OneFrameEach
<1>4. ASSUME NEW d \in Seq(Bytes)
      PROVE  OneFrameEach(<<d>>) = <<Decapsulate(d)>>
  BY DEF OneFrameEach
<1>5. QED
  BY <1>1, <1>2, <1>3, <1>4

LEMMA RowsOfFacts ==
  /\ RowsOf(<<>>) = <<>>
  /\ \A s \in Seq(Bytes) : RowsOf(s) \in Seq(Rows)
  /\ \A a \in Seq(Bytes), b \in Seq(Bytes) :
       Whole(a) => RowsOf(a \o b) = RowsOf(a) \o RowsOf(b)
<1>1. \A s \in Seq(Bytes) : Pieces(s) \in PieceSeqs
  BY PiecesFacts
<1>2. RowsOf(<<>>) = <<>>
  BY PiecesFacts, OneFrameEachFacts DEF RowsOf
<1>3. \A s \in Seq(Bytes) : RowsOf(s) \in Seq(Rows)
  BY <1>1, OneFrameEachFacts DEF RowsOf
<1>4. ASSUME NEW a \in Seq(Bytes), NEW b \in Seq(Bytes), Whole(a)
      PROVE  RowsOf(a \o b) = RowsOf(a) \o RowsOf(b)
  <2>1. Pieces(a \o b) = Pieces(a) \o Pieces(b)
    BY <1>4, PiecesSplit
  <2>2. OneFrameEach(Pieces(a) \o Pieces(b)) = OneFrameEach(Pieces(a)) \o OneFrameEach(Pieces(b))
    BY <1>1, OneFrameEachFacts
  <2>3. QED
    BY <2>1, <2>2 DEF RowsOf
<1>5. QED
  BY <1>2, <1>3, <1>4

LEMMA IntoMessagesFacts ==
  /\ IntoMessages(<<>>) = <<>>
  /\ \A a \in PieceSeqs : IntoMessages(a) \in Seq(Rows)
  /\ \A a \in PieceSeqs, b \in PieceSeqs : IntoMessages(a \o b) = IntoMessages(a) \o IntoMessages(b)
  /\ \A d \in Seq(Bytes) : IntoMessages(<<d>>) = RowsOf(d)
<1> DEFINE Each(a) == [i \in DOMAIN a |-> RowsOf(a[i])]
<1>1. \A a : IntoMessages(a) = FlattenSeq(Each(a))
  BY DEF IntoMessages, RowsOf
<1>2. ASSUME NEW a \in PieceSeqs
      PROVE  Each(a) \in Seq(Seq(Rows)) /\ Len(Each(a)) = Len(a)
  <2> DEFINE R == Seq(Rows)
  <2>1. \A i \in 1..Len(a) : RowsOf(a[i]) \in R
    BY RowsOfFacts DEF PieceSeqs
  <2>2. Len(a) \in Nat /\ DOMAIN a = 1..Len(a)
    BY DEF PieceSeqs
  <2> HIDE DEF R
  <2>3. Each(a) \in Seq(R) /\ Len(Each(a)) = Len(a)
    BY <2>1, <2>2
  <2>4. QED
    BY <2>3 DEF R
<1>3. ASSUME NEW a \in PieceSeqs, NEW b \in PieceSeqs
      PROVE  IntoMessages(a \o b) = IntoMessages(a) \o IntoMessages(b)
  <2>1. a \o b \in PieceSeqs /\ Len(a \o b) = Len(a) + Len(b)
    BY DEF PieceSeqs
  <2>2. Len(a) \in Nat /\ Len(b) \in Nat
    BY DEF PieceSeqs
  <2> DEFINE x == Each(a \o b)
             y == Each(a)
             z == Each(b)
  <2>3. /\ x \in Seq(Seq(Rows)) /\ Len(x) = Len(a) + Len(b)
        /\ y \in Seq(Seq(Rows)) /\ Len(y) = Len(a)
        /\ z \in Seq(Seq(Rows)) /\ Len(z) = Len(b)
    <3> HIDE DEF Each
    <3>1. QED
      BY <1>2, <2>1
  <2>4. /\ \A i \in 1..(Len(a) + Len(b)) : x[i] = RowsOf((a \o b)[i])
        /\ \A i \in 1..Len(a) : y[i] = RowsOf(a[i])
        /\ \A i \in 1..Len(b) : z[i] = RowsOf(b[i])
    BY <2>1 DEF PieceSeqs
  <2>5. \A i \in 1..(Len(a) + Len(b)) :
          (a \o b)[i] = IF i <= Len(a) THEN a[i] ELSE b[i - Len(a)]
    BY DEF PieceSeqs
  <2>6. IntoMessages(a \o b) = FlattenSeq(x) /\ IntoMessages(a) = FlattenSeq(y)
        /\ IntoMessages(b) = FlattenSeq(z)
    BY <1>1
  <2> HIDE DEF x, y, z, Each
  <2>7. \A i \in 1..(Len(a) + Len(b)) :
          (y \o z)[i] = IF i <= Len(a) THEN y[i] ELSE z[i - Len(a)]
    BY <2>3
  <2>8. y \o z \in Seq(Seq(Rows)) /\ Len(y \o z) = Len(a) + Len(b)
    <3> DEFINE R == Seq(Rows)
    <3>1. y \in Seq(R) /\ z \in Seq(R)
      BY <2>3
    <3> HIDE DEF R
    <3>2. y \o z \in Seq(R)
      BY <3>1
    <3>3. Len(y \o z) = Len(y) + Len(z)
      BY <3>1
    <3>4. QED
      BY <2>3, <3>2, <3>3 DEF R
  <2>9. \A i \in 1..(Len(a) + Len(b)) :
          IF i <= Len(a) THEN i \in 1..Len(a) ELSE i - Len(a) \in 1..Len(b)
    BY <2>2
  <2>10. \A i \in 1..(Len(a) + Len(b)) : x[i] = (y \o z)[i]
    BY <2>4, <2>5, <2>7, <2>9
  <2>11. x = y \o z
    BY <2>3, <2>8, <2>10, SeqEqual
  <2>12. FlattenSeq(y \o z) = FlattenSeq(y) \o FlattenSeq(z)
    BY <2>3, FlattenConcat
  <2>13. QED
    BY <2>6, <2>11, <2>12
<1>4. IntoMessages(<<>>) = <<>>
  <2>1. Each(<<>>) = <<>>
    OBVIOUS
  <2>2. QED
    BY <1>1, <2>1, FlattenFacts
<1>5. ASSUME NEW d \in Seq(Bytes)
      PROVE  IntoMessages(<<d>>) = RowsOf(d)
  <2>1. Each(<<d>>) = <<RowsOf(d)>>
    OBVIOUS
  <2>2. RowsOf(d) \in Seq(Rows)
    BY RowsOfFacts
  <2>3. FlattenSeq(<<RowsOf(d)>>) = RowsOf(d)
    <3> DEFINE r == RowsOf(d)
    <3>1. r \in Seq(Rows)
      BY <2>2
    <3> HIDE DEF r
    <3>2. FlattenSeq(<<r>>) = r
      BY <3>1, FlattenOne
    <3>3. QED
      BY <3>2 DEF r
  <2>4. QED
    BY <1>1, <2>1, <2>3
<1>6. ASSUME NEW a \in PieceSeqs
      PROVE  IntoMessages(a) \in Seq(Rows)
  <2> HIDE DEF Each
  <2>1. QED
    BY <1>1, <1>2, FlattenFacts
<1>7. QED
  BY <1>3, <1>4, <1>5, <1>6

\* The first message of a container, and the others
LEMMA IntoMessagesHead ==
  ASSUME NEW a \in PieceSeqs, a # <<>>
  PROVE  /\ Head(a) \in Seq(Bytes) /\ Tail(a) \in PieceSeqs
         /\ IntoMessages(a) = RowsOf(Head(a)) \o IntoMessages(Tail(a))
<1>1. Head(a) \in Seq(Bytes) /\ Tail(a) \in PieceSeqs
  BY DEF PieceSeqs
<1>2. a = <<Head(a)>> \o Tail(a)
  BY DEF PieceSeqs
<1>3. <<Head(a)>> \in PieceSeqs
  BY <1>1 DEF PieceSeqs
<1> DEFINE h == <<Head(a)>>
           l == Tail(a)
<1>4. h \in PieceSeqs /\ l \in PieceSeqs /\ a = h \o l
  BY <1>1, <1>2, <1>3
<1>5. IntoMessages(h) = RowsOf(Head(a))
  BY <1>1, IntoMessagesFacts
<1> HIDE DEF h, l
<1>6. IntoMessages(h \o l) = IntoMessages(h) \o IntoMessages(l)
  BY <1>4, IntoMessagesFacts
<1>7. QED
  BY <1>1, <1>4, <1>5, <1>6 DEF l

-----------------------------------------------------------------------------
(* What the modem sends                                                    *)

LEMMA EncapsulateFacts ==
  ASSUME NEW p \in Payloads
  PROVE  /\ Encapsulate(p) \in Seq(Bytes) /\ Encapsulate(p) # <<>>
         /\ Pieces(Encapsulate(p)) = <<Encapsulate(p)>>
         /\ RowsOf(Encapsulate(p)) = <<Ok(p)>>
<1> DEFINE e == EscapeAll(p \o Crc(p))
<1>1. p \in Seq(Bytes) /\ Crc(p) \in Seq(Bytes) /\ Len(Crc(p)) = 2
  BY StreamAssumption, FramesAssumption
<1>2. e \in Seq(Bytes) /\ \A i \in 1..Len(e) : e[i] # Term
  <2> DEFINE d == p \o Crc(p)
  <2>1. d \in Seq(Bytes)
    BY <1>1
  <2> HIDE DEF d
  <2>2. EscapeAll(d) \in Seq(Bytes) /\ \A i \in 1..Len(EscapeAll(d)) : EscapeAll(d)[i] # Term
    BY <2>1, EscapeAllFacts, EscapeAllHidesTerm
  <2>3. QED
    BY <2>2 DEF d
<1>3. Encapsulate(p) = e \o <<Term>>
  BY DEF Encapsulate
<1>4. Term \in Bytes
  BY DEF Bytes
<1> HIDE DEF e
<1> DEFINE f == e \o <<Term>>
<1>5. f \in Seq(Bytes) /\ f # <<>> /\ Len(f) = Len(e) + 1 /\ \A i \in 1..Len(e) : f[i] = e[i]
  BY <1>2, <1>4
<1> HIDE DEF f
<1>6. Pieces(f) = <<f>>
  <2>1. \A i \in 1..(Len(f) - 1) : f[i] # Term
    BY <1>2, <1>5
  <2>2. QED
    BY <1>5, <2>1, PiecesOne
<1>7. RowsOf(f) = <<Decapsulate(f)>>
  BY <1>5, <1>6, OneFrameEachFacts DEF RowsOf
<1>8. Decapsulate(Encapsulate(p)) = Ok(p)
  BY <1>1, RoundTrip
<1>9. QED
  BY <1>3, <1>5, <1>6, <1>7, <1>8 DEF f

LEMMA FrameFacts ==
  ASSUME NEW f \in Frames
  PROVE  /\ f.bytes \in Seq(Bytes) /\ RowsOf(f.bytes) \in Seq(Rows)
         /\ f.intact => RowsOf(f.bytes) = <<Ok(f.payload)>>
         /\ Terminated(f) => Whole(f.bytes)
<1>1. f.bytes \in Seq(Bytes) /\ (f.intact => RowsOf(f.bytes) = <<Ok(f.payload)>>)
  <2>1. CASE \E p \in Payloads : f = Frame(p)
    <3>1. PICK p \in Payloads : f = Frame(p)
      BY <2>1
    <3>2. f.bytes = Encapsulate(p) /\ f.payload = p
      BY <3>1 DEF Frame
    <3>3. QED
      BY <3>2, EncapsulateFacts
  <2>2. CASE \E p \in Payloads : \E b \in Damaged(Encapsulate(p)) :
               f = [bytes |-> b, intact |-> FALSE, payload |-> p]
    <3>0. PICK p \in Payloads : \E b \in Damaged(Encapsulate(p)) :
             f = [bytes |-> b, intact |-> FALSE, payload |-> p]
      BY <2>2
    <3>1. PICK b \in Damaged(Encapsulate(p)) :
             f = [bytes |-> b, intact |-> FALSE, payload |-> p]
      BY <3>0
    <3>2. f.bytes = b /\ f.intact = FALSE
      BY <3>1
    <3>3. b \in Seq(Bytes)
      BY FramesAssumption
    <3>4. QED
      BY <3>2, <3>3
  <2>3. QED
    BY <2>1, <2>2 DEF Frames
<1>2. QED
  BY <1>1, RowsOfFacts DEF Terminated, Whole

\* What a group makes of a container
Sent(g) == [m \in DOMAIN g |-> DataOf(g[m])]

LEMMA DataOne ==
  ASSUME NEW f \in Frames
  PROVE  DataOf(<<f>>) = f.bytes
<1>1. [k \in DOMAIN <<f>> |-> <<f>>[k].bytes] = <<f.bytes>>
  OBVIOUS
<1> DEFINE b == f.bytes
<1>2. b \in Seq(Bytes)
  BY FrameFacts
<1> HIDE DEF b
<1>3. FlattenSeq(<<b>>) = b
  BY <1>2, FlattenOne
<1>4. QED
  BY <1>1, <1>3 DEF DataOf, b

LEMMA FlattenTwo ==
  ASSUME NEW A, NEW a \in Seq(A), NEW b \in Seq(A)
  PROVE  FlattenSeq(<<a, b>>) = a \o b
<1>1. FlattenSeq(<<a>>) = a
  BY FlattenOne
<1>2. <<a>> \in Seq(Seq(A)) /\ <<a, b>> = Append(<<a>>, b)
  OBVIOUS
<1>3. FlattenSeq(Append(<<a>>, b)) = FlattenSeq(<<a>>) \o b
  BY <1>2, FlattenFacts
<1>4. QED
  BY <1>1, <1>2, <1>3

LEMMA DataTwo ==
  ASSUME NEW f \in Frames, NEW h \in Frames
  PROVE  DataOf(<<f, h>>) = f.bytes \o h.bytes
<1>1. [k \in DOMAIN <<f, h>> |-> <<f, h>>[k].bytes] = <<f.bytes, h.bytes>>
  OBVIOUS
<1> DEFINE b == f.bytes
           c == h.bytes
<1>2. b \in Seq(Bytes) /\ c \in Seq(Bytes)
  BY FrameFacts
<1> HIDE DEF b, c
<1>3. FlattenSeq(<<b, c>>) = b \o c
  BY <1>2, FlattenTwo
<1>4. QED
  BY <1>1, <1>3 DEF DataOf, b, c

\* The end of one sequence inside a longer one
LEMMA EndRow ==
  ASSUME NEW X, NEW a \in Seq(X), NEW c \in Seq(X), NEW r \in X
  PROVE  /\ Len(a \o <<r>>) \in 1..Len((a \o <<r>>) \o c)
         /\ ((a \o <<r>>) \o c)[Len(a \o <<r>>)] = r
<1>1. /\ a \o <<r>> \in Seq(X) /\ Len(a \o <<r>>) = Len(a) + 1
      /\ (a \o <<r>>)[Len(a) + 1] = r
  OBVIOUS
<1> DEFINE b == a \o <<r>>
<1>2. b \in Seq(X) /\ Len(b) = Len(a) + 1 /\ b[Len(b)] = r
  BY <1>1
<1> HIDE DEF b
<1>3. Len(b \o c) = Len(b) + Len(c) /\ \A i \in 1..Len(b) : (b \o c)[i] = b[i]
  BY <1>2
<1>4. Len(b) \in 1..Len(b \o c)
  BY <1>2, <1>3
<1>5. QED
  BY <1>2, <1>3, <1>4 DEF b

LEMMA RowsTwo ==
  ASSUME NEW f \in Frames, NEW h \in Frames, Terminated(f)
  PROVE  RowsOf(f.bytes \o h.bytes) = RowsOf(f.bytes) \o RowsOf(h.bytes)
<1> DEFINE b == f.bytes
           c == h.bytes
<1>1. b \in Seq(Bytes) /\ c \in Seq(Bytes) /\ Whole(b)
  BY FrameFacts
<1> HIDE DEF b, c
<1>2. RowsOf(b \o c) = RowsOf(b) \o RowsOf(c)
  BY <1>1, RowsOfFacts
<1>3. QED
  BY <1>2 DEF b, c

\* The rows IntactRows counts, of a group of one frame and of a group of two
LEMMA IntactRowsOne ==
  ASSUME NEW g, NEW f \in Frames, FlattenSeq(g) = <<f>>, NEW before,
         NEW i \in IntactRows(g, before)
  PROVE  f.intact /\ i.row = before + Len(RowsOf(f.bytes)) /\ i.payload = f.payload
<1> DEFINE Count(k) == Len(IntoMessages(<<FlattenSeq([j \in 1..k |-> <<f>>[j].bytes])>>))
<1>1. Count(1) = Len(RowsOf(f.bytes))
  <2>1. [j \in 1..1 |-> <<f>>[j].bytes] = <<f.bytes>>
    OBVIOUS
  <2> DEFINE b == f.bytes
  <2>2. b \in Seq(Bytes)
    BY FrameFacts
  <2>3. FlattenSeq([j \in 1..1 |-> <<f>>[j].bytes]) = FlattenSeq(<<b>>)
    BY <2>1
  <2> HIDE DEF b
  <2>4. FlattenSeq(<<b>>) = b /\ IntoMessages(<<b>>) = RowsOf(b)
    BY <2>2, FlattenOne, IntoMessagesFacts
  <2>5. QED
    BY <2>3, <2>4 DEF b
<1>2. \E k \in {k \in DOMAIN <<f>> : <<f>>[k].intact} :
        i = [row |-> before + Count(k), payload |-> <<f>>[k].payload]
  BY DEF IntactRows
<1>3. \A k \in DOMAIN <<f>> : k = 1
  OBVIOUS
<1> HIDE DEF Count
<1>4. QED
  BY <1>1, <1>2, <1>3

LEMMA IntactRowsTwo ==
  ASSUME NEW g, NEW f \in Frames, NEW h \in Frames, FlattenSeq(g) = <<f, h>>, Terminated(f),
         NEW before, NEW i \in IntactRows(g, before)
  PROVE  \/ f.intact /\ i.row = before + Len(RowsOf(f.bytes)) /\ i.payload = f.payload
         \/ /\ h.intact /\ i.row = before + Len(RowsOf(f.bytes) \o RowsOf(h.bytes))
            /\ i.payload = h.payload
<1> DEFINE Count(k) == Len(IntoMessages(<<FlattenSeq([j \in 1..k |-> <<f, h>>[j].bytes])>>))
           b == f.bytes
           c == h.bytes
<1>0. b \in Seq(Bytes) /\ c \in Seq(Bytes) /\ b \o c \in Seq(Bytes)
  BY FrameFacts
<1>1. Count(1) = Len(RowsOf(b))
  <2>1. [j \in 1..1 |-> <<f, h>>[j].bytes] = <<b>>
    OBVIOUS
  <2> HIDE DEF b
  <2>2. FlattenSeq(<<b>>) = b /\ IntoMessages(<<b>>) = RowsOf(b)
    BY <1>0, FlattenOne, IntoMessagesFacts
  <2>3. QED
    BY <2>1, <2>2
<1>2. Count(2) = Len(RowsOf(b) \o RowsOf(c))
  <2>1. [j \in 1..2 |-> <<f, h>>[j].bytes] = <<b, c>>
    OBVIOUS
  <2>2. RowsOf(b \o c) = RowsOf(b) \o RowsOf(c)
    BY RowsTwo
  <2> HIDE DEF b, c
  <2>3. FlattenSeq(<<b, c>>) = b \o c
    BY <1>0, FlattenTwo
  <2> DEFINE d == b \o c
  <2>4. d \in Seq(Bytes) /\ RowsOf(d) = RowsOf(b) \o RowsOf(c)
    BY <1>0, <2>2
  <2>5. FlattenSeq([j \in 1..2 |-> <<f, h>>[j].bytes]) = d
    BY <2>1, <2>3
  <2> HIDE DEF d
  <2>6. IntoMessages(<<d>>) = RowsOf(d)
    BY <2>4, IntoMessagesFacts
  <2>7. QED
    BY <2>4, <2>5, <2>6
<1>3. \E k \in {k \in DOMAIN <<f, h>> : <<f, h>>[k].intact} :
        i = [row |-> before + Count(k), payload |-> <<f, h>>[k].payload]
  BY DEF IntactRows
<1>4. \A k \in DOMAIN <<f, h>> : k = 1 \/ k = 2
  OBVIOUS
<1> HIDE DEF Count
<1>5. QED
  BY <1>1, <1>2, <1>3, <1>4

\* The rows r says of itself are among those of a container, where i says
Holds(rows, i, before) == \E r \in 1..Len(rows) : i.row = before + r /\ rows[r] = Ok(i.payload)

LEMMA HoldsOne ==
  ASSUME NEW f \in Frames, NEW c \in Seq(Rows), f.intact, NEW before, NEW i,
         i.row = before + Len(RowsOf(f.bytes)), i.payload = f.payload
  PROVE  Holds(RowsOf(f.bytes) \o c, i, before)
<1> DEFINE r == Ok(f.payload)
<1>1. RowsOf(f.bytes) = <<r>> /\ RowsOf(f.bytes) \in Seq(Rows)
  BY FrameFacts
<1>2. r \in Rows /\ <<>> \o <<r>> = <<r>>
  <2> HIDE DEF r
  <2>1. r \in Rows
    BY <1>1
  <2>2. QED
    BY <2>1
<1> HIDE DEF r
<1>3. <<>> \in Seq(Rows)
  OBVIOUS
<1>4. Len(<<>> \o <<r>>) \in 1..Len((<<>> \o <<r>>) \o c)
      /\ ((<<>> \o <<r>>) \o c)[Len(<<>> \o <<r>>)] = r
  BY <1>2, <1>3, EndRow
<1>5. Len(RowsOf(f.bytes)) \in 1..Len(RowsOf(f.bytes) \o c)
      /\ (RowsOf(f.bytes) \o c)[Len(RowsOf(f.bytes))] = Ok(i.payload)
  BY <1>1, <1>2, <1>4 DEF r
<1>6. QED
  BY <1>5 DEF Holds

LEMMA HoldsTwo ==
  ASSUME NEW h \in Frames, NEW a \in Seq(Rows), h.intact, NEW before, NEW i,
         i.row = before + Len(a \o RowsOf(h.bytes)), i.payload = h.payload
  PROVE  Holds(a \o RowsOf(h.bytes), i, before)
<1> DEFINE r == Ok(h.payload)
<1>1. RowsOf(h.bytes) = <<r>> /\ RowsOf(h.bytes) \in Seq(Rows)
  BY FrameFacts
<1> HIDE DEF r
<1>2. r \in Rows
  BY <1>1
<1>3. Len(a \o <<r>>) \in 1..Len(a \o <<r>>) /\ (a \o <<r>>)[Len(a \o <<r>>)] = r
  BY <1>2
<1>4. QED
  BY <1>1, <1>3 DEF Holds, r

LEMMA Pair ==
  ASSUME NEW A, NEW a \in A, NEW b \in A
  PROVE  <<a>> \in Seq(A) /\ <<a>> \o <<b>> = <<a, b>>
<1>1. <<a>> \in Seq(A)
  OBVIOUS
<1>2. Append(<<a>>, b) = <<a, b>>
  <2>1. /\ Append(<<a>>, b) \in Seq(A) /\ Len(Append(<<a>>, b)) = 2
        /\ Append(<<a>>, b)[1] = a /\ Append(<<a>>, b)[2] = b
    BY <1>1
  <2>2. <<a, b>> \in Seq(A) /\ Len(<<a, b>>) = 2
    OBVIOUS
  <2>3. \A i \in 1..2 : i = 1 \/ i = 2
    OBVIOUS
  <2>4. \A i \in 1..2 : Append(<<a>>, b)[i] = <<a, b>>[i]
    BY <2>1, <2>3
  <2>5. QED
    BY <2>1, <2>2, <2>4, SeqEqual
<1>3. Append(<<a>>, b) = <<a>> \o <<b>>
  BY <1>1, AppendIsConcat
<1>4. QED
  BY <1>1, <1>2, <1>3

LEMMA SentOne ==
  ASSUME NEW f \in Frames
  PROVE  /\ Sent(<<<<f>>>>) = <<f.bytes>> /\ FlattenSeq(<<<<f>>>>) = <<f>>
         /\ Sent(<<<<f>>>>) \in PieceSeqs
         /\ IntoMessages(Sent(<<<<f>>>>)) = RowsOf(f.bytes)
<1>1. Sent(<<<<f>>>>) = <<DataOf(<<f>>)>>
  BY DEF Sent
<1> DEFINE b == f.bytes
           one == <<f>>
<1>2. b \in Seq(Bytes) /\ DataOf(<<f>>) = b
  BY FrameFacts, DataOne
<1>3. one \in Seq(Frames)
  OBVIOUS
<1> HIDE DEF b, one
<1>4. FlattenSeq(<<one>>) = one
  BY <1>3, FlattenOne
<1>5. <<b>> \in PieceSeqs /\ IntoMessages(<<b>>) = RowsOf(b)
  BY <1>2, IntoMessagesFacts DEF PieceSeqs
<1>6. QED
  BY <1>1, <1>2, <1>4, <1>5 DEF b, one

LEMMA SentTogether ==
  ASSUME NEW f \in Frames, NEW h \in Frames
  PROVE  /\ Sent(<<<<f, h>>>>) = <<f.bytes \o h.bytes>> /\ FlattenSeq(<<<<f, h>>>>) = <<f, h>>
         /\ Sent(<<<<f, h>>>>) \in PieceSeqs
         /\ Terminated(f) => IntoMessages(Sent(<<<<f, h>>>>)) = RowsOf(f.bytes) \o RowsOf(h.bytes)
<1>1. Sent(<<<<f, h>>>>) = <<DataOf(<<f, h>>)>>
  BY DEF Sent
<1> DEFINE b == f.bytes \o h.bytes
           two == <<f, h>>
<1>2. b \in Seq(Bytes) /\ DataOf(<<f, h>>) = b
  <2>1. f.bytes \in Seq(Bytes) /\ h.bytes \in Seq(Bytes)
    BY FrameFacts
  <2>2. b \in Seq(Bytes)
    BY <2>1, ConcatProperties
  <2>3. DataOf(<<f, h>>) = b
    BY DataTwo
  <2>4. QED
    BY <2>2, <2>3
<1>3. two \in Seq(Frames)
  OBVIOUS
<1>4. Terminated(f) => RowsOf(b) = RowsOf(f.bytes) \o RowsOf(h.bytes)
  BY RowsTwo
<1> HIDE DEF b, two
<1>5. FlattenSeq(<<two>>) = two
  BY <1>3, FlattenOne
<1>6. <<b>> \in PieceSeqs /\ IntoMessages(<<b>>) = RowsOf(b)
  BY <1>2, IntoMessagesFacts DEF PieceSeqs
<1>7. QED
  BY <1>1, <1>2, <1>4, <1>5, <1>6 DEF b, two

LEMMA SentApart ==
  ASSUME NEW f \in Frames, NEW h \in Frames
  PROVE  /\ Sent(<<<<f>>, <<h>>>>) = <<f.bytes, h.bytes>>
         /\ FlattenSeq(<<<<f>>, <<h>>>>) = <<f, h>>
         /\ Sent(<<<<f>>, <<h>>>>) \in PieceSeqs
         /\ IntoMessages(Sent(<<<<f>>, <<h>>>>)) = RowsOf(f.bytes) \o RowsOf(h.bytes)
<1>1. Sent(<<<<f>>, <<h>>>>) = <<DataOf(<<f>>), DataOf(<<h>>)>>
  BY DEF Sent
<1> DEFINE b == f.bytes
           c == h.bytes
           one == <<f>>
           other == <<h>>
<1>2. b \in Seq(Bytes) /\ c \in Seq(Bytes) /\ DataOf(<<f>>) = b /\ DataOf(<<h>>) = c
  BY FrameFacts, DataOne
<1>3. one \in Seq(Frames) /\ other \in Seq(Frames) /\ one \o other = <<f, h>>
  BY Pair, Zenon
<1> HIDE DEF b, c, one, other
<1>4. FlattenSeq(<<one, other>>) = one \o other
  BY <1>3, FlattenTwo
<1>5. IntoMessages(<<b, c>>) = RowsOf(b) \o RowsOf(c) /\ <<b, c>> \in PieceSeqs
  <2> DEFINE bb == <<b>>
             cc == <<c>>
  <2>1. bb \in PieceSeqs /\ cc \in PieceSeqs /\ <<b, c>> = bb \o cc
    BY <1>2, Pair, Zenon DEF PieceSeqs
  <2>2. IntoMessages(bb) = RowsOf(b) /\ IntoMessages(cc) = RowsOf(c)
    BY <1>2, IntoMessagesFacts
  <2> HIDE DEF bb, cc
  <2>3. IntoMessages(bb \o cc) = IntoMessages(bb) \o IntoMessages(cc)
    BY <2>1, IntoMessagesFacts
  <2>4. <<b, c>> \in PieceSeqs
    BY <1>2 DEF PieceSeqs
  <2>5. QED
    BY <2>1, <2>2, <2>3, <2>4
<1>6. QED
  BY <1>1, <1>2, <1>3, <1>4, <1>5 DEF b, c, one, other

\* Each group is of one of three shapes.
LEMMA GroupCases ==
  ASSUME NEW g \in Groups
  PROVE  \/ \E f \in Frames : g = <<<<f>>>> /\ (~Unterminated => Terminated(f))
         \/ \E f, h \in Frames : /\ g = <<<<f, h>>>> \/ g = <<<<f>>, <<h>>>>
                                 /\ ~Unterminated => Terminated(f) /\ Terminated(h)
<1>1. g \in {<<<<f>>>> : f \in Frames} \cup {<<<<f, h>>>> : f, h \in Frames}
            \cup {<<<<f>>, <<h>>>> : f, h \in Frames}
  BY DEF Groups
<1>2. ~Unterminated => \A m \in DOMAIN g : \A k \in DOMAIN g[m] : Terminated(g[m][k])
  BY DEF Groups
<1>3. CASE \E f \in Frames : g = <<<<f>>>>
  <2>1. PICK f \in Frames : g = <<<<f>>>>
    BY <1>3
  <2>2. 1 \in DOMAIN g /\ 1 \in DOMAIN g[1] /\ g[1][1] = f
    BY <2>1
  <2>3. QED
    BY <1>2, <2>1, <2>2
<1>4. CASE \E f, h \in Frames : g = <<<<f, h>>>>
  <2>1. PICK f \in Frames, h \in Frames : g = <<<<f, h>>>>
    BY <1>4
  <2>2. 1 \in DOMAIN g /\ 1 \in DOMAIN g[1] /\ 2 \in DOMAIN g[1] /\ g[1][1] = f /\ g[1][2] = h
    BY <2>1
  <2>3. QED
    BY <1>2, <2>1, <2>2
<1>5. CASE \E f, h \in Frames : g = <<<<f>>, <<h>>>>
  <2>1. PICK f \in Frames, h \in Frames : g = <<<<f>>, <<h>>>>
    BY <1>5
  <2>2. 1 \in DOMAIN g /\ 1 \in DOMAIN g[1] /\ g[1][1] = f
    BY <2>1
  <2>3. 2 \in DOMAIN g /\ 1 \in DOMAIN g[2] /\ g[2][1] = h
    BY <2>1
  <2>4. QED
    BY <1>2, <2>1, <2>2, <2>3
<1>6. QED
  BY <1>1, <1>3, <1>4, <1>5

\* The messages of a group are bytes; none of them ends within a frame, if every
\* frame has its terminator.
LEMMA GroupData ==
  ASSUME NEW g \in Groups
  PROVE  /\ Sent(g) \in PieceSeqs
         /\ ~Unterminated => \A m \in DOMAIN Sent(g) : Whole(Sent(g)[m])
<1>1. CASE \E f \in Frames : g = <<<<f>>>> /\ (~Unterminated => Terminated(f))
  <2>1. PICK f \in Frames : g = <<<<f>>>> /\ (~Unterminated => Terminated(f))
    BY <1>1
  <2>2. Sent(g) = <<f.bytes>> /\ Sent(g) \in PieceSeqs
    BY <2>1, SentOne
  <2>3. \A m \in DOMAIN Sent(g) : Sent(g)[m] = f.bytes
    BY <2>2
  <2>4. QED
    BY <2>1, <2>2, <2>3, FrameFacts
<1>2. CASE \E f \in Frames, h \in Frames :
               /\ g = <<<<f, h>>>> \/ g = <<<<f>>, <<h>>>>
               /\ ~Unterminated => Terminated(f) /\ Terminated(h)
  <2>1. PICK f \in Frames, h \in Frames :
               /\ g = <<<<f, h>>>> \/ g = <<<<f>>, <<h>>>>
               /\ ~Unterminated => Terminated(f) /\ Terminated(h)
    BY <1>2, Zenon
  <2>2. /\ f.bytes \in Seq(Bytes) /\ h.bytes \in Seq(Bytes)
        /\ Terminated(h) => f.bytes \o h.bytes # <<>> /\ Last(f.bytes \o h.bytes) = Term
    <3>1. /\ f.bytes \in Seq(Bytes) /\ h.bytes \in Seq(Bytes)
          /\ Terminated(h) => h.bytes # <<>> /\ Last(h.bytes) = Term
      BY FrameFacts DEF Terminated
    <3> DEFINE b == f.bytes
               c == h.bytes
    <3>2. b \in Seq(Bytes) /\ c \in Seq(Bytes)
      BY <3>1
    <3> HIDE DEF b, c
    <3>3. c # <<>> => b \o c # <<>> /\ Last(b \o c) = Last(c)
      BY <3>2 DEF Last
    <3>4. QED
      BY <3>1, <3>3 DEF b, c
  <2>3. CASE g = <<<<f, h>>>>
    <3>1. Sent(g) = <<f.bytes \o h.bytes>> /\ Sent(g) \in PieceSeqs
      BY <2>3, SentTogether
    <3>2. \A m \in DOMAIN Sent(g) : Sent(g)[m] = f.bytes \o h.bytes
      <4> DEFINE d == f.bytes \o h.bytes
      <4>1. Sent(g) = <<d>>
        BY <3>1
      <4> HIDE DEF d
      <4>2. \A m \in DOMAIN Sent(g) : Sent(g)[m] = d
        BY <4>1
      <4>3. QED
        BY <4>2 DEF d
    <3>3. QED
      BY <2>1, <2>2, <3>1, <3>2 DEF Whole
  <2>4. CASE g = <<<<f>>, <<h>>>>
    <3>1. Sent(g) = <<f.bytes, h.bytes>> /\ Sent(g) \in PieceSeqs
      BY <2>4, SentApart
    <3>2. \A m \in DOMAIN Sent(g) : Sent(g)[m] = f.bytes \/ Sent(g)[m] = h.bytes
      BY <3>1
    <3>3. QED
      BY <2>1, <3>1, <3>2, FrameFacts
  <2>5. QED
    BY <2>1, <2>3, <2>4
<1>3. QED
  BY <1>1, <1>2, GroupCases

\* The rows counted as intact hold the payloads they are said to.
LEMMA GroupRows ==
  ASSUME ~Unterminated, NEW g \in Groups, NEW before, NEW i \in IntactRows(g, before)
  PROVE  Holds(IntoMessages(Sent(g)), i, before)
<1>1. CASE \E f \in Frames : g = <<<<f>>>>
  <2>1. PICK f \in Frames : g = <<<<f>>>>
    BY <1>1
  <2>2. FlattenSeq(g) = <<f>> /\ IntoMessages(Sent(g)) = RowsOf(f.bytes)
    BY <2>1, SentOne
  <2>3. f.intact /\ i.row = before + Len(RowsOf(f.bytes)) /\ i.payload = f.payload
    BY <2>2, IntactRowsOne
  <2>4. <<>> \in Seq(Rows)
    OBVIOUS
  <2>5. Holds(RowsOf(f.bytes) \o <<>>, i, before)
    BY <2>3, <2>4, HoldsOne
  <2>6. RowsOf(f.bytes) \o <<>> = RowsOf(f.bytes)
    BY FrameFacts, ConcatEmptySeq
  <2>7. QED
    BY <2>2, <2>5, <2>6
<1>2. CASE \E f, h \in Frames :
             (g = <<<<f, h>>>> \/ g = <<<<f>>, <<h>>>>) /\ Terminated(f)
  <2>1. PICK f \in Frames, h \in Frames :
               (g = <<<<f, h>>>> \/ g = <<<<f>>, <<h>>>>) /\ Terminated(f)
    BY <1>2
  <2>2. /\ FlattenSeq(g) = <<f, h>>
        /\ IntoMessages(Sent(g)) = RowsOf(f.bytes) \o RowsOf(h.bytes)
    BY <2>1, SentTogether, SentApart
  <2>3. RowsOf(f.bytes) \in Seq(Rows) /\ RowsOf(h.bytes) \in Seq(Rows)
    BY FrameFacts
  <2>4. \/ f.intact /\ i.row = before + Len(RowsOf(f.bytes)) /\ i.payload = f.payload
        \/ /\ h.intact /\ i.row = before + Len(RowsOf(f.bytes) \o RowsOf(h.bytes))
           /\ i.payload = h.payload
    <3>1. FlattenSeq(g) = <<f, h>> /\ Terminated(f)
      BY <2>1, <2>2
    <3>2. QED
      BY ONLY <3>1, IntactRowsTwo, f \in Frames, h \in Frames, i \in IntactRows(g, before)
  <2>5. Holds(RowsOf(f.bytes) \o RowsOf(h.bytes), i, before)
    <3> DEFINE a == RowsOf(f.bytes)
               c == RowsOf(h.bytes)
    <3>1. a \in Seq(Rows) /\ c \in Seq(Rows)
      BY <2>3
    <3>2. CASE f.intact /\ i.row = before + Len(RowsOf(f.bytes)) /\ i.payload = f.payload
      <4> HIDE DEF c
      <4>1. Holds(RowsOf(f.bytes) \o c, i, before)
        BY <3>1, <3>2, HoldsOne
      <4>2. QED
        BY <4>1 DEF c
    <3>3. CASE /\ h.intact /\ i.row = before + Len(RowsOf(f.bytes) \o RowsOf(h.bytes))
               /\ i.payload = h.payload
      <4>1. i.row = before + Len(a \o RowsOf(h.bytes))
        BY <3>3
      <4> HIDE DEF a
      <4>2. Holds(a \o RowsOf(h.bytes), i, before)
        BY <3>1, <3>3, <4>1, HoldsTwo
      <4>3. QED
        BY <4>2 DEF a
    <3>4. QED
      BY <2>4, <3>2, <3>3
  <2>6. QED
    BY <2>2, <2>5
<1>3. QED
  BY <1>1, <1>2, GroupCases

-----------------------------------------------------------------------------
(* What is analyzed live is what is written                                *)

StreamType ==
  /\ phase \in {"idle", "write", "analyze", "dead"} /\ reader \in {"closed", "open", "ended"}
  /\ container \in PieceSeqs /\ todo \in PieceSeqs /\ file \in Seq(Bytes)
  /\ totalWritten \in Nat /\ announced \in Nat /\ containers \in 0..MaxContainers
  /\ maxBytes \in Nat /\ bytesRead \in Nat
  /\ live \in Seq(Rows) /\ written \in Seq(Rows) /\ complete \in Seq(Rows)
  /\ reread \in Seq(Rows) /\ due \in Seq(Rows)

\* What a piece of a message adds to the file
LEMMA PartFacts ==
  ASSUME NEW d \in Seq(Bytes), NEW n \in 1..(Len(d) - 1)
  PROVE  SubSeq(d, 1, n) \in Seq(Bytes) /\ IntoMessages(<<SubSeq(d, 1, n)>>) = RowsOf(SubSeq(d, 1, n))
<1> DEFINE part == SubSeq(d, 1, n)
<1>1. part \in Seq(Bytes)
  OBVIOUS
<1> HIDE DEF part
<1>2. IntoMessages(<<part>>) = RowsOf(part)
  BY <1>1, IntoMessagesFacts
<1>3. QED
  BY <1>1, <1>2 DEF part

\* The rest of the file, where there is one, and its first piece
LEMMA RestFacts ==
  ASSUME StreamType, bytesRead < Len(file)
  PROVE  /\ SubSeq(file, bytesRead + 1, Len(file)) \in Seq(Bytes)
         /\ SubSeq(file, bytesRead + 1, Len(file)) # <<>>
         /\ NextPiece \in Seq(Bytes) /\ Len(NextPiece) \in Nat
         /\ IntoMessages(<<NextPiece>>) = RowsOf(NextPiece)
         /\ RowsOf(NextPiece) = <<Decapsulate(NextPiece)>>
<1> DEFINE rest == SubSeq(file, bytesRead + 1, Len(file))
<1>1. file \in Seq(Bytes) /\ bytesRead \in Nat
  BY DEF StreamType
<1>2. rest \in Seq(Bytes) /\ Len(rest) = Len(file) - bytesRead
  BY <1>1
<1>3. rest # <<>>
  <2> HIDE DEF rest
  <2>1. QED
    BY <1>1, <1>2
<1> HIDE DEF rest
<1>4. PICK k \in 1..Len(rest) :
         Head(Pieces(rest)) = SubSeq(rest, 1, k) /\ Pieces(SubSeq(rest, 1, k)) = <<SubSeq(rest, 1, k)>>
  BY <1>2, <1>3, FirstPiece
<1>5. NextPiece = SubSeq(rest, 1, k)
  BY <1>4 DEF NextPiece, rest
<1> DEFINE p == SubSeq(rest, 1, k)
<1>6. p \in Seq(Bytes) /\ Pieces(p) = <<p>>
  BY <1>2, <1>4
<1> HIDE DEF p
<1>7. IntoMessages(<<p>>) = RowsOf(p) /\ RowsOf(p) = <<Decapsulate(p)>>
  BY <1>6, IntoMessagesFacts, OneFrameEachFacts DEF RowsOf
<1>8. NextPiece = p
  BY <1>5 DEF p
<1>9. QED
  BY <1>2, <1>3, <1>6, <1>7, <1>8 DEF rest

LEMMA StreamTypeStep ==
  ASSUME StreamType, [Next]_vars
  PROVE  StreamType'
<1> USE DEF StreamType
<1>1. CASE Receive
  <2>1. PICK g \in Groups : container' = Sent(g)
    BY <1>1 DEF Receive, Sent
  <2>2. container' \in PieceSeqs
    BY <2>1, GroupData
  <2>3. QED
    BY <1>1, <2>2, StreamAssumption DEF Receive, readerVars
<1>2. CASE PassOver
  BY <1>2, StreamAssumption DEF PassOver, readerVars, history
<1>3. CASE WriteMessage
  <2> DEFINE h == Head(todo)
  <2>1. h \in Seq(Bytes) /\ Tail(todo) \in PieceSeqs
    BY <1>3, IntoMessagesHead DEF WriteMessage
  <2> HIDE DEF h
  <2>2. file \o h \in Seq(Bytes) /\ Len(h) \in Nat
    BY <2>1
  <2>3. IntoMessages(<<h>>) \in Seq(Rows)
    BY <2>1, IntoMessagesFacts, RowsOfFacts
  <2>4. written \o IntoMessages(<<h>>) \in Seq(Rows)
    <3> DEFINE r == IntoMessages(<<h>>)
    <3>1. r \in Seq(Rows)
      BY <2>3
    <3> HIDE DEF r
    <3>2. written \o r \in Seq(Rows)
      BY <3>1
    <3>3. QED
      BY <3>2 DEF r
  <2>5. /\ file' \in Seq(Bytes) /\ written' \in Seq(Rows) /\ totalWritten' \in Nat
        /\ todo' \in PieceSeqs
    <3>1. /\ file' = file \o h /\ written' = written \o IntoMessages(<<h>>)
          /\ totalWritten' = totalWritten + Len(h) /\ todo' = Tail(todo)
      BY <1>3 DEF WriteMessage, h
    <3>2. totalWritten' \in Nat
      BY <2>2, <3>1
    <3>3. QED
      BY <2>1, <2>2, <2>4, <3>1, <3>2
  <2>6. QED
    BY <1>3, <2>5 DEF WriteMessage, readerVars
<1>4. CASE Announce
  BY <1>4 DEF Announce, readerVars
<1>5. CASE Analyze
  <2>1. live \o IntoMessages(container) \in Seq(Rows)
    <3> DEFINE r == IntoMessages(container)
    <3>1. r \in Seq(Rows)
      BY IntoMessagesFacts
    <3> HIDE DEF r
    <3>2. live \o r \in Seq(Rows)
      BY <3>1
    <3>3. QED
      BY <3>2 DEF r
  <2>2. <<>> \in PieceSeqs
    BY DEF PieceSeqs
  <2>3. live' \in Seq(Rows) /\ container' \in PieceSeqs
    BY <1>5, <2>1, <2>2 DEF Analyze
  <2>4. QED
    BY <1>5, <2>3 DEF Analyze, readerVars, history
<1>6. CASE Crash
  <2>1. file' \in Seq(Bytes) /\ written' \in Seq(Rows)
    <3>1. CASE UNCHANGED <<file, written>>
      BY <3>1
    <3>2. CASE todo # <<>> /\ \E n \in 1..(Len(Head(todo)) - 1) :
             LET part == SubSeq(Head(todo), 1, n)
             IN  file' = file \o part /\ written' = written \o IntoMessages(<<part>>)
      <4>1. PICK n \in 1..(Len(Head(todo)) - 1) :
               /\ file' = file \o SubSeq(Head(todo), 1, n)
               /\ written' = written \o IntoMessages(<<SubSeq(Head(todo), 1, n)>>)
        BY <3>2
      <4>2. Head(todo) \in Seq(Bytes)
        BY <3>2, IntoMessagesHead
      <4> DEFINE part == SubSeq(Head(todo), 1, n)
                 r == RowsOf(part)
      <4>3. part \in Seq(Bytes) /\ IntoMessages(<<part>>) = r
        BY <4>2, PartFacts
      <4>4. r \in Seq(Rows)
        BY <4>3, RowsOfFacts
      <4>5. file' = file \o part /\ written' = written \o r
        BY <4>1, <4>3
      <4> HIDE DEF part, r
      <4>6. QED
        BY <4>3, <4>4, <4>5
    <3>3. QED
      BY <1>6, <3>1, <3>2 DEF Crash
  <2>2. QED
    BY <1>6, <2>1 DEF Crash, readerVars
<1>7. CASE OpenReader
  <2>1. maxBytes' \in Nat /\ due' \in Seq(Rows)
    BY <1>7 DEF OpenReader
  <2>2. bytesRead' \in Nat /\ reread' \in Seq(Rows) /\ reader' \in {"closed", "open", "ended"}
    BY <1>7 DEF OpenReader
  <2>3. QED
    BY <1>7, <2>1, <2>2 DEF OpenReader, writerVars, history
<1>8. CASE ReadNext
  <2>1. /\ Len(NextPiece) \in Nat /\ NextPiece \in Seq(Bytes)
        /\ IntoMessages(<<NextPiece>>) = RowsOf(NextPiece)
    BY <1>8, RestFacts DEF ReadNext
  <2>2. bytesRead' \in Nat
    BY <1>8, <2>1 DEF ReadNext
  <2>3. RowsOf(NextPiece) \in Seq(Rows)
    BY <2>1, RowsOfFacts
  <2>4. reread' \in Seq(Rows)
    <3> DEFINE r == RowsOf(NextPiece)
    <3>1. r \in Seq(Rows) /\ reread' = reread \o r
      BY <1>8, <2>1, <2>3 DEF ReadNext
    <3> HIDE DEF r
    <3>2. QED
      BY <3>1
  <2>5. QED
    BY <1>8, <2>2, <2>4 DEF ReadNext, writerVars, history
<1>9. CASE ReadEnd
  BY <1>9 DEF ReadEnd, writerVars, history
<1>10. CASE UNCHANGED vars
  BY <1>10 DEF vars, writerVars, readerVars, history
<1>11. QED
  BY <1>1, <1>2, <1>3, <1>4, <1>5, <1>6, <1>7, <1>8, <1>9, <1>10 DEF Next

LEMMA StreamTypeInit ==
  ASSUME Init
  PROVE  StreamType
<1>1. /\ <<>> \in PieceSeqs /\ <<>> \in Seq(Rows) /\ <<>> \in Seq(Bytes)
      /\ MaxContainers \in 0..MaxContainers
  BY StreamAssumption DEF PieceSeqs
<1>2. QED
  BY <1>1 DEF Init, StreamType

\* Between Receive and Analyze the rows on their way to the file are those on
\* their way to the analysis.
LiveInv ==
  /\ phase = "idle" => live = written /\ container = <<>>
  /\ phase = "write" => written \o IntoMessages(todo) = live \o IntoMessages(container)
  /\ phase = "analyze" => written = live \o IntoMessages(container)

LEMMA LiveInvStep ==
  ASSUME StreamType, LiveInv, [Next]_vars
  PROVE  LiveInv'
<1>1. CASE Receive
  BY <1>1 DEF LiveInv, Receive
<1>2. CASE WriteMessage
  <2> DEFINE h == RowsOf(Head(todo))
             l == IntoMessages(Tail(todo))
  <2>1. todo \in PieceSeqs /\ todo # <<>> /\ written \in Seq(Rows)
    BY <1>2 DEF WriteMessage, StreamType
  <2>2. /\ Head(todo) \in Seq(Bytes) /\ Tail(todo) \in PieceSeqs
        /\ IntoMessages(todo) = h \o l
    BY <2>1, IntoMessagesHead
  <2>3. h \in Seq(Rows) /\ l \in Seq(Rows) /\ IntoMessages(<<Head(todo)>>) = h
    BY <2>2, IntoMessagesFacts, RowsOfFacts
  <2>4. written' = written \o h /\ IntoMessages(todo') = l
    BY <1>2, <2>3 DEF WriteMessage
  <2> HIDE DEF h, l
  <2>5. (written \o h) \o l = written \o (h \o l)
    BY <2>1, <2>3, ConcatAssociative
  <2>6. QED
    BY <1>2, <2>2, <2>4, <2>5 DEF LiveInv, WriteMessage
<1>3. CASE Announce
  <2>1. written \o IntoMessages(todo) = written
    BY <1>3, IntoMessagesFacts, ConcatEmptySeq DEF Announce, StreamType
  <2>2. QED
    BY <1>3, <2>1 DEF LiveInv, Announce
<1>4. CASE Analyze
  BY <1>4 DEF LiveInv, Analyze, history
<1>5. CASE Crash
  BY <1>5 DEF LiveInv, Crash
<1>6. CASE PassOver \/ OpenReader \/ ReadNext \/ ReadEnd \/ UNCHANGED vars
  BY <1>6 DEF LiveInv, PassOver, OpenReader, ReadNext, ReadEnd, vars, writerVars, history
<1>7. QED
  BY <1>1, <1>2, <1>3, <1>4, <1>5, <1>6 DEF Next

-----------------------------------------------------------------------------
(* What is read back, while every message ends with a terminator           *)

UpTo(n) == SubSeq(file, 1, n)

\* The rows written are those of the bytes in the file, the announced ones those
\* of the bytes announced; no message begins in the middle of a frame.
FileInv ==
  /\ \A i \in DOMAIN todo : Whole(todo[i])
  /\ written = RowsOf(file)
  /\ phase # "dead" => Whole(file) /\ totalWritten = Len(file)
  /\ announced <= totalWritten /\ totalWritten <= Len(file)
  /\ Whole(UpTo(announced)) /\ complete = RowsOf(UpTo(announced))

\* A place between two frames, or the end of what a dead daemon left
Cut(n) == n \in 0..Len(file) /\ (Whole(UpTo(n)) \/ (phase = "dead" /\ n = Len(file)))

\* A reader stands between two frames, as does the end it was given; what it had
\* and what it is due are the rows before them.
ReaderInv ==
  /\ Cut(maxBytes) /\ due = RowsOf(UpTo(maxBytes))
  /\ Cut(bytesRead) /\ bytesRead <= maxBytes /\ reread = RowsOf(UpTo(bytesRead))
  /\ reader = "ended" => bytesRead = maxBytes

LEMMA UpToFacts ==
  ASSUME StreamType
  PROVE  /\ UpTo(0) = <<>> /\ UpTo(Len(file)) = file
         /\ \A n \in 0..Len(file) : UpTo(n) \in Seq(Bytes) /\ Len(UpTo(n)) = n
                                    /\ \A i \in 1..n : UpTo(n)[i] = file[i]
<1>1. file \in Seq(Bytes)
  BY DEF StreamType
<1>2. UpTo(Len(file)) = file
  BY <1>1, SubSeqFull DEF UpTo
<1>3. UpTo(0) = <<>>
  BY <1>1 DEF UpTo
<1>4. \A n \in 0..Len(file) : UpTo(n) \in Seq(Bytes) /\ Len(UpTo(n)) = n
                              /\ \A i \in 1..n : UpTo(n)[i] = file[i]
  BY <1>1 DEF UpTo
<1>5. QED
  BY <1>2, <1>3, <1>4

LEMMA GrownFacts ==
  ASSUME StreamType, NEW x \in Seq(Bytes), file' = file \o x
  PROVE  \A n \in 0..Len(file) : n \in 0..Len(file') /\ SubSeq(file', 1, n) = UpTo(n)
<1> SUFFICES ASSUME NEW n \in 0..Len(file)
             PROVE  n \in 0..Len(file') /\ SubSeq(file', 1, n) = UpTo(n)
  OBVIOUS
<1> DEFINE y == file \o x
<1>1. /\ file \in Seq(Bytes) /\ y \in Seq(Bytes) /\ Len(y) = Len(file) + Len(x)
      /\ \A i \in 1..Len(file) : y[i] = file[i]
  BY DEF StreamType
<1>2. file' = y
  OBVIOUS
<1> HIDE DEF y
<1>3. /\ SubSeq(y, 1, n) \in Seq(Bytes) /\ Len(SubSeq(y, 1, n)) = n
      /\ \A i \in 1..n : SubSeq(y, 1, n)[i] = file[i]
  BY <1>1
<1>4. /\ UpTo(n) \in Seq(Bytes) /\ Len(UpTo(n)) = n
      /\ \A i \in 1..n : UpTo(n)[i] = file[i]
  BY UpToFacts
<1>5. SubSeq(y, 1, n) = UpTo(n)
  BY <1>3, <1>4, SeqEqual
<1>6. n \in 0..Len(y)
  BY <1>1
<1>7. QED
  BY <1>2, <1>5, <1>6

LEMMA WholeConcat ==
  ASSUME NEW a \in Seq(Bytes), NEW b \in Seq(Bytes), Whole(a), Whole(b)
  PROVE  Whole(a \o b)
<1>1. CASE b = <<>>
  BY <1>1, ConcatEmptySeq
<1>2. CASE b # <<>>
  <2>1. Last(a \o b) = Last(b)
    BY <1>2 DEF Last
  <2>2. QED
    BY <1>2, <2>1 DEF Whole
<1>3. QED
  BY <1>1, <1>2

\* What the steps that add to the file keep
LEMMA FileGrows ==
  ASSUME StreamType, FileInv, phase # "dead", NEW x \in Seq(Bytes), file' = file \o x,
         written' = written \o RowsOf(x), UNCHANGED <<announced, complete>>
  PROVE  /\ written' = RowsOf(file')
         /\ announced' \in 0..Len(file') /\ Whole(UpTo(announced)')
         /\ complete' = RowsOf(UpTo(announced)')
         /\ Len(file') = Len(file) + Len(x) /\ (Whole(x) => Whole(file'))
<1>1. file \in Seq(Bytes) /\ Whole(file) /\ written = RowsOf(file)
  BY DEF StreamType, FileInv
<1>2. RowsOf(file \o x) = RowsOf(file) \o RowsOf(x)
  BY <1>1, RowsOfFacts
<1>3. announced \in 0..Len(file)
  BY DEF StreamType, FileInv
<1>4. announced \in 0..Len(file') /\ SubSeq(file', 1, announced) = UpTo(announced)
  BY <1>3, GrownFacts
<1>5. UpTo(announced)' = UpTo(announced)
  BY <1>4 DEF UpTo
<1>6. Len(file \o x) = Len(file) + Len(x)
  BY <1>1
<1>7. Whole(x) => Whole(file \o x)
  BY <1>1, WholeConcat
<1>8. QED
  BY <1>1, <1>2, <1>4, <1>5, <1>6, <1>7 DEF FileInv

LEMMA FileInvStep ==
  ASSUME ~Unterminated, StreamType, FileInv, [Next]_vars
  PROVE  FileInv'
<1>1. CASE Receive
  <2>1. PICK g \in Groups : container' = Sent(g)
    BY <1>1 DEF Receive, Sent
  <2>2. todo' = Sent(g) /\ \A m \in DOMAIN Sent(g) : Whole(Sent(g)[m])
    BY <1>1, <2>1, GroupData DEF Receive
  <2>3. \A m \in DOMAIN todo' : Whole(todo'[m])
    BY <2>2
  <2>4. phase # "dead" /\ UNCHANGED <<file, totalWritten, announced, written, complete>>
    BY <1>1 DEF Receive
  <2>5. UpTo(announced)' = UpTo(announced)
    BY <2>4 DEF UpTo
  <2>6. (\A i \in DOMAIN todo : Whole(todo[i]))'
    BY <2>3 DEF Whole
  <2>7. QED
    BY <2>4, <2>5, <2>6 DEF FileInv, Whole
<1>2. CASE WriteMessage
  <2> DEFINE h == Head(todo)
  <2>1. todo \in PieceSeqs /\ todo # <<>> /\ phase = "write"
    BY <1>2 DEF StreamType, WriteMessage
  <2>2. h \in Seq(Bytes) /\ Tail(todo) \in PieceSeqs /\ Whole(h)
    BY <2>1, IntoMessagesHead DEF FileInv, PieceSeqs
  <2>3. \A i \in DOMAIN Tail(todo) : Whole(Tail(todo)[i])
    <3>1. \A i \in DOMAIN Tail(todo) : i + 1 \in DOMAIN todo /\ Tail(todo)[i] = todo[i + 1]
      BY <2>1 DEF PieceSeqs
    <3>2. QED
      BY <3>1 DEF FileInv
  <2> HIDE DEF h
  <2>4. IntoMessages(<<h>>) = RowsOf(h) /\ Len(h) \in Nat
    BY <2>2, IntoMessagesFacts
  <2>5. /\ file' = file \o h /\ written' = written \o RowsOf(h) /\ UNCHANGED <<announced, complete>>
        /\ totalWritten' = totalWritten + Len(h) /\ phase' = "write" /\ todo' = Tail(todo)
    BY <1>2, <2>1, <2>4 DEF WriteMessage, h
  <2>6. /\ written' = RowsOf(file') /\ announced' \in 0..Len(file')
        /\ Whole(UpTo(announced)') /\ complete' = RowsOf(UpTo(announced)')
        /\ Len(file') = Len(file) + Len(h) /\ Whole(file')
    BY <2>1, <2>2, <2>5, FileGrows
  <2>7. totalWritten' = Len(file') /\ announced' <= totalWritten' /\ totalWritten' <= Len(file')
    <3>1. totalWritten = Len(file) /\ announced <= totalWritten
      BY <2>1 DEF FileInv
    <3>2. totalWritten' = Len(file')
      BY <2>5, <2>6, <3>1
    <3>3. /\ totalWritten \in Nat /\ announced \in Nat /\ totalWritten' = totalWritten + Len(h)
          /\ announced' = announced
      BY <2>5 DEF StreamType
    <3>4. QED
      BY <2>4, <3>1, <3>2, <3>3
  <2>8. (\A i \in DOMAIN todo : Whole(todo[i]))'
    BY <2>3, <2>5 DEF Whole
  <2>9. QED
    BY <2>6, <2>7, <2>8 DEF FileInv, Whole
<1>3. CASE Announce
  <2>1. /\ phase = "write" /\ announced' = totalWritten /\ complete' = written
        /\ UNCHANGED <<todo, file, totalWritten, written>>
    BY <1>3 DEF Announce
  <2>2. totalWritten = Len(file) /\ Whole(file) /\ written = RowsOf(file)
    BY <2>1 DEF FileInv
  <2>3. UpTo(announced)' = file
    BY <2>1, <2>2, UpToFacts DEF UpTo
  <2>4. QED
    BY <2>1, <2>2, <2>3 DEF FileInv, StreamType, Whole
<1>4. CASE Crash
  <2>1. CASE UNCHANGED <<file, written>>
    <3>1. UpTo(announced)' = UpTo(announced)
      BY <1>4, <2>1 DEF UpTo, Crash
    <3>2. QED
      BY <1>4, <2>1, <3>1 DEF FileInv, Crash, Whole
  <2>2. CASE todo # <<>> /\ \E n \in 1..(Len(Head(todo)) - 1) :
             LET part == SubSeq(Head(todo), 1, n)
             IN  file' = file \o part /\ written' = written \o IntoMessages(<<part>>)
    <3>1. PICK n \in 1..(Len(Head(todo)) - 1) :
             /\ file' = file \o SubSeq(Head(todo), 1, n)
             /\ written' = written \o IntoMessages(<<SubSeq(Head(todo), 1, n)>>)
      BY <2>2
    <3> DEFINE part == SubSeq(Head(todo), 1, n)
    <3>2. Head(todo) \in Seq(Bytes)
      BY <2>2, IntoMessagesHead DEF StreamType
    <3>3. part \in Seq(Bytes) /\ IntoMessages(<<part>>) = RowsOf(part)
      BY <3>2, PartFacts
    <3>4. file' = file \o part /\ written' = written \o RowsOf(part)
      BY <3>1, <3>3
    <3>5. /\ phase # "dead" /\ UNCHANGED <<announced, complete, todo, totalWritten>>
          /\ phase' = "dead"
      BY <1>4 DEF Crash
    <3> HIDE DEF part
    <3>6. /\ written' = RowsOf(file') /\ announced' \in 0..Len(file')
          /\ Whole(UpTo(announced)') /\ complete' = RowsOf(UpTo(announced)')
          /\ Len(file') = Len(file) + Len(part)
      BY <3>3, <3>4, <3>5, FileGrows
    <3>7. announced' <= totalWritten' /\ totalWritten' <= Len(file')
      BY <3>3, <3>5, <3>6 DEF FileInv, StreamType
    <3>8. QED
      BY <3>5, <3>6, <3>7 DEF FileInv, Whole
  <2>3. QED
    BY <1>4, <2>1, <2>2 DEF Crash
<1>5. CASE PassOver \/ Analyze \/ OpenReader \/ ReadNext \/ ReadEnd \/ UNCHANGED vars
  <2>1. /\ UNCHANGED <<todo, file, totalWritten, announced, written, complete>>
        /\ phase' # "dead" <=> phase # "dead"
    BY <1>5 DEF PassOver, Analyze, OpenReader, ReadNext, ReadEnd, vars, writerVars, history
  <2>2. UpTo(announced)' = UpTo(announced)
    BY <2>1 DEF UpTo
  <2>3. QED
    BY <2>1, <2>2 DEF FileInv, Whole
<1>6. QED
  BY <1>1, <1>2, <1>3, <1>4, <1>5 DEF Next

\* Reading takes the file apart where it was put together.
LEMMA ReadStep ==
  ASSUME StreamType, Whole(UpTo(bytesRead)), bytesRead < Len(file)
  PROVE  /\ bytesRead + Len(NextPiece) \in (bytesRead + 1)..Len(file)
         /\ RowsOf(UpTo(bytesRead + Len(NextPiece)))
              = RowsOf(UpTo(bytesRead)) \o RowsOf(NextPiece)
         /\ \/ bytesRead + Len(NextPiece) = Len(file)
            \/ Whole(UpTo(bytesRead + Len(NextPiece)))
         /\ \A n \in (bytesRead + 1)..Len(file) :
              Whole(UpTo(n)) => bytesRead + Len(NextPiece) <= n
<1> DEFINE rest == SubSeq(file, bytesRead + 1, Len(file))
<1>1. file \in Seq(Bytes) /\ bytesRead \in Nat
  BY DEF StreamType
<1>2. /\ rest \in Seq(Bytes) /\ Len(rest) = Len(file) - bytesRead
      /\ \A i \in 1..(Len(file) - bytesRead) : rest[i] = file[bytesRead + i]
  BY <1>1
<1>3. rest # <<>> /\ NextPiece = Head(Pieces(rest))
  BY RestFacts DEF NextPiece
<1> HIDE DEF rest
<1>4. PICK k \in 1..Len(rest) :
         /\ Head(Pieces(rest)) = SubSeq(rest, 1, k)
         /\ \A i \in 1..(k - 1) : rest[i] # Term
         /\ k = Len(rest) \/ rest[k] = Term
  BY <1>2, <1>3, FirstPiece
<1> DEFINE p == SubSeq(rest, 1, k)
           m == bytesRead + k
<1>5. NextPiece = p /\ p \in Seq(Bytes) /\ Len(p) = k /\ \A i \in 1..k : p[i] = rest[i]
  BY <1>2, <1>3, <1>4
<1>6. /\ m \in (bytesRead + 1)..Len(file) /\ m \in 0..Len(file) /\ bytesRead \in 0..Len(file)
      /\ m = bytesRead + k /\ k \in 1..(Len(file) - bytesRead)
  BY <1>1, <1>2
<1> HIDE DEF p, m
<1>7. UpTo(m) = UpTo(bytesRead) \o p
  <2>1. /\ UpTo(m) \in Seq(Bytes) /\ Len(UpTo(m)) = m /\ \A i \in 1..m : UpTo(m)[i] = file[i]
        /\ UpTo(bytesRead) \in Seq(Bytes) /\ Len(UpTo(bytesRead)) = bytesRead
        /\ \A i \in 1..bytesRead : UpTo(bytesRead)[i] = file[i]
    BY <1>6, UpToFacts
  <2> DEFINE a == UpTo(bytesRead)
  <2>2. a \in Seq(Bytes) /\ Len(a) = bytesRead /\ \A i \in 1..bytesRead : a[i] = file[i]
    BY <2>1
  <2> HIDE DEF a
  <2>3. /\ a \o p \in Seq(Bytes) /\ Len(a \o p) = m
        /\ \A i \in 1..m : (a \o p)[i] = IF i <= bytesRead THEN a[i] ELSE p[i - bytesRead]
    BY <1>5, <1>6, <2>2
  <2>4. ASSUME NEW i \in 1..m
        PROVE  (a \o p)[i] = file[i]
    <3>1. CASE i <= bytesRead
      <4>1. i \in 1..bytesRead
        BY <1>1, <1>6, <3>1
      <4>2. QED
        BY <2>2, <2>3, <3>1, <4>1
    <3>2. CASE ~(i <= bytesRead)
      <4>1. /\ i - bytesRead \in 1..k /\ i - bytesRead \in 1..(Len(file) - bytesRead)
            /\ bytesRead + (i - bytesRead) = i
        BY <1>1, <1>6, <3>2
      <4>2. p[i - bytesRead] = rest[i - bytesRead]
        BY <1>5, <4>1
      <4>3. rest[i - bytesRead] = file[i]
        BY <1>2, <4>1
      <4>4. QED
        BY <2>3, <3>2, <4>2, <4>3
    <3>3. QED
      BY <3>1, <3>2
  <2>5. UpTo(m) = a \o p
    BY <2>1, <2>3, <2>4, SeqEqual
  <2>6. QED
    BY <2>5 DEF a
<1>8. RowsOf(UpTo(m)) = RowsOf(UpTo(bytesRead)) \o RowsOf(p)
  <2> DEFINE a == UpTo(bytesRead)
  <2>1. a \in Seq(Bytes) /\ Whole(a)
    BY <1>6, UpToFacts
  <2> HIDE DEF a
  <2>2. RowsOf(a \o p) = RowsOf(a) \o RowsOf(p)
    BY <1>5, <2>1, RowsOfFacts
  <2>3. QED
    BY <1>7, <2>2 DEF a
<1>9. m = Len(file) \/ Whole(UpTo(m))
  <2>1. CASE k = Len(rest)
    BY <1>1, <1>2, <1>6, <2>1
  <2>2. CASE rest[k] = Term
    <3>1. file[m] = Term
      BY <1>2, <1>6, <2>2
    <3>2. Len(UpTo(m)) = m /\ UpTo(m)[m] = file[m]
      <4>1. m \in 1..m
        BY <1>1, <1>6
      <4>2. QED
        BY <1>6, <4>1, UpToFacts
    <3>3. QED
      BY <3>1, <3>2 DEF Whole, Last
  <2>3. QED
    BY <1>4, <2>1, <2>2
<1>10. ASSUME NEW n \in (bytesRead + 1)..Len(file), Whole(UpTo(n))
       PROVE  m <= n
  <2>1. n \in 0..Len(file) /\ n \in 1..n /\ n - bytesRead \in 1..(Len(file) - bytesRead)
        /\ bytesRead + (n - bytesRead) = n
    BY <1>1
  <2>2. UpTo(n) \in Seq(Bytes) /\ Len(UpTo(n)) = n /\ UpTo(n)[n] = file[n]
    BY <2>1, UpToFacts
  <2>3. UpTo(n) # <<>>
    BY <2>1, <2>2
  <2>4. file[n] = Term
    BY <1>10, <2>2, <2>3 DEF Whole, Last
  <2>5. rest[n - bytesRead] = Term
    BY <1>2, <2>1, <2>4
  <2>6. ~(n - bytesRead \in 1..(k - 1))
    BY <1>4, <2>5
  <2>7. QED
    BY <1>1, <1>6, <2>1, <2>6
<1>11. QED
  BY <1>5, <1>6, <1>8, <1>9, <1>10

\* A step that leaves the reader alone, whatever it adds to the file, leaves it where it was.
LEMMA CutKept ==
  ASSUME StreamType, NEW x \in Seq(Bytes), file' = file \o x,
         (phase = "dead") => phase' = "dead" /\ x = <<>>, NEW n, Cut(n)
  PROVE  /\ n \in 0..Len(file') /\ SubSeq(file', 1, n) = UpTo(n)
         /\ Whole(SubSeq(file', 1, n)) \/ (phase' = "dead" /\ n = Len(file'))
<1>1. n \in 0..Len(file)
  BY DEF Cut
<1>2. n \in 0..Len(file') /\ SubSeq(file', 1, n) = UpTo(n)
  BY <1>1, GrownFacts
<1>3. phase = "dead" => file' = file
  BY ConcatEmptySeq DEF StreamType
<1>4. QED
  BY <1>2, <1>3 DEF Cut

LEMMA WriterKeepsReader ==
  ASSUME StreamType, ReaderInv, NEW x \in Seq(Bytes), file' = file \o x,
         (phase = "dead") => phase' = "dead" /\ x = <<>>, UNCHANGED readerVars
  PROVE  ReaderInv'
<1>1. Cut(maxBytes) /\ Cut(bytesRead)
  BY DEF ReaderInv
<1>2. /\ maxBytes \in 0..Len(file') /\ SubSeq(file', 1, maxBytes) = UpTo(maxBytes)
      /\ Whole(SubSeq(file', 1, maxBytes)) \/ (phase' = "dead" /\ maxBytes = Len(file'))
  BY <1>1, CutKept
<1>3. /\ bytesRead \in 0..Len(file') /\ SubSeq(file', 1, bytesRead) = UpTo(bytesRead)
      /\ Whole(SubSeq(file', 1, bytesRead)) \/ (phase' = "dead" /\ bytesRead = Len(file'))
  BY <1>1, CutKept
<1>4. UNCHANGED <<reader, maxBytes, bytesRead, reread, due>>
  BY DEF readerVars
<1>5. UpTo(maxBytes)' = UpTo(maxBytes) /\ UpTo(bytesRead)' = UpTo(bytesRead)
  BY <1>2, <1>3, <1>4 DEF UpTo
<1>6. Cut(maxBytes)' /\ Cut(bytesRead)'
  BY <1>2, <1>3, <1>4, <1>5 DEF Cut, UpTo, Whole
<1>7. QED
  BY <1>4, <1>5, <1>6 DEF ReaderInv

LEMMA ReaderInvStep ==
  ASSUME StreamType, FileInv, ReaderInv, [Next]_vars
  PROVE  ReaderInv'
<1>0. <<>> \in Seq(Bytes) /\ file \o <<>> = file /\ file \in Seq(Bytes)
  BY ConcatEmptySeq DEF StreamType
<1>1. CASE Receive \/ PassOver \/ Announce \/ Analyze \/ UNCHANGED vars
  <2>1. /\ file' = file /\ UNCHANGED readerVars /\ (phase = "dead" => phase' = "dead")
    BY <1>1 DEF Receive, PassOver, Announce, Analyze, vars, writerVars
  <2>2. QED
    BY <1>0, <2>1, WriterKeepsReader
<1>2. CASE WriteMessage
  <2> DEFINE h == Head(todo)
  <2>1. h \in Seq(Bytes)
    BY <1>2, IntoMessagesHead DEF WriteMessage, StreamType
  <2>2. file' = file \o h /\ UNCHANGED readerVars /\ phase # "dead"
    BY <1>2 DEF WriteMessage
  <2> HIDE DEF h
  <2>3. QED
    BY <2>1, <2>2, WriterKeepsReader
<1>3. CASE Crash
  <2>1. phase # "dead" /\ UNCHANGED readerVars
    BY <1>3 DEF Crash
  <2>2. CASE UNCHANGED <<file, written>>
    BY <1>0, <2>1, <2>2, WriterKeepsReader
  <2>3. CASE todo # <<>> /\ \E n \in 1..(Len(Head(todo)) - 1) :
             LET part == SubSeq(Head(todo), 1, n)
             IN  file' = file \o part /\ written' = written \o IntoMessages(<<part>>)
    <3>1. PICK n \in 1..(Len(Head(todo)) - 1) : file' = file \o SubSeq(Head(todo), 1, n)
      BY <2>3
    <3> DEFINE part == SubSeq(Head(todo), 1, n)
    <3>2. Head(todo) \in Seq(Bytes)
      BY <2>3, IntoMessagesHead DEF StreamType
    <3>3. part \in Seq(Bytes) /\ file' = file \o part
      BY <3>1, <3>2, PartFacts
    <3> HIDE DEF part
    <3>4. QED
      BY <2>1, <3>3, WriterKeepsReader
  <2>4. QED
    BY <1>3, <2>2, <2>3 DEF Crash
<1>4. CASE OpenReader
  <2>1. /\ UNCHANGED <<file, phase>> /\ reader' = "open" /\ bytesRead' = 0 /\ reread' = <<>>
        /\ \/ maxBytes' = announced /\ due' = complete
           \/ maxBytes' = Len(file) /\ due' = written
    BY <1>4 DEF OpenReader, writerVars
  <2>2. announced \in 0..Len(file) /\ Len(file) \in 0..Len(file) /\ 0 \in 0..Len(file)
    BY <1>0 DEF FileInv, StreamType
  <2>3. UpTo(0) = <<>> /\ UpTo(Len(file)) = file /\ RowsOf(<<>>) = <<>>
    BY UpToFacts, RowsOfFacts
  <2>4. Cut(0) /\ RowsOf(UpTo(0)) = <<>>
    BY <2>2, <2>3 DEF Cut, Whole
  <2>5. Cut(announced) /\ complete = RowsOf(UpTo(announced))
    BY <2>2 DEF Cut, FileInv
  <2>6. Cut(Len(file)) /\ written = RowsOf(UpTo(Len(file)))
    BY <2>2, <2>3 DEF Cut, FileInv
  <2>7. maxBytes' \in 0..Len(file) /\ Cut(maxBytes') /\ due' = RowsOf(UpTo(maxBytes'))
    BY <2>1, <2>2, <2>5, <2>6
  <2>8. Cut(maxBytes)' /\ due' = RowsOf(UpTo(maxBytes)')
    BY <2>1, <2>7 DEF Cut, UpTo
  <2>9. Cut(bytesRead)' /\ reread' = RowsOf(UpTo(bytesRead)')
    BY <2>1, <2>4 DEF Cut, UpTo
  <2>10. bytesRead' <= maxBytes'
    BY <2>1, <2>7
  <2>11. QED
    BY <2>1, <2>8, <2>9, <2>10 DEF ReaderInv
<1>5. CASE ReadNext
  <2> DEFINE m == bytesRead + Len(NextPiece)
  <2>1. /\ bytesRead < maxBytes /\ bytesRead < Len(file) /\ reader = "open"
        /\ bytesRead' = m /\ reread' = reread \o IntoMessages(<<NextPiece>>)
        /\ UNCHANGED <<file, phase, reader, maxBytes, due>>
    BY <1>5 DEF ReadNext, writerVars
  <2>2. Whole(UpTo(bytesRead)) /\ bytesRead \in Nat /\ maxBytes \in (bytesRead + 1)..Len(file)
    BY <2>1 DEF ReaderInv, Cut, StreamType
  <2>3. /\ m \in (bytesRead + 1)..Len(file)
        /\ RowsOf(UpTo(m)) = RowsOf(UpTo(bytesRead)) \o RowsOf(NextPiece)
        /\ m = Len(file) \/ Whole(UpTo(m))
        /\ \A n \in (bytesRead + 1)..Len(file) : Whole(UpTo(n)) => m <= n
    BY <2>1, <2>2, ReadStep
  <2>4. IntoMessages(<<NextPiece>>) = RowsOf(NextPiece)
    BY <2>1, RestFacts
  <2> HIDE DEF m
  <2>5. m <= maxBytes
    <3>1. CASE Whole(UpTo(maxBytes))
      BY <2>2, <2>3, <3>1
    <3>2. CASE maxBytes = Len(file)
      BY <2>2, <2>3, <3>2
    <3>3. QED
      BY <3>1, <3>2 DEF ReaderInv, Cut
  <2>6. UpTo(Len(file)) = file /\ (phase # "dead" => Whole(file))
    BY UpToFacts DEF FileInv
  <2>7. m \in 0..Len(file)
    BY <2>2, <2>3
  <2>8. Cut(m)
    BY <2>3, <2>6, <2>7 DEF Cut
  <2>9. Cut(bytesRead)' /\ Cut(maxBytes)' /\ UpTo(bytesRead)' = UpTo(m) /\ UpTo(maxBytes)' = UpTo(maxBytes)
    BY <2>1, <2>8 DEF ReaderInv, Cut, UpTo
  <2>10. reread' = RowsOf(UpTo(m))
    BY <2>1, <2>3, <2>4 DEF ReaderInv
  <2>11. QED
    BY <2>1, <2>5, <2>9, <2>10 DEF ReaderInv
<1>6. CASE ReadEnd
  <2>1. /\ bytesRead >= maxBytes /\ reader' = "ended"
        /\ UNCHANGED <<file, phase, maxBytes, bytesRead, reread, due>>
    BY <1>6 DEF ReadEnd, writerVars
  <2>2. bytesRead = maxBytes
    BY <2>1 DEF ReaderInv, StreamType
  <2>3. QED
    BY <2>1, <2>2 DEF ReaderInv, Cut, UpTo
<1>7. QED
  BY <1>1, <1>2, <1>3, <1>4, <1>5, <1>6 DEF Next

\* What the reads rely on
StreamInv == StreamType /\ LiveInv /\ FileInv /\ ReaderInv

LEMMA StreamInvHolds ==
  ASSUME ~Unterminated
  PROVE  Spec => []StreamInv
<1>1. ASSUME Init
      PROVE  StreamInv
  <2>1. StreamType
    BY <1>1, StreamTypeInit
  <2>2. file = <<>> /\ UpTo(0) = <<>> /\ RowsOf(<<>>) = <<>> /\ Len(file) = 0
    BY <1>1, <2>1, UpToFacts, RowsOfFacts DEF Init
  <2>3. LiveInv
    BY <1>1 DEF Init, LiveInv
  <2>4. FileInv
    BY <1>1, <2>2 DEF Init, FileInv, Whole
  <2>5. Cut(0) /\ RowsOf(UpTo(0)) = <<>>
    BY <2>2 DEF Cut, Whole
  <2>6. ReaderInv
    BY <1>1, <2>5 DEF Init, ReaderInv
  <2>7. QED
    BY <2>1, <2>3, <2>4, <2>6 DEF StreamInv
<1>2. ASSUME StreamInv, [Next]_vars
      PROVE  StreamInv'
  BY <1>2, StreamTypeStep, LiveInvStep, FileInvStep, ReaderInvStep DEF StreamInv
<1>3. QED
  BY <1>1, <1>2, PTL DEF Spec

\* A reader that ends has had every row there was when it was opened and no
\* other, however far the writer has come since (qmdl.rs:77-109).
THEOREM ReadsAllThatWasDue ==
  ASSUME ~Unterminated
  PROVE  Spec => []ReadsWhatWasDue
<1>1. StreamInv => ReadsWhatWasDue
  BY DEF StreamInv, ReaderInv, ReadsWhatWasDue
<1>2. QED
  BY <1>1, StreamInvHolds, PTL

\* Where a reader stands, the rows in the file are those it has had and those of
\* the rest.
LEMMA RereadAndRest ==
  ASSUME StreamInv, phase # "dead"
  PROVE  reread \in Seq(Rows) /\ \E r \in Seq(Rows) : written = reread \o r
<1>1. /\ StreamType /\ file \in Seq(Bytes) /\ bytesRead \in 0..Len(file)
      /\ Whole(UpTo(bytesRead)) /\ reread = RowsOf(UpTo(bytesRead)) /\ written = RowsOf(file)
  BY DEF StreamInv, StreamType, FileInv, ReaderInv, Cut
<1> DEFINE a == UpTo(bytesRead)
           rest == SubSeq(file, bytesRead + 1, Len(file))
<1>2. a \in Seq(Bytes) /\ rest \in Seq(Bytes)
  BY <1>1, UpToFacts
<1>3. file = a \o rest
  <2>1. SubSeq(file, 1, bytesRead) \o SubSeq(file, bytesRead + 1, Len(file)) = SubSeq(file, 1, Len(file))
    <3>1. 1 \in 1..(Len(file) + 1) /\ bytesRead \in (1 - 1)..Len(file) /\ Len(file) \in bytesRead..Len(file)
      BY <1>1
    <3>2. QED
      BY <1>1, <3>1, ConcatAdjacentSubSeq
  <2>2. QED
    BY <1>1, <2>1, SubSeqFull DEF UpTo
<1> HIDE DEF a, rest
<1>4. RowsOf(a \o rest) = RowsOf(a) \o RowsOf(rest) /\ RowsOf(a) \in Seq(Rows) /\ RowsOf(rest) \in Seq(Rows)
  BY <1>1, <1>2, RowsOfFacts DEF a
<1>5. reread = RowsOf(a) /\ written = RowsOf(a \o rest)
  BY <1>1, <1>3 DEF a
<1>6. QED
  BY <1>4, <1>5

\* What a re-analysis has had, frame by frame, the live analysis was given,
\* container by container (qmdl.rs:91-108, lib/src/diag.rs:87-114).
THEOREM RereadsWhatWasLive ==
  ASSUME ~Unterminated
  PROVE  Spec => []RereadIsLive
<1>1. StreamInv => RereadIsLive
  <2> SUFFICES ASSUME StreamInv, phase = "idle"
               PROVE  IsPrefix(reread, live)
    BY DEF RereadIsLive
  <2>1. live = written
    BY DEF StreamInv, LiveInv
  <2>2. PICK r \in Seq(Rows) : reread \in Seq(Rows) /\ live = reread \o r
    BY <2>1, RereadAndRest
  <2>3. Len(reread) <= Len(live) /\ \A i \in 1..Len(reread) : reread[i] = live[i]
    BY <2>2
  <2>4. QED
    BY <2>2, <2>3 DEF IsPrefix
<1>2. QED
  BY <1>1, StreamInvHolds, PTL

-----------------------------------------------------------------------------
(* The bytes implement the sequence of messages                            *)

LEMMA SendRefines ==
  ASSUME StreamType, NEW r \in Seq(Rows), written' = written \o r, UNCHANGED reread
  PROVE  Stored!Send
<1>1. written \in Seq(Rows) /\ written' \in Seq(Rows)
  BY DEF StreamType
<1> DEFINE w == written
           y == written \o r
<1>2. /\ w \in Seq(Rows) /\ y \in Seq(Rows) /\ Len(y) = Len(w) + Len(r)
      /\ \A i \in 1..Len(w) : y[i] = w[i]
  BY DEF StreamType
<1>3. y = written'
  OBVIOUS
<1> HIDE DEF w, y
<1>4. /\ SubSeq(y, 1, Len(w)) \in Seq(Rows) /\ Len(SubSeq(y, 1, Len(w))) = Len(w)
      /\ \A i \in 1..Len(w) : SubSeq(y, 1, Len(w))[i] = w[i]
  BY <1>2
<1>5. SubSeq(y, 1, Len(w)) = w
  BY <1>2, <1>4, SeqEqual
<1>6. SubSeq(written', 1, Len(written)) = written
  BY <1>3, <1>5 DEF w
<1>7. QED
  BY <1>1, <1>6 DEF Stored!Send

LEMMA ReceiveRefines ==
  ASSUME StreamInv, ReadNext
  PROVE  Stored!Receive
<1> DEFINE a == UpTo(bytesRead)
           rest == SubSeq(file, bytesRead + 1, Len(file))
<1>1. /\ bytesRead < maxBytes /\ bytesRead < Len(file) /\ UNCHANGED written
      /\ reread' = reread \o IntoMessages(<<NextPiece>>)
  BY DEF ReadNext, history
<1>2. /\ StreamType /\ Whole(a) /\ bytesRead \in 0..Len(file) /\ a \in Seq(Bytes)
      /\ reread = RowsOf(a) /\ written = RowsOf(file)
  <2>1. StreamType /\ FileInv /\ ReaderInv
    BY DEF StreamInv
  <2>2. Cut(bytesRead) /\ Cut(maxBytes) /\ bytesRead \in Nat
    BY <2>1 DEF ReaderInv, StreamType
  <2>3. bytesRead \in 0..Len(file) /\ Whole(a)
    BY <1>1, <2>2 DEF Cut
  <2>4. a \in Seq(Bytes)
    BY <2>1, <2>3, UpToFacts
  <2>5. QED
    BY <2>1, <2>3, <2>4 DEF ReaderInv, FileInv
<1>3. rest \in Seq(Bytes) /\ rest # <<>> /\ RowsOf(NextPiece) = <<Decapsulate(NextPiece)>>
      /\ IntoMessages(<<NextPiece>>) = RowsOf(NextPiece)
  BY <1>1, <1>2, RestFacts
<1>4. file = a \o rest
  <2>1. bytesRead \in 0..Len(file) /\ file \in Seq(Bytes)
    BY <1>2 DEF StreamType
  <2>2. SubSeq(file, 1, bytesRead) \o SubSeq(file, bytesRead + 1, Len(file)) = SubSeq(file, 1, Len(file))
    <3>1. 1 \in 1..(Len(file) + 1) /\ bytesRead \in (1 - 1)..Len(file) /\ Len(file) \in bytesRead..Len(file)
      BY <2>1
    <3>2. QED
      BY <2>1, <3>1, ConcatAdjacentSubSeq
  <2>3. QED
    BY <2>1, <2>2, SubSeqFull DEF UpTo
<1>5. Pieces(rest) # <<>> /\ Pieces(rest) \in PieceSeqs /\ NextPiece = Pieces(rest)[1]
  <2>1. NextPiece = Head(Pieces(rest))
    BY DEF NextPiece
  <2> HIDE DEF rest
  <2>2. Pieces(rest) # <<>> /\ Pieces(rest) \in PieceSeqs
    BY <1>3, PiecesEnd
  <2>3. \A ps \in PieceSeqs : ps # <<>> => Head(ps) = ps[1]
    BY DEF PieceSeqs
  <2>4. QED
    BY <2>1, <2>2, <2>3
<1>6. RowsOf(rest) \in Seq(Rows) /\ Len(RowsOf(rest)) >= 1 /\ RowsOf(rest)[1] = Decapsulate(NextPiece)
  <2> HIDE DEF rest
  <2> DEFINE ps == Pieces(rest)
  <2>1. ps # <<>> /\ ps \in PieceSeqs /\ NextPiece = ps[1]
    BY <1>5
  <2> HIDE DEF ps
  <2>2. OneFrameEach(ps) \in Seq(Rows) /\ Len(OneFrameEach(ps)) = Len(ps)
    BY <2>1, OneFrameEachFacts
  <2>3. 1 \in DOMAIN ps /\ Len(ps) >= 1
    BY <2>1 DEF PieceSeqs
  <2>4. OneFrameEach(ps)[1] = Decapsulate(ps[1])
    BY <2>3 DEF OneFrameEach
  <2>5. QED
    BY <2>1, <2>2, <2>3, <2>4 DEF RowsOf, ps
<1>7. written = reread \o RowsOf(rest) /\ reread \in Seq(Rows)
  <2> HIDE DEF a, rest
  <2>1. RowsOf(a \o rest) = RowsOf(a) \o RowsOf(rest) /\ RowsOf(a) \in Seq(Rows)
    BY <1>2, <1>3, RowsOfFacts
  <2>2. QED
    BY <1>2, <1>4, <2>1
<1> DEFINE r == RowsOf(rest)
           d == Decapsulate(NextPiece)
<1>8. r \in Seq(Rows) /\ Len(r) >= 1 /\ r[1] = d /\ written = reread \o r /\ d \in Rows
  <2>1. r \in Seq(Rows) /\ Len(r) >= 1 /\ r[1] = d
    BY <1>6
  <2>2. d \in Rows
    <3> HIDE DEF r, d
    <3>1. QED
      BY <2>1
  <2>3. QED
    BY <1>7, <2>1, <2>2
<1>9. reread' = reread \o <<d>>
  BY <1>1, <1>3
<1> HIDE DEF a, rest, r, d
<1>10. Len(reread) < Len(written) /\ written[Len(reread) + 1] = d
  BY <1>7, <1>8
<1>11. reread \o <<d>> = Append(reread, d)
  BY <1>7, <1>8
<1>12. QED
  BY <1>1, <1>9, <1>10, <1>11 DEF Stored!Receive

LEMMA InOrderStep ==
  ASSUME StreamInv, [Next]_vars
  PROVE  [Stored!Next]_(Stored!vars)
<1>0. StreamType
  BY DEF StreamInv
<1>1. CASE Receive \/ PassOver \/ Announce \/ Analyze \/ ReadEnd \/ UNCHANGED vars
  BY <1>1 DEF Receive, PassOver, Announce, Analyze, ReadEnd, vars, writerVars, readerVars, history,
              Stored!vars
<1>2. CASE WriteMessage
  <2>1. Head(todo) \in Seq(Bytes)
    BY <1>0, <1>2, IntoMessagesHead DEF WriteMessage, StreamType
  <2> DEFINE r == IntoMessages(<<Head(todo)>>)
  <2>2. r \in Seq(Rows)
    BY <2>1, IntoMessagesFacts, RowsOfFacts
  <2>3. written' = written \o r /\ UNCHANGED reread
    BY <1>2 DEF WriteMessage, readerVars
  <2> HIDE DEF r
  <2>4. Stored!Send
    BY <1>0, <2>2, <2>3, SendRefines
  <2>5. QED
    BY <2>4 DEF Stored!Next
<1>3. CASE Crash
  <2>1. UNCHANGED reread
    BY <1>3 DEF Crash, readerVars
  <2>2. CASE UNCHANGED <<file, written>>
    BY <2>1, <2>2 DEF Stored!vars
  <2>3. CASE todo # <<>> /\ \E n \in 1..(Len(Head(todo)) - 1) :
             LET part == SubSeq(Head(todo), 1, n)
             IN  file' = file \o part /\ written' = written \o IntoMessages(<<part>>)
    <3>1. PICK n \in 1..(Len(Head(todo)) - 1) :
             written' = written \o IntoMessages(<<SubSeq(Head(todo), 1, n)>>)
      BY <2>3
    <3> DEFINE part == SubSeq(Head(todo), 1, n)
               r == RowsOf(part)
    <3>2. Head(todo) \in Seq(Bytes)
      BY <1>0, <2>3, IntoMessagesHead DEF StreamType
    <3>3. part \in Seq(Bytes) /\ written' = written \o r
      BY <3>1, <3>2, PartFacts
    <3>4. r \in Seq(Rows)
      <4> HIDE DEF part
      <4>1. QED
        BY <3>3, RowsOfFacts
    <3> HIDE DEF part, r
    <3>5. Stored!Send
      BY <1>0, <2>1, <3>3, <3>4, SendRefines
    <3>6. QED
      BY <3>5 DEF Stored!Next
  <2>4. QED
    BY <1>3, <2>2, <2>3 DEF Crash
<1>4. CASE OpenReader
  BY <1>4 DEF OpenReader, history, Stored!Next, Stored!Restart
<1>5. CASE ReadNext
  BY <1>5, ReceiveRefines DEF Stored!Next
<1>6. QED
  BY <1>1, <1>2, <1>3, <1>4, <1>5 DEF Next

\* Whoever reads a recording gets the messages put into it, in order, each once
\* (qmdl.rs:35-41, 77-109; lib/src/diag.rs:87-114).
THEOREM ReadsInOrder ==
  ASSUME ~Unterminated
  PROVE  Spec => InOrder
<1>1. Init => Stored!Init
  BY DEF Init, Stored!Init
<1>2. StreamInv /\ [Next]_vars => [Stored!Next]_(Stored!vars)
  BY InOrderStep
<1>3. QED
  BY <1>1, <1>2, StreamInvHolds, PTL DEF Spec, InOrder, Stored!Spec

-----------------------------------------------------------------------------
(* Frames that arrive undamaged                                            *)

\* The rows a container brings the analysis, those analyzed before counted in
Judged == live \o IntoMessages(container)

IntactInv == \A i \in intact : i.row \in 1..Len(Judged) /\ Judged[i.row] = Ok(i.payload)

LEMMA JudgedKept ==
  ASSUME IntactInv, UNCHANGED intact, Judged' = Judged
  PROVE  IntactInv'
BY DEF IntactInv

LEMMA IntactInvStep ==
  ASSUME ~Unterminated, StreamType, LiveInv, IntactInv, [Next]_vars
  PROVE  IntactInv'
<1>0. live \in Seq(Rows) /\ container \in PieceSeqs /\ IntoMessages(<<>>) = <<>>
      /\ IntoMessages(container) \in Seq(Rows)
  BY IntoMessagesFacts DEF StreamType
<1>1. CASE Receive
  <2>1. PICK g \in Groups : container' = Sent(g) /\ intact' = intact \cup IntactRows(g, Len(live))
    BY <1>1 DEF Receive, Sent
  <2>2. live' = live /\ container = <<>>
    BY <1>1 DEF Receive, LiveInv
  <2> DEFINE rows == IntoMessages(Sent(g))
  <2>3. rows \in Seq(Rows)
    BY GroupData, IntoMessagesFacts
  <2>4. Judged = live /\ Judged' = live \o rows
    BY <1>0, <2>1, <2>2, ConcatEmptySeq DEF Judged
  <2>5. \A i \in IntactRows(g, Len(live)) : Holds(rows, i, Len(live))
    BY GroupRows
  <2> HIDE DEF rows
  <2>6. /\ Len(live \o rows) = Len(live) + Len(rows) /\ Len(live) \in Nat /\ Len(rows) \in Nat
        /\ \A r \in 1..Len(live) : (live \o rows)[r] = live[r]
        /\ \A r \in 1..Len(rows) : (live \o rows)[Len(live) + r] = rows[r]
    BY <1>0, <2>3
  <2>7. ASSUME NEW i \in intact
        PROVE  i.row \in 1..Len(live \o rows) /\ (live \o rows)[i.row] = Ok(i.payload)
    <3>1. i.row \in 1..Len(live) /\ live[i.row] = Ok(i.payload)
      BY <2>4 DEF IntactInv
    <3>2. i.row \in 1..Len(live \o rows)
      BY <2>6, <3>1
    <3>3. QED
      BY <2>6, <3>1, <3>2
  <2>8. ASSUME NEW i \in IntactRows(g, Len(live))
        PROVE  i.row \in 1..Len(live \o rows) /\ (live \o rows)[i.row] = Ok(i.payload)
    <3>1. PICK r \in 1..Len(rows) : i.row = Len(live) + r /\ rows[r] = Ok(i.payload)
      BY <2>5 DEF Holds
    <3>2. i.row \in 1..Len(live \o rows)
      BY <2>6, <3>1
    <3>3. QED
      BY <2>6, <3>1, <3>2
  <2>9. QED
    BY <2>1, <2>4, <2>7, <2>8 DEF IntactInv
<1>2. CASE Analyze
  <2>1. live' = Judged /\ container' = <<>> /\ UNCHANGED intact
    BY <1>2 DEF Analyze, history, Judged
  <2>2. Judged \in Seq(Rows)
    <3> DEFINE r == IntoMessages(container)
    <3>1. r \in Seq(Rows)
      BY <1>0
    <3> HIDE DEF r
    <3>2. live \o r \in Seq(Rows)
      BY <1>0, <3>1
    <3>3. QED
      BY <3>2 DEF Judged, r
  <2>3. Judged' = live' \o <<>>
    BY <1>0, <2>1 DEF Judged
  <2>4. Judged' = Judged
    BY <2>1, <2>2, <2>3, ConcatEmptySeq
  <2>5. QED
    BY <2>1, <2>4, JudgedKept
<1>3. CASE PassOver \/ WriteMessage \/ Announce \/ Crash \/ OpenReader \/ ReadNext \/ ReadEnd
           \/ UNCHANGED vars
  <2>1. UNCHANGED <<live, container, intact>>
    BY <1>3 DEF PassOver, WriteMessage, Announce, Crash, OpenReader, ReadNext, ReadEnd, vars,
                writerVars, history
  <2>2. QED
    BY <2>1, JudgedKept DEF Judged
<1>4. QED
  BY <1>1, <1>2, <1>3 DEF Next

\* A frame that arrives undamaged reaches the heuristics as it was sent, in its row,
\* whatever comes before it or after it and however damaged that is
\* (hdlc.rs:29-94, diag.rs:87-114).
THEOREM IntactFramesAnalyzed ==
  ASSUME ~Unterminated
  PROVE  Spec => []IntactFramesRead
<1>1. Init => StreamType /\ LiveInv /\ IntactInv
  BY StreamTypeInit DEF Init, LiveInv, IntactInv
<1>2. StreamType /\ LiveInv /\ IntactInv /\ [Next]_vars => (StreamType /\ LiveInv /\ IntactInv)'
  BY StreamTypeStep, LiveInvStep, IntactInvStep
<1>3. ASSUME StreamType, IntactInv
      PROVE  IntactFramesRead
  <2> SUFFICES ASSUME NEW i \in intact, i.row <= Len(live)
               PROVE  live[i.row] = Ok(i.payload)
    BY DEF IntactFramesRead
  <2> DEFINE r == IntoMessages(container)
  <2>1. live \in Seq(Rows) /\ r \in Seq(Rows)
    BY <1>3, IntoMessagesFacts DEF StreamType
  <2>2. i.row \in 1..Len(live \o r) /\ (live \o r)[i.row] = Ok(i.payload)
    BY <1>3 DEF IntactInv, Judged
  <2> HIDE DEF r
  <2>3. Len(live \o r) = Len(live) + Len(r) /\ \A j \in 1..Len(live) : (live \o r)[j] = live[j]
    BY <2>1
  <2>4. i.row \in 1..Len(live)
    BY <2>1, <2>2, <2>3
  <2>5. QED
    BY <2>2, <2>3, <2>4
<1>4. QED
  BY <1>1, <1>2, <1>3, PTL DEF Spec

\* The counts of bytes stay within the file.
THEOREM BytesStayCounted ==
  ASSUME ~Unterminated
  PROVE  Spec => []TypeOK
<1>1. ASSUME StreamInv
      PROVE  TypeOK
  <2>1. StreamType /\ FileInv /\ ReaderInv
    BY <1>1 DEF StreamInv
  <2>2. maxBytes <= Len(file) /\ bytesRead <= Len(file)
    BY <2>1 DEF ReaderInv, Cut
  <2>3. QED
    BY <2>1, <2>2 DEF StreamType, FileInv, TypeOK
<1>2. QED
  BY <1>1, StreamInvHolds, PTL

=============================================================================
